SPECIFICATION Spec
CONSTANTS
    Places <- MCPlaces
    Transitions <- MCTransitions
    ArcsIn <- MCArcsIn
    ArcsOut <- MCArcsOut
    PlaceArcsOut <- MCPlaceArcsOut
    Class <- MCClass
    Action <- MCAction
    SplitSize <- MCSplitSize
    RemovedFields <- MCRemovedFields
    GroupsAtStart <- MCGroupsAtStart
    Requests <- MCRequests
    Data <- MCData
    CrashAt <- MCNoCrash
    Workers = {w1, w2}
    MaxTokens = 5
    MaxGroups = 1
    MaxColors = 1
    MaxCrashes = 0
SYMMETRY WorkersAlike
INVARIANTS GroupCount SingleExecutor
CHECK_DEADLOCK FALSE
