SPECIFICATION FairSpec
CONSTANTS
    Places <- MCPlaces
    Transitions <- MCTransitions
    ArcsIn <- MCArcsIn
    ArcsOut <- MCArcsOut
    PlaceArcsOut <- MCPlaceArcsOut
    Class <- MCClass
    Action <- MCAction
    SplitSize <- MCSplitSize
    RemovedFields <- MCRemovedFields
    GroupsAtStart <- MCGroupsAtStart
    Requests <- MCRequests
    Data = {}
    CrashAt <- MCNoCrash
    Machines <- MCMachines
    Rank <- MCRank
    Body <- MCBody
    Workers = {w1, w2}
    MaxTokens = 6
    MaxGroups = 2
    MaxColors = 3
    MaxCrashes = 0
INVARIANTS SInv
PROPERTIES ImplementsNet ImplementsProgress
CHECK_DEADLOCK FALSE
