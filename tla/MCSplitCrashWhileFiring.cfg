SPECIFICATION Spec
CONSTANTS
    Places <- MCPlaces
    Transitions <- MCTransitions
    ArcsIn <- MCArcsIn
    ArcsOut <- MCArcsOut
    PlaceArcsOut <- MCPlaceArcsOut
    Class <- MCClass
    Action <- MCAction
    SplitSize <- MCSplitSize
    RemovedFields <- MCRemovedFields
    GroupsAtStart <- MCGroupsAtStart
    Requests <- MCRequests
    Data = {}
    CrashAt <- MCCrashWhileFiring
    Machines <- MCMachines
    Rank <- MCRank
    Body <- MCBody
    Workers = {w1, w2}
    MaxTokens = 6
    MaxGroups = 3
    MaxColors = 5
    MaxCrashes = 1
INVARIANTS QuiescentDone
CHECK_DEADLOCK FALSE
