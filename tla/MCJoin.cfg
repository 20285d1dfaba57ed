SPECIFICATION Spec
CONSTANTS
    Places <- MCPlaces
    Transitions <- MCTransitions
    ArcsIn <- MCArcsIn
    ArcsOut <- MCArcsOut
    PlaceArcsOut <- MCPlaceArcsOut
    Class <- MCClass
    Action <- MCAction
    SplitSize <- MCSplitSize
    RemovedFields <- MCRemovedFields
    GroupsAtStart <- MCGroupsAtStart
    Requests <- MCRequests
    Data <- MCData
    CrashAt <- MCCrashAt
    Machines <- MCMachines
    Rank <- MCRank
    Body <- MCBody
    Workers = {w1, w2}
    MaxTokens = 8
    MaxGroups = 1
    MaxColors = 1
    MaxCrashes = 1
INVARIANTS TypeOK TransientTracks NoLostWakeup QuiescentDone
PROPERTIES DataPassesOn
CHECK_DEADLOCK FALSE
