SPECIFICATION Spec
CONSTANTS
    Places <- MCPlaces
    Transitions <- MCTransitions
    ArcsIn <- MCArcsIn
    ArcsOut <- MCArcsOut
    PlaceArcsOut <- MCPlaceArcsOut
    Class <- MCClass
    Action <- MCAction
    SplitSize <- MCSplitSize
    RemovedFields <- MCRemovedFields
    GroupsAtStart <- MCGroupsAtStart
    Requests <- MCRequestsNowhere
    Data = {}
    CrashAt <- MCCrashAt
    Machines <- MCMachines
    Rank <- MCRank
    Body <- MCBody
    Workers = {w1, w2}
    MaxTokens = 8
    MaxGroups = 3
    MaxColors = 5
    MaxCrashes = 1
SYMMETRY WorkersAlike
INVARIANTS WInv FInv NestInv NetIsSafe
CHECK_DEADLOCK FALSE
