SPECIFICATION FairSpec
CONSTANTS
    j1 = j1
    j2 = j2
    Jobs = {j1}
    WithLogFile = {j1}
    Unopenable = {}
    Permitted = {j1}
    ExitCodes <- MCExitCodes
    KilledAt <- MCKilledAt
    MaxCrashes = 1
INVARIANTS TypeOK OutcomeTrue AckedAnswered OnlyOutcomeMarked
PROPERTIES OutcomeReached Settled
CHECK_DEADLOCK FALSE
