SPECIFICATION ServiceSpec
CONSTANTS
    Jobs = {j1, j2}
    WithLogFile = {j2}
    Unopenable = {j2}
    Permitted = {j1, j2}
    ExitCodes = {2}
    KilledAt = {}
    MaxCrashes = 0
PROPERTY Settled
CHECK_DEADLOCK FALSE
