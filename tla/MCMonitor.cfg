SPECIFICATION FairSpec
CONSTANTS
    Master = master
    Processes = {p1, p2}
    Setuid = {p1}
    Dropping = {p2}
    Outside = outside
    NoPid = none
    Pages = {a, b}
    Brief = {b}
    NoPage = nopage
    KeepDeadFor = 1
INVARIANTS TypeOK MarkedHasReason RefusedHasReason ParentShown
PROPERTIES PagesCatchUp
CHECK_DEADLOCK FALSE
