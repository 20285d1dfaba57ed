SPECIFICATION Spec
CONSTANTS
    Procs = {p1, p2, p3}
    Sizes = {1, 2}
    InitialColors = {5}
    MaxGroups = 4
INVARIANTS TypeOK RangesDisjoint IInv
PROPERTIES GroupsStable
CHECK_DEADLOCK FALSE
