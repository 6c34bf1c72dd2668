CONSTANTS
    RootMax = 2
    NodeMax = 3
    MaxLen = 4
    Levels = 3
    Wide = 1000
    LastBlock = 100
    MaxBlock = 4
    Shifts = {10}
    UninitShifts = {10}
    Rooms = {3}
    Sizes = {9}
    JoinLeaves = TRUE
SPECIFICATION Spec
CHECK_DEADLOCK FALSE
INVARIANTS
    MapRight
