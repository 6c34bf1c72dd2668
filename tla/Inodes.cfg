CONSTANTS
    Groups = 2
    InodesPerGroup = 6
    InodesPerBlock = 2
    CacheSize = 2
    BufferBlocks = 2
    Clients = {1,2,7}
    Vals = {1}
    Damaged = {3}
    Insane = {4, 9}
    Layouts <- MCLayouts
    Uses = {}
    Faults = {"write"}
    MaxFaults = 1
SPECIFICATION Spec
INVARIANTS
    ReadsRight
    TableKept
PROPERTIES
    ScanRight
CHECK_DEADLOCK FALSE
