CONSTANTS
    Names <- MCNames
    NoName = "none"
    TailName = "tail"
    SizeOf <- MCSizeOf
    HashOf <- MCHashOf
    LinkKind <- MCLinkKind
    BlockLen = 256
    TailLen = 3
    RootLimit = 2
    NodeLimit = 3
    MaxLevels = 2
    MaxBlocks = 7
    MaxIno = 8
    Layouts <- MCLayoutsFrom0
    Uses = {}
    Faults = {"add", "newleaf", "oldleaf", "root", "nodeparent"}
    MaxFaults = 1
SPECIFICATION Spec
INVARIANTS
    EntriesRight
    IndexRight
    ReadOnce
CHECK_DEADLOCK FALSE
