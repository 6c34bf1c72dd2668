CONSTANTS
    Inodes = {i1, i2}
    EaBlocks = {b1, b2, b3}
    EaInodes = {1, 2}
    NoBlock = NoBlock
    Names = {"system.posix_acl_access", "user.a", "system.data"}
    Lens = {28, 80}
    Tags = {"x"}
    InlineInodes = {i1}
    Heads = {"x", "y"}
    Sizes = {60, 84}
    Uses = {}
    InodeSize = 256
    BlockSize = 128
    HasEaInode = TRUE
    Faults = {"first"}
    MaxFaults = 1
    KeepHandle = FALSE
    SharedLarge = FALSE
SPECIFICATION InlineSpec
SYMMETRY BlockSymmetry
CHECK_DEADLOCK FALSE
INVARIANTS
    ReadsRight
    RefsCounted
    InlineWhole
