\* One direct pointer and tables of two pointers: a block at 2 has a table above it,
\* one at 9 (byte offset) two, and the volume is full before a tree of depth three is.
CONSTANTS
    Blocks = {1, 2, 3, 4, 5, 6, 7}
    NDir = 1
    PerBlock = 2
    BlockSize = 2
    Positions = {0, 9, 29}
    Lengths = {5}
    Sizes = {3, 11, 31}
    MaxOps = 4
    Uses = {}
SPECIFICATION Spec
INVARIANTS ContentsRight TreeRight
CHECK_DEADLOCK FALSE
