\* Groups of three and of two blocks, with two inodes each; the first two blocks and inode 1
\* reserved.
SPECIFICATION Spec
CONSTANTS
    FirstBlock = 1
    Count = 6
    GroupBlocks = 3
    GroupInodes = 2
    FirstInode = 2
    Reserved = {1, 2}
    MaxLen = 2
    Kinds = {"range", "alloc", "free", "inode"}
    BothUninit = FALSE
INVARIANTS  MapsStored UnusedTail
PROPERTIES SearchRight SearchEnds
