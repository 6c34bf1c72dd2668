\* A direct write over a block that the cache holds clean.
SPECIFICATION Spec
CONSTANTS
    NBlocks = 3
    Vals = {v0, v1}
    Zero = v0
    CacheSize = 2
    DirectSize = 2
    MaxCount = 3
    Faults = {}
    DirectOverClean = TRUE
INVARIANTS CleanMatchesDevice
