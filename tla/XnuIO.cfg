\* Any transfer may fail but the write-back of a victim of a cached write and the
\* flush of cache=off; clients write directly only where the cache holds no clean copy.
SPECIFICATION Spec
CONSTANTS
    NBlocks = 3
    Vals = {v0, v1}
    Zero = v0
    CacheSize = 2
    DirectSize = 2
    MaxCount = 3
    Faults = {"transfer"}
    DirectOverClean = FALSE
INVARIANTS TypeOK NoAlias CleanMatchesDevice
PROPERTIES DirtyIsWrittenBack  
