\* One client, four kinds of volume, any transfer may fail, a crash anywhere.
\* A volume whose checksums do not match after a crash stays closed.
SPECIFICATION Spec
CONSTANTS
    Threads = {t1}
    NGroups = 3
    BlocksPerGroup = 6
    DescPerBlock = 2
    Geometries <- AllGeometries
    MaxChanges = 1
    Changing <- LastOnly
    Faulty = TRUE
INVARIANTS  StoredWhenDone StateKept BackupsNotValid
CHECK_DEADLOCK FALSE
