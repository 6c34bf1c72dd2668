\* Three callers, two reclaims under pressure, an unmount; the attach may fail.
\* The system stops when the volume is unmounted.
SPECIFICATION Spec
CONSTANTS
    Threads = {t1, t2, t3}
    MaxVid = 3
    Faulty = TRUE
INVARIANTS TypeOK OneRoot GotIsRoot RootAsserts SleepersAwaited UnmountQuiet
PROPERTIES Served
CHECK_DEADLOCK FALSE
