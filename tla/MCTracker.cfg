\* Every order of file updates of one operation, or two threads that
\* interleave between lock sections, audit log, pruning, saves and snapshots.
SPECIFICATION MCSpec
CONSTANTS
    f1 = f1
    f2 = f2
    o1 = o1
    t1 = t1
    OpId = {o1, o2}
    File = {f1, f2}
    Size <- TwoFiles
    Bytes = {0, 1}
    Thread = {t1, t2}
    MaxHistory = 1
    MaxCrash = 1
    MaxCalls = 3
    None = None
INVARIANTS TrackerSound
PROPERTIES PruneKeepsNewest CallsReturn
CHECK_DEADLOCK FALSE
