\* A resumed upload: Completed with part of the file in the bucket.
SPECIFICATION MCSpec
CONSTANTS
    Upload = {u1}
    Size <- ThreeParts
    Key = {k1}
    KeyOf <- OneKey
    Task = {t1}
    SaveEvery = 2
    ErrorKind = {"Transient"}
    MaxCrash = 0
    MaxCalls = 0
    None = None
INVARIANTS CompletedIsWhole
CHECK_DEADLOCK FALSE
