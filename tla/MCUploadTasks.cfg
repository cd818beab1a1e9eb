\* Two tasks at a time and write errors: one file with one restart, or two files to one key.
SPECIFICATION MCFairSpec
CONSTANTS
    Upload = {u1, u2}
    Size <- Unequal
    Key = {k1}
    KeyOf <- OneKey
    Task = {t1, t2}
    SaveEvery = 2
    ErrorKind = {"Transient"}
    MaxCrash = 1
    MaxCalls = 3
    None = None
INVARIANTS BucketSound
PROPERTIES ConfirmedIsWhole TasksNeverResurrect TasksEnd
CHECK_DEADLOCK FALSE
