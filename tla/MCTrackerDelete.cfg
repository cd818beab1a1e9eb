\* delete_operation against its comment: it never returns.
SPECIFICATION MCSpec
CONSTANTS
    f1 = f1
    f2 = f2
    o1 = o1
    t1 = t1
    OpId = {o1}
    File = {f1, f2}
    Size <- TwoFiles
    Bytes = {0}
    Thread = {t1}
    MaxHistory = 1
    MaxCrash = 0
    MaxCalls = 2
    None = None
PROPERTIES DeleteReturns
CHECK_DEADLOCK FALSE
