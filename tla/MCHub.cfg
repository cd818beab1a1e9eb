\* One caller with wrong bytes and two crashes, or two calls that overlap.
SPECIFICATION MCSpec
CONSTANTS
    Task = {t1, t2}
    Parts = 2
    Inode = {1, 2, 3, 4}
    Corrupt = TRUE
    MaxCrash = 2
    None = None
PROPERTIES ResolvedIsGood CacheKept CallsEnd
