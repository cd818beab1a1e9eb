\* One task drives the download at a time; commands run beside it, two restarts.
SPECIFICATION FairPoliteSpec
CONSTANTS
    Download = {d1}
    Size <- ThreeChunks
    Existing = {}
    Task = {t1, t2}
    SaveEvery = 2
    MaxCrash = 2
    None = None
INVARIANTS FilesSound
PROPERTIES ImplementsTransfer TasksEnd
CHECK_DEADLOCK FALSE
