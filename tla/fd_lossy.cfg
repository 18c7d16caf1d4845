SPECIFICATION Spec
CONSTANTS
    Threads = {"t1"}
    Paths = {"plain", "guarded"}
    BlockedPaths = {"guarded"}
    MaxFd = 2
    ShadowSize = 2
    Inherited = {0}
    g_stdio_only_writes = TRUE
    AppMay = {"dup_self", "dup_bad_source", "close_range"}
INVARIANTS
    TypeOK
    EntryConsistent
