SPECIFICATION Spec
CONSTANTS
    Threads = {"t1"}
    Paths = {"plain", "guarded"}
    BlockedPaths = {"guarded"}
    MaxFd = 3
    ShadowSize = 4
    Inherited = {0}
    g_stdio_only_writes = FALSE
    AppMay = {}
INVARIANTS
    TrackingExact
    NoBlockedWrite
    NoFalseRefusal
