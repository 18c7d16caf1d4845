SPECIFICATION Spec
CONSTANTS
    Threads = {"t1", "t2"}
    Paths = {"plain", "guarded"}
    BlockedPaths = {"guarded"}
    MaxFd = 2
    ShadowSize = 4
    Inherited = {0}
    g_stdio_only_writes = FALSE
    AppMay = {}
INVARIANTS
    PolicyAttached
