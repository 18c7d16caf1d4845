SPECIFICATION Spec
CONSTANTS
    g_max_procs = 2
    IntMax = 15
    AppMay = {}
    MaxTasks = 3
    MaxClients = 4
    ProcCap = 5
    CountCap = 3
INVARIANTS
    TreeBound
    MutexHeldInside
CHECK_DEADLOCK FALSE
