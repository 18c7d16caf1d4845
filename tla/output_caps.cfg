SPECIFICATION Spec
CONSTANTS
    Threads = {"t1"}
    Lengths = {0, 1, 2, 3, 5, 9}
    g_max_stdout_bytes = 6
    g_max_stderr_bytes = 0
    SizeMod = 32
    AppMay = {}
    WrittenCap = 8
INVARIANTS
    TypeOK
    OutputWithinLimit
    ChargeCoversOutput
PROPERTIES
    WriteLoopEnds
