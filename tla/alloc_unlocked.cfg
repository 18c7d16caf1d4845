SPECIFICATION Spec
CONSTANTS
    Threads = {"main", "other"}
    Main = "main"
    Sizes = {1, 3}
    Breaks = {1, 3}
    g_max_alloc_bytes = 3
    PageSize = 1
    SizeMod = 64
    HeapBase = 10
    MapCap = 6
    HeapCap = 4
    DriftCap = 0
INVARIANTS
    ChargeWithinBudget
