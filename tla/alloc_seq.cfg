SPECIFICATION Spec
CONSTANTS
    Threads = {"main"}
    Main = "main"
    Sizes = {0, 1, 2, 3}
    Breaks = {0, 1, 2, 3, 4, 5, 6}
    g_max_alloc_bytes = 5
    PageSize = 2
    SizeMod = 64
    HeapBase = 10
    MapCap = 8
    HeapCap = 8
    DriftCap = 2
INVARIANTS
    TypeOK
    ChargeWithinBudget
    ChargeMatchesMemory
    MapsWithinBudget
    HeapWithinBudget
