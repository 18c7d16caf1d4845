SPECIFICATION Spec
CONSTANTS
    MaxParts = 4
    MaxRules = 4
    DR_PATH_POLICY <- ExampleRules
    g_redirect_tmp = TRUE
    g_mode = "strict"
    CacheLike = {".cache"}
    Components = {".", "..", "tmp", "data", "ref", "work", "shared", ".cache", "etc", "shadow", ""}
    MaxLen = 4
CHECK_DEADLOCK FALSE
INVARIANTS
    CanonicalResolves
    SpellingIrrelevant
    BlockedSubtree
