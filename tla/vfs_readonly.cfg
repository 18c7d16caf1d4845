SPECIFICATION Spec
CONSTANTS
    MaxParts = 4
    MaxRules = 4
    DR_PATH_POLICY <- ReadOnlyRule
    g_redirect_tmp = TRUE
    g_mode = "observe"
    CacheLike = {".cache"}
    DR_SESSION_ID = "id"
    FreshIds = {"other"}
    AppNodes <- Names
    AppPaths <- UsualPaths
    ChdirPaths <- UsualDirs
    SharedTree <- Before
    StartDir <- Work
PROPERTIES
    ReadOnlyKept
