SPECIFICATION Spec
CONSTANTS
    Timeout = 3
    KillAfter = 3
    Resolution = 2
    Grace = 4
    AppCodes = {0, 1, 124}
    Horizon = 18
INVARIANTS
    OrphanOnlyIfLate
    ExitFaithful
PROPERTIES
    LauncherExits
    ContainerStops
CHECK_DEADLOCK FALSE
