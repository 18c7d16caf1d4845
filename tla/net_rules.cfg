SPECIFICATION Spec
CONSTANTS
    Sockets = {1, 2}
    Peers <- Remote
    Policies <- Configured
    Numbers <- PortNumbers
    MaxRules = 2
    AppMay = {}
INVARIANT
    NoBlockedPeer
CHECK_DEADLOCK FALSE
