\* A client that leaves while its token is being refused.
SPECIFICATION Spec
CONSTANTS
    Clients = {c1, c2}
    NumStreams = 1
    NoConn = NoConn
    Modes = {"SENDER"}
    OptionSets = {{"badtoken"}}
    Server = server
    Mortals = {c1, c2}
    Fragile = {}
    Timeouts = FALSE
    OneOff = TRUE
    IdleTimeout = FALSE
PROPERTIES
    AuthFailureDoesNotCount
CHECK_DEADLOCK FALSE
