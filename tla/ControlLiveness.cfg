\* One host that may vanish, one client that may be killed: everybody ends.
SPECIFICATION FairSpec
CONSTANTS
    Clients = {c1, c2}
    NumStreams = 1
    NoConn = NoConn
    Modes = {"SENDER", "BIDIRECTIONAL"}
    OptionSets = {{}}
    Server = server
    Mortals = {c2}
    Fragile = {c1}
    Timeouts = TRUE
    OneOff = FALSE
    IdleTimeout = FALSE
PROPERTIES
    ClientEnds
    ServerReturns
CHECK_DEADLOCK FALSE
