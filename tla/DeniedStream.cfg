\* A second client dials while the first creates its streams.
SPECIFICATION Spec
CONSTANTS
    Clients = {c1, c2}
    NumStreams = 1
    NoConn = NoConn
    Modes = {"SENDER"}
    OptionSets = {{"tos"}}
    Server = server
    Mortals = {}
    Fragile = {}
    Timeouts = FALSE
    OneOff = FALSE
    IdleTimeout = FALSE
PROPERTIES
    DenialIsNoError
CHECK_DEADLOCK FALSE
