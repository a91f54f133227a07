\* No faults: three clients compete for a one-off server, every served one succeeds.
SPECIFICATION FairSpec
CONSTANTS
    Clients = {c1, c2, c3}
    NumStreams = 1
    NoConn = NoConn
    Modes = {"RECEIVER"}
    OptionSets = {{}, {"badtoken"}, {"overlong"}, {"overrate"}}
    Server = server
    Mortals = {}
    Fragile = {}
    Timeouts = FALSE
    OneOff = TRUE
    IdleTimeout = TRUE
INVARIANTS
    OneOffServesOne
PROPERTIES
    ServedToTheEnd
CHECK_DEADLOCK FALSE
