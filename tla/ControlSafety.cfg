\* Two clients in any interleaving, with signals, timeouts and resets.
SPECIFICATION Spec
CONSTANTS
    Clients = {c1, c2}
    NumStreams = 1
    NoConn = NoConn
    Modes = {"RECEIVER", "BIDIRECTIONAL"}
    OptionSets = {{}, {"relisten", "tos"}}
    Server = server
    Mortals = {c1, c2, server}
    Fragile = {}
    Timeouts = TRUE
    OneOff = FALSE
    IdleTimeout = TRUE
INVARIANTS
    Framing
    OneClientServed
    TestsOnControlOnly
    StreamsPaired
    RunningTogether
    SendersStopFirst
    ResultsExchanged
    ControlInv
PROPERTIES
    ImplementsSession
CHECK_DEADLOCK FALSE
