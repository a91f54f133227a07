\* A QUIC upload with -O: the sender line of the client.
SPECIFICATION Spec
CONSTANTS
    Modes = {"SENDER"}
    Protocols = {"quic"}
    MaxBlocks <- Blocks
    MaxIntervals <- Intervals
    MaxRetransmits <- Retransmits
    RateLimit = 0
    RateWindow = 2
    SizeLimit = 16
INVARIANT QuicSenderSummary
CHECK_DEADLOCK FALSE
