\* Every direction over TCP, UDP and QUIC, with and without an omitted period.
SPECIFICATION Spec
CONSTANTS
    Modes = {"SENDER", "RECEIVER", "BIDIRECTIONAL"}
    Protocols = {"tcp", "udp", "quic"}
    MaxBlocks <- Blocks
    MaxIntervals <- Intervals
    MaxRetransmits <- Retransmits
    RateLimit = 1
    RateWindow = 2
    SizeLimit = 16
INVARIANTS
    
    SumsCompatible
    RetransmitsAttributed
    IntervalsAddUp
    RateAveraged
CHECK_DEADLOCK FALSE
