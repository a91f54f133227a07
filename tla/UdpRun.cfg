\* One stream with five datagrams, numbers below five (so that they wrap around), or two
\* streams; lost, overtaken and stray messages.
SPECIFICATION FairTestSpec
CONSTANTS
    StreamCounts = {1, 2}
    UdpModes = {"SENDER", "RECEIVER", "BIDIRECTIONAL"}
    BlockSize = 4
    BufferSizes = {0, 8}
    Kernels <- SomeKernels
    MaxStrays = 1
    MaxPackets = 5
    Packets <- PacketBounds
    CounterLimit = 5
    MaxIntervals = 2
INVARIANTS
    LossCounted
    ReportsBounded
    StreamsMatched
    FailsForCause
PROPERTIES
    ConnectReturns
CHECK_DEADLOCK FALSE
