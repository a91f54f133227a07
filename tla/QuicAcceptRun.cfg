\* Three streams, a pipe that fills, a connection that may be lost or never come up.
SPECIFICATION FairSetupSpec
CONSTANTS
    Streams = {s1, s2, s3}
    PipeSize = 2
    ConnLoss = TRUE
INVARIANTS
    NoLostWakeup
    OwnedOnce
    NoCallbackAfterFree
PROPERTIES
    AllAttached
    HandshakeAwaited
CHECK_DEADLOCK FALSE
