\* Blocks of two bytes in chunks of one or two; two sends may be pending.
SPECIFICATION FairSpec
CONSTANTS
    Block = 2
    MaxPending = 2
    Multisend = 2
    MaxBlocks = 3
INVARIANTS
    PendingMatches
    NoOrphanLock
    ReceivedWereSent
PROPERTIES
    WorkersEnd
CHECK_DEADLOCK FALSE
