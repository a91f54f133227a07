\* Two clients in a row, with every option and the entangled ones in pairs.
SPECIFICATION Spec
CONSTANTS
    FileSize = 4
    ServerLines <- MCServerLines
    ClientLines <- MCClientLines
    MaxClients = 2
    MaxTime = 2
    ClockOffsets <- MCClockOffsets
    SegmentSizes = {0, 1448}
INVARIANTS
    ModeAsAsked
    SettingsAgree
    AuthorisedAfresh
CHECK_DEADLOCK FALSE
