CONSTANTS
    Radix = 16
    MaxCto = 8
    MaxDto = 8
    IdLen = 0
    RamBase = 32
    RamEnd = 42
    Packets <- UnconnectedPackets
    MaxPackets = 4
SPECIFICATION Spec
PROPERTY AccessNeedsSession
CHECK_DEADLOCK FALSE
