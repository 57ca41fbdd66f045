CONSTANTS
    Radix = 16
    MaxCto = 8
    MaxDto = 8
    IdLen = 0
    RamBase = 32
    RamEnd = 42
    Packets <- TopPackets
    MaxPackets = 4
SPECIFICATION Spec
INVARIANT SramOnly
CHECK_DEADLOCK FALSE
