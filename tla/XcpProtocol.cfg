CONSTANTS
    Radix = 16
    MaxCto = 8
    MaxDto = 8
    IdLen = 0
    RamBase = 32
    RamEnd = 42
    Packets <- AllPackets
    MaxPackets = 4
SPECIFICATION Spec
INVARIANTS TypeOK AccessInRam
PROPERTIES RefusalKeepsState OwnParameters MemoryService AnsweredWhileLinkUp
CHECK_DEADLOCK FALSE
