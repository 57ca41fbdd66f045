CONSTANTS
    CtrMod = 2
    Lens = {1, 3}
    MaxDto = 2
    FifoCap = 3
    TimeMod = 4
    Timeout = 1
    IterGap = 1
    MaxSends = 3
SPECIFICATION Spec
PROPERTY LostFrameLeavesGap
