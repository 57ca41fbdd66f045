CONSTANTS
    Radix = 2
    MaxCto = 2
    BufferLen = 2
    FifoCap = 4
    TimeMod = 4
    IdleTimeout = 1
    PollGap = 2
    MaxBytes = 0
    Payloads <- MCPayloads
    Junk <- NoJunk
    Breaks = TRUE
    FirstCtr = 2
    MaxFrames = 3
    Pause = 3
    LoopGap = 1
SPECIFICATION LoopSpec
INVARIANT CtrDetectsLoss
