CONSTANTS
    Radix = 2
    MaxCto = 2
    BufferLen = 2
    FifoCap = 2
    TimeMod = 4
    IdleTimeout = 1
    PollGap = 2
    MaxBytes = 9
SPECIFICATION FairSpec
INVARIANTS TypeOK ParserShape ByteConservation DropsAccounted TimeoutExact
PROPERTIES ReadyFrameSurvives Resynchronises
