CONSTANTS
    Settle = 7
    IdleTimeout = 2
    LoopGap = 2
    Timeout = 5
    MaxCommands = 4
SPECIFICATION Spec
INVARIANTS TypeOK OwnAnswer TimeoutMeansMute
PROPERTY RequestReply
