CONSTANTS
    NaN = NaN
    FloatMax = 9
    MaxDt = 3
    DefaultDt = 1
    MaxComm = 3
    Span = 2
    Rate = 1
    AlphaOne = 2
    Alphas <- MCAlphas
    Setpoints <- MCSetpoints
    Gains <- MCGains
    IntegralLimit = 2
    AngleMax = 2
    PulseCenter = 3
    PulseSpan = 2
    MaxLevel = 9
    MaxPitch = 3
SPECIFICATION Spec
INVARIANTS TypeOK OutputsBounded NoDerivativeSpike
PROPERTIES FilterContracts ControlResumes
