SPECIFICATION Spec
CONSTANTS
    Key = {k1}
    Capacity = 2
    Rate = 2
    TicksPerSecond = 3
    IdleLimit = 3
    Horizon = 16
    None = None
    Ask = k1
    EnvWindow = 1
    EnvInterval = 2
    DefaultWindow = 1
    DefaultInterval = 2
    Setting = {0, 2}
    MaxTriggers = 2
    k1 = k1
INVARIANT TypeOK
INVARIANT AdmissionBounded
INVARIANT AnsweredInTime
PROPERTY IdealBucket
