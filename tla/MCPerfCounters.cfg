CONSTANTS
    Threads = {t1, t2}
    BatchSize = 2
    SentinelPeriod = 4
    GatePeriod = 4
    CounterModulus = 4
    LogInterval = 1
    MaxLookups = 6
    MaxTime = 3
SPECIFICATION Spec
SYMMETRY ThreadSymmetry
INVARIANTS TypeOK NoLookupLost SentinelsCounted GateNeverSkipped
CHECK_DEADLOCK FALSE
