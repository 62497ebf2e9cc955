CONSTANTS
    n1 = n1
    n2 = n2
    hb = hb
    sync = sync
    NodeNames <- TwoNodes
    Self = n1
    Calls <- TwoCalls
    Beat = hb
    ThresholdArg = 2
    MaxAttempts = 2
    MaxErrors = 4
    MaxFailures = 3
    MaxOps = 4
    None = None
SPECIFICATION HFairSpec
INVARIANTS
    OpenCountsFailures
    HalfOpenHasTrial
PROPERTIES
    DetectionSettles
    BreakerRecovers
CHECK_DEADLOCK FALSE
