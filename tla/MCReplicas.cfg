CONSTANTS
    r1 = r1
    r2 = r2
    k1 = k1
    k2 = k2
    v1 = v1
    Replicas <- MCReplicas_
    Boot = r1
    Keys <- MCKeys
    Values <- MCValues
    Absent = Absent
    None = None
    MaxLog = 3
    MaxGen = 1
    MaxEvents = 3
SYMMETRY MCSymmetry
SPECIFICATION Spec
INVARIANTS
    ViewsAreOfHistory
    KeyLossIsExplained
PROPERTIES
    RestoreIsComplete
    ImplementsStore
CHECK_DEADLOCK FALSE
