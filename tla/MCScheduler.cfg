CONSTANTS
    NoNode = NoNode
    NodeNames = {n1, n2, n3}
    n1 = n1
    n2 = n2
    n3 = n3
    MaxInt32 = 3
    Requests <- MCRequests
    Candidates <- MCCandidates
    ReplicaCounts <- MCReplicaCounts
    Loads <- MCLoads
SPECIFICATION SchedulingSpec
SYMMETRY NamesAreAlike
INVARIANTS
    ScheduleIsBestFit
    CapWithholdsNothing
    ScalingStaysInBounds
