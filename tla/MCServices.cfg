CONSTANTS
    s1 = s1
    s2 = s2
    p1 = p1
    n1 = n1
    c1 = c1
    c2 = c2
    ServiceNames <- TwoServices
    PodNames <- OnePod
    NodeNames <- OneNode
    Callers <- TwoCallers
    RangeMin = 1
    RangeMax = 2
    Requested <- AnyOrFirst
    Targets = {0, 8, 9}
    Selects <- SelectAll
    MaxOps = 5
    None = None
SPECIFICATION FairSpec
INVARIANTS
    DuplicatesAreRaced
PROPERTY
    ProxiesConverge
