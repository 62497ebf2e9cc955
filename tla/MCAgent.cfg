CONSTANTS
    p = p
    c = c
    d = d
    name = name
    Keys <- AllKeys
    Containers <- TwoContainers
    ContainerName <- OneName
    Policy <- OnFailure
    Confirmations = 3
    ChanCap = 2
    RunIds = {1, 2, 3, 4, 5, 6}
    MaxOps = 4
    None = None
SPECIFICATION FairSpec
INVARIANTS
    UntrackedIsExplained
    DeadIsNoticed
PROPERTIES
    AgentConverges
    HealthyContainersAreKept
CHECK_DEADLOCK FALSE
