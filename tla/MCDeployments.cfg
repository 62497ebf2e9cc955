CONSTANTS
    d1 = d1
    d2 = d2
    n1 = n1
    n2 = n2
    v1 = v1
    DeploymentNames <- OneDeployment
    Nodes <- TwoNodes
    Volumes <- NoVolumes
    Mounts <- MountsNothing
    HasPort <- OneDeployment
    Capacity <- Roomy
    Cordoned = {}
    MaxReplicas = 2
    MaxOps = 2
    None = None
SPECIFICATION FairSpec
INVARIANTS
    NeverOverprovisions
    ClobberIsExplained
PROPERTIES
    CreateNeverOverwrites
    Converges
