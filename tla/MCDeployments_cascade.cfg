CONSTANTS
    d1 = d1
    d2 = d2
    n1 = n1
    n2 = n2
    v1 = v1
    DeploymentNames <- OneDeployment
    Nodes <- OneNode
    Volumes <- NoVolumes
    Mounts <- MountsNothing
    HasPort <- NoVolumes
    Capacity <- Roomy
    Cordoned = {}
    MaxReplicas = 1
    MaxOps = 1
    None = None
SPECIFICATION FairSpec
PROPERTIES
    CascadeIsComplete
