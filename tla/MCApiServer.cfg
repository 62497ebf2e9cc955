SPECIFICATION Spec
CONSTANTS
    None = None
    d1 = d1
    d2 = d2
    n1 = n1
    n2 = n2
    h1 = h1
    h2 = h2
    Names = {d1, d2}
    Volumes = {d1}
    Nodes = {n1, n2}
    Handlers = {h1, h2}
    Manifests <- MCManifests
    Templates <- MCTemplates
    Quota = 2
    Capacity = 1
    MaxReplicas = 2
    MaxRequests = 2
    MaxFaults = 1
INVARIANTS
    QuotaOverrunIsExplained
    StalePodIsExplained
    SplitVolumeIsExplained
    SharedVolumeIsExplained
    OvercommitIsExplained
    DirectoriesMatchRecords
    AdmissionBypassIsGitOps
CHECK_DEADLOCK FALSE
SYMMETRY Symm
