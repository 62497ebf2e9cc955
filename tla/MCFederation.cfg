CONSTANTS
    Agents = {a}
    Joiners = {j}
    Clients = {c}
    None = None
    MaxFaults = 2
    Handlers = {h1, h2}
    MaxConns = 2
SPECIFICATION Spec
INVARIANTS
    SigningAuthorityIsSaved
    ExpiryMeansMissedRenewal
    OnlyNodeCommandsAreDenied
    RegistryMatchesService
PROPERTY AgentsReconnect
CHECK_DEADLOCK FALSE
