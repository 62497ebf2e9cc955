-------------------------------- MODULE RBAC --------------------------------
(***************************************************************************)
(* Who may call what: the methods of the gRPC services (api/v1), the table *)
(* that maps them to resources and verbs and the default role bindings     *)
(* (internal/apiserver/rbac.go), the authorizer (internal/rbac) and the    *)
(* calls each kind of client makes.  A SPIFFE path is represented by its   *)
(* first segment, which is all the bindings look at.                       *)
(***************************************************************************)

\* The methods of each service descriptor.  Each generated handler passes its
\* full method name to the interceptor.
PodService == {"CreatePod", "GetPod", "ListPods", "DeletePod", "UpdatePodStatus"}
NodeService == {"CreateNode", "GetNode", "ListNodes", "DeleteNode", "Heartbeat"}
DeploymentService == {"CreateDeployment", "GetDeployment", "ListDeployments", "DeleteDeployment"}
NamespaceService == {"CreateNamespace", "GetNamespace", "ListNamespaces", "DeleteNamespace"}
VolumeService == {"CreateVolume", "GetVolume", "ListVolumes", "DeleteVolume"}
NetworkPolicyService ==
    {"CreateNetworkPolicy", "GetNetworkPolicy", "ListNetworkPolicies", "DeleteNetworkPolicy"}
ServiceService == {"CreateService", "GetService", "ListServices", "DeleteService"}
PolicyService == {"CreatePolicy", "GetPolicy", "ListPolicies", "DeletePolicy"}
SecretService == {"CreateSecret", "GetSecret", "ListSecrets", "DeleteSecret"}
ImageRegistryService == {"PushImage", "GetImage", "ListImages", "DeleteImage"}
BackupService == {"CreateBackup", "RestoreBackup"}
FederationService == {"RegisterCluster", "UnregisterCluster", "ListClusters", "ListFederatedPods"}
AdminService == {"JoinRaft"}
FinOpsService == {"GetCostReport"}
IdentityService == {"RequestSVID"}

Methods ==
    UNION {PodService, NodeService, DeploymentService, NamespaceService, VolumeService,
           NetworkPolicyService, ServiceService, PolicyService, SecretService,
           ImageRegistryService, BackupService, FederationService, AdminService,
           FinOpsService, IdentityService}

-----------------------------------------------------------------------------
methodResourceVerb ==
    [CreatePod |-> <<"pods", "create">>, GetPod |-> <<"pods", "get">>,
     ListPods |-> <<"pods", "list">>, DeletePod |-> <<"pods", "delete">>,
     UpdatePodStatus |-> <<"pods", "update">>,
     CreateNode |-> <<"nodes", "create">>, GetNode |-> <<"nodes", "get">>,
     ListNodes |-> <<"nodes", "list">>, DeleteNode |-> <<"nodes", "delete">>,
     Heartbeat |-> <<"nodes", "update">>,
     CreateDeployment |-> <<"deployments", "create">>, GetDeployment |-> <<"deployments", "get">>,
     ListDeployments |-> <<"deployments", "list">>, DeleteDeployment |-> <<"deployments", "delete">>,
     CreateNamespace |-> <<"namespaces", "create">>, GetNamespace |-> <<"namespaces", "get">>,
     ListNamespaces |-> <<"namespaces", "list">>, DeleteNamespace |-> <<"namespaces", "delete">>,
     CreateVolume |-> <<"volumes", "create">>, GetVolume |-> <<"volumes", "get">>,
     ListVolumes |-> <<"volumes", "list">>, DeleteVolume |-> <<"volumes", "delete">>,
     CreateNetworkPolicy |-> <<"networkpolicies", "create">>, GetNetworkPolicy |-> <<"networkpolicies", "get">>,
     ListNetworkPolicies |-> <<"networkpolicies", "list">>, DeleteNetworkPolicy |-> <<"networkpolicies", "delete">>,
     CreateService |-> <<"services", "create">>, GetService |-> <<"services", "get">>,
     ListServices |-> <<"services", "list">>, DeleteService |-> <<"services", "delete">>,
     CreatePolicy |-> <<"policies", "create">>, GetPolicy |-> <<"policies", "get">>,
     ListPolicies |-> <<"policies", "list">>, DeletePolicy |-> <<"policies", "delete">>,
     CreateSecret |-> <<"secrets", "create">>, GetSecret |-> <<"secrets", "get">>,
     ListSecrets |-> <<"secrets", "list">>, DeleteSecret |-> <<"secrets", "delete">>,
     PushImage |-> <<"images", "create">>, GetImage |-> <<"images", "get">>,
     ListImages |-> <<"images", "list">>, DeleteImage |-> <<"images", "delete">>,
     CreateBackup |-> <<"backup", "create">>, RestoreBackup |-> <<"backup", "restore">>,
     RegisterCluster |-> <<"federation", "create">>, UnregisterCluster |-> <<"federation", "delete">>,
     ListClusters |-> <<"federation", "list">>, ListFederatedPods |-> <<"federation", "list">>,
     JoinRaft |-> <<"admin", "join">>, GetCostReport |-> <<"finops", "get">>]

Wildcard == "*"
Rule(resources, verbs) == [resources |-> resources, verbs |-> verbs]

\* Mutant: the rule that lets agents see services is forgotten.
nodeRole_NoServices == {Rule({"nodes"}, {"create", "update"}), Rule({"pods"}, {"list", "update"})}

nodeRole ==
    {Rule({"nodes"}, {"create", "update"}),
     Rule({"pods"}, {"list", "update"}),
     Rule({"services"}, {"list"})}

clientRole ==
    {Rule({"pods", "deployments", "volumes", "networkpolicies", "services", "policies", "secrets",
           "images", "backup", "federation", "finops", "namespaces"}, {Wildcard}),
     Rule({"nodes"}, {"get", "list"})}

controlPlaneRole == {Rule({Wildcard}, {Wildcard})}

DefaultRBACBindings == [node |-> nodeRole, client |-> clientRole, controlplane |-> controlPlaneRole]

RuleAllows(rule, resource, verb) ==
    /\ {Wildcard, resource} \cap rule.resources # {}
    /\ {Wildcard, verb} \cap rule.verbs # {}

Allow(path, resource, verb) ==
    \E rule \in DefaultRBACBindings[path] : RuleAllows(rule, resource, verb)

\* AuthInterceptor for a caller whose certificate has been verified; a method
\* without an entry in the table is denied.
Authorised(path, method) ==
    \/ method \in IdentityService
    \/ /\ method \in DOMAIN methodResourceVerb
       /\ Allow(path, methodResourceVerb[method][1], methodResourceVerb[method][2])

-----------------------------------------------------------------------------
\* The calls the clients of this repository make.
AgentCalls == {"CreateNode", "Heartbeat", "ListPods", "UpdatePodStatus", "ListServices"}
JoinerCalls == {"JoinRaft"}
FederationCalls == {"ListPods"}
ApplyCalls == {"CreatePod", "CreateDeployment", "CreateNode", "CreateService"}
GetCalls == {"ListPods", "ListNodes", "ListServices", "ListDeployments"}
DeleteCalls == {"DeletePod", "DeleteNode", "DeleteDeployment"}
RunCalls == {"CreatePod", "CreateDeployment"}
=============================================================================
