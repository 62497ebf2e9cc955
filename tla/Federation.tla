----------------------------- MODULE Federation -----------------------------
(***************************************************************************)
(* Federation with another cluster: FederationService                      *)
(* (internal/apiserver/federation_service.go) keeps the connections it     *)
(* owns under its own lock, the registry (internal/federation) the ones    *)
(* that are listed over, under another.  Enrolment goes to the remote      *)
(* cluster's IdentityService, which is the one of the module Identity.     *)
(* There is one cluster name; connections are numbered as they are made.   *)
(* ListClusters and ListFederatedPods only read these maps.                *)
(***************************************************************************)
EXTENDS Identity

CONSTANTS
    Handlers,    \* concurrent gRPC calls
    MaxConns     \* bound: connections made

ASSUME ConnsAssumption == MaxConns \in Nat

VARIABLES
    conn,        \* svc.clusters and svc.conns: a connection, or None
    registered,  \* registry.conns
    open,        \* connections not yet closed
    made,
    call,        \* per handler: what it does next, and its connection
    overlapped   \* the calls that changed something last were under way at once (history)

fvars == <<conn, registered, open, made, call, overlapped>>

Idle == [at |-> "idle", conn |-> None]
Quiet == \A h \in Handlers : call[h] = Idle
Proceeds(h, at, c) == call' = [call EXCEPT ![h] = [at |-> at, conn |-> c]]
Begins(h) == call[h] = Idle /\ overlapped' = ~Quiet

FInit ==
    /\ conn = None
    /\ registered = None
    /\ open = {}
    /\ made = 0
    /\ call = [h \in Handlers |-> Idle]
    /\ overlapped = FALSE

\* RegisterCluster: Enroll with the remote cluster, then grpc.NewClient.
EnrolCluster(h) ==
    /\ Begins(h)
    /\ issuer = "up"
    /\ made < MaxConns
    /\ made' = made + 1
    /\ open' = open \cup {made + 1}
    /\ Proceeds(h, "store", made + 1)
    /\ UNCHANGED <<conn, registered>>

\* Mutant: the connection that is replaced stays open.
StoreCluster_KeepsOld(h) ==
    /\ call[h].at = "store"
    /\ conn' = call[h].conn
    /\ Proceeds(h, "register", call[h].conn)
    /\ UNCHANGED <<registered, open, made, overlapped>>

\* Under svc.mu: the old connection is closed and the new one kept.
StoreCluster(h) ==
    /\ call[h].at = "store"
    /\ open' = open \ {conn}
    /\ conn' = call[h].conn
    /\ Proceeds(h, "register", call[h].conn)
    /\ UNCHANGED <<registered, made, overlapped>>

Register(h) ==
    /\ call[h].at = "register"
    /\ registered' = call[h].conn
    /\ call' = [call EXCEPT ![h] = Idle]
    /\ UNCHANGED <<conn, open, made, overlapped>>

\* UnregisterCluster: first the registry forgets the cluster ...
Unregister(h) ==
    /\ Begins(h)
    /\ registered' = None
    /\ Proceeds(h, "forget", None)
    /\ UNCHANGED <<conn, open, made>>

\* ... then, under svc.mu, the service closes and forgets the connection.
ForgetCluster(h) ==
    /\ call[h].at = "forget"
    /\ open' = open \ {conn}
    /\ conn' = None
    /\ call' = [call EXCEPT ![h] = Idle]
    /\ UNCHANGED <<registered, made, overlapped>>

FederationNext ==
    \E h \in Handlers :
        \/ EnrolCluster(h) \/ StoreCluster(h) \/ Register(h)
        \/ Unregister(h) \/ ForgetCluster(h)

vars == <<ivars, fvars>>

Init == IInit /\ FInit

Next == (IdentityNext /\ UNCHANGED fvars) \/ (FederationNext /\ UNCHANGED ivars)

(***************************************************************************)
(* The clocks run, the rotation loops take every tick that fires, and gRPC *)
(* redials an agent's broken connection with backoff for ever.             *)
(***************************************************************************)
Fairness ==
    /\ WF_vars(HalfLife /\ UNCHANGED fvars)
    /\ \A m \in Renewing :
          /\ WF_vars(Renew(m) /\ UNCHANGED fvars)
          /\ WF_vars(RenewFails(m) /\ UNCHANGED fvars)
    /\ \A m \in Agents : WF_vars(Connect(m) /\ UNCHANGED fvars)
    /\ WF_vars(SelfIssue /\ UNCHANGED fvars)

Spec == Init /\ [][Next]_vars /\ Fairness

-----------------------------------------------------------------------------
(***************************************************************************)
(* The types of Identity's variables and of this module's.                 *)
(***************************************************************************)
TypeOK ==
    /\ IdentityTypeOK
    /\ made \in 0 .. MaxConns
    /\ conn \in {None} \cup 1 .. made
    /\ registered \in {None} \cup 1 .. made
    /\ open \subseteq 1 .. made
    /\ call \in [Handlers -> [at : {"idle", "store", "register", "forget"},
                              conn : {None} \cup 1 .. made]]
    /\ overlapped \in BOOLEAN

(***************************************************************************)
(* No interleaving of RegisterCluster and UnregisterCluster leaks a        *)
(* connection: each open one is the service's, or in the hands of a call   *)
(* that is about to store it.  And when no call is changing them the       *)
(* registry lists over the connection that the service owns, and it is     *)
(* open, unless calls have overlapped: the two maps are changed under      *)
(* different locks and in different orders, so a registration overtaken by *)
(* an unregistration (or by another registration) leaves a closed          *)
(* connection in the registry.                                             *)
(***************************************************************************)
Held == {call[h].conn : h \in {g \in Handlers : call[g].at = "store"}}

RegistryMatchesService ==
    /\ open \subseteq {conn} \cup Held
    /\ Quiet /\ ~overlapped => registered = conn /\ open = {conn} \ {None}
=============================================================================
