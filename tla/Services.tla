------------------------------ MODULE Services ------------------------------
(***************************************************************************)
(* Services and their node ports: the handlers that allocate a port and    *)
(* resolve a service's endpoints (internal/apiserver/service_service.go)   *)
(* and, on every node, the manager that opens a proxy per port             *)
(* (internal/agent/nodeport.go).                                           *)
(*                                                                         *)
(* CreateService lists the services to choose or to check a port and       *)
(* writes in a second store call, with no lock in between.  An agent       *)
(* applies a list of services that may be out of date by then.  A service  *)
(* selects pods by label, which Selects fixes per service; a node's IP     *)
(* address is its name.                                                    *)
(***************************************************************************)
EXTENDS Integers, FiniteSets

CONSTANTS
    ServiceNames, PodNames, NodeNames,
    Callers,               \* concurrent CreateService calls
    RangeMin, RangeMax,    \* nodePortRangeMin, nodePortRangeMax
    Requested,             \* node ports a request may name; 0 asks for any
    Targets,               \* target ports; 0 when the service names none
    Selects,               \* Selects[s]: the pods whose labels match s
    MaxOps,                \* bound: calls, pod and node changes, failures
    None

ASSUME RangeAssumption == RangeMin \in Nat \ {0} /\ RangeMax \in Nat
ASSUME PortsAssumption == Requested \subseteq Nat /\ Targets \subseteq Nat
ASSUME SelectsAssumption == Selects \in [ServiceNames -> SUBSET PodNames]
ASSUME MaxOpsAssumption == MaxOps \in Nat

Ports == (RangeMin .. RangeMax) \cup (Requested \ {0})
OrNone(S) == S \cup {None}
Service == [port : Ports, target : Targets]
Proxies == [Ports -> OrNone(Targets \ {0})]

VARIABLES
    services,     \* the registry: name -> Service, or None
    creating,     \* per caller: a checked service still to be written; or None
    overlapped,   \* history: callers that did not see another's write
    raced,        \* history: services written by an overlapped caller
    running,      \* per pod: the node it is RUNNING on, or None
    registered,   \* names in the node registry
    fetched,      \* per agent: what its last ListServices asks for; or None
    active,       \* per agent: open proxies, port -> target or None
    ops

vars == <<services, creating, overlapped, raced, running, registered, fetched, active, ops>>
api == <<services, creating, overlapped, raced>>
cluster == <<running, registered>>
agents == <<fetched, active>>

Closed == [p \in Ports |-> None]

Init ==
    /\ services = [s \in ServiceNames |-> None]
    /\ creating = [c \in Callers |-> None]
    /\ overlapped = {}
    /\ raced = {}
    /\ running = [p \in PodNames |-> None]
    /\ registered = NodeNames
    /\ fetched = [n \in NodeNames |-> None]
    /\ active = [n \in NodeNames |-> Closed]
    /\ ops = 0

Event == ops < MaxOps /\ ops' = ops + 1
Exists(s) == services[s] # None

-----------------------------------------------------------------------------
(* CreateService, DeleteService *)

Used == {services[s].port : s \in {t \in ServiceNames : Exists(t)}}

\* Mutant: the allocator counts the services instead of looking at their ports.
allocateNodePort_Counts ==
    {RangeMin + Cardinality({s \in ServiceNames : Exists(s)})} \cap (RangeMin .. RangeMax)

\* The lowest free port of the range; none when the range is used up.
allocateNodePort ==
    {p \in (RangeMin .. RangeMax) \ Used :
        \A q \in RangeMin .. (p - 1) : q \in Used}

\* Another service has the port.  The service itself may keep it.
nodePortInUse(port, s) ==
    \E t \in ServiceNames \ {s} : Exists(t) /\ services[t].port = port

\* The ports CreateService may give s; empty when it returns an error.
PortFor(s, port) ==
    IF port = 0 THEN allocateNodePort
    ELSE IF nodePortInUse(port, s) THEN {} ELSE {port}

CreateCheck(c, s, port, target) ==
    /\ Event
    /\ creating[c] = None
    /\ \E p \in PortFor(s, port) :
          creating' = [creating EXCEPT ![c] =
                          [name |-> s, spec |-> [port |-> p, target |-> target]]]
    /\ overlapped' = overlapped \ {c}
    /\ UNCHANGED <<services, raced, cluster, agents>>

InFlight == {c \in Callers : creating[c] # None}

CreatePut(c) ==
    /\ creating[c] # None
    /\ LET s == creating[c].name IN
          /\ services' = [services EXCEPT ![s] = creating[c].spec]
          /\ raced' = IF c \in overlapped THEN raced \cup {s} ELSE raced \ {s}
    /\ creating' = [creating EXCEPT ![c] = None]
    /\ overlapped' = (overlapped \cup InFlight) \ {c}
    /\ UNCHANGED <<cluster, agents, ops>>

CreateFails(c) ==
    /\ Event
    /\ creating[c] # None
    /\ creating' = [creating EXCEPT ![c] = None]
    /\ UNCHANGED <<services, overlapped, raced, cluster, agents>>

DeleteService(s) ==
    /\ Event
    /\ Exists(s)
    /\ services' = [services EXCEPT ![s] = None]
    /\ raced' = raced \ {s}
    /\ UNCHANGED <<creating, overlapped, cluster, agents>>

-----------------------------------------------------------------------------
(* Pods and nodes change: the work of other components *)

PodMoves(p) ==
    /\ Event
    /\ \E n \in OrNone(NodeNames) \ {running[p]} : running' = [running EXCEPT ![p] = n]
    /\ UNCHANGED <<api, registered, agents>>

NodeChanges(n) ==
    /\ Event
    /\ registered' = IF n \in registered THEN registered \ {n} ELSE registered \cup {n}
    /\ UNCHANGED <<api, running, agents>>

-----------------------------------------------------------------------------
(* Agents *)

\* resolve: the nodes that run a selected pod and are still registered.
Endpoints(s) == {running[p] : p \in Selects[s]} \cap registered

\* What the services ask of node n at a port: duplicates leave a choice.
Wanted(n, port) ==
    {services[s].target : s \in {t \in ServiceNames :
        /\ Exists(t)
        /\ services[t].port = port
        /\ services[t].target # 0
        /\ n \in Endpoints(t)}}

Desired(n) ==
    {f \in Proxies : \A p \in Ports :
        IF Wanted(n, p) = {} THEN f[p] = None ELSE f[p] \in Wanted(n, p)}

ListServices(n) ==
    /\ fetched[n] = None
    /\ \E f \in Desired(n) : fetched' = [fetched EXCEPT ![n] = f]
    /\ UNCHANGED <<api, cluster, active, ops>>

\* Mutant: an existing proxy is kept whatever its target.
Reconciled_KeepsOld(old, wanted, taken) ==
    [p \in Ports |-> IF wanted[p] # None /\ old[p] # None THEN old[p]
                     ELSE IF p \in taken THEN None ELSE wanted[p]]

(***************************************************************************)
(* A proxy with the wanted target stays; one with another target is closed *)
(* and opened again, which fails for the ports in taken; the rest close.   *)
(***************************************************************************)
Reconciled(old, wanted, taken) ==
    [p \in Ports |-> IF old[p] # wanted[p] /\ p \in taken THEN None ELSE wanted[p]]

ApplyServices(n, taken) ==
    /\ fetched[n] # None
    /\ active' = [active EXCEPT ![n] = Reconciled(@, fetched[n], taken)]
    /\ fetched' = [fetched EXCEPT ![n] = None]
    /\ UNCHANGED <<api, cluster>>

ReconcilePorts(n) == ApplyServices(n, {}) /\ UNCHANGED ops
ReconcileWithTaken(n, p) == Event /\ ApplyServices(n, {p})

\* stopAll, or the process dies; the next one starts with no proxy.
AgentRestart(n) ==
    /\ Event
    /\ active' = [active EXCEPT ![n] = Closed]
    /\ fetched' = [fetched EXCEPT ![n] = None]
    /\ UNCHANGED <<api, cluster>>

Next ==
    \/ \E c \in Callers, s \in ServiceNames, p \in Requested, t \in Targets :
          CreateCheck(c, s, p, t)
    \/ \E c \in Callers : CreatePut(c)
    \/ \E c \in Callers : CreateFails(c)
    \/ \E s \in ServiceNames : DeleteService(s)
    \/ \E p \in PodNames : PodMoves(p)
    \/ \E n \in NodeNames : NodeChanges(n)
    \/ \E n \in NodeNames : ListServices(n)
    \/ \E n \in NodeNames : ReconcilePorts(n)
    \/ \E n \in NodeNames, p \in Ports : ReconcileWithTaken(n, p)
    \/ \E n \in NodeNames : AgentRestart(n)

Spec == Init /\ [][Next]_vars

\* Calls in progress end, and agents keep ticking.
FairSpec ==
    /\ Spec
    /\ \A c \in Callers : WF_vars(CreatePut(c))
    /\ \A n \in NodeNames : WF_vars(ListServices(n)) /\ WF_vars(ReconcilePorts(n))

-----------------------------------------------------------------------------
(***************************************************************************)
(* The type of every variable.  A stored service always has a node port.   *)
(***************************************************************************)
TypeOK ==
    /\ services \in [ServiceNames -> OrNone(Service)]
    /\ creating \in [Callers -> OrNone([name : ServiceNames, spec : Service])]
    /\ overlapped \subseteq Callers
    /\ raced \subseteq ServiceNames
    /\ running \in [PodNames -> OrNone(NodeNames)]
    /\ registered \subseteq NodeNames
    /\ fetched \in [NodeNames -> OrNone(Proxies)]
    /\ active \in [NodeNames -> Proxies]
    /\ ops \in 0 .. MaxOps

(***************************************************************************)
(* CreateService rejects a node port another service has ("already         *)
(* allocated to another service").  Two services end up with one port only *)
(* if the call that wrote one of them overlapped a write of another call:  *)
(* the window between its list and its Put is the only way in, whatever is *)
(* deleted, re-created or moved to another port in between.                *)
(***************************************************************************)
DuplicatesAreRaced ==
    \A s, t \in ServiceNames :
        s # t /\ Exists(s) /\ Exists(t) /\ services[s].port = services[t].port
            => s \in raced \/ t \in raced

(***************************************************************************)
(* Once changes stop, every agent comes to serve exactly the ports its     *)
(* pods need, each with the target of a service that has the port: a list  *)
(* read before the last change, a port that was taken for a while and a    *)
(* restart leave nothing behind.                                           *)
(***************************************************************************)
ProxiesConverge ==
    <>[](\A n \in NodeNames : active[n] \in Desired(n))
=============================================================================
