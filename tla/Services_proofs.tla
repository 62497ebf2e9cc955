--------------------------- MODULE Services_proofs ---------------------------
(***************************************************************************)
(* Node ports for any number of services, callers, nodes and ports: two    *)
(* services have one port only after calls that overlapped.                *)
(***************************************************************************)
EXTENDS Services, TLAPS

(***************************************************************************)
(* What the list of CreateService showed is still true when it writes,     *)
(* unless another call has written since: deletions only free ports.       *)
(***************************************************************************)
CheckedPortsAreFree ==
    \A c \in Callers :
        creating[c] # None /\ c \notin overlapped
            => ~nodePortInUse(creating[c].spec.port, creating[c].name)

PortsInv == TypeOK /\ DuplicatesAreRaced /\ CheckedPortsAreFree

\* The port of the range that is chosen, or the one asked for, is nobody else's.
LEMMA PortForIsFree ==
    ASSUME NEW s \in ServiceNames, NEW port \in Requested, NEW p \in PortFor(s, port)
    PROVE  p \in Ports /\ ~nodePortInUse(p, s)
<1>1. CASE port = 0
  <2>1. p \in RangeMin .. RangeMax /\ p \notin Used
    BY <1>1 DEF PortFor, allocateNodePort
  <2>2. ~nodePortInUse(p, s)
    BY <2>1 DEF Used, nodePortInUse
  <2> QED
    BY <2>1, <2>2 DEF Ports
<1>2. CASE port # 0
  BY <1>2 DEF PortFor, Ports
<1> QED
  BY <1>1, <1>2

LEMMA EventBounded == ASSUME TypeOK, Event PROVE ops' \in 0 .. MaxOps
BY MaxOpsAssumption DEF TypeOK, Event

-----------------------------------------------------------------------------
(* The handlers *)

LEMMA CreateCheckKeeps ==
    ASSUME PortsInv, NEW c \in Callers, NEW s \in ServiceNames, NEW port \in Requested,
           NEW target \in Targets, CreateCheck(c, s, port, target)
    PROVE  PortsInv'
<1>1. PICK p \in PortFor(s, port) :
          creating' = [creating EXCEPT ![c] = [name |-> s, spec |-> [port |-> p, target |-> target]]]
  BY DEF CreateCheck
<1>2. p \in Ports /\ ~nodePortInUse(p, s)
  BY PortForIsFree
<1>3. services' = services /\ raced' = raced /\ overlapped' = overlapped \ {c}
  BY DEF CreateCheck
<1>4. TypeOK'
  <2>1. [port |-> p, target |-> target] \in Service
    BY <1>2 DEF Service
  <2> QED
    BY <1>1, <1>3, <2>1, EventBounded DEF PortsInv, TypeOK, CreateCheck, cluster, agents, OrNone
<1>5. DuplicatesAreRaced'
  BY <1>3 DEF PortsInv, DuplicatesAreRaced, Exists
<1>6. CheckedPortsAreFree'
  <2> SUFFICES ASSUME NEW d \in Callers, creating'[d] # None, d \notin overlapped'
               PROVE  ~nodePortInUse(creating[d].spec.port, creating[d].name)'
    BY DEF CheckedPortsAreFree
  <2>1. CASE d = c
    <3>1. creating'[d].spec.port = p /\ creating'[d].name = s
      BY <1>1, <2>1 DEF PortsInv, TypeOK
    <3> QED
      BY <1>2, <1>3, <3>1 DEF nodePortInUse, Exists
  <2>2. CASE d # c
    <3>1. creating'[d] = creating[d] /\ d \notin overlapped
      BY <1>1, <1>3, <2>2 DEF PortsInv, TypeOK
    <3> QED
      BY <1>3, <3>1 DEF PortsInv, CheckedPortsAreFree, nodePortInUse, Exists
  <2> QED
    BY <2>1, <2>2
<1> QED
  BY <1>4, <1>5, <1>6 DEF PortsInv

LEMMA CreatePutKeeps == ASSUME PortsInv, NEW c \in Callers, CreatePut(c) PROVE PortsInv'
<1> DEFINE s == creating[c].name
           new == creating[c].spec
<1>1. creating[c] \in [name : ServiceNames, spec : Service]
  BY DEF CreatePut, PortsInv, TypeOK, OrNone
<1>2. s \in ServiceNames /\ new \in Service
  BY <1>1
<1>3. /\ services' = [services EXCEPT ![s] = new]
      /\ raced' = IF c \in overlapped THEN raced \cup {s} ELSE raced \ {s}
      /\ creating' = [creating EXCEPT ![c] = None]
      /\ overlapped' = (overlapped \cup InFlight) \ {c}
  BY DEF CreatePut
<1>4. TypeOK'
  BY <1>2, <1>3 DEF PortsInv, TypeOK, CreatePut, InFlight, OrNone, cluster, agents
<1>5. services'[s] = new /\ \A t \in ServiceNames \ {s} : services'[t] = services[t]
  BY <1>2, <1>3 DEF PortsInv, TypeOK
<1>6. c \notin overlapped => \A t \in ServiceNames \ {s} : Exists(t) => services[t].port # new.port
  BY DEF PortsInv, CheckedPortsAreFree, nodePortInUse, CreatePut
<1>7. DuplicatesAreRaced'
  BY <1>2, <1>3, <1>5, <1>6 DEF PortsInv, DuplicatesAreRaced, Exists
<1>8. CheckedPortsAreFree'
  BY <1>3 DEF PortsInv, TypeOK, CheckedPortsAreFree, InFlight
<1> QED
  BY <1>4, <1>7, <1>8 DEF PortsInv

LEMMA CreateFailsKeeps == ASSUME PortsInv, NEW c \in Callers, CreateFails(c) PROVE PortsInv'
<1>1. TypeOK'
  BY EventBounded DEF PortsInv, TypeOK, CreateFails, OrNone, cluster, agents
<1>2. DuplicatesAreRaced'
  BY DEF PortsInv, DuplicatesAreRaced, Exists, CreateFails
<1>3. CheckedPortsAreFree'
  BY DEF PortsInv, TypeOK, CheckedPortsAreFree, nodePortInUse, Exists, CreateFails
<1> QED
  BY <1>1, <1>2, <1>3 DEF PortsInv

LEMMA DeleteServiceKeeps == ASSUME PortsInv, NEW s \in ServiceNames, DeleteService(s) PROVE PortsInv'
<1>1. TypeOK'
  BY EventBounded DEF PortsInv, TypeOK, DeleteService, OrNone, cluster, agents
<1>2. services'[s] = None /\ \A t \in ServiceNames \ {s} : services'[t] = services[t]
  BY DEF PortsInv, TypeOK, DeleteService
<1>3. DuplicatesAreRaced'
  BY <1>2 DEF PortsInv, DuplicatesAreRaced, Exists, DeleteService
<1>4. CheckedPortsAreFree'
  BY <1>2 DEF PortsInv, CheckedPortsAreFree, nodePortInUse, Exists, DeleteService
<1> QED
  BY <1>1, <1>3, <1>4 DEF PortsInv

-----------------------------------------------------------------------------
(* Pods, nodes and agents *)

\* What does not touch services or calls touches only types.
LEMMA ApiUnchanged == ASSUME PortsInv, TypeOK', UNCHANGED api PROVE PortsInv'
BY DEF PortsInv, DuplicatesAreRaced, CheckedPortsAreFree, nodePortInUse, Exists, api

LEMMA PodMovesKeeps == ASSUME PortsInv, NEW p \in PodNames, PodMoves(p) PROVE PortsInv'
<1>1. TypeOK'
  BY EventBounded DEF PortsInv, TypeOK, PodMoves, OrNone, api, agents
<1> QED
  BY <1>1, ApiUnchanged DEF PodMoves

LEMMA NodeChangesKeeps == ASSUME PortsInv, NEW n \in NodeNames, NodeChanges(n) PROVE PortsInv'
<1>1. TypeOK'
  BY EventBounded DEF PortsInv, TypeOK, NodeChanges, api, agents
<1> QED
  BY <1>1, ApiUnchanged DEF NodeChanges

LEMMA ListServicesKeeps == ASSUME PortsInv, NEW n \in NodeNames, ListServices(n) PROVE PortsInv'
<1>1. PICK f \in Proxies : fetched' = [fetched EXCEPT ![n] = f]
  BY DEF ListServices, Desired
<1>2. TypeOK'
  BY <1>1 DEF PortsInv, TypeOK, ListServices, OrNone, api, cluster
<1> QED
  BY <1>2, ApiUnchanged DEF ListServices

\* An agent applies a list to its proxies, whichever ports are taken.
LEMMA ApplyServicesKeeps ==
    ASSUME PortsInv, NEW n \in NodeNames, NEW taken, ApplyServices(n, taken), ops' \in 0 .. MaxOps
    PROVE  PortsInv'
<1>1. fetched[n] \in Proxies /\ active[n] \in Proxies
  BY DEF PortsInv, TypeOK, ApplyServices, OrNone
<1>2. Reconciled(active[n], fetched[n], taken) \in Proxies
  BY <1>1 DEF Reconciled, Proxies, OrNone
<1>3. TypeOK'
  BY <1>2 DEF PortsInv, TypeOK, ApplyServices, OrNone, api, cluster
<1> QED
  BY <1>3, ApiUnchanged DEF ApplyServices

LEMMA AgentRestartKeeps == ASSUME PortsInv, NEW n \in NodeNames, AgentRestart(n) PROVE PortsInv'
<1>1. Closed \in Proxies
  BY DEF Closed, Proxies, OrNone
<1>2. TypeOK'
  BY <1>1, EventBounded DEF PortsInv, TypeOK, AgentRestart, OrNone, api, cluster
<1> QED
  BY <1>2, ApiUnchanged DEF AgentRestart

-----------------------------------------------------------------------------
LEMMA PortsInvHolds == Spec => []PortsInv
<1>1. Init => PortsInv
  <2> SUFFICES ASSUME Init PROVE PortsInv
    OBVIOUS
  <2>1. Closed \in Proxies
    BY DEF Closed, Proxies, OrNone
  <2>2. TypeOK
    BY <2>1, MaxOpsAssumption DEF Init, TypeOK, OrNone
  <2> QED
    BY <2>2 DEF Init, PortsInv, DuplicatesAreRaced, CheckedPortsAreFree, Exists
<1>2. PortsInv /\ [Next]_vars => PortsInv'
  <2> SUFFICES ASSUME PortsInv, [Next]_vars PROVE PortsInv'
    OBVIOUS
  <2>1. ASSUME NEW n \in NodeNames, ReconcilePorts(n) PROVE PortsInv'
    <3>1. ops' \in 0 .. MaxOps
      BY <2>1 DEF PortsInv, TypeOK, ReconcilePorts
    <3> QED
      BY <2>1, <3>1, ApplyServicesKeeps DEF ReconcilePorts
  <2>2. ASSUME NEW n \in NodeNames, NEW p \in Ports, ReconcileWithTaken(n, p) PROVE PortsInv'
    <3>1. ops' \in 0 .. MaxOps
      BY <2>2, EventBounded DEF PortsInv, ReconcileWithTaken
    <3> QED
      BY <2>2, <3>1, ApplyServicesKeeps DEF ReconcileWithTaken
  <2>3. CASE UNCHANGED vars
    <3>1. TypeOK' /\ UNCHANGED api
      BY <2>3 DEF PortsInv, TypeOK, vars, api
    <3> QED
      BY <3>1, ApiUnchanged
  <2> QED
    BY <2>1, <2>2, <2>3, CreateCheckKeeps, CreatePutKeeps, CreateFailsKeeps, DeleteServiceKeeps,
       PodMovesKeeps, NodeChangesKeeps, ListServicesKeeps, AgentRestartKeeps DEF Next
<1> QED
  BY <1>1, <1>2, PTL DEF Spec

(***************************************************************************)
(* Every reachable state is well typed; a stored service always has a node *)
(* port (service_service.go), and a proxy a target (nodeport.go).          *)
(***************************************************************************)
THEOREM TypeCorrectness == Spec => []TypeOK
<1>1. PortsInv => TypeOK
  BY DEF PortsInv
<1> QED
  BY <1>1, PortsInvHolds, PTL

(***************************************************************************)
(* CreateService (service_service.go) gives one node port to two services  *)
(* only when a call that wrote one of them overlapped another write.       *)
(***************************************************************************)
THEOREM DuplicatesExplained == Spec => []DuplicatesAreRaced
<1>1. PortsInv => DuplicatesAreRaced
  BY DEF PortsInv
<1> QED
  BY <1>1, PortsInvHolds, PTL
=============================================================================
