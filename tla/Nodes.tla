-------------------------------- MODULE Nodes --------------------------------
(***************************************************************************)
(* Node liveness: agents that register and send heartbeats                 *)
(* (cmd/nimbus-agent/main.go), the handlers that store them                *)
(* (internal/apiserver/node_service.go) and the node health controller     *)
(* (internal/controller/node_health.go).  Heartbeat and controller both    *)
(* read a node and write it back whole, in separate store calls.  The      *)
(* module Heartbeats puts them together with the agent's client side.      *)
(*                                                                         *)
(* A stored node is [ready, recent]; recent says that LastHeartbeatUnix is *)
(* within the controller's timeout of the present.                         *)
(***************************************************************************)
EXTENDS Integers

CONSTANTS
    NodeNames,
    MaxOps,      \* bound: deaths, restarts, deletions, delays and failures
    None

ASSUME MaxOpsAssumption == MaxOps \in Nat
ASSUME NoneAssumption == None \notin [ready : BOOLEAN, recent : BOOLEAN]

VARIABLES
    nodes,      \* the registry: name -> [ready, recent], or None
    alive,      \* nodes whose agent runs
    beat,       \* per node: the copy a Heartbeat call has read and not yet written; or None
    marking,    \* per node: the copy the controller's pass has still to write; or None
    ops

nodeVars == <<nodes, alive, beat, marking, ops>>

Node == [ready : BOOLEAN, recent : BOOLEAN]
OrNone(S) == S \cup {None}
Healthy == [ready |-> TRUE, recent |-> TRUE]

NodesInit ==
    /\ nodes = [n \in NodeNames |-> None]
    /\ alive = {}
    /\ beat = [n \in NodeNames |-> None]
    /\ marking = [n \in NodeNames |-> None]
    /\ ops = 0

Event == ops < MaxOps /\ ops' = ops + 1

\* An agent starts: CreateNode overwrites whatever the registry has.
Register(n) ==
    /\ Event
    /\ n \notin alive
    /\ nodes' = [nodes EXCEPT ![n] = Healthy]
    /\ alive' = alive \cup {n}
    /\ UNCHANGED <<beat, marking>>

AgentDies(n) ==
    /\ Event
    /\ n \in alive
    /\ alive' = alive \ {n}
    /\ UNCHANGED <<nodes, beat, marking>>

DeleteNode(n) ==
    /\ Event
    /\ nodes[n] # None
    /\ nodes' = [nodes EXCEPT ![n] = None]
    /\ UNCHANGED <<alive, beat, marking>>

\* heartbeatLoop calls Heartbeat, which finds the node or returns NotFound.
HeartbeatGet(n) ==
    /\ n \in alive
    /\ beat[n] = None
    /\ nodes[n] # None
    /\ beat' = [beat EXCEPT ![n] = Healthy]
    /\ UNCHANGED <<nodes, alive, marking, ops>>

HeartbeatPut(n) ==
    /\ beat[n] # None
    /\ nodes' = [nodes EXCEPT ![n] = beat[n]]
    /\ beat' = [beat EXCEPT ![n] = None]
    /\ UNCHANGED <<alive, marking, ops>>

HeartbeatFails(n) ==
    /\ Event
    /\ beat[n] # None
    /\ beat' = [beat EXCEPT ![n] = None]
    /\ UNCHANGED <<nodes, alive, marking>>

(***************************************************************************)
(* The last heartbeat becomes older than the timeout: in time when nobody  *)
(* sends any more, or because those of a live agent are held up.           *)
(***************************************************************************)
Expired(n) ==
    /\ nodes[n] # None
    /\ nodes[n].recent
    /\ nodes' = [nodes EXCEPT ![n].recent = FALSE]
    /\ UNCHANGED <<alive, beat, marking>>

Expire(n) == n \notin alive /\ Expired(n) /\ UNCHANGED ops
Delay(n) == n \in alive /\ Event /\ Expired(n)

-----------------------------------------------------------------------------
\* Mutant: it is the ready nodes that are skipped.
Overdue_SkipsReady(n) == nodes[n] # None /\ ~nodes[n].ready /\ ~nodes[n].recent

\* checkAll skips nodes that are not ready and those heard of since the cutoff.
Overdue(n) == nodes[n] # None /\ nodes[n].ready /\ ~nodes[n].recent

CheckAll ==
    /\ \A n \in NodeNames : marking[n] = None
    /\ \E n \in NodeNames : Overdue(n)
    /\ marking' = [n \in NodeNames |->
                      IF Overdue(n) THEN [nodes[n] EXCEPT !.ready = FALSE] ELSE None]
    /\ UNCHANGED <<nodes, alive, beat, ops>>

MarkNotReady(n) ==
    /\ marking[n] # None
    /\ nodes' = [nodes EXCEPT ![n] = marking[n]]
    /\ marking' = [marking EXCEPT ![n] = None]
    /\ UNCHANGED <<alive, beat, ops>>

\* The Put fails and the loop goes on.
MarkFails(n) ==
    /\ Event
    /\ marking[n] # None
    /\ marking' = [marking EXCEPT ![n] = None]
    /\ UNCHANGED <<nodes, alive, beat>>

-----------------------------------------------------------------------------
(***************************************************************************)
(* The type of every variable.  The controller holds only copies of nodes  *)
(* it found overdue, a Heartbeat only healthy ones.                        *)
(***************************************************************************)
NodesTypeOK ==
    /\ nodes \in [NodeNames -> OrNone(Node)]
    /\ alive \subseteq NodeNames
    /\ beat \in [NodeNames -> {None, Healthy}]
    /\ marking \in [NodeNames -> {None, [ready |-> FALSE, recent |-> FALSE]}]
    /\ ops \in 0 .. MaxOps

(***************************************************************************)
(* A node is never shown as not ready together with a recent heartbeat,    *)
(* although the controller decides on an older copy than the one it        *)
(* overwrites: what it writes carries the old time stamp, so the next      *)
(* heartbeat repairs the node and nothing else contradicts itself.         *)
(***************************************************************************)
RecentMeansReady ==
    \A n \in NodeNames : nodes[n] # None /\ nodes[n].recent => nodes[n].ready
=============================================================================
