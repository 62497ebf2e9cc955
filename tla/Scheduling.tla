----------------------------- MODULE Scheduling -----------------------------
(***************************************************************************)
(* The scheduler and the autoscaler on the same cluster: every request and *)
(* every list of candidates the controllers can build, and what the two    *)
(* make of them.  Each state is one call's input; a step lists one more    *)
(* node or is about another pod.  Node names are unique in the registry.   *)
(***************************************************************************)
EXTENDS Autoscaler

CONSTANTS
    Requests,      \* PodRequest records
    Candidates,    \* NodeCandidate records
    ReplicaCounts, \* replica counts of deployments, int32 in the code
    Loads          \* memory in use, added up over a deployment's running pods

\* A map of accelerators to amounts.
Amounts(m) == \A a \in DOMAIN m : m[a] \in Int

ASSUME RequestsAssumption ==
    \A r \in Requests : r.cpu \in Int /\ r.mem \in Int /\ Amounts(r.accelerators)
ASSUME CandidatesAssumption ==
    \A c \in Candidates :
        /\ DOMAIN c = {"name", "cpuCapacity", "memCapacity", "cpuUsed", "memUsed",
                       "accelCapacity", "accelUsed", "usedPorts"}
        /\ c.cpuCapacity \in Int /\ c.cpuUsed \in Int
        /\ c.memCapacity \in Int /\ c.memUsed \in Int
        /\ Amounts(c.accelCapacity) /\ Amounts(c.accelUsed)
        /\ c.name # NoNode
ASSUME ReplicaCountsAssumption == ReplicaCounts \subseteq MinInt32 .. MaxInt32
ASSUME LoadsAssumption == Loads \subseteq Nat

VARIABLES pod, nodes
callVars == <<pod, nodes>>

SchedulingInit ==
    /\ pod \in Requests
    /\ nodes = << >>

\* The candidates are built from the ready, schedulable nodes of one listing.
AddNode ==
    /\ \E n \in Candidates :
          /\ \A i \in DOMAIN nodes : nodes[i].name # n.name
          /\ nodes' = Append(nodes, n)
    /\ UNCHANGED pod

NewRequest ==
    /\ pod' \in Requests
    /\ UNCHANGED nodes

SchedulingNext == AddNode \/ NewRequest
SchedulingSpec == SchedulingInit /\ [][SchedulingNext]_callVars

-----------------------------------------------------------------------------
(***************************************************************************)
(* Schedule returns a node on which the request fits and no fitting node   *)
(* has more free CPU and memory, and fails only when the request fits on   *)
(* none: a score below the initial best loses no node.  The order in which *)
(* Registry.List happens to return the nodes decides only between equals,  *)
(* so that BestNodes, which the controllers' models use, is exact.  Nobody *)
(* rejects a negative request: one that is negative altogether fits on     *)
(* nodes whose score loses against the initial best of -1.                 *)
(***************************************************************************)
ScheduleIsBestFit == pod.cpu + pod.mem >= 0 => BestFit(pod, {nodes[i] : i \in DOMAIN nodes})

\* computeNodeUsage once a pod with this request is on the node called name.
Placing(list, request, name) ==
    [i \in DOMAIN list |->
        IF list[i].name # name THEN list[i]
        ELSE [list[i] EXCEPT
                !.cpuUsed = @ + request.cpu, !.memUsed = @ + request.mem,
                !.accelUsed = [a \in DOMAIN @ \cup DOMAIN request.accelerators |->
                                  Count(@, a) + Count(request.accelerators, a)],
                !.usedPorts = @ \cup request.ports]]

\* The candidates after 0, 1, ..., limit pods with this request, as far as they
\* find a node, one after the other.
Filled(list, request, limit) ==
    LET filled[k \in 0 .. limit] ==
            IF k = 0 THEN list
            ELSE Placing(filled[k - 1], request, Schedule(request, filled[k - 1]))
    IN  filled

Overcommitted(n, request) ==
    \/ FreeCPU(n) < 0
    \/ FreeMem(n) < 0
    \/ \E a \in DOMAIN request.accelerators : FreeAccelerator(n, a) < 0

(***************************************************************************)
(* The autoscaler's estimate agrees with the scheduler in the direction    *)
(* that matters: capToClusterCapacity never withholds a replica that the   *)
(* scheduler could place, as long as no node is over-committed (the deficit*)
(* of an over-committed node is subtracted from what the others have).     *)
(***************************************************************************)
CapWithholdsNothing ==
    (\A i \in DOMAIN nodes : ~Overcommitted(nodes[i], pod)) =>
        \A current, desired \in ReplicaCounts : current >= 0 /\ desired > current =>
            LET filled == Filled(nodes, pod, desired - current)
            IN  \A k \in 0 .. desired - current :
                    (\A j \in 0 .. k - 1 : Schedule(pod, filled[j]) # NoNode) =>
                        capToClusterCapacity(nodes, pod, current, desired) - current >= k

DeploymentSpecs ==
    [replicas : ReplicaCounts, minReplicas : ReplicaCounts, maxReplicas : ReplicaCounts, request : {pod}]

(***************************************************************************)
(* Whatever utilisation is measured, a scaled deployment stays within its  *)
(* bounds, except that it may stay below the minimum, and then at its      *)
(* present count or more, when the cluster is full; and reconcileOne       *)
(* scales down only what is above its maximum or uses less than its        *)
(* running pods ask for, unless the count it computes is no int32.         *)
(***************************************************************************)
ScalingStaysInBounds ==
    \A spec \in DeploymentSpecs, running \in {c \in ReplicaCounts : c > 0}, used \in Loads :
        LET current == Current(spec, running)
            least == Clamped(1, spec)
        IN  \A to \in Scaled(spec, running, used, nodes) :
                to # spec.replicas =>
                    /\ to <= spec.maxReplicas
                    /\ \/ to >= least
                       \/ to >= current /\ maxAdditionalReplicas(nodes, pod) < least - current
                    /\ to < current => \/ used < running * pod.mem
                                       \/ current > spec.maxReplicas
                                       \/ Wanted(spec, running, used) > MaxInt32
=============================================================================
