------------------------------ MODULE Scheduler ------------------------------
(***************************************************************************)
(* internal/scheduler/scheduler.go: the node a pod is placed on, given the *)
(* candidates the controllers build from one listing of nodes and pods.    *)
(*                                                                         *)
(* A candidate is a record with the fields of NodeCandidate, a request one *)
(* with those of PodRequest.  Accelerator maps are functions from a set of *)
(* accelerator names; a name missing from a Go map reads as 0.             *)
(***************************************************************************)
EXTENDS Integers, FiniteSets, Sequences

CONSTANT NoNode    \* ErrNoNodeAvailable

Count(m, a) == IF a \in DOMAIN m THEN m[a] ELSE 0

\* A request for zero or fewer of an accelerator is skipped.
acceleratorsFit(requested, capacity, used) ==
    \A a \in DOMAIN requested :
        requested[a] > 0 => Count(capacity, a) - Count(used, a) >= requested[a]

portsFit(requested, used) == requested \cap used = {}

FreeCPU(n) == n.cpuCapacity - n.cpuUsed
FreeMem(n) == n.memCapacity - n.memUsed
Score(n) == FreeCPU(n) + FreeMem(n)

Fits(pod, n) ==
    /\ FreeCPU(n) >= pod.cpu
    /\ FreeMem(n) >= pod.mem
    /\ acceleratorsFit(pod.accelerators, n.accelCapacity, n.accelUsed)
    /\ portsFit(pod.ports, n.usedPorts)

\* Mutant: the first node that fits wins.
Consider_FirstFit(pod, n, best) ==
    IF Fits(pod, n) /\ best.name = NoNode
    THEN [score |-> Score(n), name |-> n.name]
    ELSE best

(***************************************************************************)
(* The loop: bestScore starts at -1 and only a strictly larger score       *)
(* replaces the best, so the first of equals wins.                         *)
(***************************************************************************)
Consider(pod, n, best) ==
    IF Fits(pod, n) /\ Score(n) > best.score
    THEN [score |-> Score(n), name |-> n.name]
    ELSE best

Schedule(pod, nodes) ==
    LET best[i \in 0 .. Len(nodes)] ==
            IF i = 0 THEN [score |-> -1, name |-> NoNode]
                     ELSE Consider(pod, nodes[i], best[i - 1])
    IN  best[Len(nodes)].name

(***************************************************************************)
(* Registry.List returns a Go map's values, in no fixed order.  The nodes  *)
(* Schedule may return over all orders of a set of candidates.             *)
(***************************************************************************)
BestNodes(pod, candidates) ==
    LET eligible == {n \in candidates : Fits(pod, n) /\ Score(n) > -1}
    IN  {n.name : n \in {m \in eligible : \A o \in eligible : Score(o) <= Score(m)}}

-----------------------------------------------------------------------------
\* The lists of a set's elements, each once, in every order.
Listings(S) == {s \in [1 .. Cardinality(S) -> S] : \A c \in S : \E i \in 1 .. Cardinality(S) : s[i] = c}

(***************************************************************************)
(* What Schedule promises: over all orders of the candidates it returns    *)
(* the fitting nodes with the most free CPU and memory, and fails only     *)
(* when the pod fits on none.  BestNodes is that set.                      *)
(***************************************************************************)
BestFit(pod, candidates) ==
    LET fitting == {n \in candidates : Fits(pod, n)}
        best == {n.name : n \in {m \in fitting : \A o \in fitting : Score(o) <= Score(m)}}
    IN  /\ BestNodes(pod, candidates) = best
        /\ {Schedule(pod, s) : s \in Listings(candidates)} = IF best = {} THEN {NoNode} ELSE best
=============================================================================
