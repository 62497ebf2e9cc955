------------------------------ MODULE Autoscaler ------------------------------
(***************************************************************************)
(* The horizontal autoscaler's arithmetic (internal/controller/hpa.go,     *)
(* capacity.go): the replica count it writes into a deployment, from the   *)
(* memory its running pods use and from what is free in the cluster.       *)
(*                                                                         *)
(* The cluster is the list of NodeCandidate records the scheduler gets:    *)
(* both leave out the nodes that are not ready or unschedulable, and both  *)
(* take the usage from computeNodeUsage.  A spec is a record with          *)
(* replicas, minReplicas, maxReplicas and request, the template's          *)
(* PodRequest; the target memory is that of the first container, here of   *)
(* the whole template.  The code divides in float64; this is exact.        *)
(***************************************************************************)
EXTENDS Scheduler

CONSTANT MaxInt32    \* 2147483647 in the code

ASSUME MaxInt32Assumption == MaxInt32 \in Nat

MinInt32 == -MaxInt32 - 1

\* computeClusterCapacity, one resource: capacity minus usage per node, added up.
Remaining(free) ==
    LET sum[i \in 0 .. Len(free)] == IF i = 0 THEN 0 ELSE sum[i - 1] + free[i]
    IN  sum[Len(free)]

FreeAccelerator(n, a) == Count(n.accelCapacity, a) - Count(n.accelUsed, a)

fitCount(remaining, perUnit) ==
    IF perUnit <= 0 THEN MaxInt32
    ELSE IF remaining <= 0 THEN 0
    ELSE IF remaining \div perUnit > MaxInt32 THEN MaxInt32 ELSE remaining \div perUnit

maxAdditionalReplicas(nodes, request) ==
    LET cpu == Remaining([i \in DOMAIN nodes |-> FreeCPU(nodes[i])])
        mem == Remaining([i \in DOMAIN nodes |-> FreeMem(nodes[i])])
        accelerator(a) == Remaining([i \in DOMAIN nodes |-> FreeAccelerator(nodes[i], a)])
        fits == {fitCount(cpu, request.cpu), fitCount(mem, request.mem)} \cup
                {fitCount(accelerator(a), request.accelerators[a]) :
                    a \in DOMAIN request.accelerators}
    IN  CHOOSE m \in fits : \A f \in fits : m <= f

\* Mutant: what fits is taken for the count itself.
capToClusterCapacity_Absolute(nodes, request, current, desired) ==
    LET room == maxAdditionalReplicas(nodes, request)
    IN  IF desired - current <= room THEN desired ELSE room

capToClusterCapacity(nodes, request, current, desired) ==
    LET room == maxAdditionalReplicas(nodes, request)
    IN  IF desired - current <= room THEN desired ELSE current + room

Ceil(a, b) == (a + b - 1) \div b

\* Go's conversion of a float64 that no int32 equals depends on the processor:
\* amd64 gives the smallest one, arm64 the nearest.
ToInt32(x) == IF x <= MaxInt32 THEN {x} ELSE {MinInt32, MaxInt32}

\* Mutant: the minimum is applied last.
Clamped_MinLast(desired, spec) ==
    LET min == IF spec.minReplicas <= 0 THEN 1 ELSE spec.minReplicas
        lowered == IF desired > spec.maxReplicas THEN spec.maxReplicas ELSE desired
    IN  IF lowered < min THEN min ELSE lowered

(***************************************************************************)
(* reconcileOne: the replicas the deployment may have after it, given how  *)
(* many of its pods run and how much memory they use together.             *)
(***************************************************************************)
Clamped(desired, spec) ==
    LET min == IF spec.minReplicas <= 0 THEN 1 ELSE spec.minReplicas
        raised == IF desired < min THEN min ELSE desired
    IN  IF raised > spec.maxReplicas THEN spec.maxReplicas ELSE raised

Current(spec, running) == IF spec.replicas <= 0 THEN running ELSE spec.replicas
Wanted(spec, running, used) == Ceil(Current(spec, running) * used, spec.request.mem * running)

Scaled(spec, running, used, nodes) ==
    LET current == Current(spec, running)
        desired == {Clamped(d, spec) : d \in ToInt32(Wanted(spec, running, used))}
    IN  IF spec.maxReplicas <= 0 \/ spec.request.mem <= 0 \/ running = 0 THEN {spec.replicas}
        ELSE {IF d > current THEN capToClusterCapacity(nodes, spec.request, current, d) ELSE d : d \in desired}
=============================================================================
