------------------------- MODULE Deployments_proofs -------------------------
(***************************************************************************)
(* Proofs about the deployment controller, for every number of             *)
(* deployments, nodes and volumes and every bound: what it does to the     *)
(* replicas of a deployment, to its pods and to the claims of volumes,     *)
(* whatever clients, agents, failures and repeated passes do in between;   *)
(* about the scheduler's loop, for every list of candidates, and the       *)
(* autoscaler's arithmetic against it; and that the controller's           *)
(* Placements are exactly what that loop returns.                          *)
(***************************************************************************)
EXTENDS Deployments, Scheduling, FiniteSetTheorems, NaturalsInduction, TLAPS

Steps == {"idle", "next", "filter", "create", "delete", "candidates", "schedule", "claim", "put"}
RcFields == {"pc", "batch", "d", "replicas", "pass", "listed", "owned", "left", "pin",
             "usage", "cands", "mounts", "vol", "dep"}

RcOK ==
    /\ DOMAIN rc = RcFields
    /\ rc.pc \in Steps
    /\ rc.batch \in [DeploymentNames -> OrNone(0 .. MaxReplicas)]
    /\ rc.d \in OrNone(DeploymentNames)
    /\ rc.replicas \in 0 .. MaxReplicas
    /\ rc.listed \in [PodNames -> OrNone(Pod)]
    /\ rc.owned \in [PodNames -> OrNone(Pod)]
    /\ rc.left \in SUBSET PodNames
    /\ rc.pin \in OrNone(Nodes)
    /\ rc.cands \in SUBSET Nodes
    /\ rc.mounts \in SUBSET Volumes
    /\ rc.vol \in OrNone(Volumes)
    /\ rc.dep \in OrNone(Deployment)

CallsOK ==
    /\ creating \in [DeploymentNames -> OrNone(0 .. MaxReplicas)]
    /\ scaling \in OrNone([d : DeploymentNames, copy : Deployment])
    /\ updating \in [Nodes -> OrNone([id : PodNames, copy : Pod])]

(***************************************************************************)
(* The type invariant of everything the proofs look at.                    *)
(***************************************************************************)
TypeOK ==
    /\ deployments \in [DeploymentNames -> OrNone(Deployment)]
    /\ pods \in [PodNames -> OrNone(Pod)]
    /\ volumes \in [Volumes -> OrNone(Volume)]
    /\ asked \in [DeploymentNames -> 0 .. MaxReplicas]
    /\ peak \in [DeploymentNames -> 0 .. MaxReplicas]
    /\ late \in SUBSET PodNames
    /\ RcOK
    /\ CallsOK

\* The pods of d that no stale copy brought back.
Live(d) == PodsOf(d) \ late

\* A pass in hand is about one deployment, and about pods of that deployment only.
InHand ==
    /\ rc.pc \notin {"idle", "next"} => rc.d \in DeploymentNames
    /\ rc.pc = "put" => rc.dep \in Deployment
    /\ \A id \in PodNames : rc.listed[id] # None \/ rc.owned[id] # None => id[1] = rc.d
    /\ \A id \in rc.left : id[1] = rc.d
    /\ rc.pc \in {"candidates", "schedule"} => \A id \in rc.left : rc.owned[id] # None

\* No replica that is there escapes the listing being filtered.
Seen == rc.pc = "filter" => \A id \in Live(rc.d) : rc.listed[id] # None \/ rc.owned[id] # None

\* The names a creation loop still has to write are free.
NamesAreFree == rc.pc = "create" => rc.left \cap Live(rc.d) = {}

\* Every replica count in use was asked for.
WithinPeak ==
    /\ \A d \in DeploymentNames :
          /\ deployments[d] # None => deployments[d].replicas <= peak[d]
          /\ rc.batch[d] # None => rc.batch[d] <= peak[d]
    /\ rc.d # None => rc.replicas <= peak[rc.d]
    /\ rc.pc = "put" => rc.dep.replicas <= peak[rc.d]

\* A creation loop has room for what it still creates.
RoomToCreate ==
    rc.pc = "create" => Cardinality(Live(rc.d)) + Cardinality(rc.left) <= peak[rc.d]

\* A status update in hand has the replicas asked for, unless they changed since.
PutIsExplained == rc.pc = "put" => rc.dep.replicas = asked[rc.d] \/ rc.d \in raced

\* The volume being claimed was free, and only the controller claims.
ClaimIsFree == rc.vol # None => volumes[rc.vol] = None \/ volumes[rc.vol].node = None

-----------------------------------------------------------------------------
(* Types.                                                                  *)

\* Ending a pass, or going on to the next deployment of it, keeps the types.
LEMMA BetweenOK ==
    ASSUME NEW batch \in [DeploymentNames -> OrNone(0 .. MaxReplicas)], rc' = Between(batch)
    PROVE  RcOK' /\ InHand' /\ rc'.batch = batch /\ rc'.d = None /\ rc'.vol = None
             /\ rc'.pc \in {"idle", "next"}
  BY BoundsAssumption DEF Between, RcOK, InHand, RcFields, Steps, OrNone, NoPods, PodNames

LEMMA TickTypes ==
    ASSUME TypeOK, InHand, Tick
    PROVE  RcOK' /\ InHand'
  <1> DEFINE b == [d \in DeploymentNames |->
                        IF deployments[d] = None THEN None ELSE deployments[d].replicas]
  <1>1. b \in [DeploymentNames -> OrNone(0 .. MaxReplicas)]
    BY DEF TypeOK, OrNone, Deployment
  <1>2. rc' = Between(b)
    BY DEF Tick
  <1> QED
    BY <1>1, <1>2, BetweenOK

LEMMA ReconcileOneTypes ==
    ASSUME TypeOK, InHand, NEW d \in DeploymentNames, ReconcileOne(d)
    PROVE  RcOK' /\ InHand'
  <1> DEFINE b == [rc.batch EXCEPT ![d] = None]
  <1>1. b \in [DeploymentNames -> OrNone(0 .. MaxReplicas)]
    BY DEF TypeOK, RcOK, OrNone
  <1>2. rc' = [Between(b) EXCEPT
                 !.pc = "filter", !.d = d, !.replicas = rc.batch[d],
                 !.listed = OwnedListing(d)]
    BY DEF ReconcileOne
  <1>3. OwnedListing(d) \in [PodNames -> OrNone(Pod)] /\ rc.batch[d] \in 0 .. MaxReplicas
    BY DEF TypeOK, RcOK, OrNone, OwnedListing, ReconcileOne
  <1> HIDE DEF b
  <1> QED
    BY <1>1, <1>2, <1>3 DEF Between, RcOK, InHand, RcFields, Steps, OrNone, NoPods, PodNames, OwnedListing

LEMMA FilterOwnedTypes ==
    ASSUME TypeOK, InHand, NEW id \in PodNames, FilterOwned(id) \/ Evict(id)
    PROVE  RcOK' /\ InHand' /\ pods' \in [PodNames -> OrNone(Pod)] /\ late' \in SUBSET PodNames
  <1>1. CASE Evict(id)
    <2>1. /\ rc' = [rc EXCEPT !.left = {}, !.listed = [rc.listed EXCEPT ![id] = None]]
          /\ pods' = [pods EXCEPT ![id] = None]
          /\ late' = late \ {id}
      BY <1>1 DEF Evict
    <2> QED
      BY <2>1 DEF TypeOK, RcOK, InHand, RcFields, Steps, OrNone
  <1>3. CASE FilterOwned(id) /\ Evictable(rc.listed[id])
    <2>1. rc' = [rc EXCEPT !.left = {id}] /\ UNCHANGED <<pods, late>> /\ rc.listed[id] # None /\ rc.pc = "filter"
      BY <1>3 DEF FilterOwned, registry, history
    <2> QED
      BY <2>1 DEF TypeOK, RcOK, InHand, RcFields, Steps, OrNone
  <1>2. CASE FilterOwned(id) /\ ~Evictable(rc.listed[id])
    <2>1. /\ rc' = [rc EXCEPT !.listed[id] = None, !.owned[id] = rc.listed[id]]
          /\ pods' = pods
          /\ late' = late
          /\ rc.listed[id] # None
      BY <1>2 DEF FilterOwned, registry, history
    <2>2. RcOK'
      BY <2>1 DEF TypeOK, RcOK, RcFields, OrNone
    <2>3. InHand'
      BY <2>1 DEF TypeOK, RcOK, InHand, RcFields, OrNone
    <2> QED
      BY <2>1, <2>2, <2>3 DEF TypeOK
  <1> QED
    BY <1>1, <1>2, <1>3

LEMMA ResolveTypes ==
    ASSUME TypeOK, InHand, NEW v \in Volumes, ResolveVolumeNode(v)
    PROVE  /\ RcOK' /\ InHand' /\ rc.pc = "create" /\ rc'.pc = "create"
           /\ \A f \in {"d", "replicas", "batch", "vol", "left", "usage"} : rc'[f] = rc[f]
           /\ UNCHANGED <<registry, calls, ops, history>>
  <1>1. PICK n \in OrNone(Nodes), M \in SUBSET Volumes : rc' = [rc EXCEPT !.mounts = M, !.pin = n]
    <2>1. CASE volumes[v] # None /\ volumes[v].node # None
      <3>1. rc' = [rc EXCEPT !.mounts = {}, !.pin = volumes[v].node] /\ volumes[v].node \in OrNone(Nodes)
        BY <2>1 DEF ResolveVolumeNode, TypeOK, OrNone, Volume
      <3> QED
        BY <3>1
    <2>2. CASE ~(volumes[v] # None /\ volumes[v].node # None)
      <3>1. rc' = [rc EXCEPT !.mounts = rc.mounts \ {v}, !.pin = rc.pin]
        BY <2>2 DEF ResolveVolumeNode, TypeOK, RcOK, RcFields
      <3>2. rc.mounts \ {v} \in SUBSET Volumes /\ rc.pin \in OrNone(Nodes)
        BY DEF TypeOK, RcOK
      <3> QED
        BY <3>1, <3>2
    <2> QED
      BY <2>1, <2>2
  <1>2. rc.pc = "create" /\ UNCHANGED <<registry, calls, ops, history>>
    BY DEF ResolveVolumeNode
  <1>3. \A f \in RcFields \ {"mounts", "pin"} : rc'[f] = rc[f]
    BY <1>1 DEF TypeOK, RcOK, RcFields
  <1>4. rc'.mounts = M /\ rc'.pin = n /\ DOMAIN rc' = RcFields
    BY <1>1 DEF TypeOK, RcOK, RcFields
  <1>5. RcOK'
    BY <1>3, <1>4 DEF TypeOK, RcOK, RcFields
  <1>6. InHand'
    BY <1>2, <1>3 DEF InHand, RcFields
  <1> QED
    BY <1>2, <1>3, <1>5, <1>6 DEF RcFields

LEMMA PlanTypes ==
    ASSUME TypeOK, InHand, PlanCreate \/ PlanDelete \/ Relist
    PROVE  RcOK' /\ InHand'
  <1>1. CASE PlanCreate
    <2> DEFINE L == {<<rc.d, i>> : i \in FreeOrdinals}
    <2>1. rc.pc = "filter" /\ rc.d \in DeploymentNames
      BY <1>1 DEF PlanCreate, Filtered, InHand
    <2>2. Mounts[rc.d] \in SUBSET Volumes
      BY <2>1, MountsAssumption
    <2>3. L \subseteq PodNames /\ \A id \in L : id[1] = rc.d
      <3>1. FreeOrdinals \subseteq Ordinals
        BY DEF FreeOrdinals
      <3> QED
        BY <2>1, <3>1 DEF PodNames
    <2> HIDE DEF L
    <2>4. rc' = [rc EXCEPT !.pc = "create", !.mounts = Mounts[rc.d], !.left = L]
      BY <1>1 DEF PlanCreate, L
    <2> QED
      BY <2>1, <2>2, <2>3, <2>4 DEF TypeOK, RcOK, InHand, RcFields, Steps
  <1>2. CASE PlanDelete
    <2>1. PICK excess \in SUBSET Present(rc.owned) : rc' = [rc EXCEPT !.pc = "delete", !.left = excess]
      BY <1>2 DEF PlanDelete
    <2>2. excess \in SUBSET PodNames /\ \A id \in excess : id[1] = rc.d
      BY DEF TypeOK, RcOK, InHand, Present
    <2>3. rc.pc = "filter"
      BY <1>2 DEF PlanDelete, Filtered
    <2> QED
      BY <2>1, <2>2, <2>3 DEF TypeOK, RcOK, InHand, RcFields, Steps
  <1>3. CASE Relist
    BY <1>3, BoundsAssumption DEF Relist, TypeOK, RcOK, InHand, RcFields, Steps, OrNone, Filtered, OwnedListing, NoPods
  <1> QED
    BY <1>1, <1>2, <1>3

LEMMA LoopTypes ==
    ASSUME TypeOK, InHand, NEW id \in PodNames, CreatePod(id) \/ RemovePod(id) \/ StillPending(id)
    PROVE  RcOK' /\ InHand' /\ pods' \in [PodNames -> OrNone(Pod)] /\ late' \in SUBSET PodNames
  <1>1. CASE CreatePod(id)
    BY <1>1 DEF CreatePod, NewPod, TypeOK, RcOK, InHand, RcFields, Steps, OrNone, Pod, Phases
  <1>2. CASE RemovePod(id)
    BY <1>2 DEF RemovePod, TypeOK, RcOK, InHand, RcFields, Steps, OrNone
  <1>3. CASE StillPending(id)
    BY <1>3 DEF StillPending, TypeOK, RcOK, InHand, RcFields, Steps, OrNone, registry, history
  <1> QED
    BY <1>1, <1>2, <1>3

\* Every placement is a candidate, so every pod written is one the types allow.
LEMMA PlacementsAreCandidates == Placements \subseteq rc.cands
  BY DEF Placements, NodeCandidate, Sched!BestNodes

LEMMA ToWriteOK ==
    ASSUME TypeOK, NEW id \in PodNames, rc.owned[id] # None
    PROVE  ToWrite(id) \subseteq Pod
  <1> DEFINE p == rc.owned[id]
  <1>1. p \in Pod
    BY DEF TypeOK, RcOK, OrNone
  <1>2. \A n \in Placements : [p EXCEPT !.node = n, !.message = FALSE] \in Pod
    BY <1>1, PlacementsAreCandidates DEF TypeOK, RcOK, Pod
  <1>3. [p EXCEPT !.message = TRUE] \in Pod
    BY <1>1 DEF Pod
  <1> QED
    BY <1>2, <1>3 DEF ToWrite

LEMMA ScheduleTypes ==
    ASSUME TypeOK, InHand, NEW id \in PodNames, SchedulePod(id) \/ ScheduleFails(id)
    PROVE  RcOK' /\ InHand' /\ pods' \in [PodNames -> OrNone(Pod)] /\ late' \in SUBSET PodNames
  <1>1. rc.pc = "schedule" /\ id \in rc.left /\ rc.owned[id] # None /\ id[1] = rc.d
    BY DEF SchedulePod, ScheduleFails, InHand
  <1>2. CASE SchedulePod(id)
    <2>1. PICK p \in ToWrite(id) : PutScheduled(id, p)
      BY <1>2 DEF SchedulePod
    <2>2. p \in Pod
      BY <1>1, ToWriteOK
    <2>3. RcOK' /\ InHand'
      BY <1>1, <2>1, <2>2 DEF PutScheduled, TypeOK, RcOK, InHand, RcFields, OrNone
    <2> QED
      BY <2>1, <2>2, <2>3 DEF PutScheduled, TypeOK, OrNone
  <1>3. CASE ScheduleFails(id)
    <2>1. PICK p \in ToWrite(id) : rc' = [rc EXCEPT !.left = {}, !.owned[id] = p]
      BY <1>3 DEF ScheduleFails
    <2>2. p \in Pod
      BY <1>1, ToWriteOK
    <2>3. RcOK' /\ InHand'
      BY <1>1, <2>1, <2>2 DEF TypeOK, RcOK, InHand, RcFields, OrNone
    <2> QED
      BY <1>3, <2>3 DEF ScheduleFails, TypeOK, registry, history
  <1> QED
    BY <1>2, <1>3

LEMMA ListingTypes ==
    ASSUME TypeOK, InHand, ListUsage \/ BuildNodeCandidates
    PROVE  RcOK' /\ InHand'
  <1>1. CASE ListUsage
    <2>1. Unassigned \in SUBSET PodNames /\ \A id \in Unassigned : id[1] = rc.d /\ rc.owned[id] # None
      BY DEF Unassigned, Present, TypeOK, RcOK, InHand
    <2>2. rc.pc = "filter"
      BY <1>1 DEF ListUsage, Filtered
    <2>3. rc' = [rc EXCEPT !.pc = "candidates", !.left = Unassigned, !.usage = computeNodeUsage]
      BY <1>1 DEF ListUsage
    <2> QED
      BY <2>1, <2>2, <2>3 DEF TypeOK, RcOK, InHand, RcFields, Steps
  <1>2. CASE BuildNodeCandidates
    BY <1>2 DEF BuildNodeCandidates, TypeOK, RcOK, InHand, RcFields, Steps
  <1> QED
    BY <1>1, <1>2

LEMMA ClaimTypes ==
    ASSUME TypeOK, InHand, StartClaim \/ (\E v \in Volumes : ClaimGet(v)) \/ ClaimPut \/ ClaimFails
    PROVE  RcOK' /\ InHand' /\ volumes' \in [Volumes -> OrNone(Volume)]
  <1>1. CASE StartClaim
    <2>1. PICK id \in Present(rc.owned) :
            /\ rc.owned[id].node # None
            /\ rc' = [rc EXCEPT !.pc = "claim", !.pin = rc.owned[id].node,
                              !.mounts = Mounts[rc.d], !.usage = NoUsage, !.cands = {}]
      BY <1>1 DEF StartClaim
    <2>2. rc.pc \in {"filter", "schedule"} /\ rc.d \in DeploymentNames
      BY <1>1 DEF StartClaim, Scheduled, Filtered, InHand
    <2>3. rc.owned[id].node \in OrNone(Nodes) /\ Mounts[rc.d] \in SUBSET Volumes
      BY <2>2, MountsAssumption DEF Present, TypeOK, RcOK, Pod, OrNone
    <2>4. RcOK' /\ InHand'
      BY <2>1, <2>2, <2>3 DEF TypeOK, RcOK, InHand, RcFields, Steps
    <2> QED
      BY <1>1, <2>4 DEF StartClaim, registry, TypeOK
  <1>2. ASSUME NEW v \in Volumes, ClaimGet(v)
        PROVE  RcOK' /\ InHand' /\ volumes' \in [Volumes -> OrNone(Volume)]
    BY <1>2 DEF ClaimGet, TypeOK, RcOK, InHand, RcFields, Steps, OrNone, registry
  <1>3. CASE ClaimPut
    BY <1>3 DEF ClaimPut, TypeOK, RcOK, InHand, RcFields, Steps, OrNone, Volume
  <1>4. CASE ClaimFails
    BY <1>4 DEF ClaimFails, TypeOK, RcOK, InHand, RcFields, Steps, OrNone, registry
  <1> QED
    BY <1>1, <1>2, <1>3, <1>4

(***************************************************************************)
(* A pass owns at most MaxReplicas pods: they are of one deployment.       *)
(***************************************************************************)
LEMMA FewPods ==
    ASSUME NEW d \in DeploymentNames, NEW S \in SUBSET PodNames, \A id \in S : id[1] = d
    PROVE  IsFiniteSet(S) /\ Cardinality(S) \in 0 .. MaxReplicas
  <1>1. IsFiniteSet(Ordinals) /\ Cardinality(Ordinals) = MaxReplicas
    BY FS_Interval, BoundsAssumption DEF Ordinals
  <1>2. IsFiniteSet({d} \X Ordinals) /\ Cardinality({d} \X Ordinals) = 1 * MaxReplicas
    <2>1. IsFiniteSet({d}) /\ Cardinality({d}) = 1
      BY FS_Singleton
    <2> QED
      BY <1>1, <2>1, FS_Product
  <1>3. S \in SUBSET ({d} \X Ordinals)
    BY DEF PodNames
  <1>4. IsFiniteSet(S) /\ Cardinality(S) <= Cardinality({d} \X Ordinals)
    BY <1>2, <1>3, FS_Subset
  <1>5. Cardinality(S) \in Nat
    BY <1>4, FS_CardinalityType
  <1> QED
    BY <1>2, <1>4, <1>5, BoundsAssumption

LEMMA StatusTypes ==
    ASSUME TypeOK, InHand, StatusGet \/ StatusPut \/ WriteFails
    PROVE  RcOK' /\ InHand' /\ deployments' \in [DeploymentNames -> OrNone(Deployment)]
  <1>1. rc.batch \in [DeploymentNames -> OrNone(0 .. MaxReplicas)]
    BY DEF TypeOK, RcOK
  <1>2. CASE StatusGet
    <2>1. rc.d \in DeploymentNames
      BY <1>2 DEF StatusGet, ClaimsDone, Scheduled, Filtered, InHand
    <2>2. Present(rc.owned) \in SUBSET PodNames /\ \A id \in Present(rc.owned) : id[1] = rc.d
      BY DEF Present, TypeOK, RcOK, InHand
    <2>3. StatusNow \in Status
      <3> DEFINE R == {id \in Present(rc.owned) : rc.owned[id].phase = "running"}
      <3>1. Cardinality(R) \in 0 .. MaxReplicas
        BY <2>1, <2>2, FewPods
      <3>2. Have \in 0 .. MaxReplicas
        BY <2>1, <2>2, FewPods DEF Have
      <3> QED
        BY <3>1, <3>2 DEF StatusNow, Status
    <2>4. deployments' = deployments
      BY <1>2 DEF StatusGet, registry
    <2>5. CASE deployments[rc.d] = None
      BY <1>1, <1>2, <2>4, <2>5, BetweenOK DEF StatusGet, TypeOK
    <2>6. CASE deployments[rc.d] # None
      <3>1. [deployments[rc.d] EXCEPT !.status = StatusNow] \in Deployment
        BY <2>1, <2>3, <2>6 DEF TypeOK, OrNone, Deployment
      <3>2. rc' = [Between(rc.batch) EXCEPT
                     !.pc = "put", !.d = rc.d,
                     !.dep = [deployments[rc.d] EXCEPT !.status = StatusNow]]
        BY <1>2, <2>6 DEF StatusGet
      <3>3. RcOK' /\ InHand'
        BY <1>1, <2>1, <3>1, <3>2, BoundsAssumption
        DEF Between, RcOK, InHand, RcFields, Steps, OrNone, NoPods, PodNames
      <3> QED
        BY <2>4, <3>3 DEF TypeOK
    <2> QED
      BY <2>5, <2>6
  <1>3. CASE StatusPut
    <2>1. RcOK' /\ InHand'
      BY <1>1, <1>3, BetweenOK DEF StatusPut
    <2>2. deployments' \in [DeploymentNames -> OrNone(Deployment)]
      BY <1>3 DEF StatusPut, TypeOK, InHand, OrNone
    <2> QED
      BY <2>1, <2>2
  <1>4. CASE WriteFails
    <2>1. RcOK' /\ InHand'
      BY <1>1, <1>4, BetweenOK DEF WriteFails
    <2> QED
      BY <1>4, <2>1 DEF WriteFails, registry, TypeOK
  <1> QED
    BY <1>2, <1>3, <1>4

(***************************************************************************)
(* Steps of the API server, the agents and the nodes, which leave the      *)
(* controller alone.                                                       *)
(***************************************************************************)
Handlers ==
    \/ \E d \in DeploymentNames : CascadeFails(d)
    \/ Calls
    \/ Returns
    \/ Agents

LEMMA AskedTypes ==
    ASSUME TypeOK, NEW d \in DeploymentNames, NEW r \in 0 .. MaxReplicas, Asked(d, r)
    PROVE  asked' \in [DeploymentNames -> 0 .. MaxReplicas] /\ peak' \in [DeploymentNames -> 0 .. MaxReplicas]
  BY DEF Asked, TypeOK

LEMMA HandlersTypes ==
    ASSUME TypeOK, Handlers
    PROVE  TypeOK'
  <1>1. ASSUME NEW d \in DeploymentNames, CascadeFails(d) \/ DeleteDeployment(d) \/ CascadeList(d)
        PROVE  TypeOK'
    BY <1>1 DEF CascadeFails, DeleteDeployment, CascadeList, TypeOK, RcOK, CallsOK, OrNone, registry, history
  <1>2. ASSUME NEW d \in DeploymentNames, NEW r \in 0 .. MaxReplicas, CreateAdmit(d, r)
        PROVE  TypeOK'
    BY <1>2 DEF CreateAdmit, TypeOK, RcOK, CallsOK, OrNone, registry, history
  <1>3. ASSUME NEW d \in DeploymentNames, NEW r \in 0 .. MaxReplicas, ScaleGet(d, r)
        PROVE  TypeOK'
    <2>1. [deployments[d] EXCEPT !.replicas = r] \in Deployment
      BY <1>3 DEF ScaleGet, TypeOK, Deployment, OrNone
    <2> QED
      BY <1>3, <2>1 DEF ScaleGet, TypeOK, RcOK, CallsOK, OrNone, registry, history
  <1>4. ASSUME NEW id \in PodNames, DeletePod(id) \/ CascadeDelete(id)
        PROVE  TypeOK'
    BY <1>4 DEF DeletePod, CascadeDelete, TypeOK, RcOK, CallsOK, OrNone, calls
  <1>5. ASSUME NEW v \in Volumes, CreateVolume(v) \/ DeleteVolume(v)
        PROVE  TypeOK'
    BY <1>5 DEF CreateVolume, DeleteVolume, TypeOK, RcOK, CallsOK, OrNone, Volume, calls, history
  <1>6. ASSUME NEW n \in Nodes, NodeChange(n) \/ AgentSync(n)
        PROVE  TypeOK'
    BY <1>6 DEF NodeChange, AgentSync, TypeOK, RcOK, CallsOK, OrNone, calls, history, registry
  <1>7. ASSUME NEW n \in Nodes, NEW id \in PodNames, NEW phase \in {"running", "terminal"},
               UpdateGet(n, id, phase)
        PROVE  TypeOK'
    <2>1. [pods[id] EXCEPT !.phase = phase, !.message = FALSE] \in Pod
      BY <1>7 DEF UpdateGet, TypeOK, Pod, OrNone, Phases
    <2>2. updating' \in [Nodes -> OrNone([id : PodNames, copy : Pod])]
      BY <1>7, <2>1 DEF UpdateGet, TypeOK, CallsOK, OrNone
    <2> QED
      BY <1>7, <2>2 DEF UpdateGet, TypeOK, RcOK, CallsOK, registry, history
  <1>8. ASSUME NEW d \in DeploymentNames, CreatePut(d)
        PROVE  TypeOK'
    <2>1. creating[d] \in 0 .. MaxReplicas
      BY <1>8 DEF CreatePut, TypeOK, CallsOK, OrNone
    <2>2. [replicas |-> creating[d], status |-> NoStatus] \in Deployment
      BY <2>1, BoundsAssumption DEF Deployment, Status, NoStatus
    <2>3. deployments' \in [DeploymentNames -> OrNone(Deployment)]
      BY <1>8, <2>2 DEF CreatePut, TypeOK, OrNone
    <2>4. asked' \in [DeploymentNames -> 0 .. MaxReplicas] /\ peak' \in [DeploymentNames -> 0 .. MaxReplicas]
      BY <1>8, <2>1, AskedTypes DEF CreatePut
    <2> QED
      BY <1>8, <2>3, <2>4 DEF CreatePut, TypeOK, RcOK, CallsOK, OrNone
  <1>9. CASE ScalePut
    <2>1. scaling.d \in DeploymentNames /\ scaling.copy \in Deployment
      BY <1>9 DEF ScalePut, TypeOK, CallsOK, OrNone
    <2>2. deployments' \in [DeploymentNames -> OrNone(Deployment)]
      BY <1>9, <2>1 DEF ScalePut, TypeOK, OrNone
    <2>3. asked' \in [DeploymentNames -> 0 .. MaxReplicas] /\ peak' \in [DeploymentNames -> 0 .. MaxReplicas]
      BY <1>9, <2>1, AskedTypes DEF ScalePut, Deployment
    <2> QED
      BY <1>9, <2>2, <2>3 DEF ScalePut, TypeOK, RcOK, CallsOK, OrNone
  <1>10. ASSUME NEW n \in Nodes, UpdatePut(n)
         PROVE  TypeOK'
    BY <1>10 DEF UpdatePut, TypeOK, RcOK, CallsOK, OrNone
  <1> QED
    BY <1>1, <1>2, <1>3, <1>4, <1>5, <1>6, <1>7, <1>8, <1>9, <1>10 DEF Handlers, Calls, Returns, Agents

-----------------------------------------------------------------------------
(* What every step but one does to the pods.                               *)

\* No replica appears, but for the ones a stale copy brings back.
NoneAppears ==
    \A id \in PodNames : pods'[id] # None /\ id \notin late' => pods[id] # None /\ id \notin late

LEMMA LiveShrinks ==
    ASSUME NoneAppears
    PROVE  \A d : Live(d)' \subseteq Live(d)
  BY DEF NoneAppears, Live, PodsOf

LEMMA ControllerAppears ==
    ASSUME TypeOK, Controller, \A id \in PodNames : ~CreatePod(id)
    PROVE  NoneAppears
  <1>1. ASSUME NEW id \in PodNames, FilterOwned(id) \/ Evict(id)
        PROVE  NoneAppears
    BY <1>1 DEF FilterOwned, Evict, NoneAppears, TypeOK, registry, history
  <1>2. ASSUME NEW id \in PodNames, RemovePod(id)
        PROVE  NoneAppears
    BY <1>2 DEF RemovePod, NoneAppears, TypeOK
  <1>3. ASSUME NEW id \in PodNames, SchedulePod(id)
        PROVE  NoneAppears
    BY <1>3 DEF SchedulePod, PutScheduled, NoneAppears, TypeOK
  <1>4. ASSUME UNCHANGED <<pods, late>>
        PROVE  NoneAppears
    BY <1>4 DEF NoneAppears
  <1>5. ASSUME NEW d \in DeploymentNames, ReconcileOne(d)
        PROVE  NoneAppears
    BY <1>4, <1>5 DEF ReconcileOne, registry, history
  <1>6. CASE Tick \/ PlanCreate \/ PlanDelete \/ Relist \/ ListUsage \/ BuildNodeCandidates \/ StartClaim
    BY <1>4, <1>6
    DEF Tick, PlanCreate, PlanDelete, Relist, ListUsage, BuildNodeCandidates, StartClaim, registry, history
  <1>7. ASSUME NEW id \in PodNames, StillPending(id)
        PROVE  NoneAppears
    BY <1>4, <1>7 DEF StillPending, registry, history
  <1>8. ASSUME NEW v \in Volumes, ClaimGet(v) \/ ResolveVolumeNode(v)
        PROVE  NoneAppears
    BY <1>4, <1>8 DEF ClaimGet, ResolveVolumeNode, registry, history
  <1>9. CASE ClaimPut \/ StatusGet \/ StatusPut
    BY <1>4, <1>9 DEF ClaimPut, StatusGet, StatusPut, registry, history
  <1> QED
    BY <1>1, <1>2, <1>3, <1>5, <1>6, <1>7, <1>8, <1>9 DEF Controller

LEMMA HandlersAppear ==
    ASSUME TypeOK, Handlers
    PROVE  NoneAppears /\ rc' = rc
  <1>1. ASSUME NEW d \in DeploymentNames,
               CascadeFails(d) \/ DeleteDeployment(d) \/ CascadeList(d) \/ CreatePut(d)
        PROVE  UNCHANGED <<pods, late, rc>>
    BY <1>1 DEF CascadeFails, DeleteDeployment, CascadeList, CreatePut, registry, history
  <1>2. ASSUME NEW d \in DeploymentNames, NEW r \in 0 .. MaxReplicas, CreateAdmit(d, r) \/ ScaleGet(d, r)
        PROVE  UNCHANGED <<pods, late, rc>>
    BY <1>2 DEF CreateAdmit, ScaleGet, registry, history
  <1>3. ASSUME NEW id \in PodNames, DeletePod(id) \/ CascadeDelete(id)
        PROVE  NoneAppears /\ rc' = rc
    BY <1>3 DEF DeletePod, CascadeDelete, TypeOK, NoneAppears
  <1>4. ASSUME NEW v \in Volumes, CreateVolume(v) \/ DeleteVolume(v)
        PROVE  UNCHANGED <<pods, late, rc>>
    BY <1>4 DEF CreateVolume, DeleteVolume, history
  <1>5. ASSUME NEW n \in Nodes, NodeChange(n) \/ AgentSync(n)
        PROVE  UNCHANGED <<pods, late, rc>>
    BY <1>5 DEF NodeChange, AgentSync, history, registry
  <1>6. ASSUME NEW n \in Nodes, NEW id \in PodNames, NEW phase \in {"running", "terminal"},
               UpdateGet(n, id, phase)
        PROVE  UNCHANGED <<pods, late, rc>>
    BY <1>6 DEF UpdateGet, registry, history
  <1>7. CASE ScalePut
    BY <1>7 DEF ScalePut, NoneAppears
  <1>8. ASSUME NEW n \in Nodes, UpdatePut(n)
        PROVE  NoneAppears /\ rc' = rc
    BY <1>8 DEF UpdatePut, TypeOK, NoneAppears
  <1>9. ASSUME UNCHANGED <<pods, late, rc>>
        PROVE  NoneAppears /\ rc' = rc
    BY <1>9 DEF NoneAppears
  <1> QED
    BY <1>1, <1>2, <1>3, <1>4, <1>5, <1>6, <1>7, <1>8, <1>9 DEF Handlers, Calls, Returns, Agents

-----------------------------------------------------------------------------
(* The history of what was asked, and the volumes.                         *)

\* What a step of the API server does to deployments, volumes and the history.
LEMMA HandlersEffect ==
    ASSUME TypeOK, Handlers
    PROVE  /\ \/ UNCHANGED <<asked, raced, peak>> /\ \A d \in DeploymentNames : deployments'[d] \in {deployments[d], None}
              \/ \E d \in DeploymentNames, o \in Deployment :
                    deployments' = [deployments EXCEPT ![d] = o] /\ Asked(d, o.replicas)
           /\ \/ UNCHANGED volumes
              \/ \E v \in Volumes : CreateVolume(v) \/ DeleteVolume(v)
  <1> DEFINE Forgets == UNCHANGED <<asked, raced, peak>> /\ \A d \in DeploymentNames : deployments'[d] \in {deployments[d], None}
             Asks == \E d \in DeploymentNames, o \in Deployment :
                       deployments' = [deployments EXCEPT ![d] = o] /\ Asked(d, o.replicas)
             Keeps == UNCHANGED volumes \/ \E v \in Volumes : CreateVolume(v) \/ DeleteVolume(v)
  <1>1. ASSUME NEW d \in DeploymentNames, CascadeFails(d) \/ DeleteDeployment(d) \/ CascadeList(d)
        PROVE  Forgets /\ Keeps
    BY <1>1 DEF CascadeFails, DeleteDeployment, CascadeList, registry, history, TypeOK
  <1>2. ASSUME NEW d \in DeploymentNames, NEW r \in 0 .. MaxReplicas, CreateAdmit(d, r) \/ ScaleGet(d, r)
        PROVE  Forgets /\ Keeps
    BY <1>2 DEF CreateAdmit, ScaleGet, registry, history
  <1>3. ASSUME NEW id \in PodNames, DeletePod(id) \/ CascadeDelete(id)
        PROVE  Forgets /\ Keeps
    BY <1>3 DEF DeletePod, CascadeDelete
  <1>4. ASSUME NEW v \in Volumes, CreateVolume(v) \/ DeleteVolume(v)
        PROVE  Forgets /\ Keeps
    <2>1. Forgets
      BY <1>4 DEF CreateVolume, DeleteVolume, history
    <2> QED
      BY <1>4, <2>1
  <1>5. ASSUME NEW n \in Nodes, NodeChange(n) \/ AgentSync(n) \/ UpdatePut(n)
        PROVE  Forgets /\ Keeps
    BY <1>5 DEF NodeChange, AgentSync, UpdatePut, history, registry
  <1>6. ASSUME NEW n \in Nodes, NEW id \in PodNames, NEW phase \in {"running", "terminal"},
               UpdateGet(n, id, phase)
        PROVE  Forgets /\ Keeps
    BY <1>6 DEF UpdateGet, registry, history
  <1>7. ASSUME NEW d \in DeploymentNames, CreatePut(d)
        PROVE  Asks /\ Keeps
    <2> DEFINE o == [replicas |-> creating[d], status |-> NoStatus]
    <2>1. creating[d] \in 0 .. MaxReplicas
      BY <1>7 DEF CreatePut, TypeOK, CallsOK, OrNone
    <2>2. o \in Deployment /\ o.replicas = creating[d]
      BY <2>1, BoundsAssumption DEF Deployment, Status, NoStatus
    <2>3. deployments' = [deployments EXCEPT ![d] = o] /\ Asked(d, o.replicas) /\ UNCHANGED volumes
      BY <1>7, <2>2 DEF CreatePut
    <2> QED
      BY <2>2, <2>3
  <1>8. ASSUME ScalePut
        PROVE  Asks /\ Keeps
    <2>1. scaling.d \in DeploymentNames /\ scaling.copy \in Deployment
      BY <1>8 DEF ScalePut, TypeOK, CallsOK, OrNone
    <2>2. /\ deployments' = [deployments EXCEPT ![scaling.d] = scaling.copy]
          /\ Asked(scaling.d, scaling.copy.replicas)
          /\ UNCHANGED volumes
      BY <1>8 DEF ScalePut
    <2> QED
      BY <2>1, <2>2
  <1> HIDE DEF Forgets, Asks, Keeps
  <1>9. (Forgets \/ Asks) /\ Keeps
    <2>1. CASE Calls
      BY <2>1, <1>1, <1>2, <1>3, <1>4, <1>5, <1>6 DEF Calls
    <2>2. CASE Returns
      BY <2>2, <1>1, <1>3, <1>5, <1>7, <1>8 DEF Returns
    <2>3. CASE Agents \/ \E d \in DeploymentNames : CascadeFails(d)
      BY <2>3, <1>1, <1>5 DEF Agents
    <2> QED
      BY <2>1, <2>2, <2>3 DEF Handlers
  <1> QED
    BY <1>9 DEF Forgets, Asks, Keeps

-----------------------------------------------------------------------------
(* What a pass in hand may rely on.                                        *)

PassInv ==
    /\ Seen
    /\ NamesAreFree
    /\ WithinPeak
    /\ PutIsExplained
    /\ ClaimIsFree
    /\ ClobberIsExplained

\* Steps of the API server, the agents and the nodes.
LEMMA HandlersKeep ==
    ASSUME TypeOK, InHand, PassInv, Handlers
    PROVE  PassInv' /\ \A d \in DeploymentNames : peak[d] <= peak'[d]
  <1>1. rc' = rc /\ \A d : Live(d)' \subseteq Live(d)
    BY HandlersAppear, LiveShrinks
  <1>2. Seen' /\ NamesAreFree'
    <2>1. Seen'
      BY <1>1 DEF PassInv, Seen
    <2>2. NamesAreFree'
      BY <1>1 DEF PassInv, NamesAreFree
    <2> QED
      BY <2>1, <2>2
  <1>3. ClaimIsFree'
    <2>1. CASE UNCHANGED volumes
      BY <1>1, <2>1 DEF PassInv, ClaimIsFree
    <2>2. CASE \E v \in Volumes : CreateVolume(v) \/ DeleteVolume(v)
      BY <1>1, <2>2 DEF PassInv, ClaimIsFree, CreateVolume, DeleteVolume, TypeOK, RcOK, OrNone
    <2> QED
      BY <2>1, <2>2, HandlersEffect
  <1>4. WithinPeak' /\ PutIsExplained' /\ ClobberIsExplained' /\ \A d \in DeploymentNames : peak[d] <= peak'[d]
    <2>1. CASE UNCHANGED <<asked, raced, peak>> /\ \A d \in DeploymentNames : deployments'[d] \in {deployments[d], None}
      <3>1. WithinPeak'
        BY <1>1, <2>1 DEF PassInv, WithinPeak
      <3>2. PutIsExplained' /\ ClobberIsExplained'
        BY <1>1, <2>1 DEF PassInv, PutIsExplained, ClobberIsExplained
      <3> QED
        BY <2>1, <3>1, <3>2 DEF TypeOK
    <2>2. ASSUME NEW d \in DeploymentNames, NEW o \in Deployment,
                 deployments' = [deployments EXCEPT ![d] = o], Asked(d, o.replicas)
          PROVE  WithinPeak' /\ PutIsExplained' /\ ClobberIsExplained' /\ \A e \in DeploymentNames : peak[e] <= peak'[e]
      <3>1. /\ o.replicas \in 0 .. MaxReplicas
            /\ deployments'[d] = o
            /\ \A e \in DeploymentNames \ {d} : deployments'[e] = deployments[e]
        BY <2>2 DEF TypeOK, Deployment
      <3>2. /\ peak'[d] >= peak[d] /\ peak'[d] >= o.replicas
            /\ \A e \in DeploymentNames \ {d} : peak'[e] = peak[e]
            /\ peak \in [DeploymentNames -> 0 .. MaxReplicas]
            /\ peak' \in [DeploymentNames -> 0 .. MaxReplicas]
        BY <2>2, <3>1 DEF TypeOK, Asked
      <3>3. /\ asked'[d] = o.replicas
            /\ \A e \in DeploymentNames \ {d} : asked'[e] = asked[e]
            /\ raced \subseteq raced'
            /\ rc.pc = "put" /\ rc.d = d => d \in raced'
        BY <2>2 DEF TypeOK, Asked
      <3>4. WithinPeak'
        <4>1. ASSUME NEW e \in DeploymentNames
              PROVE  /\ deployments'[e] # None => deployments'[e].replicas <= peak'[e]
                     /\ rc'.batch[e] # None => rc'.batch[e] <= peak'[e]
          BY <1>1, <3>1, <3>2 DEF TypeOK, RcOK, OrNone, Deployment, PassInv, WithinPeak
        <4>2. rc'.d # None => rc'.replicas <= peak'[rc'.d]
          BY <1>1, <3>2 DEF TypeOK, RcOK, OrNone, PassInv, WithinPeak
        <4>3. rc'.pc = "put" => rc'.dep.replicas <= peak'[rc'.d]
          BY <1>1, <3>2 DEF TypeOK, RcOK, OrNone, PassInv, WithinPeak, InHand, Deployment
        <4> QED
          BY <4>1, <4>2, <4>3 DEF WithinPeak
      <3>5. PutIsExplained'
        BY <1>1, <3>3 DEF PassInv, PutIsExplained, InHand
      <3>6. ClobberIsExplained'
        BY <3>1, <3>3 DEF PassInv, ClobberIsExplained
      <3>7. \A e \in DeploymentNames : peak[e] <= peak'[e]
        BY <3>2
      <3> QED
        BY <3>4, <3>5, <3>6, <3>7
    <2> QED
      BY <2>1, <2>2, HandlersEffect
  <1> QED
    BY <1>2, <1>3, <1>4 DEF PassInv

(***************************************************************************)
(* The controller's own steps.  Those that neither filter a listing nor    *)
(* create pods nor update a status have little to show.                    *)
(***************************************************************************)
LEMMA QuietKeeps ==
    ASSUME TypeOK, PassInv,
           rc'.pc \notin {"filter", "create", "put"},
           rc'.batch = rc.batch,
           rc'.d = None \/ (rc'.d = rc.d /\ rc'.replicas = rc.replicas),
           rc'.vol = None \/ (rc'.vol = rc.vol /\ volumes' = volumes),
           UNCHANGED <<deployments, asked, raced, peak>>
    PROVE  PassInv'
  <1>1. Seen' /\ NamesAreFree' /\ PutIsExplained'
    BY DEF Seen, NamesAreFree, PutIsExplained
  <1>2. WithinPeak'
    BY DEF PassInv, WithinPeak
  <1>3. ClaimIsFree'
    BY DEF PassInv, ClaimIsFree
  <1>4. ClobberIsExplained'
    BY DEF PassInv, ClobberIsExplained
  <1> QED
    BY <1>1, <1>2, <1>3, <1>4 DEF PassInv

LEMMA TickKeeps ==
    ASSUME TypeOK, InHand, PassInv, Tick
    PROVE  PassInv'
  <1> DEFINE b == [d \in DeploymentNames |->
                        IF deployments[d] = None THEN None ELSE deployments[d].replicas]
  <1>1. b \in [DeploymentNames -> OrNone(0 .. MaxReplicas)]
    BY DEF TypeOK, OrNone, Deployment
  <1>2. rc' = Between(b) /\ UNCHANGED <<deployments, volumes, asked, raced, peak>>
    BY DEF Tick, registry, history
  <1>3. rc'.batch = b /\ rc'.d = None /\ rc'.vol = None /\ rc'.pc \in {"idle", "next"}
    BY <1>1, <1>2, BetweenOK
  <1>4. Seen' /\ NamesAreFree' /\ PutIsExplained' /\ ClaimIsFree'
    BY <1>3 DEF Seen, NamesAreFree, PutIsExplained, ClaimIsFree
  <1>5. WithinPeak'
    BY <1>2, <1>3 DEF PassInv, WithinPeak
  <1>6. ClobberIsExplained'
    BY <1>2 DEF PassInv, ClobberIsExplained
  <1> QED
    BY <1>4, <1>5, <1>6 DEF PassInv

LEMMA ReconcileOneKeeps ==
    ASSUME TypeOK, InHand, PassInv, NEW d \in DeploymentNames, ReconcileOne(d)
    PROVE  PassInv'
  <1> DEFINE b == [rc.batch EXCEPT ![d] = None]
  <1>1. /\ rc'.pc = "filter" /\ rc'.d = d /\ rc'.replicas = rc.batch[d]
        /\ rc'.listed = OwnedListing(d) /\ rc'.batch = b /\ rc'.vol = None
    BY DEF ReconcileOne, Between
  <1>2. UNCHANGED <<deployments, pods, volumes, asked, raced, peak, late>> /\ rc.batch[d] # None
    BY DEF ReconcileOne, registry, history
  <1>3. Seen'
    BY <1>1, <1>2 DEF Seen, Live, PodsOf, OwnedListing
  <1>4. NamesAreFree' /\ PutIsExplained' /\ ClaimIsFree'
    BY <1>1 DEF NamesAreFree, PutIsExplained, ClaimIsFree
  <1>5. WithinPeak'
    BY <1>1, <1>2 DEF PassInv, WithinPeak, TypeOK, RcOK
  <1>6. ClobberIsExplained'
    BY <1>2 DEF PassInv, ClobberIsExplained
  <1> QED
    BY <1>3, <1>4, <1>5, <1>6 DEF PassInv

\* A pod that is filtered out is deleted; one that is not is owned.
LEMMA FilterOwnedKeeps ==
    ASSUME TypeOK, InHand, PassInv, NEW id \in PodNames, FilterOwned(id) \/ Evict(id)
    PROVE  PassInv' /\ rc'.pc = "filter"
  <1>1. /\ rc.pc = "filter" /\ rc'.pc = "filter" /\ rc'.d = rc.d /\ rc'.replicas = rc.replicas
        /\ rc'.batch = rc.batch /\ rc'.vol = rc.vol
    BY DEF FilterOwned, Evict, TypeOK, RcOK, RcFields
  <1>2. UNCHANGED <<deployments, volumes, asked, raced, peak>>
    BY DEF FilterOwned, Evict, registry, history
  <1>3. Seen'
    <2>1. CASE Evict(id)
      <3>1. /\ \A o \in PodNames \ {id} : pods'[o] = pods[o] /\ (o \in late' <=> o \in late)
            /\ pods'[id] = None
            /\ \A o \in PodNames \ {id} : rc'.listed[o] = rc.listed[o]
            /\ rc'.owned = rc.owned
        BY <2>1 DEF Evict, TypeOK, RcOK, RcFields
      <3> QED
        BY <1>1, <3>1 DEF PassInv, Seen, Live, PodsOf
    <2>2. CASE FilterOwned(id) /\ Evictable(rc.listed[id])
      <3>1. UNCHANGED <<pods, late>> /\ rc'.listed = rc.listed /\ rc'.owned = rc.owned
        BY <2>2 DEF FilterOwned, registry, history, TypeOK, RcOK, RcFields
      <3> QED
        BY <1>1, <3>1 DEF PassInv, Seen, Live, PodsOf
    <2>3. CASE FilterOwned(id) /\ ~Evictable(rc.listed[id])
      <3>1. /\ UNCHANGED <<pods, late>>
            /\ \A o \in PodNames \ {id} : rc'.listed[o] = rc.listed[o] /\ rc'.owned[o] = rc.owned[o]
            /\ rc'.owned[id] # None
        <4>1. /\ UNCHANGED <<pods, late>>
              /\ rc.listed[id] # None
              /\ rc' = [rc EXCEPT !.listed[id] = None, !.owned[id] = rc.listed[id]]
          BY <2>3 DEF FilterOwned, registry, history
        <4>2. /\ rc'.listed = [rc.listed EXCEPT ![id] = None]
              /\ rc'.owned = [rc.owned EXCEPT ![id] = rc.listed[id]]
          BY <4>1 DEF TypeOK, RcOK, RcFields
        <4> QED
          BY <4>1, <4>2 DEF TypeOK, RcOK
      <3> QED
        BY <1>1, <3>1 DEF PassInv, Seen, Live, PodsOf
    <2> QED
      BY <2>1, <2>2, <2>3
  <1>4. NamesAreFree' /\ PutIsExplained'
    BY <1>1 DEF NamesAreFree, PutIsExplained
  <1>5. WithinPeak'
    BY <1>1, <1>2 DEF PassInv, WithinPeak
  <1>6. ClobberIsExplained' /\ ClaimIsFree'
    BY <1>1, <1>2 DEF PassInv, ClobberIsExplained, ClaimIsFree
  <1> QED
    BY <1>1, <1>3, <1>4, <1>5, <1>6 DEF PassInv

\* Looking up the volumes changes nothing but the node the new pods are pinned to.
LEMMA ResolveKeeps ==
    ASSUME TypeOK, InHand, PassInv, NEW v \in Volumes, ResolveVolumeNode(v)
    PROVE  PassInv'
  <1>1. /\ rc.pc = "create" /\ rc'.pc = "create" /\ rc'.d = rc.d /\ rc'.replicas = rc.replicas
        /\ rc'.batch = rc.batch /\ rc'.vol = rc.vol /\ rc'.left = rc.left
        /\ UNCHANGED <<registry, calls, ops, history>>
    BY ResolveTypes
  <1>2. UNCHANGED <<deployments, pods, volumes, asked, raced, peak, late>>
    BY <1>1 DEF registry, history
  <1>3. Seen' /\ NamesAreFree' /\ PutIsExplained'
    BY <1>1, <1>2 DEF PassInv, Seen, NamesAreFree, PutIsExplained, Live, PodsOf
  <1>4. WithinPeak'
    BY <1>1, <1>2 DEF PassInv, WithinPeak
  <1>5. ClobberIsExplained' /\ ClaimIsFree'
    BY <1>1, <1>2 DEF PassInv, ClobberIsExplained, ClaimIsFree
  <1> QED
    BY <1>3, <1>4, <1>5 DEF PassInv

\* The names picked for new pods are none of an owned pod, and every replica is owned.
LEMMA PlanCreateKeeps ==
    ASSUME TypeOK, InHand, PassInv, PlanCreate
    PROVE  PassInv' /\ rc'.left = {<<rc.d, i>> : i \in FreeOrdinals} /\ rc'.pc = "create" /\ rc'.d = rc.d
             /\ Live(rc.d) \subseteq Present(rc.owned)
  <1>1. /\ rc.pc = "filter" /\ rc'.pc = "create" /\ rc'.d = rc.d /\ rc'.replicas = rc.replicas
        /\ rc'.batch = rc.batch /\ rc'.vol = rc.vol
        /\ rc'.left = {<<rc.d, i>> : i \in FreeOrdinals}
    BY DEF PlanCreate, Filtered, TypeOK, RcOK, RcFields
  <1>2. UNCHANGED <<deployments, pods, volumes, asked, raced, peak, late>>
    BY DEF PlanCreate, registry, history
  <1>3. Live(rc.d) \subseteq Present(rc.owned)
    <2>1. \A id \in PodNames : rc.listed[id] = None
      BY DEF PlanCreate, Filtered, Present, TypeOK, RcOK
    <2> QED
      BY <1>1, <2>1 DEF PassInv, Seen, Live, PodsOf, Present, TypeOK, RcOK
  <1>4. NamesAreFree'
    <2>1. \A i \in FreeOrdinals : rc.owned[<<rc.d, i>>] = None
      BY DEF FreeOrdinals
    <2>2. \A id \in rc'.left : id \notin Live(rc.d)
      BY <1>1, <1>3, <2>1 DEF Present
    <2> QED
      BY <1>1, <1>2, <2>2 DEF NamesAreFree, Live, PodsOf
  <1>5. Seen' /\ PutIsExplained'
    BY <1>1 DEF Seen, PutIsExplained
  <1>6. WithinPeak'
    BY <1>1, <1>2 DEF PassInv, WithinPeak
  <1>7. ClobberIsExplained' /\ ClaimIsFree'
    BY <1>1, <1>2 DEF PassInv, ClobberIsExplained, ClaimIsFree
  <1> QED
    BY <1>1, <1>3, <1>4, <1>5, <1>6, <1>7 DEF PassInv

LEMMA CreatePodKeeps ==
    ASSUME TypeOK, InHand, PassInv, NEW id \in PodNames, CreatePod(id)
    PROVE  PassInv' /\ Live(rc.d)' \subseteq Live(rc.d) \cup {id} /\ rc'.left = rc.left \ {id} /\ id \notin Live(rc.d)
             /\ id \in rc.left /\ rc'.d = rc.d /\ peak' = peak
             /\ \A d \in DeploymentNames \ {rc.d} : Live(d)' \subseteq Live(d)
  <1>1. /\ rc.pc = "create" /\ rc'.pc = "create" /\ rc'.d = rc.d /\ rc'.replicas = rc.replicas
        /\ rc'.batch = rc.batch /\ rc'.vol = rc.vol /\ rc'.left = rc.left \ {id} /\ id \in rc.left /\ id[1] = rc.d
    BY DEF CreatePod, TypeOK, RcOK, RcFields, InHand
  <1>2. UNCHANGED <<deployments, volumes, asked, raced, peak>>
    BY DEF CreatePod
  <1>3. id \notin Live(rc.d)
    BY <1>1 DEF PassInv, NamesAreFree
  <1>4. \A o \in PodNames \ {id} : pods'[o] = pods[o] /\ (o \in late' <=> o \in late)
    BY DEF CreatePod, TypeOK, NewPod
  <1>5. /\ Live(rc.d)' \subseteq Live(rc.d) \cup {id}
        /\ \A d \in DeploymentNames \ {rc.d} : Live(d)' \subseteq Live(d)
    BY <1>1, <1>4 DEF Live, PodsOf
  <1>6. NamesAreFree'
    BY <1>1, <1>5 DEF PassInv, NamesAreFree
  <1>7. Seen' /\ PutIsExplained'
    BY <1>1 DEF Seen, PutIsExplained
  <1>8. WithinPeak'
    BY <1>1, <1>2 DEF PassInv, WithinPeak
  <1>9. ClobberIsExplained' /\ ClaimIsFree'
    BY <1>1, <1>2 DEF PassInv, ClobberIsExplained, ClaimIsFree
  <1> QED
    BY <1>1, <1>2, <1>3, <1>5, <1>6, <1>7, <1>8, <1>9 DEF PassInv

\* The second listing of a pass.
LEMMA RelistKeeps ==
    ASSUME TypeOK, InHand, PassInv, Relist
    PROVE  PassInv'
  <1>1. /\ rc'.pc = "filter" /\ rc'.d = rc.d /\ rc'.replicas = 0
        /\ rc'.listed = OwnedListing(rc.d) /\ rc'.batch = rc.batch /\ rc'.vol = rc.vol
    BY DEF Relist, TypeOK, RcOK, RcFields
  <1>2. UNCHANGED <<deployments, pods, volumes, asked, raced, peak, late>>
    BY DEF Relist, registry, history
  <1>3. Seen'
    BY <1>1, <1>2 DEF Seen, Live, PodsOf, OwnedListing
  <1>4. NamesAreFree' /\ PutIsExplained'
    BY <1>1 DEF NamesAreFree, PutIsExplained
  <1>5. WithinPeak'
    <2>1. rc.d # None => 0 <= peak[rc.d]
      BY DEF TypeOK, RcOK, OrNone
    <2> QED
      BY <1>1, <1>2, <2>1 DEF PassInv, WithinPeak
  <1>6. ClobberIsExplained' /\ ClaimIsFree'
    BY <1>1, <1>2 DEF PassInv, ClobberIsExplained, ClaimIsFree
  <1> QED
    BY <1>3, <1>4, <1>5, <1>6 DEF PassInv

LEMMA StatusKeeps ==
    ASSUME TypeOK, InHand, PassInv, StatusGet \/ StatusPut \/ WriteFails
    PROVE  PassInv' /\ UNCHANGED peak /\ rc'.pc # "create"
  <1>1. rc.batch \in [DeploymentNames -> OrNone(0 .. MaxReplicas)]
    BY DEF TypeOK, RcOK
  <1>2. CASE StatusGet
    <2>1. rc.d \in DeploymentNames
      BY <1>2 DEF StatusGet, ClaimsDone, Scheduled, Filtered, InHand
    <2>2. UNCHANGED <<deployments, volumes, asked, raced, peak>>
      BY <1>2 DEF StatusGet, registry, history
    <2>3. CASE deployments[rc.d] = None
      <3>1. rc' = Between(rc.batch)
        BY <1>2, <2>3 DEF StatusGet
      <3>2. rc'.batch = rc.batch /\ rc'.d = None /\ rc'.vol = None /\ rc'.pc \in {"idle", "next"}
        BY <1>1, <3>1, BetweenOK
      <3> QED
        BY <2>2, <3>2, QuietKeeps
    <2>4. CASE deployments[rc.d] # None
      <3>1. rc' = [Between(rc.batch) EXCEPT
                     !.pc = "put", !.d = rc.d,
                     !.dep = [deployments[rc.d] EXCEPT !.status = StatusNow]]
        BY <1>2, <2>4 DEF StatusGet
      <3>2. /\ rc'.pc = "put" /\ rc'.d = rc.d /\ rc'.batch = rc.batch /\ rc'.vol = None /\ rc'.replicas = 0
            /\ rc'.dep = [deployments[rc.d] EXCEPT !.status = StatusNow]
        BY <3>1 DEF Between
      <3>3. rc'.dep.replicas = deployments[rc.d].replicas
        BY <2>1, <2>4, <3>2 DEF TypeOK, OrNone, Deployment
      <3>4. Seen' /\ NamesAreFree' /\ ClaimIsFree'
        BY <3>2 DEF Seen, NamesAreFree, ClaimIsFree
      <3>5. PutIsExplained' /\ ClobberIsExplained'
        BY <2>1, <2>2, <2>4, <3>2, <3>3 DEF PassInv, PutIsExplained, ClobberIsExplained
      <3>6. WithinPeak'
        <4>1. 0 <= peak[rc.d]
          BY <2>1 DEF TypeOK
        <4> QED
          BY <2>1, <2>2, <2>4, <3>2, <3>3, <4>1 DEF PassInv, WithinPeak
      <3> QED
        BY <2>2, <3>2, <3>4, <3>5, <3>6 DEF PassInv
    <2> QED
      BY <2>3, <2>4
  <1>3. CASE StatusPut
    <2>1. /\ rc.pc = "put" /\ rc.d \in DeploymentNames
          /\ deployments' = [deployments EXCEPT ![rc.d] = rc.dep]
          /\ UNCHANGED <<volumes, asked, raced, peak>>
      BY <1>3 DEF StatusPut, InHand, history
    <2>2. /\ rc'.batch = rc.batch /\ rc'.d = None /\ rc'.vol = None /\ rc'.pc \in {"idle", "next"}
      BY <1>1, <1>3, BetweenOK DEF StatusPut
    <2>3. Seen' /\ NamesAreFree' /\ ClaimIsFree' /\ PutIsExplained'
      BY <2>2 DEF Seen, NamesAreFree, ClaimIsFree, PutIsExplained
    <2>4. ClobberIsExplained'
      BY <2>1 DEF PassInv, PutIsExplained, ClobberIsExplained, TypeOK
    <2>5. WithinPeak'
      BY <2>1, <2>2 DEF PassInv, WithinPeak, TypeOK
    <2> QED
      BY <2>1, <2>2, <2>3, <2>4, <2>5 DEF PassInv
  <1>4. CASE WriteFails
    <2>1. rc' = Between(rc.batch) /\ UNCHANGED <<deployments, volumes, asked, raced, peak>>
      BY <1>4 DEF WriteFails, registry, history
    <2>2. rc'.batch = rc.batch /\ rc'.d = None /\ rc'.vol = None /\ rc'.pc \in {"idle", "next"}
      BY <1>1, <2>1, BetweenOK
    <2> QED
      BY <2>1, <2>2, QuietKeeps
  <1> QED
    BY <1>2, <1>3, <1>4

LEMMA ClaimKeeps ==
    ASSUME TypeOK, InHand, PassInv, StartClaim \/ (\E v \in Volumes : ClaimGet(v)) \/ ClaimPut \/ ClaimFails
    PROVE  PassInv' /\ UNCHANGED peak /\ rc'.pc # "create"
  <1>1. CASE StartClaim
    <2>1. /\ rc'.pc = "claim" /\ rc'.batch = rc.batch /\ rc'.d = rc.d /\ rc'.replicas = rc.replicas /\ rc'.vol = rc.vol
          /\ UNCHANGED <<deployments, volumes, asked, raced, peak>>
      BY <1>1 DEF StartClaim, registry, history, TypeOK, RcOK, RcFields
    <2> QED
      BY <2>1, QuietKeeps
  <1>2. ASSUME NEW v \in Volumes, ClaimGet(v)
        PROVE  PassInv' /\ UNCHANGED peak /\ rc'.pc # "create"
    <2>1. /\ rc'.pc = "claim" /\ rc'.batch = rc.batch /\ rc'.d = rc.d /\ rc'.replicas = rc.replicas
          /\ rc'.vol = rc.vol \/ (rc'.vol = v /\ volumes[v] # None /\ volumes[v].node = None)
      BY <1>2 DEF ClaimGet, TypeOK, RcOK, RcFields
    <2>2. UNCHANGED <<deployments, volumes, asked, raced, peak>>
      BY <1>2 DEF ClaimGet, registry, history
    <2>3. Seen' /\ NamesAreFree' /\ PutIsExplained'
      BY <2>1 DEF Seen, NamesAreFree, PutIsExplained
    <2>4. ClaimIsFree' /\ ClobberIsExplained'
      BY <2>1, <2>2 DEF PassInv, ClaimIsFree, ClobberIsExplained
    <2>5. WithinPeak'
      BY <2>1, <2>2 DEF PassInv, WithinPeak
    <2> QED
      BY <2>1, <2>2, <2>3, <2>4, <2>5 DEF PassInv
  <1>3. CASE ClaimPut \/ ClaimFails
    <2>1. /\ rc'.pc = "claim" /\ rc'.batch = rc.batch /\ rc'.d = rc.d /\ rc'.replicas = rc.replicas /\ rc'.vol = None
          /\ UNCHANGED <<deployments, asked, raced, peak>>
      BY <1>3 DEF ClaimPut, ClaimFails, registry, history, TypeOK, RcOK, RcFields
    <2> QED
      BY <2>1, QuietKeeps
  <1> QED
    BY <1>1, <1>2, <1>3

LEMMA WorkKeeps ==
    ASSUME TypeOK, InHand, PassInv,
           \/ PlanDelete \/ ListUsage \/ BuildNodeCandidates
           \/ \E id \in PodNames : RemovePod(id) \/ SchedulePod(id) \/ ScheduleFails(id) \/ StillPending(id)
    PROVE  PassInv' /\ UNCHANGED peak /\ rc'.pc # "create"
  <1> DEFINE Quiet ==
               /\ rc'.pc \in {"delete", "candidates", "schedule"}
               /\ rc'.batch = rc.batch /\ rc'.d = rc.d /\ rc'.replicas = rc.replicas /\ rc'.vol = rc.vol
               /\ UNCHANGED <<deployments, volumes, asked, raced, peak>>
  <1>1. ASSUME PlanDelete \/ ListUsage \/ BuildNodeCandidates
        PROVE  Quiet
    BY <1>1 DEF PlanDelete, ListUsage, BuildNodeCandidates, registry, history, TypeOK, RcOK, RcFields
  <1>2. ASSUME NEW id \in PodNames, RemovePod(id) \/ StillPending(id)
        PROVE  Quiet
    BY <1>2 DEF RemovePod, StillPending, registry, history, TypeOK, RcOK, RcFields
  <1>3. ASSUME NEW id \in PodNames, SchedulePod(id) \/ ScheduleFails(id)
        PROVE  Quiet
    BY <1>3 DEF SchedulePod, ScheduleFails, PutScheduled, registry, history, TypeOK, RcOK, RcFields
  <1>4. Quiet
    BY <1>1, <1>2, <1>3
  <1> QED
    BY <1>4, QuietKeeps

-----------------------------------------------------------------------------
(* Counting.                                                               *)

\* The m lowest ordinals of a set are at most m: an ordinal is told by its rank.
LEMMA LowestAreFew ==
    ASSUME NEW m \in Nat, NEW F \in SUBSET Ordinals
    PROVE  LET T == {i \in F : Cardinality({j \in F : j < i}) < m}
           IN  IsFiniteSet(T) /\ Cardinality(T) <= m
  <1> DEFINE Below(i) == {j \in F : j < i}
             T == {i \in F : Cardinality(Below(i)) < m}
             f == [i \in T |-> Cardinality(Below(i))]
  <1>1. IsFiniteSet(Ordinals)
    BY FS_Interval, BoundsAssumption DEF Ordinals
  <1>2. \A i \in F : IsFiniteSet(Below(i)) /\ Cardinality(Below(i)) \in Nat
    BY <1>1, FS_Subset, FS_CardinalityType
  <1>3. f \in [T -> 0 .. m - 1]
    BY <1>2
  <1>4. ASSUME NEW i \in T, NEW k \in T, i < k
        PROVE  f[i] < f[k]
    <2>1. IsFiniteSet(Below(i) \cup {i}) /\ Cardinality(Below(i) \cup {i}) = Cardinality(Below(i)) + 1
      <3>1. i \notin Below(i)
        BY DEF Ordinals
      <3> QED
        BY <1>2, <3>1, FS_AddElement
    <2>2. Below(i) \cup {i} \in SUBSET Below(k)
      <3>1. F \subseteq Int /\ i \in F /\ k \in Int
        BY BoundsAssumption DEF Ordinals
      <3>2. \A j \in Below(i) : j \in F /\ j < k
        BY <1>4, <3>1
      <3> QED
        BY <1>4, <3>1, <3>2
    <2>3. Cardinality(Below(i) \cup {i}) <= Cardinality(Below(k))
      <3> HIDE DEF Below
      <3> QED
        BY <1>2, <2>2, FS_Subset
    <2>4. f[i] = Cardinality(Below(i)) /\ f[k] = Cardinality(Below(k)) /\ i \in F /\ k \in F
      OBVIOUS
    <2> HIDE DEF Below, f
    <2> QED
      BY <1>2, <2>1, <2>3, <2>4
  <1>5. f \in Injection(T, 0 .. m - 1)
    <2>1. \A i, k \in T : f[i] = f[k] => i = k
      <3>1. SUFFICES ASSUME NEW i \in T, NEW k \in T, f[i] = f[k], i # k
                     PROVE  FALSE
        OBVIOUS
      <3>2. i \in Int /\ k \in Int /\ f[i] \in Int /\ f[k] \in Int
        BY <1>3 DEF Ordinals
      <3>3. i < k \/ k < i
        BY <3>1, <3>2
      <3> HIDE DEF f, T
      <3> QED
        BY <1>4, <3>1, <3>2, <3>3
    <2> HIDE DEF f, T
    <2> QED
      BY <1>3, <2>1 DEF Injection, IsInjective
  <1>6. IsFiniteSet(0 .. m - 1) /\ Cardinality(0 .. m - 1) = m
    BY FS_Interval
  <1> HIDE DEF f, T
  <1>7. IsFiniteSet(T) /\ Cardinality(T) <= m
    BY <1>5, <1>6, FS_Injection
  <1> QED
    BY <1>7 DEF T

\* The pods of one deployment are as many as their ordinals.
LEMMA PodsPerOrdinal ==
    ASSUME NEW d, NEW T, IsFiniteSet(T)
    PROVE  Cardinality({<<d, i>> : i \in T}) <= Cardinality(T)
  <1> DEFINE S == {<<d, i>> : i \in T}
             g == [id \in S |-> id[2]]
  <1>1. g \in Injection(S, T)
    BY DEF Injection, IsInjective
  <1> HIDE DEF S, g
  <1>2. Cardinality(S) <= Cardinality(T)
    BY <1>1, FS_Injection
  <1> QED
    BY <1>2 DEF S

\* A creation loop never plans more pods than are missing.
LEMMA PlanHasRoom ==
    ASSUME TypeOK, InHand, PassInv, PlanCreate
    PROVE  RoomToCreate'
  <1>1. rc.d \in DeploymentNames /\ Have < WantNow
    BY DEF PlanCreate, Filtered, InHand
  <1>2. Present(rc.owned) \in SUBSET PodNames /\ \A id \in Present(rc.owned) : id[1] = rc.d
    BY DEF Present, TypeOK, RcOK, InHand
  <1>3. IsFiniteSet(Present(rc.owned)) /\ Have \in Nat
    BY <1>1, <1>2, FewPods DEF Have
  <1>4. Cardinality(Live(rc.d)) <= Have /\ Cardinality(Live(rc.d)) \in Nat
    <2>1. Live(rc.d) \in SUBSET Present(rc.owned)
      BY PlanCreateKeeps
    <2>2. IsFiniteSet(Live(rc.d)) /\ Cardinality(Live(rc.d)) <= Have
      BY <1>3, <2>1, FS_Subset DEF Have
    <2> QED
      BY <2>2, FS_CardinalityType
  <1>5. WantNow \in Nat /\ WantNow <= rc.replicas /\ rc.replicas <= peak[rc.d] /\ peak[rc.d] \in Nat /\ rc.replicas \in Nat
    <2>1. rc.replicas \in Nat /\ peak[rc.d] \in Nat
      BY <1>1 DEF TypeOK, RcOK
    <2>2. rc.replicas <= peak[rc.d]
      BY <1>1, NoneAssumption DEF PassInv, WithinPeak
    <2> QED
      BY <2>1, <2>2 DEF WantNow, Want
  <1>6. Cardinality(rc'.left) <= WantNow - Have /\ Cardinality(rc'.left) \in Nat
    <2> DEFINE F == {i \in Ordinals : rc.owned[<<rc.d, i>>] = None}
    <2>1. WantNow - Have \in Nat
      BY <1>1, <1>3, <1>5
    <2>2. IsFiniteSet(FreeOrdinals) /\ Cardinality(FreeOrdinals) <= WantNow - Have
      <3>1. F \in SUBSET Ordinals
        OBVIOUS
      <3>2. FreeOrdinals = {i \in F : Cardinality({j \in F : j < i}) < WantNow - Have}
        BY DEF FreeOrdinals
      <3> HIDE DEF F
      <3> QED
        BY <2>1, <3>1, <3>2, LowestAreFew
    <2>3. Cardinality(FreeOrdinals) \in Nat
      BY <2>2, FS_CardinalityType
    <2>4. rc'.left = {<<rc.d, i>> : i \in FreeOrdinals}
      BY PlanCreateKeeps
    <2>5. Cardinality(rc'.left) <= Cardinality(FreeOrdinals)
      BY <2>2, <2>4, PodsPerOrdinal
    <2>6. Cardinality(rc'.left) \in Nat
      <3>1. FreeOrdinals \subseteq Ordinals
        BY DEF FreeOrdinals
      <3>2. rc'.left \in SUBSET PodNames /\ \A id \in rc'.left : id[1] = rc.d
        BY <1>1, <2>4, <3>1 DEF PodNames
      <3> QED
        BY <1>1, <3>2, FewPods
    <2> QED
      BY <2>1, <2>2, <2>3, <2>5, <2>6
  <1>7. rc'.d = rc.d /\ UNCHANGED <<pods, late, peak>>
    BY PlanCreateKeeps DEF PlanCreate, registry, history
  <1>8. Cardinality(Live(rc.d)) + Cardinality(rc'.left) <= peak[rc.d]
    BY <1>3, <1>4, <1>5, <1>6
  <1> QED
    BY <1>7, <1>8 DEF RoomToCreate, Live, PodsOf

Counts == RoomToCreate /\ NeverOverprovisions

LEMMA LiveIsFinite ==
    ASSUME NEW d \in DeploymentNames
    PROVE  IsFiniteSet(Live(d)) /\ Cardinality(Live(d)) \in Nat
  <1>1. Live(d) \in SUBSET PodNames /\ \A id \in Live(d) : id[1] = d
    BY DEF Live, PodsOf
  <1> QED
    BY <1>1, FewPods

\* Where no replica appears and no deployment's peak falls, the counts stay within it.
LEMMA ShrinkingKeepsCounts ==
    ASSUME TypeOK, TypeOK', InHand, Counts, NoneAppears,
           \A d \in DeploymentNames : peak[d] <= peak'[d],
           rc'.pc = "create" => rc'.pc = rc.pc /\ rc'.d = rc.d /\ rc'.left = rc.left
    PROVE  Counts'
  <1>1. ASSUME NEW d \in DeploymentNames
        PROVE  /\ Cardinality(Live(d)') <= Cardinality(Live(d))
               /\ Cardinality(Live(d)') \in Nat /\ Cardinality(Live(d)) \in Nat
               /\ peak[d] \in Nat /\ peak'[d] \in Nat /\ peak[d] <= peak'[d]
    <2>1. Live(d)' \in SUBSET Live(d)
      BY LiveShrinks
    <2>2. IsFiniteSet(Live(d)') /\ Cardinality(Live(d)') <= Cardinality(Live(d))
      BY <2>1, LiveIsFinite, FS_Subset
    <2> QED
      BY <2>2, LiveIsFinite, FS_CardinalityType DEF TypeOK
  <1>2. NeverOverprovisions'
    <2>1. ASSUME NEW d \in DeploymentNames
          PROVE  Cardinality(Live(d)') <= peak'[d]
      <3>1. Cardinality(Live(d)) <= peak[d]
        BY DEF Counts, NeverOverprovisions, Live
      <3> QED
        BY <1>1, <3>1
    <2> QED
      BY <2>1 DEF NeverOverprovisions, Live
  <1>3. RoomToCreate'
    <2>1. SUFFICES ASSUME rc'.pc = "create", rc.pc = "create", rc'.d = rc.d, rc'.left = rc.left,
                          NEW d, d = rc.d
                   PROVE  Cardinality(Live(d)') + Cardinality(rc.left) <= peak'[d]
      BY DEF RoomToCreate, Live, PodsOf
    <2>2. d \in DeploymentNames
      BY <2>1 DEF InHand
    <2>3. Cardinality(rc.left) \in Nat
      <3>1. rc.left \in SUBSET PodNames /\ \A id \in rc.left : id[1] = d
        BY <2>1 DEF TypeOK, RcOK, InHand
      <3> QED
        BY <2>2, <3>1, FewPods
    <2>4. Cardinality(Live(d)) + Cardinality(rc.left) <= peak[d]
      BY <2>1 DEF Counts, RoomToCreate
    <2> QED
      BY <1>1, <2>2, <2>3, <2>4
  <1> QED
    BY <1>2, <1>3 DEF Counts

\* A step of the creation loop uses up the room it was planned with.
LEMMA CreatingKeepsCounts ==
    ASSUME TypeOK, TypeOK', InHand, PassInv, Counts, NEW id \in PodNames, CreatePod(id)
    PROVE  Counts'
  <1>1. PICK d \in DeploymentNames : d = rc.d
    BY DEF CreatePod, InHand
  <1>2. /\ Live(d)' \subseteq Live(d) \cup {id} /\ rc'.left = rc.left \ {id} /\ id \notin Live(d)
        /\ id \in rc.left /\ rc'.d = d /\ peak' = peak
        /\ \A e \in DeploymentNames \ {d} : Live(e)' \subseteq Live(e)
    BY <1>1, CreatePodKeeps DEF Live, PodsOf
  <1>3. IsFiniteSet(rc.left) /\ Cardinality(rc.left) \in Nat
    <2>1. rc.left \in SUBSET PodNames /\ \A o \in rc.left : o[1] = d
      BY <1>1 DEF TypeOK, RcOK, InHand
    <2> QED
      BY <2>1, FewPods
  <1>4. Cardinality(rc'.left) = Cardinality(rc.left) - 1 /\ Cardinality(rc'.left) \in Nat
    <2>1. Cardinality(rc.left \ {id}) = Cardinality(rc.left) - 1 /\ IsFiniteSet(rc.left \ {id})
      BY <1>2, <1>3, FS_RemoveElement
    <2> QED
      BY <1>2, <2>1, FS_CardinalityType
  <1>5. /\ Cardinality(Live(d)') <= Cardinality(Live(d)) + 1
        /\ Cardinality(Live(d)') \in Nat /\ Cardinality(Live(d)) \in Nat
    <2>1. IsFiniteSet(Live(d) \cup {id}) /\ Cardinality(Live(d) \cup {id}) = Cardinality(Live(d)) + 1
      BY <1>2, LiveIsFinite, FS_AddElement
    <2>2. IsFiniteSet(Live(d)') /\ Cardinality(Live(d)') <= Cardinality(Live(d) \cup {id})
      BY <1>2, <2>1, FS_Subset
    <2> QED
      BY <2>1, <2>2, LiveIsFinite, FS_CardinalityType
  <1>6. Cardinality(Live(d)) + Cardinality(rc.left) <= peak[d] /\ peak[d] \in Nat
    BY <1>1 DEF Counts, RoomToCreate, CreatePod, TypeOK
  <1>7. Cardinality(Live(d)') + Cardinality(rc'.left) <= peak'[d]
    BY <1>2, <1>3, <1>4, <1>5, <1>6
  <1>8. RoomToCreate'
    BY <1>2, <1>7 DEF RoomToCreate, Live, PodsOf
  <1>9. NeverOverprovisions'
    <2>1. ASSUME NEW e \in DeploymentNames
          PROVE  Cardinality(Live(e)') <= peak'[e]
      <3>1. CASE e = d
        <4>1. Cardinality(Live(d)') <= peak'[d]
          BY <1>2, <1>4, <1>5, <1>6, <1>7
        <4> QED
          BY <3>1, <4>1
      <3>2. CASE e # d
        <4>1. Live(e)' \in SUBSET Live(e)
          BY <1>2, <3>2
        <4>2. IsFiniteSet(Live(e)') /\ Cardinality(Live(e)') <= Cardinality(Live(e)) /\ Cardinality(Live(e)) \in Nat
          BY <4>1, LiveIsFinite, FS_Subset
        <4>3. Cardinality(Live(e)) <= peak[e] /\ peak[e] \in Nat /\ peak'[e] = peak[e]
          BY <1>2 DEF Counts, NeverOverprovisions, Live, TypeOK
        <4>4. Cardinality(Live(e)') \in Nat
          BY <4>2, FS_CardinalityType
        <4> QED
          BY <4>2, <4>3, <4>4
      <3> QED
        BY <3>1, <3>2
    <2> QED
      BY <2>1 DEF NeverOverprovisions, Live
  <1> QED
    BY <1>8, <1>9 DEF Counts

-----------------------------------------------------------------------------
(* The theorems.                                                           *)

Inv == TypeOK /\ InHand /\ PassInv /\ Counts

LEMMA InitInv ==
    ASSUME Init
    PROVE  Inv
  <1>1. RcOK /\ InHand /\ rc.batch = NoBatch /\ rc.d = None /\ rc.vol = None /\ rc.pc \in {"idle", "next"}
    BY BoundsAssumption DEF Init, Between, RcOK, InHand, RcFields, Steps, OrNone, NoPods, PodNames, NoBatch
  <1>2. deployments \in [DeploymentNames -> OrNone(Deployment)]
    BY BoundsAssumption DEF Init, OrNone, Deployment, Status, NoStatus
  <1>3. asked \in [DeploymentNames -> 0 .. MaxReplicas] /\ peak = asked
    BY <1>2, BoundsAssumption DEF Init, OrNone, Deployment
  <1>4. TypeOK
    BY <1>1, <1>2, <1>3 DEF Init, TypeOK, CallsOK, OrNone, NoPods, Volume
  <1>5. \A d \in DeploymentNames : deployments[d] # None => asked[d] = deployments[d].replicas
    BY DEF Init
  <1>6. PassInv
    <2>1. Seen /\ NamesAreFree /\ PutIsExplained /\ ClaimIsFree
      BY <1>1 DEF Seen, NamesAreFree, PutIsExplained, ClaimIsFree
    <2>2. ClobberIsExplained
      BY <1>5 DEF ClobberIsExplained
    <2>3. WithinPeak
      BY <1>1, <1>2, <1>3, <1>5 DEF WithinPeak, NoBatch, OrNone, Deployment
    <2> QED
      BY <2>1, <2>2, <2>3 DEF PassInv
  <1>7. Counts
    <2>1. \A d \in DeploymentNames : PodsOf(d) \ late = {}
      BY DEF Init, PodsOf, NoPods
    <2>2. NeverOverprovisions
      BY <1>3, <2>1, FS_EmptySet DEF NeverOverprovisions
    <2>3. RoomToCreate
      BY <1>1 DEF RoomToCreate
    <2> QED
      BY <2>2, <2>3 DEF Counts
  <1> QED
    BY <1>1, <1>4, <1>6, <1>7 DEF Inv

\* The steps of a pass, failures included, grouped by what they write.
Reads ==
    \/ Tick \/ \E d \in DeploymentNames : ReconcileOne(d)
    \/ PlanCreate \/ PlanDelete \/ Relist \/ ListUsage \/ BuildNodeCandidates
    \/ \E v \in Volumes : ResolveVolumeNode(v)
PodWrites ==
    \E id \in PodNames :
        \/ FilterOwned(id) \/ Evict(id) \/ CreatePod(id) \/ RemovePod(id) \/ StillPending(id)
        \/ SchedulePod(id) \/ ScheduleFails(id)
Claims == StartClaim \/ (\E v \in Volumes : ClaimGet(v)) \/ ClaimPut \/ ClaimFails
Updates == StatusGet \/ StatusPut \/ WriteFails

LEMMA NextCases ==
    ASSUME Next
    PROVE  Reads \/ PodWrites \/ Claims \/ Updates \/ Handlers
  <1>1. CASE Controller
    BY <1>1 DEF Controller, Reads, PodWrites, Claims, Updates
  <1>2. CASE Failure
    BY <1>2 DEF Failure, PodWrites, Claims, Updates, Handlers
  <1>3. CASE Calls \/ Returns \/ Agents
    BY <1>3 DEF Handlers
  <1> QED
    BY <1>1, <1>2, <1>3 DEF Next

LEMMA ReadsKeep ==
    ASSUME Inv, Reads
    PROVE  Inv'
  <1>1. /\ RcOK' /\ InHand'
    BY TickTypes, ReconcileOneTypes, PlanTypes, ListingTypes, ResolveTypes DEF Inv, Reads
  <1>2. UNCHANGED <<registry, calls, ops, history>>
    BY DEF Reads, Tick, ReconcileOne, PlanCreate, PlanDelete, Relist, ListUsage, BuildNodeCandidates,
           ResolveVolumeNode
  <1>3. TypeOK'
    BY <1>1, <1>2 DEF Inv, TypeOK, CallsOK, registry, calls, history
  <1>4. PassInv'
    <2>1. CASE PlanDelete \/ ListUsage \/ BuildNodeCandidates
      BY <2>1, WorkKeeps DEF Inv
    <2> QED
      BY <2>1, TickKeeps, ReconcileOneKeeps, PlanCreateKeeps, RelistKeeps, ResolveKeeps DEF Inv, Reads
  <1>5. Counts'
    <2>1. CASE PlanCreate
      <3>1. RoomToCreate'
        BY <2>1, PlanHasRoom DEF Inv
      <3>2. NeverOverprovisions'
        BY <1>2 DEF Inv, Counts, NeverOverprovisions, PodsOf, registry, history
      <3> QED
        BY <3>1, <3>2 DEF Counts
    <2>2. CASE ~PlanCreate
      <3>1. NoneAppears /\ \A d \in DeploymentNames : peak[d] <= peak'[d]
        BY <1>2 DEF NoneAppears, Inv, TypeOK, registry, history
      <3>2. rc'.pc = "create" => rc'.pc = rc.pc /\ rc'.d = rc.d /\ rc'.left = rc.left
        <4>1. CASE Tick
          BY <4>1, BetweenOK DEF Tick, Between
        <4>2. ASSUME NEW d \in DeploymentNames, ReconcileOne(d)
              PROVE  rc'.pc # "create"
          BY <4>2 DEF ReconcileOne, Between
        <4>5. ASSUME NEW v \in Volumes, ResolveVolumeNode(v)
              PROVE  rc'.pc = rc.pc /\ rc'.d = rc.d /\ rc'.left = rc.left
          BY <4>5, ResolveTypes DEF Inv
        <4>3. CASE PlanDelete \/ ListUsage \/ BuildNodeCandidates
          BY <4>3, WorkKeeps DEF Inv
        <4>4. CASE Relist
          BY <4>4 DEF Relist, Inv, TypeOK, RcOK, RcFields
        <4> QED
          BY <2>2, <4>1, <4>2, <4>3, <4>4, <4>5 DEF Reads
      <3> QED
        BY <1>3, <3>1, <3>2, ShrinkingKeepsCounts DEF Inv
    <2> QED
      BY <2>1, <2>2
  <1> QED
    BY <1>1, <1>3, <1>4, <1>5 DEF Inv

LEMMA PodWritesKeep ==
    ASSUME Inv, PodWrites
    PROVE  Inv'
  <1>1. PICK id \in PodNames :
            \/ FilterOwned(id) \/ Evict(id) \/ CreatePod(id) \/ RemovePod(id) \/ StillPending(id)
            \/ SchedulePod(id) \/ ScheduleFails(id)
    BY DEF PodWrites
  <1>2. RcOK' /\ InHand' /\ pods' \in [PodNames -> OrNone(Pod)] /\ late' \in SUBSET PodNames
    BY <1>1, FilterOwnedTypes, LoopTypes, ScheduleTypes DEF Inv
  <1>3. UNCHANGED <<deployments, volumes, calls, asked, raced, peak>>
    BY <1>1 DEF FilterOwned, Evict, CreatePod, RemovePod, StillPending, SchedulePod, PutScheduled, ScheduleFails,
                registry, history
  <1>4. TypeOK'
    BY <1>2, <1>3 DEF Inv, TypeOK, CallsOK, calls
  <1>5. PassInv'
    <2>1. CASE RemovePod(id) \/ StillPending(id) \/ SchedulePod(id) \/ ScheduleFails(id)
      BY <2>1, WorkKeeps DEF Inv
    <2> QED
      BY <1>1, <2>1, FilterOwnedKeeps, CreatePodKeeps DEF Inv
  <1>6. Counts'
    <2>1. CASE CreatePod(id)
      BY <1>4, <2>1, CreatingKeepsCounts DEF Inv
    <2>2. CASE ~CreatePod(id)
      <3>1. rc'.pc # "create"
        <4>1. CASE FilterOwned(id) \/ Evict(id)
          BY <4>1, FilterOwnedKeeps DEF Inv
        <4>2. CASE RemovePod(id) \/ StillPending(id) \/ SchedulePod(id) \/ ScheduleFails(id)
          BY <4>2, WorkKeeps DEF Inv
        <4> QED
          BY <1>1, <2>2, <4>1, <4>2
      <3>2. NoneAppears
        <4>1. CASE ScheduleFails(id)
          BY <4>1 DEF ScheduleFails, NoneAppears, registry, history
        <4>2. CASE ~ScheduleFails(id)
          <5>1. Controller
            BY <1>1, <2>2, <4>2 DEF Controller
          <5>2. \A o \in PodNames : ~CreatePod(o)
            BY <1>1, <2>2, <4>2 DEF CreatePod, FilterOwned, Evict, RemovePod, StillPending, SchedulePod
          <5> QED
            BY <5>1, <5>2, ControllerAppears DEF Inv
        <4> QED
          BY <4>1, <4>2
      <3>3. \A d \in DeploymentNames : peak[d] <= peak'[d]
        BY <1>3 DEF Inv, TypeOK
      <3> QED
        BY <1>4, <3>1, <3>2, <3>3, ShrinkingKeepsCounts DEF Inv
    <2> QED
      BY <2>1, <2>2
  <1> QED
    BY <1>2, <1>4, <1>5, <1>6 DEF Inv

LEMMA ClaimsKeep ==
    ASSUME Inv, Claims
    PROVE  Inv'
  <1>1. RcOK' /\ InHand' /\ volumes' \in [Volumes -> OrNone(Volume)]
    BY ClaimTypes DEF Inv, Claims
  <1>2. UNCHANGED <<deployments, pods, calls, history>>
    BY DEF Claims, StartClaim, ClaimGet, ClaimPut, ClaimFails, registry
  <1>3. TypeOK'
    BY <1>1, <1>2 DEF Inv, TypeOK, CallsOK, calls, history
  <1>4. PassInv' /\ rc'.pc # "create"
    BY ClaimKeeps DEF Inv, Claims
  <1>5. NoneAppears /\ \A d \in DeploymentNames : peak[d] <= peak'[d]
    BY <1>2 DEF NoneAppears, Inv, TypeOK, history
  <1> QED
    BY <1>1, <1>3, <1>4, <1>5, ShrinkingKeepsCounts DEF Inv

LEMMA UpdatesKeep ==
    ASSUME Inv, Updates
    PROVE  Inv'
  <1>1. RcOK' /\ InHand' /\ deployments' \in [DeploymentNames -> OrNone(Deployment)]
    BY StatusTypes DEF Inv, Updates
  <1>2. UNCHANGED <<pods, volumes, calls, history>>
    BY DEF Updates, StatusGet, StatusPut, WriteFails, registry
  <1>3. TypeOK'
    BY <1>1, <1>2 DEF Inv, TypeOK, CallsOK, calls, history
  <1>4. PassInv' /\ rc'.pc # "create"
    BY StatusKeeps DEF Inv, Updates
  <1>5. NoneAppears /\ \A d \in DeploymentNames : peak[d] <= peak'[d]
    BY <1>2 DEF NoneAppears, Inv, TypeOK, history
  <1> QED
    BY <1>1, <1>3, <1>4, <1>5, ShrinkingKeepsCounts DEF Inv

LEMMA HandlersKeepInv ==
    ASSUME Inv, Handlers
    PROVE  Inv'
  <1>1. TypeOK' /\ rc' = rc /\ NoneAppears
    BY HandlersTypes, HandlersAppear DEF Inv
  <1>2. InHand'
    BY <1>1 DEF Inv, InHand
  <1>3. PassInv' /\ \A d \in DeploymentNames : peak[d] <= peak'[d]
    BY HandlersKeep DEF Inv
  <1> QED
    BY <1>1, <1>2, <1>3, ShrinkingKeepsCounts DEF Inv

LEMMA StepInv ==
    ASSUME Inv, [Next]_vars
    PROVE  Inv'
  <1>1. CASE Next
    BY <1>1, NextCases, ReadsKeep, PodWritesKeep, ClaimsKeep, UpdatesKeep, HandlersKeepInv
  <1>2. CASE UNCHANGED vars
    <2>1. TypeOK' /\ InHand'
      BY <1>2 DEF Inv, vars, TypeOK, RcOK, CallsOK, InHand
    <2>2. PassInv'
      BY <1>2 DEF Inv, vars, PassInv, Seen, NamesAreFree, WithinPeak, PutIsExplained, ClaimIsFree,
                  ClobberIsExplained, Live, PodsOf
    <2>3. Counts'
      BY <1>2 DEF Inv, vars, Counts, RoomToCreate, NeverOverprovisions, Live, PodsOf
    <2> QED
      BY <2>1, <2>2, <2>3 DEF Inv
  <1> QED
    BY <1>1, <1>2

(***************************************************************************)
(* The inductive invariant: the types, and what a pass in hand relies on.  *)
(***************************************************************************)
THEOREM Invariance == Spec => []Inv
  <1>1. Init => Inv
    BY InitInv
  <1>2. Inv /\ [Next]_vars => Inv'
    BY StepInv
  <1> QED
    BY <1>1, <1>2, PTL DEF Spec

(***************************************************************************)
(* Every object in the registry, every copy a handler holds and every      *)
(* local variable of a pass is of its type; a deployment's status never    *)
(* counts more pods than a deployment can have.                            *)
(***************************************************************************)
THEOREM TypeCorrectness == Spec => []TypeOK
  BY Invariance, PTL DEF Inv

(***************************************************************************)
(* A deployment never has more pods than were ever asked for at once, not  *)
(* counting pods a stale copy brought back: the creation loop fills the    *)
(* free ordinals a filtered listing left, and no handler creates a pod.    *)
(***************************************************************************)
THEOREM Overprovisioning == Spec => []NeverOverprovisions
  BY Invariance, PTL DEF Inv, Counts

(***************************************************************************)
(* A deployment has the replicas last asked for, unless they were asked    *)
(* for between the re-fetch and the Put of a status update.                *)
(***************************************************************************)
THEOREM ClobberExplained == Spec => []ClobberIsExplained
  BY Invariance, PTL DEF Inv, PassInv

(***************************************************************************)
(* The creation loop never overwrites a replica that is still there.       *)
(***************************************************************************)
THEOREM NoOverwrites == Spec => CreateNeverOverwrites
  <1>1. ASSUME Inv, [Next]_vars
        PROVE  [ \A id \in PodNames : CreatePod(id) => pods[id] = None \/ id \in late ]_vars
    <2>1. ASSUME NEW id \in PodNames, CreatePod(id)
          PROVE  pods[id] = None \/ id \in late
      <3>1. id \in rc.left /\ id \notin Live(rc.d)
        BY <1>1, <2>1, CreatePodKeeps DEF Inv
      <3>2. id[1] = rc.d
        BY <1>1, <3>1 DEF Inv, InHand
      <3> QED
        BY <3>1, <3>2 DEF Live, PodsOf
    <2> QED
      BY <2>1
  <1> QED
    BY <1>1, Invariance, PTL DEF Spec, CreateNeverOverwrites

(***************************************************************************)
(* The controller never moves a claim to another node or owner: the volume *)
(* it claims was free when it was read, and nobody else claims.            *)
(***************************************************************************)
THEOREM ClaimsPermanent == Spec => ClaimsArePermanent
  <1> DEFINE A == \A v \in Volumes :
                    volumes[v] # None /\ volumes[v].node # None =>
                      volumes'[v] = volumes[v] \/ \E u \in Volumes : CreateVolume(u) \/ DeleteVolume(u)
  <1>1. ASSUME Inv, [Next]_vars
        PROVE  [A]_vars
    <2>1. CASE UNCHANGED volumes
      BY <2>1
    <2>2. CASE ClaimPut
      BY <1>1, <2>2 DEF ClaimPut, Inv, TypeOK, PassInv, ClaimIsFree
    <2>3. CASE Claims
      <3>1. UNCHANGED volumes \/ ClaimPut
        BY <2>3 DEF Claims, StartClaim, ClaimGet, ClaimFails, registry
      <3> QED
        BY <2>1, <2>2, <3>1
    <2>4. CASE Handlers
      BY <1>1, <2>1, <2>4, HandlersEffect DEF Inv
    <2>5. CASE Reads
      <3>1. UNCHANGED volumes
        BY <2>5 DEF Reads, Tick, ReconcileOne, PlanCreate, PlanDelete, Relist, ListUsage, BuildNodeCandidates,
                    ResolveVolumeNode, registry
      <3> QED
        BY <2>1, <3>1
    <2>6. CASE PodWrites
      <3>1. UNCHANGED volumes
        BY <2>6 DEF PodWrites, FilterOwned, Evict, CreatePod, RemovePod, StillPending, SchedulePod, PutScheduled,
                    ScheduleFails, registry
      <3> QED
        BY <2>1, <3>1
    <2>7. CASE Updates
      <3>1. UNCHANGED volumes
        BY <2>7 DEF Updates, StatusGet, StatusPut, WriteFails, registry
      <3> QED
        BY <2>1, <3>1
    <2> QED
      BY <1>1, <2>3, <2>4, <2>5, <2>6, <2>7, NextCases
  <1> QED
    BY <1>1, Invariance, PTL DEF Spec, ClaimsArePermanent

-----------------------------------------------------------------------------
(* The scheduler's loop, for any list of candidates.  Each induction is    *)
(* over a least counterexample.                                            *)

\* The loop of Schedule over a list: what it holds after each candidate.
Start == [score |-> -1, name |-> NoNode]
Loop(req, list, k, g) ==
    g = [i \in 0 .. k |-> IF i = 0 THEN Start ELSE Consider(req, list[i], g[i - 1])]

\* A set of numbers that has one has a least one.
LEMMA LeastNumber ==
    ASSUME NEW T \in SUBSET Nat, T # {}
    PROVE  \E m \in T : \A n \in T : m <= n
  <1> DEFINE R == OpToRel(<, Nat)
  <1>1. IsWellFoundedOn(R, Nat)
    BY NatLessThanWellFounded
  <1>2. \A m, n \in Nat : <<m, n>> \in R <=> m < n
    BY DEF OpToRel
  <1> HIDE DEF R
  <1>3. PICK m \in T : \A n \in T : ~(<<n, m>> \in R)
    BY <1>1, WFMin
  <1>4. ASSUME NEW n \in T PROVE m <= n
    <2>1. m \in Nat /\ n \in Nat
      OBVIOUS
    <2>2. ~(n < m)
      BY <1>2, <1>3, <2>1
    <2> QED
      BY <2>1, <2>2
  <1> QED
    BY <1>4

LEMMA LoopExists ==
    ASSUME NEW req, NEW list, NEW n \in Nat
    PROVE  \E g : Loop(req, list, n, g)
  <1> DEFINE T == {k \in Nat : ~\E g : Loop(req, list, k, g)}
  <1>1. SUFFICES ASSUME T # {} PROVE FALSE
    OBVIOUS
  <1>2. PICK k \in T : \A j \in T : k <= j
    BY <1>1, LeastNumber
  <1>3. k # 0
    <2>1. Loop(req, list, 0, [i \in 0 .. 0 |-> Start])
      BY DEF Loop
    <2> QED
      BY <2>1
  <1>4. k - 1 \in Nat /\ k - 1 \notin T
    BY <1>2, <1>3
  <1>5. PICK g : Loop(req, list, k - 1, g)
    BY <1>4
  <1> DEFINE h == [i \in 0 .. k |-> IF i = k THEN Consider(req, list[k], g[k - 1]) ELSE g[i]]
  <1>6. \A i \in 0 .. k : h[i] = IF i = 0 THEN Start ELSE Consider(req, list[i], h[i - 1])
    BY <1>3, <1>5 DEF Loop
  <1>7. Loop(req, list, k, h)
    BY <1>6 DEF Loop
  <1> QED
    BY <1>2, <1>7

\* What Schedule returns is the name in the last of them.
LEMMA ScheduleLoops ==
    ASSUME NEW req, NEW list, Len(list) \in Nat
    PROVE  \E g : Loop(req, list, Len(list), g) /\ Schedule(req, list) = g[Len(list)].name
  <1> DEFINE n == Len(list)
             g == CHOOSE g : Loop(req, list, n, g)
  <1>1. Loop(req, list, n, g)
    BY LoopExists
  <1>2. Schedule(req, list) = g[n].name
    BY DEF Schedule, Loop, Start
  <1> QED
    BY <1>1, <1>2

\* The candidates the loop may choose, and the one it has chosen after k of them.
Eligible(req, c) == Fits(req, c) /\ Score(c) > -1
Chosen(req, list, k, best) ==
    \/ /\ best = Start
       /\ \A i \in 1 .. k : ~Eligible(req, list[i])
    \/ \E j \in 1 .. k :
          /\ Eligible(req, list[j])
          /\ best = [score |-> Score(list[j]), name |-> list[j].name]
          /\ \A i \in 1 .. k : Eligible(req, list[i]) => Score(list[i]) <= Score(list[j])
          /\ \A i \in 1 .. j - 1 : Eligible(req, list[i]) => Score(list[i]) < Score(list[j])

LEMMA Chooses ==
    ASSUME NEW req, NEW list, NEW k \in Nat, NEW best, Chosen(req, list, k, best),
           \A i \in 1 .. k + 1 : Score(list[i]) \in Int
    PROVE  Chosen(req, list, k + 1, Consider(req, list[k + 1], best))
  <1> DEFINE c == list[k + 1]
             next == Consider(req, c, best)
             sc(i) == Score(list[i])
             el(i) == Eligible(req, list[i])
  <1>0. sc(k + 1) \in Int /\ \A i \in 1 .. k : sc(i) \in Int
    OBVIOUS
  <1>1. ASSUME best = Start, \A i \in 1 .. k : ~el(i)
        PROVE  Chosen(req, list, k + 1, next)
    <2>1. CASE el(k + 1)
      <3>1. next = [score |-> sc(k + 1), name |-> c.name]
        BY <1>1, <2>1 DEF Consider, Start, Eligible
      <3> QED
        BY <1>0, <1>1, <2>1, <3>1 DEF Chosen
    <2>2. CASE ~el(k + 1)
      <3>1. next = Start
        BY <1>1, <2>2 DEF Consider, Start, Eligible
      <3> QED
        BY <1>1, <2>2, <3>1 DEF Chosen
    <2> QED
      BY <2>1, <2>2
  <1>2. ASSUME NEW j \in 1 .. k, el(j), best = [score |-> sc(j), name |-> list[j].name],
               \A i \in 1 .. k : el(i) => sc(i) <= sc(j),
               \A i \in 1 .. j - 1 : el(i) => sc(i) < sc(j)
        PROVE  Chosen(req, list, k + 1, next)
    <2>0. sc(j) > -1 /\ best.score = sc(j)
      BY <1>2 DEF Eligible
    <2>1. CASE el(k + 1) /\ sc(k + 1) > sc(j)
      <3>1. next = [score |-> sc(k + 1), name |-> c.name]
        BY <2>0, <2>1 DEF Consider, Eligible
      <3>2. \A i \in 1 .. k : el(i) => sc(i) < sc(k + 1)
        BY <1>0, <1>2, <2>1
      <3> QED
        BY <1>0, <2>1, <3>1, <3>2 DEF Chosen
    <2>2. CASE ~(el(k + 1) /\ sc(k + 1) > sc(j))
      <3>1. next = best
        BY <1>0, <2>0, <2>2 DEF Consider, Eligible
      <3>2. \A i \in 1 .. k + 1 : el(i) => sc(i) <= sc(j)
        BY <1>0, <1>2, <2>2
      <3> QED
        BY <1>2, <3>1, <3>2 DEF Chosen
    <2> QED
      BY <2>1, <2>2
  <1>3. \/ best = Start /\ \A i \in 1 .. k : ~el(i)
        \/ \E j \in 1 .. k :
              /\ el(j)
              /\ best = [score |-> sc(j), name |-> list[j].name]
              /\ \A i \in 1 .. k : el(i) => sc(i) <= sc(j)
              /\ \A i \in 1 .. j - 1 : el(i) => sc(i) < sc(j)
    BY DEF Chosen
  <1> HIDE DEF sc, el, next, c
  <1>4. Chosen(req, list, k + 1, next)
    BY <1>1, <1>2, <1>3
  <1> QED
    BY <1>4 DEF next, c

LEMMA LoopChooses ==
    ASSUME NEW req, NEW list, NEW n \in Nat, NEW g, Loop(req, list, n, g),
           \A i \in 1 .. n : Score(list[i]) \in Int
    PROVE  Chosen(req, list, n, g[n])
  <1> DEFINE T == {k \in 0 .. n : ~Chosen(req, list, k, g[k])}
  <1>1. SUFFICES ASSUME T # {} PROVE FALSE
    OBVIOUS
  <1>2. PICK k \in T : \A j \in T : k <= j
    <2>1. T \in SUBSET Nat
      OBVIOUS
    <2> QED
      BY <1>1, <2>1, LeastNumber
  <1>3. k # 0
    <2>1. g[0] = Start
      BY DEF Loop
    <2> QED
      BY <2>1 DEF Chosen
  <1>4. k - 1 \in Nat /\ k - 1 \in 0 .. n /\ k - 1 \notin T
    BY <1>2, <1>3
  <1>5. Chosen(req, list, k - 1, g[k - 1])
    BY <1>4
  <1>6. g[k] = Consider(req, list[k], g[k - 1])
    BY <1>3 DEF Loop
  <1>7. (k - 1) + 1 = k
    OBVIOUS
  <1>8. Chosen(req, list, k, Consider(req, list[k], g[k - 1]))
    BY <1>4, <1>5, <1>7, Chooses
  <1> QED
    BY <1>2, <1>6, <1>8

\* So Schedule returns a best node of any list, and the first of several.
LEMMA ScheduleChooses ==
    ASSUME NEW req, NEW list, Len(list) \in Nat,
           \A i \in 1 .. Len(list) : Score(list[i]) \in Int
    PROVE  \E best : Chosen(req, list, Len(list), best) /\ Schedule(req, list) = best.name
  BY ScheduleLoops, LoopChooses

\* A finite set can be listed beginning with any of its elements.
LEMMA ListingFrom ==
    ASSUME NEW S, IsFiniteSet(S), NEW c \in S
    PROVE  \E s \in Listings(S) : s[1] = c /\ Cardinality(S) >= 1
  <1> DEFINE U == S \ {c}
  <1>1. IsFiniteSet(U) /\ Cardinality(U) = Cardinality(S) - 1 /\ Cardinality(S) \in Nat /\ Cardinality(U) \in Nat
    BY FS_RemoveElement, FS_CardinalityType
  <1>2. PICK f : f \in Bijection(1 .. Cardinality(U), U)
    BY <1>1, FS_NatBijection, FS_CardinalityType DEF ExistsBijection
  <1> DEFINE n == Cardinality(S)
             s == [i \in 1 .. n |-> IF i = 1 THEN c ELSE f[i - 1]]
  <1>3. f \in [1 .. n - 1 -> U] /\ \A u \in U : \E i \in 1 .. n - 1 : f[i] = u
    BY <1>1, <1>2 DEF Bijection, Injection, Surjection
  <1> HIDE DEF U
  <1>4. s \in [1 .. n -> S] /\ s[1] = c
    BY <1>1, <1>3 DEF U
  <1>5. ASSUME NEW u \in S PROVE \E i \in 1 .. n : s[i] = u
    <2>1. CASE u = c
      BY <1>1, <1>4, <2>1
    <2>2. CASE u # c
      <3>1. PICK i \in 1 .. n - 1 : f[i] = u
        BY <1>3, <2>2 DEF U
      <3>2. i + 1 \in 1 .. n /\ i + 1 # 1 /\ (i + 1) - 1 = i
        BY <1>1
      <3> QED
        BY <3>1, <3>2
    <2> QED
      BY <2>1, <2>2
  <1> QED
    BY <1>1, <1>4, <1>5 DEF Listings

LEMMA EmptyListing == Listings({}) # {}
  <1>1. Cardinality({}) = 0
    BY FS_EmptySet
  <1>2. [i \in 1 .. 0 |-> {}] \in [1 .. 0 -> {}]
    OBVIOUS
  <1> QED
    BY <1>1, <1>2 DEF Listings

LEMMA Fitting ==
    ASSUME NEW req, req.cpu \in Int, req.mem \in Int, req.cpu + req.mem >= 0, NEW c,
           FreeCPU(c) \in Int, FreeMem(c) \in Int
    PROVE  Score(c) \in Int /\ (Eligible(req, c) <=> Fits(req, c))
  BY DEF Eligible, Fits, Score

(***************************************************************************)
(* scheduler.go, for every request that is not negative altogether and     *)
(* every finite set of candidates: over all orders in which the registry   *)
(* may list them, Schedule returns the fitting nodes with the most free    *)
(* CPU and memory, each in some order, and fails exactly when the pod fits *)
(* on none.  BestNodes, from which the controller's placements are drawn,  *)
(* is exactly that set.                                                    *)
(***************************************************************************)
THEOREM SchedulingExact ==
    ASSUME NEW req, req.cpu \in Int, req.mem \in Int, req.cpu + req.mem >= 0,
           NEW cands, IsFiniteSet(cands),
           \A c \in cands : FreeCPU(c) \in Int /\ FreeMem(c) \in Int
    PROVE  BestFit(req, cands)
  <1> DEFINE fitting == {c \in cands : Fits(req, c)}
             tops == {m \in fitting : \A o \in fitting : Score(o) <= Score(m)}
             best == {c.name : c \in tops}
             results == {Schedule(req, s) : s \in Listings(cands)}
  <1>1. \A c \in cands : Score(c) \in Int /\ (Eligible(req, c) <=> Fits(req, c))
    BY Fitting
  <1>2. {c \in cands : Fits(req, c) /\ Score(c) > -1} = fitting
    BY <1>1 DEF Eligible
  <1>3. BestNodes(req, cands) = best
    BY <1>2 DEF BestNodes
  <1>4. ASSUME NEW s \in Listings(cands)
        PROVE  \/ fitting = {} /\ Schedule(req, s) = NoNode
               \/ \E j \in 1 .. Len(s) :
                     /\ s[j] \in tops
                     /\ Schedule(req, s) = s[j].name
                     /\ \A i \in 1 .. j - 1 : s[i] \in fitting => Score(s[i]) < Score(s[j])
    <2>1. /\ Cardinality(cands) \in Nat
          /\ s \in [1 .. Cardinality(cands) -> cands]
          /\ \A c \in cands : \E i \in 1 .. Cardinality(cands) : s[i] = c
      BY FS_CardinalityType DEF Listings
    <2>2. Len(s) = Cardinality(cands)
      BY <2>1
    <2>3. \A i \in 1 .. Len(s) : s[i] \in cands /\ Score(s[i]) \in Int
      BY <1>1, <2>1, <2>2
    <2>4. PICK b : Chosen(req, s, Len(s), b) /\ Schedule(req, s) = b.name
      <3>1. Len(s) \in Nat
        BY <2>1, <2>2
      <3>2. \A i \in 1 .. Len(s) : Score(s[i]) \in Int
        BY <2>3
      <3> HIDE DEF fitting, tops, best, results
      <3> QED
        BY <3>1, <3>2, ScheduleChooses
    <2>5. CASE b = Start /\ \A i \in 1 .. Len(s) : ~Eligible(req, s[i])
      <3>1. fitting = {}
        BY <1>1, <2>1, <2>2, <2>5
      <3> QED
        BY <2>4, <2>5, <3>1 DEF Start
    <2>6. CASE \E j \in 1 .. Len(s) :
                 /\ Eligible(req, s[j])
                 /\ b = [score |-> Score(s[j]), name |-> s[j].name]
                 /\ \A i \in 1 .. Len(s) : Eligible(req, s[i]) => Score(s[i]) <= Score(s[j])
                 /\ \A i \in 1 .. j - 1 : Eligible(req, s[i]) => Score(s[i]) < Score(s[j])
      <3>1. PICK j \in 1 .. Len(s) :
                 /\ Eligible(req, s[j])
                 /\ b = [score |-> Score(s[j]), name |-> s[j].name]
                 /\ \A i \in 1 .. Len(s) : Eligible(req, s[i]) => Score(s[i]) <= Score(s[j])
                 /\ \A i \in 1 .. j - 1 : Eligible(req, s[i]) => Score(s[i]) < Score(s[j])
        BY <2>6
      <3>2. s[j] \in fitting
        BY <1>1, <2>3, <3>1
      <3>3. \A o \in fitting : Score(o) <= Score(s[j])
        BY <1>1, <2>1, <2>2, <3>1
      <3>4. Schedule(req, s) = s[j].name
        BY <2>4, <3>1
      <3>5. \A i \in 1 .. j - 1 : s[i] \in fitting => Score(s[i]) < Score(s[j])
        BY <1>1, <2>3, <3>1
      <3> QED
        BY <3>2, <3>3, <3>4, <3>5
    <2> QED
      BY <2>4, <2>5, <2>6 DEF Chosen
  <1>5. Listings(cands) # {}
    BY EmptyListing, ListingFrom
  <1> HIDE DEF fitting
  <1>6. CASE fitting = {}
    <2>1. best = {}
      BY <1>6
    <2>2. \A s \in Listings(cands) : Schedule(req, s) = NoNode
      BY <1>4, <1>6
    <2>3. results = {NoNode}
      BY <1>5, <2>2
    <2> QED
      BY <1>3, <2>1, <2>3 DEF BestFit, fitting
  <1>7. CASE fitting # {}
    <2>1. PICK s0 \in Listings(cands) : TRUE
      BY <1>5
    <2>2. best # {}
      BY <1>4, <1>7, <2>1
    <2>3. \A s \in Listings(cands) : Schedule(req, s) \in best
      BY <1>4, <1>7
    <2>4. ASSUME NEW c \in tops PROVE c.name \in results
      <3>1. c \in cands /\ c \in fitting
        BY DEF fitting
      <3>2. PICK s \in Listings(cands) : s[1] = c
        BY <3>1, ListingFrom
      <3>3. PICK j \in 1 .. Len(s) :
                     /\ s[j] \in tops
                     /\ Schedule(req, s) = s[j].name
                     /\ \A i \in 1 .. j - 1 : s[i] \in fitting => Score(s[i]) < Score(s[j])
        BY <1>4, <1>7
      <3>4. s[j] \in fitting /\ Score(s[j]) <= Score(c)
        BY <3>3
      <3>5. Score(c) \in Int /\ Score(s[j]) \in Int
        BY <1>1, <3>1, <3>4 DEF fitting
      <3>6. j = 1
        BY <3>1, <3>2, <3>3, <3>4, <3>5
      <3> QED
        BY <3>2, <3>3, <3>6
    <2>5. results = best
      BY <2>3, <2>4
    <2> QED
      BY <1>3, <2>2, <2>5 DEF BestFit, fitting
  <1> QED
    BY <1>6, <1>7

-----------------------------------------------------------------------------
(* The autoscaler's sums.                                                  *)

\* The loop of computeClusterCapacity over what is free of one resource.
Adding(free, n, g) == g = [i \in 0 .. n |-> IF i = 0 THEN 0 ELSE g[i - 1] + free[i]]

LEMMA AddingExists ==
    ASSUME NEW free, NEW n \in Nat
    PROVE  \E g : Adding(free, n, g)
  <1> DEFINE T == {k \in Nat : ~\E g : Adding(free, k, g)}
  <1>1. SUFFICES ASSUME T # {} PROVE FALSE
    OBVIOUS
  <1>2. PICK k \in T : \A j \in T : k <= j
    BY <1>1, LeastNumber
  <1>3. k # 0
    <2>1. Adding(free, 0, [i \in 0 .. 0 |-> 0])
      BY DEF Adding
    <2> QED
      BY <2>1
  <1>4. k - 1 \in Nat /\ k - 1 \notin T
    BY <1>2, <1>3
  <1>5. PICK g : Adding(free, k - 1, g)
    BY <1>4
  <1> DEFINE h == [i \in 0 .. k |-> IF i = k THEN g[k - 1] + free[k] ELSE g[i]]
  <1>6. \A i \in 0 .. k : h[i] = IF i = 0 THEN 0 ELSE h[i - 1] + free[i]
    BY <1>3, <1>5 DEF Adding
  <1>7. Adding(free, k, h)
    BY <1>6 DEF Adding
  <1> QED
    BY <1>2, <1>7

LEMMA RemainingAdds ==
    ASSUME NEW free, Len(free) \in Nat
    PROVE  \E g : Adding(free, Len(free), g) /\ Remaining(free) = g[Len(free)]
  <1> DEFINE n == Len(free)
             g == CHOOSE g : Adding(free, n, g)
  <1>1. Adding(free, n, g)
    BY AddingExists
  <1>2. Remaining(free) = g[n]
    BY DEF Remaining, Adding
  <1> QED
    BY <1>1, <1>2

\* One step of the loop, and where it starts.
LEMMA AddingSteps ==
    ASSUME NEW free, NEW n \in Nat, NEW g, Adding(free, n, g)
    PROVE  g[0] = 0 /\ \A i \in 1 .. n : g[i] = g[i - 1] + free[i]
  BY DEF Adding

LEMMA SumIsInt ==
    ASSUME NEW free \in Seq(Int)
    PROVE  Remaining(free) \in Int
  <1> DEFINE n == Len(free)
  <1>0. n \in Nat /\ \A i \in 1 .. n : free[i] \in Int
    OBVIOUS
  <1>1. PICK g : Adding(free, n, g) /\ Remaining(free) = g[n]
    BY <1>0, RemainingAdds
  <1>2. g[0] = 0 /\ \A i \in 1 .. n : g[i] = g[i - 1] + free[i]
    BY <1>0, <1>1, AddingSteps
  <1> DEFINE T == {k \in 0 .. n : g[k] \notin Int}
  <1> HIDE DEF n
  <1>3. SUFFICES ASSUME T # {} PROVE FALSE
    BY <1>0, <1>1
  <1>4. PICK k \in T : \A j \in T : k <= j
    <2>1. T \in SUBSET Nat
      BY <1>0
    <2> QED
      BY <1>3, <2>1, LeastNumber
  <1>5. k \in 0 .. n /\ k # 0 /\ k - 1 \notin T /\ k - 1 \in 0 .. n /\ k \in 1 .. n
    BY <1>0, <1>2, <1>4
  <1> QED
    BY <1>0, <1>2, <1>4, <1>5

LEMMA SumIsNat ==
    ASSUME NEW free \in Seq(Int), \A i \in 1 .. Len(free) : free[i] >= 0
    PROVE  Remaining(free) >= 0
  <1> DEFINE n == Len(free)
  <1>0. n \in Nat /\ \A i \in 1 .. n : free[i] \in Int /\ free[i] >= 0
    OBVIOUS
  <1>1. PICK g : Adding(free, n, g) /\ Remaining(free) = g[n]
    BY <1>0, RemainingAdds
  <1>2. g[0] = 0 /\ \A i \in 1 .. n : g[i] = g[i - 1] + free[i]
    BY <1>0, <1>1, AddingSteps
  <1> DEFINE T == {k \in 0 .. n : ~(g[k] \in Int /\ g[k] >= 0)}
  <1> HIDE DEF n
  <1>3. SUFFICES ASSUME T # {} PROVE FALSE
    BY <1>0, <1>1
  <1>4. PICK k \in T : \A j \in T : k <= j
    <2>1. T \in SUBSET Nat
      BY <1>0
    <2> QED
      BY <1>3, <2>1, LeastNumber
  <1>5. k \in 0 .. n /\ k # 0 /\ k - 1 \notin T /\ k - 1 \in 0 .. n /\ k \in 1 .. n
    BY <1>0, <1>2, <1>4
  <1> QED
    BY <1>0, <1>2, <1>4, <1>5

\* Taking x from one entry takes x from the sum.
LEMMA SumLess ==
    ASSUME NEW free \in Seq(Int), NEW left \in Seq(Int), Len(left) = Len(free),
           NEW j \in 1 .. Len(free), NEW x \in Int, left[j] = free[j] - x,
           \A i \in 1 .. Len(free) : i # j => left[i] = free[i]
    PROVE  Remaining(left) = Remaining(free) - x
  <1> DEFINE n == Len(free)
  <1>0. n \in Nat /\ \A i \in 1 .. n : free[i] \in Int /\ left[i] \in Int
    OBVIOUS
  <1>1. PICK g : Adding(free, n, g) /\ Remaining(free) = g[n]
    BY <1>0, RemainingAdds
  <1>2. g[0] = 0 /\ \A i \in 1 .. n : g[i] = g[i - 1] + free[i]
    BY <1>0, <1>1, AddingSteps
  <1>3. PICK h : Adding(left, n, h) /\ Remaining(left) = h[n]
    BY <1>0, RemainingAdds
  <1>4. h[0] = 0 /\ \A i \in 1 .. n : h[i] = h[i - 1] + left[i]
    BY <1>0, <1>3, AddingSteps
  <1> DEFINE Same(k) == g[k] \in Int /\ h[k] = IF k < j THEN g[k] ELSE g[k] - x
             T == {k \in 0 .. n : ~Same(k)}
  <1>5. j \in 1 .. n /\ left[j] = free[j] - x /\ \A i \in 1 .. n : i # j => left[i] = free[i]
    OBVIOUS
  <1> HIDE DEF n
  <1>6. SUFFICES ASSUME T # {} PROVE FALSE
    <2>1. SUFFICES ASSUME T = {} PROVE Remaining(left) = Remaining(free) - x
      OBVIOUS
    <2>2. n \in 0 .. n /\ ~(n < j)
      BY <1>0, <1>5
    <2>3. Same(n)
      BY <2>1, <2>2
    <2> QED
      BY <1>1, <1>3, <2>2, <2>3
  <1>7. PICK k \in T : \A i \in T : k <= i
    <2>1. T \in SUBSET Nat
      BY <1>0
    <2> QED
      BY <1>6, <2>1, LeastNumber
  <1>8. k # 0
    BY <1>2, <1>4, <1>5, <1>7
  <1>9. k \in 1 .. n /\ k - 1 \in 0 .. n /\ k - 1 \notin T
    BY <1>0, <1>7, <1>8
  <1>10. Same(k - 1) /\ g[k] = g[k - 1] + free[k] /\ h[k] = h[k - 1] + left[k]
    BY <1>2, <1>4, <1>9
  <1>11. Same(k)
    <2>1. g[k - 1] \in Int /\ free[k] \in Int /\ k \in Int /\ j \in Int
      BY <1>0, <1>5, <1>9, <1>10
    <2>2. CASE k < j
      BY <1>5, <1>9, <1>10, <2>1, <2>2
    <2>3. CASE k = j
      BY <1>5, <1>9, <1>10, <2>1, <2>3
    <2>4. CASE k > j
      <3>1. left[k] = free[k] /\ ~(k - 1 < j) /\ ~(k < j)
        BY <1>5, <1>9, <2>1, <2>4
      <3>2. h[k - 1] = g[k - 1] - x
        BY <1>10, <3>1
      <3>3. g[k] = g[k - 1] + free[k] /\ h[k] = h[k - 1] + free[k]
        BY <1>10, <3>1
      <3>4. g[k] \in Int /\ h[k] = g[k] - x
        BY <2>1, <3>2, <3>3
      <3> QED
        BY <3>1, <3>4
    <2> QED
      BY <2>1, <2>2, <2>3, <2>4
  <1> QED
    BY <1>7, <1>11

LEMMA SumTakes ==
    ASSUME NEW n \in Nat, NEW f \in [1 .. n -> Int], NEW g \in [1 .. n -> Int], NEW j \in 1 .. n,
           NEW x \in Int, g[j] = f[j] - x, \A i \in 1 .. n : i # j => g[i] = f[i]
    PROVE  Remaining(g) = Remaining(f) - x
  <1>1. f \in Seq(Int) /\ g \in Seq(Int) /\ Len(f) = n /\ Len(g) = n
    OBVIOUS
  <1>2. Len(g) = Len(f) /\ j \in 1 .. Len(f)
    BY <1>1
  <1>3. \A i \in 1 .. Len(f) : i # j => g[i] = f[i]
    BY <1>1
  <1> QED
    BY <1>1, <1>2, <1>3, SumLess, Zenon

-----------------------------------------------------------------------------
(* Placing pods one after the other.                                       *)

RequestOK(r) == r.cpu \in Int /\ r.mem \in Int /\ Amounts(r.accelerators)
CandidateOK(c) ==
    /\ DOMAIN c = {"name", "cpuCapacity", "memCapacity", "cpuUsed", "memUsed",
                   "accelCapacity", "accelUsed", "usedPorts"}
    /\ c.cpuCapacity \in Int /\ c.cpuUsed \in Int
    /\ c.memCapacity \in Int /\ c.memUsed \in Int
    /\ Amounts(c.accelCapacity) /\ Amounts(c.accelUsed)
    /\ c.name # NoNode

\* A list of n candidates with different names.
ListOK(list, n) ==
    /\ list = [i \in 1 .. n |-> list[i]]
    /\ \A i \in 1 .. n : CandidateOK(list[i])
    /\ \A i, j \in 1 .. n : list[i].name = list[j].name => i = j

Spare(list, r) == \A i \in DOMAIN list : ~Overcommitted(list[i], r)

CPULeft(list) == Remaining([i \in DOMAIN list |-> FreeCPU(list[i])])
MemLeft(list) == Remaining([i \in DOMAIN list |-> FreeMem(list[i])])
AccelLeft(list, a) == Remaining([i \in DOMAIN list |-> FreeAccelerator(list[i], a)])

LEMMA ListLength ==
    ASSUME NEW n \in Nat, NEW s, s = [i \in 1 .. n |-> s[i]]
    PROVE  Len(s) = n /\ DOMAIN s = 1 .. n
  <1>1. DOMAIN s = 1 .. n
    OBVIOUS
  <1>2. s \in [1 .. n -> {s[i] : i \in 1 .. n}]
    OBVIOUS
  <1>3. s \in Seq({s[i] : i \in 1 .. n})
    BY <1>2
  <1> QED
    BY <1>1, <1>3

LEMMA CountIsInt ==
    ASSUME NEW m, Amounts(m), NEW a
    PROVE  Count(m, a) \in Int
  BY DEF Amounts, Count

LEMMA FreeIsInt ==
    ASSUME NEW c, CandidateOK(c)
    PROVE  /\ FreeCPU(c) \in Int /\ FreeMem(c) \in Int /\ Score(c) \in Int
           /\ \A a : FreeAccelerator(c, a) \in Int
  <1>1. FreeCPU(c) \in Int /\ FreeMem(c) \in Int
    BY DEF FreeCPU, FreeMem, CandidateOK
  <1>2. ASSUME NEW a PROVE FreeAccelerator(c, a) \in Int
    BY CountIsInt DEF FreeAccelerator, CandidateOK
  <1> QED
    BY <1>1, <1>2 DEF Score

\* A candidate on which a pod was placed.
Loaded(c, r) ==
    [c EXCEPT !.cpuUsed = @ + r.cpu, !.memUsed = @ + r.mem,
              !.accelUsed = [a \in DOMAIN @ \cup DOMAIN r.accelerators |-> Count(@, a) + Count(r.accelerators, a)],
              !.usedPorts = @ \cup r.ports]

LEMMA LoadedOK ==
    ASSUME NEW c, CandidateOK(c), NEW r, RequestOK(r), Fits(r, c), ~Overcommitted(c, r)
    PROVE  /\ CandidateOK(Loaded(c, r)) /\ Loaded(c, r).name = c.name
           /\ FreeCPU(Loaded(c, r)) = FreeCPU(c) - r.cpu
           /\ FreeMem(Loaded(c, r)) = FreeMem(c) - r.mem
           /\ \A a \in DOMAIN r.accelerators :
                 FreeAccelerator(Loaded(c, r), a) = FreeAccelerator(c, a) - r.accelerators[a]
           /\ ~Overcommitted(Loaded(c, r), r)
  <1> DEFINE l == Loaded(c, r)
             used == [a \in DOMAIN c.accelUsed \cup DOMAIN r.accelerators |->
                         Count(c.accelUsed, a) + Count(r.accelerators, a)]
  <1>1. /\ DOMAIN l = DOMAIN c /\ l.name = c.name
        /\ l.cpuCapacity = c.cpuCapacity /\ l.memCapacity = c.memCapacity
        /\ l.accelCapacity = c.accelCapacity
        /\ l.cpuUsed = c.cpuUsed + r.cpu /\ l.memUsed = c.memUsed + r.mem
        /\ l.accelUsed = used
    BY DEF Loaded, CandidateOK
  <1> HIDE DEF l
  <1>2. \A a : Count(c.accelUsed, a) \in Int /\ Count(r.accelerators, a) \in Int /\ Count(c.accelCapacity, a) \in Int
    BY CountIsInt DEF CandidateOK, RequestOK
  <1>3. Amounts(used)
    BY <1>2 DEF Amounts
  <1>4. CandidateOK(l)
    BY <1>1, <1>3 DEF CandidateOK, RequestOK
  <1>5. FreeCPU(l) = FreeCPU(c) - r.cpu /\ FreeMem(l) = FreeMem(c) - r.mem
    BY <1>1 DEF FreeCPU, FreeMem, CandidateOK, RequestOK
  <1>6. ASSUME NEW a \in DOMAIN r.accelerators
        PROVE  FreeAccelerator(l, a) = FreeAccelerator(c, a) - r.accelerators[a]
    <2>1. Count(used, a) = Count(c.accelUsed, a) + Count(r.accelerators, a)
      BY DEF Count
    <2>2. Count(r.accelerators, a) = r.accelerators[a]
      BY DEF Count
    <2> HIDE DEF used
    <2> QED
      BY <1>1, <1>2, <2>1, <2>2 DEF FreeAccelerator
  <1>7. FreeCPU(l) >= 0 /\ FreeMem(l) >= 0
    BY <1>5, FreeIsInt DEF Fits, RequestOK
  <1>8. ASSUME NEW a \in DOMAIN r.accelerators
        PROVE  ~(FreeAccelerator(l, a) < 0)
    <2>1. r.accelerators[a] \in Int /\ FreeAccelerator(c, a) \in Int
      BY FreeIsInt DEF RequestOK, Amounts
    <2>2. FreeAccelerator(c, a) >= 0
      BY <2>1 DEF Overcommitted
    <2>3. r.accelerators[a] > 0 => FreeAccelerator(c, a) >= r.accelerators[a]
      BY DEF Fits, acceleratorsFit, FreeAccelerator
    <2> QED
      BY <1>6, <2>1, <2>2, <2>3
  <1>9. ~Overcommitted(l, r)
    BY <1>4, <1>7, <1>8, FreeIsInt DEF Overcommitted
  <1> QED
    BY <1>1, <1>4, <1>5, <1>6, <1>9 DEF l

\* A pod that finds a node takes exactly its request from what is left in the
\* cluster, and leaves no node over-committed.
LEMMA PlacesOne ==
    ASSUME NEW r, RequestOK(r), NEW n \in Nat, NEW list, ListOK(list, n), Spare(list, r),
           Schedule(r, list) # NoNode, NEW next, next = Placing(list, r, Schedule(r, list))
    PROVE  /\ ListOK(next, n) /\ Spare(next, r)
           /\ CPULeft(next) = CPULeft(list) - r.cpu
           /\ MemLeft(next) = MemLeft(list) - r.mem
           /\ \A a \in DOMAIN r.accelerators : AccelLeft(next, a) = AccelLeft(list, a) - r.accelerators[a]
  <1>1. Len(list) = n /\ DOMAIN list = 1 .. n
    BY ListLength DEF ListOK
  <1>2. \A i \in 1 .. n : CandidateOK(list[i]) /\ Score(list[i]) \in Int /\ ~Overcommitted(list[i], r)
    BY <1>1, FreeIsInt DEF ListOK, Spare
  <1>3. PICK best : Chosen(r, list, n, best) /\ Schedule(r, list) = best.name
    BY <1>1, <1>2, ScheduleChooses
  <1>4. PICK j \in 1 .. n : Eligible(r, list[j]) /\ best = [score |-> Score(list[j]), name |-> list[j].name]
    BY <1>3 DEF Chosen, Start
  <1>5. Schedule(r, list) = list[j].name /\ Fits(r, list[j])
    BY <1>3, <1>4 DEF Eligible
  <1>6. \A i \in 1 .. n : list[i].name = list[j].name <=> i = j
    BY DEF ListOK
  <1>7. /\ next = [i \in 1 .. n |-> next[i]]
        /\ next[j] = Loaded(list[j], r)
        /\ \A i \in 1 .. n : i # j => next[i] = list[i]
    <2>1. next = [i \in 1 .. n |-> IF list[i].name # list[j].name THEN list[i] ELSE Loaded(list[i], r)]
      BY <1>1, <1>5 DEF Placing, Loaded
    <2> QED
      BY <1>6, <2>1
  <1>8. /\ CandidateOK(next[j]) /\ next[j].name = list[j].name
        /\ FreeCPU(next[j]) = FreeCPU(list[j]) - r.cpu
        /\ FreeMem(next[j]) = FreeMem(list[j]) - r.mem
        /\ \A a \in DOMAIN r.accelerators :
              FreeAccelerator(next[j], a) = FreeAccelerator(list[j], a) - r.accelerators[a]
        /\ ~Overcommitted(next[j], r)
    BY <1>2, <1>5, <1>7, LoadedOK
  <1>9. Len(next) = n /\ DOMAIN next = 1 .. n
    BY <1>7, ListLength
  <1>10. \A i \in 1 .. n : CandidateOK(next[i]) /\ next[i].name = list[i].name /\ ~Overcommitted(next[i], r)
    BY <1>2, <1>7, <1>8
  <1>11. ListOK(next, n)
    BY <1>7, <1>10 DEF ListOK
  <1>12. Spare(next, r)
    BY <1>9, <1>10 DEF Spare
  <1>13. CPULeft(next) = CPULeft(list) - r.cpu
    <2>1. PICK f : f = [i \in 1 .. n |-> FreeCPU(list[i])]
      OBVIOUS
    <2>2. PICK g : g = [i \in 1 .. n |-> FreeCPU(next[i])]
      OBVIOUS
    <2>3. f \in [1 .. n -> Int] /\ g \in [1 .. n -> Int]
      BY <1>2, <1>10, <2>1, <2>2, FreeIsInt
    <2>4. g[j] = f[j] - r.cpu /\ \A i \in 1 .. n : i # j => g[i] = f[i]
      BY <1>7, <1>8, <2>1, <2>2
    <2>5. CPULeft(list) = Remaining(f) /\ CPULeft(next) = Remaining(g) /\ r.cpu \in Int
      BY <1>1, <1>9, <2>1, <2>2 DEF CPULeft, RequestOK
    <2>6. Remaining(g) = Remaining(f) - r.cpu
      BY <2>3, <2>4, <2>5, SumTakes, Zenon
    <2> QED
      BY <2>5, <2>6
  <1>14. MemLeft(next) = MemLeft(list) - r.mem
    <2>1. PICK f : f = [i \in 1 .. n |-> FreeMem(list[i])]
      OBVIOUS
    <2>2. PICK g : g = [i \in 1 .. n |-> FreeMem(next[i])]
      OBVIOUS
    <2>3. f \in [1 .. n -> Int] /\ g \in [1 .. n -> Int]
      BY <1>2, <1>10, <2>1, <2>2, FreeIsInt
    <2>4. g[j] = f[j] - r.mem /\ \A i \in 1 .. n : i # j => g[i] = f[i]
      BY <1>7, <1>8, <2>1, <2>2
    <2>5. MemLeft(list) = Remaining(f) /\ MemLeft(next) = Remaining(g) /\ r.mem \in Int
      BY <1>1, <1>9, <2>1, <2>2 DEF MemLeft, RequestOK
    <2>6. Remaining(g) = Remaining(f) - r.mem
      BY <2>3, <2>4, <2>5, SumTakes, Zenon
    <2> QED
      BY <2>5, <2>6
  <1>15. ASSUME NEW a \in DOMAIN r.accelerators
         PROVE  AccelLeft(next, a) = AccelLeft(list, a) - r.accelerators[a]
    <2>1. PICK f : f = [i \in 1 .. n |-> FreeAccelerator(list[i], a)]
      OBVIOUS
    <2>2. PICK g : g = [i \in 1 .. n |-> FreeAccelerator(next[i], a)]
      OBVIOUS
    <2>3. f \in [1 .. n -> Int] /\ g \in [1 .. n -> Int]
      BY <1>2, <1>10, <2>1, <2>2, FreeIsInt
    <2>4. g[j] = f[j] - r.accelerators[a] /\ \A i \in 1 .. n : i # j => g[i] = f[i]
      BY <1>7, <1>8, <2>1, <2>2
    <2>5. AccelLeft(list, a) = Remaining(f) /\ AccelLeft(next, a) = Remaining(g) /\ r.accelerators[a] \in Int
      BY <1>1, <1>9, <2>1, <2>2 DEF AccelLeft, RequestOK, Amounts
    <2>6. Remaining(g) = Remaining(f) - r.accelerators[a]
      BY <2>3, <2>4, <2>5, SumTakes, Zenon
    <2> QED
      BY <2>5, <2>6
  <1> QED
    BY <1>11, <1>12, <1>13, <1>14, <1>15

\* What is left of each resource is a number, and none is negative without a deficit.
LEMMA LeftIsNat ==
    ASSUME NEW r, NEW n \in Nat, NEW list, ListOK(list, n)
    PROVE  /\ CPULeft(list) \in Int /\ MemLeft(list) \in Int /\ \A a : AccelLeft(list, a) \in Int
           /\ Spare(list, r) => /\ CPULeft(list) >= 0 /\ MemLeft(list) >= 0
                                /\ \A a \in DOMAIN r.accelerators : AccelLeft(list, a) >= 0
  <1>1. DOMAIN list = 1 .. n
    BY ListLength DEF ListOK
  <1> DEFINE cpu == [i \in 1 .. n |-> FreeCPU(list[i])]
             mem == [i \in 1 .. n |-> FreeMem(list[i])]
             acc(a) == [i \in 1 .. n |-> FreeAccelerator(list[i], a)]
  <1>2. /\ CPULeft(list) = Remaining(cpu) /\ MemLeft(list) = Remaining(mem)
        /\ \A a : AccelLeft(list, a) = Remaining(acc(a))
    BY <1>1 DEF CPULeft, MemLeft, AccelLeft
  <1>3. /\ cpu \in Seq(Int) /\ Len(cpu) = n
        /\ mem \in Seq(Int) /\ Len(mem) = n
    <2>1. cpu \in [1 .. n -> Int] /\ mem \in [1 .. n -> Int]
      BY FreeIsInt DEF ListOK
    <2> HIDE DEF cpu, mem
    <2> QED
      BY <2>1
  <1>4. ASSUME NEW a PROVE acc(a) \in Seq(Int) /\ Len(acc(a)) = n
    <2>1. acc(a) \in [1 .. n -> Int]
      BY FreeIsInt DEF ListOK
    <2> HIDE DEF acc
    <2> QED
      BY <2>1
  <1>5. ASSUME Spare(list, r)
        PROVE  /\ \A i \in 1 .. n : cpu[i] >= 0 /\ mem[i] >= 0
               /\ \A a \in DOMAIN r.accelerators : \A i \in 1 .. n : acc(a)[i] >= 0
    BY <1>1, <1>5, FreeIsInt DEF Spare, Overcommitted, ListOK
  <1> HIDE DEF cpu, mem, acc
  <1>6. CPULeft(list) \in Int /\ MemLeft(list) \in Int /\ \A a : AccelLeft(list, a) \in Int
    BY <1>2, <1>3, <1>4, SumIsInt
  <1>7. ASSUME Spare(list, r)
        PROVE  /\ CPULeft(list) >= 0 /\ MemLeft(list) >= 0
               /\ \A a \in DOMAIN r.accelerators : AccelLeft(list, a) >= 0
    <2>1. CPULeft(list) >= 0
      BY <1>2, <1>3, <1>5, <1>7, SumIsNat
    <2>2. MemLeft(list) >= 0
      BY <1>2, <1>3, <1>5, <1>7, SumIsNat
    <2>3. ASSUME NEW a \in DOMAIN r.accelerators PROVE AccelLeft(list, a) >= 0
      BY <1>2, <1>4, <1>5, <1>7, SumIsNat
    <2> QED
      BY <2>1, <2>2, <2>3
  <1> QED
    BY <1>6, <1>7

\* The placements one after the other, as far as they were taken.
Filling(list, r, n, g) ==
    g = [k \in 0 .. n |-> IF k = 0 THEN list ELSE Placing(g[k - 1], r, Schedule(r, g[k - 1]))]

LEMMA FillingExists ==
    ASSUME NEW list, NEW r, NEW n \in Nat
    PROVE  \E g : Filling(list, r, n, g)
  <1> DEFINE T == {k \in Nat : ~\E g : Filling(list, r, k, g)}
  <1>1. SUFFICES ASSUME T # {} PROVE FALSE
    OBVIOUS
  <1>2. PICK k \in T : \A j \in T : k <= j
    BY <1>1, LeastNumber
  <1>3. k # 0
    <2>1. Filling(list, r, 0, [i \in 0 .. 0 |-> list])
      BY DEF Filling
    <2> QED
      BY <2>1
  <1>4. k - 1 \in Nat /\ k - 1 \notin T
    BY <1>2, <1>3
  <1>5. PICK g : Filling(list, r, k - 1, g)
    BY <1>4
  <1> DEFINE h == [i \in 0 .. k |-> IF i = k THEN Placing(g[k - 1], r, Schedule(r, g[k - 1])) ELSE g[i]]
  <1>6. \A i \in 0 .. k : h[i] = IF i = 0 THEN list ELSE Placing(h[i - 1], r, Schedule(r, h[i - 1]))
    BY <1>3, <1>5 DEF Filling
  <1>7. Filling(list, r, k, h)
    BY <1>6 DEF Filling
  <1> QED
    BY <1>2, <1>7

\* Each list of Filled is the one before it with one more pod placed.
LEMMA FilledSteps ==
    ASSUME NEW list, NEW r, NEW n \in Nat, NEW f, f = Filled(list, r, n)
    PROVE  /\ f[0] = list
           /\ \A k \in 1 .. n : f[k] = Placing(f[k - 1], r, Schedule(r, f[k - 1]))
  <1>1. f = CHOOSE g : Filling(list, r, n, g)
    BY DEF Filled, Filling
  <1>2. Filling(list, r, n, f)
    BY <1>1, FillingExists
  <1>3. \A k \in 0 .. n : f[k] = IF k = 0 THEN list ELSE Placing(f[k - 1], r, Schedule(r, f[k - 1]))
    BY <1>2, Zenon DEF Filling
  <1>4. f[0] = list
    <2>1. 0 \in 0 .. n
      OBVIOUS
    <2> QED
      BY <1>3, <2>1, Zenon
  <1>5. ASSUME NEW k \in 1 .. n PROVE f[k] = Placing(f[k - 1], r, Schedule(r, f[k - 1]))
    <2>1. k \in 0 .. n /\ k # 0
      OBVIOUS
    <2> QED
      BY <1>3, <2>1, Zenon
  <1> QED
    BY <1>4, <1>5

\* k pods that all found a node took k times their request, and it was there.
LEMMA FillingTakes ==
    ASSUME NEW r, RequestOK(r), NEW n \in Nat, NEW list, ListOK(list, n), Spare(list, r),
           NEW limit \in Nat, NEW f, f = Filled(list, r, limit),
           NEW k \in 0 .. limit, \A j \in 0 .. k - 1 : Schedule(r, f[j]) # NoNode
    PROVE  /\ CPULeft(list) >= k * r.cpu /\ MemLeft(list) >= k * r.mem
           /\ \A a \in DOMAIN r.accelerators : AccelLeft(list, a) >= k * r.accelerators[a]
  <1> DEFINE Taken(i) ==
                /\ ListOK(f[i], n) /\ Spare(f[i], r)
                /\ CPULeft(f[i]) = CPULeft(list) - i * r.cpu
                /\ MemLeft(f[i]) = MemLeft(list) - i * r.mem
                /\ \A a \in DOMAIN r.accelerators : AccelLeft(f[i], a) = AccelLeft(list, a) - i * r.accelerators[a]
             T == {i \in 0 .. k : ~Taken(i)}
  <1>0. /\ r.cpu \in Int /\ r.mem \in Int /\ \A a \in DOMAIN r.accelerators : r.accelerators[a] \in Int
        /\ CPULeft(list) \in Int /\ MemLeft(list) \in Int /\ \A a : AccelLeft(list, a) \in Int
    BY LeftIsNat DEF RequestOK, Amounts
  <1>1. f[0] = list /\ \A i \in 1 .. limit : f[i] = Placing(f[i - 1], r, Schedule(r, f[i - 1]))
    BY FilledSteps
  <1>2. T = {}
    <2>1. SUFFICES ASSUME T # {} PROVE FALSE
      OBVIOUS
    <2>2. PICK i \in T : \A j \in T : i <= j
      <3>1. T \in SUBSET Nat
        OBVIOUS
      <3> QED
        BY <2>1, <3>1, LeastNumber
    <2>3. Taken(0)
      BY <1>0, <1>1
    <2>4. i # 0
      BY <2>2, <2>3
    <2>5. i \in 1 .. limit /\ i \in 0 .. k /\ i - 1 \in 0 .. k - 1 /\ i - 1 \in 0 .. k /\ i - 1 \notin T
      BY <2>2, <2>4
    <2>6. Taken(i - 1) /\ Schedule(r, f[i - 1]) # NoNode /\ f[i] = Placing(f[i - 1], r, Schedule(r, f[i - 1]))
      BY <1>1, <2>5
    <2>7. /\ ListOK(f[i], n) /\ Spare(f[i], r)
          /\ CPULeft(f[i]) = CPULeft(f[i - 1]) - r.cpu
          /\ MemLeft(f[i]) = MemLeft(f[i - 1]) - r.mem
          /\ \A a \in DOMAIN r.accelerators : AccelLeft(f[i], a) = AccelLeft(f[i - 1], a) - r.accelerators[a]
      BY <2>6, PlacesOne
    <2>8. \A x, y \in Int : (x - (i - 1) * y) - y = x - i * y
      <3>1. i \in Int
        BY <2>5
      <3>2. \A y \in Int : (i - 1) * y = i * y - y /\ i * y \in Int
        BY <3>1
      <3> QED
        BY <3>1, <3>2
    <2>9. CPULeft(f[i]) = CPULeft(list) - i * r.cpu /\ MemLeft(f[i]) = MemLeft(list) - i * r.mem
      <3>1. CPULeft(f[i]) = (CPULeft(list) - (i - 1) * r.cpu) - r.cpu
        BY <2>6, <2>7
      <3>2. MemLeft(f[i]) = (MemLeft(list) - (i - 1) * r.mem) - r.mem
        BY <2>6, <2>7
      <3> QED
        BY <1>0, <2>8, <3>1, <3>2, Zenon
    <2>10. ASSUME NEW a \in DOMAIN r.accelerators
           PROVE  AccelLeft(f[i], a) = AccelLeft(list, a) - i * r.accelerators[a]
      <3>1. AccelLeft(f[i], a) = (AccelLeft(list, a) - (i - 1) * r.accelerators[a]) - r.accelerators[a]
        BY <2>6, <2>7
      <3> QED
        BY <1>0, <2>8, <3>1, Zenon
    <2>11. Taken(i)
      BY <2>7, <2>9, <2>10
    <2> QED
      BY <2>2, <2>11
  <1>3. Taken(k)
    BY <1>2
  <1>4. /\ CPULeft(f[k]) >= 0 /\ MemLeft(f[k]) >= 0
        /\ \A a \in DOMAIN r.accelerators : AccelLeft(f[k], a) >= 0
    BY <1>3, LeftIsNat
  <1>5. \A x, y \in Int : x - k * y >= 0 => x >= k * y
    OBVIOUS
  <1> QED
    BY <1>0, <1>3, <1>4, <1>5

\* Go's integer division of non-negative numbers loses no whole unit.
LEMMA DivBounds ==
    ASSUME NEW x \in Nat, NEW y \in Nat, y > 0
    PROVE  /\ x \div y \in Nat
           /\ \A k \in Nat : x >= k * y => x \div y >= k
  <1>1. x \div y \in Int /\ x = y * (x \div y) + (x % y) /\ 0 <= x % y /\ x % y < y
    OBVIOUS
  <1> DEFINE q == x \div y
             m == x % y
  <1>2. q \in Int /\ m \in Int /\ x = y * q + m /\ 0 <= m /\ m < y
    BY <1>1
  <1> HIDE DEF q, m
  <1>3. q >= 0
    <2>1. SUFFICES ASSUME q <= -1 PROVE FALSE
      BY <1>2
    <2>2. y * q <= -y
      BY <1>2, <2>1
    <2> QED
      BY <1>2, <2>2
  <1>4. ASSUME NEW k \in Nat, x >= k * y PROVE q >= k
    <2>1. SUFFICES ASSUME q <= k - 1 PROVE FALSE
      BY <1>2
    <2>2. y * q <= y * (k - 1)
      BY <1>2, <2>1
    <2>3. y * (k - 1) = k * y - y
      OBVIOUS
    <2>4. k * y \in Int /\ y * q \in Int
      BY <1>2
    <2> QED
      BY <1>2, <1>4, <2>2, <2>3, <2>4
  <1> QED
    BY <1>2, <1>3, <1>4 DEF q

\* k units fit into what is left of a resource if k times one unit is there.
LEMMA FitCountOK ==
    ASSUME NEW remaining \in Int, NEW per \in Int
    PROVE  /\ fitCount(remaining, per) \in 0 .. MaxInt32
           /\ \A k \in 0 .. MaxInt32 : remaining >= k * per => fitCount(remaining, per) >= k
  <1>1. CASE per <= 0
    BY <1>1, MaxInt32Assumption DEF fitCount
  <1>2. CASE per > 0 /\ remaining <= 0
    <2>1. fitCount(remaining, per) = 0
      BY <1>2 DEF fitCount
    <2>2. ASSUME NEW k \in 0 .. MaxInt32, remaining >= k * per PROVE k = 0
      <3>1. k * per <= 0 /\ k >= 0
        BY <1>2, <2>2, MaxInt32Assumption
      <3>2. k >= 1 => k * per >= per
        BY <1>2, MaxInt32Assumption
      <3> QED
        BY <1>2, <3>1, <3>2, MaxInt32Assumption
    <2> QED
      BY <2>1, <2>2, MaxInt32Assumption
  <1>3. CASE per > 0 /\ remaining > 0
    <2>1. remaining \div per \in Nat /\ \A k \in Nat : remaining >= k * per => remaining \div per >= k
      BY <1>3, DivBounds
    <2>2. fitCount(remaining, per) = IF remaining \div per > MaxInt32 THEN MaxInt32 ELSE remaining \div per
      BY <1>3 DEF fitCount
    <2> QED
      BY <2>1, <2>2, MaxInt32Assumption
  <1> QED
    BY <1>1, <1>2, <1>3

\* The room the autoscaler sees, and that it is no less than what can be placed.
LEMMA RoomOK ==
    ASSUME NEW r, RequestOK(r), NEW n \in Nat, NEW list, ListOK(list, n)
    PROVE  /\ maxAdditionalReplicas(list, r) \in 0 .. MaxInt32
           /\ \A k \in 0 .. MaxInt32 :
                 /\ CPULeft(list) >= k * r.cpu /\ MemLeft(list) >= k * r.mem
                 /\ \A a \in DOMAIN r.accelerators : AccelLeft(list, a) >= k * r.accelerators[a]
                 => maxAdditionalReplicas(list, r) >= k
  <1> DEFINE fits == {fitCount(CPULeft(list), r.cpu), fitCount(MemLeft(list), r.mem)} \cup
                     {fitCount(AccelLeft(list, a), r.accelerators[a]) : a \in DOMAIN r.accelerators}
             room == maxAdditionalReplicas(list, r)
  <1>1. room = CHOOSE m \in fits : \A f \in fits : m <= f
    BY DEF maxAdditionalReplicas, CPULeft, MemLeft, AccelLeft
  <1>2. /\ r.cpu \in Int /\ r.mem \in Int /\ \A a \in DOMAIN r.accelerators : r.accelerators[a] \in Int
        /\ CPULeft(list) \in Int /\ MemLeft(list) \in Int /\ \A a : AccelLeft(list, a) \in Int
    BY LeftIsNat DEF RequestOK, Amounts
  <1>3. fits \subseteq 0 .. MaxInt32 /\ fits # {}
    BY <1>2, FitCountOK
  <1>4. ASSUME NEW k \in 0 .. MaxInt32, CPULeft(list) >= k * r.cpu, MemLeft(list) >= k * r.mem,
               \A a \in DOMAIN r.accelerators : AccelLeft(list, a) >= k * r.accelerators[a]
        PROVE  \A f \in fits : f >= k
    BY <1>2, <1>4, FitCountOK
  <1> HIDE DEF fits, room
  <1>5. fits \in SUBSET Nat
    BY <1>3, MaxInt32Assumption
  <1>6. \E m \in fits : \A f \in fits : m <= f
    BY <1>3, <1>5, LeastNumber
  <1>7. room \in fits
    BY <1>1, <1>6
  <1> QED
    BY <1>3, <1>4, <1>7 DEF room

-----------------------------------------------------------------------------
(* The calls of Scheduling.                                                *)

ListedOK ==
    /\ RequestOK(pod)
    /\ nodes \in Seq(Candidates)
    /\ \A i, j \in DOMAIN nodes : nodes[i].name = nodes[j].name => i = j

LEMMA ListedOKInit ==
    ASSUME SchedulingInit
    PROVE  ListedOK
  BY RequestsAssumption DEF SchedulingInit, ListedOK, RequestOK

\* A listing names a node once.
LEMMA ListedOKStep ==
    ASSUME ListedOK, [SchedulingNext]_callVars
    PROVE  ListedOK'
  <1> USE DEF ListedOK
  <1>1. CASE AddNode
    <2>1. PICK n \in Candidates : /\ \A i \in DOMAIN nodes : nodes[i].name # n.name
                                  /\ nodes' = Append(nodes, n)
      BY <1>1 DEF AddNode
    <2>2. RequestOK(pod)'
      BY <1>1 DEF AddNode, RequestOK
    <2>3. /\ nodes' \in Seq(Candidates)
          /\ DOMAIN nodes = 1 .. Len(nodes) /\ DOMAIN nodes' = 1 .. Len(nodes) + 1 /\ Len(nodes) \in Nat
          /\ \A i \in 1 .. Len(nodes) : nodes'[i] = nodes[i]
          /\ nodes'[Len(nodes) + 1] = n
      BY <2>1
    <2>4. ASSUME NEW i \in DOMAIN nodes', NEW j \in DOMAIN nodes', nodes'[i].name = nodes'[j].name
          PROVE  i = j
      <3>1. CASE i \in 1 .. Len(nodes) /\ j \in 1 .. Len(nodes)
        BY <2>3, <2>4, <3>1
      <3>2. CASE i \in 1 .. Len(nodes) /\ j = Len(nodes) + 1
        BY <2>1, <2>3, <2>4, <3>2
      <3>3. CASE i = Len(nodes) + 1 /\ j \in 1 .. Len(nodes)
        BY <2>1, <2>3, <2>4, <3>3
      <3>4. CASE i = Len(nodes) + 1 /\ j = Len(nodes) + 1
        BY <3>4
      <3> QED
        BY <2>3, <3>1, <3>2, <3>3, <3>4
    <2> QED
      BY <2>2, <2>3, <2>4
  <1>2. CASE NewRequest
    BY <1>2, RequestsAssumption DEF NewRequest, RequestOK
  <1>3. CASE UNCHANGED callVars
    BY <1>3 DEF callVars, RequestOK
  <1> QED
    BY <1>1, <1>2, <1>3 DEF SchedulingNext

\* So the candidates are a list of the kind the lemmas are about.
LEMMA CallsAreListed ==
    ASSUME ListedOK
    PROVE  /\ Len(nodes) \in Nat /\ DOMAIN nodes = 1 .. Len(nodes)
           /\ ListOK(nodes, Len(nodes))
  <1>1. Len(nodes) \in Nat /\ DOMAIN nodes = 1 .. Len(nodes) /\ \A i \in 1 .. Len(nodes) : nodes[i] \in Candidates
    BY DEF ListedOK
  <1>2. nodes = [i \in 1 .. Len(nodes) |-> nodes[i]]
    BY <1>1 DEF ListedOK
  <1>3. \A i \in 1 .. Len(nodes) : CandidateOK(nodes[i])
    BY <1>1, CandidatesAssumption DEF CandidateOK
  <1> QED
    BY <1>1, <1>2, <1>3 DEF ListOK, ListedOK

(***************************************************************************)
(* Every call gets a request and candidates with numbers for their         *)
(* resources, and no two candidates with the same name: the registry keeps *)
(* one node under a name.                                                  *)
(***************************************************************************)
THEOREM CallsType == SchedulingSpec => []ListedOK
  <1>1. SchedulingInit => ListedOK
    BY ListedOKInit
  <1>2. ListedOK /\ [SchedulingNext]_callVars => ListedOK'
    BY ListedOKStep
  <1> QED
    BY <1>1, <1>2, PTL DEF SchedulingSpec

(***************************************************************************)
(* Whatever nodes one listing has and whatever the pod asks for, less than *)
(* nothing altogether excepted, Schedule returns a fitting node with the   *)
(* most free CPU and memory, in whatever order they are listed, and fails  *)
(* only when the pod fits on none.                                         *)
(***************************************************************************)
THEOREM SchedulesBestFit == SchedulingSpec => []ScheduleIsBestFit
  <1>1. ListedOK => ScheduleIsBestFit
    <2>1. SUFFICES ASSUME ListedOK, pod.cpu + pod.mem >= 0
                   PROVE  BestFit(pod, {nodes[i] : i \in DOMAIN nodes})
      BY DEF ScheduleIsBestFit
    <2>2. Len(nodes) \in Nat /\ DOMAIN nodes = 1 .. Len(nodes) /\ ListOK(nodes, Len(nodes))
      BY <2>1, CallsAreListed
    <2> DEFINE listed == {nodes[i] : i \in DOMAIN nodes}
    <2>3. IsFiniteSet(listed)
      <3>1. IsFiniteSet(1 .. Len(nodes))
        BY <2>2, FS_Interval
      <3>2. nodes \in Surjection(1 .. Len(nodes), listed)
        BY <2>2 DEF Surjection, ListOK
      <3> HIDE DEF listed
      <3> QED
        BY <3>1, <3>2, FS_Surjection
    <2>4. \A c \in listed : FreeCPU(c) \in Int /\ FreeMem(c) \in Int
      BY <2>2, FreeIsInt DEF ListOK
    <2>5. pod.cpu \in Int /\ pod.mem \in Int
      BY <2>1 DEF ListedOK, RequestOK
    <2> HIDE DEF listed
    <2>6. BestFit(pod, listed)
      BY <2>1, <2>3, <2>4, <2>5, SchedulingExact
    <2> QED
      BY <2>6 DEF listed
  <1> QED
    BY <1>1, CallsType, PTL

(***************************************************************************)
(* The autoscaler's cap never withholds a replica that the scheduler could *)
(* place on a cluster without over-committed nodes: each placement takes   *)
(* exactly one request from what the nodes have left together and over-    *)
(* commits none, so that after k placements the sums of                    *)
(* computeClusterCapacity were at least k requests, and fitCount finds no  *)
(* fewer than k in them.                                                   *)
(***************************************************************************)
THEOREM NothingIsWithheld == SchedulingSpec => []CapWithholdsNothing
  <1>1. ListedOK => CapWithholdsNothing
    <2>1. SUFFICES ASSUME ListedOK, \A i \in DOMAIN nodes : ~Overcommitted(nodes[i], pod),
                          NEW current \in ReplicaCounts, NEW desired \in ReplicaCounts, current >= 0, desired > current,
                          NEW k \in 0 .. desired - current,
                          \A j \in 0 .. k - 1 : Schedule(pod, Filled(nodes, pod, desired - current)[j]) # NoNode
                   PROVE  capToClusterCapacity(nodes, pod, current, desired) - current >= k
      BY DEF CapWithholdsNothing
    <2>2. /\ RequestOK(pod) /\ Len(nodes) \in Nat /\ ListOK(nodes, Len(nodes)) /\ Spare(nodes, pod)
      BY <2>1, CallsAreListed DEF ListedOK, Spare
    <2>3. /\ current \in Int /\ desired \in Int /\ desired <= MaxInt32 /\ MaxInt32 \in Nat
          /\ desired - current \in Nat /\ k \in 0 .. MaxInt32
      BY <2>1, ReplicaCountsAssumption, MaxInt32Assumption DEF MinInt32
    <2>4. /\ CPULeft(nodes) >= k * pod.cpu /\ MemLeft(nodes) >= k * pod.mem
          /\ \A a \in DOMAIN pod.accelerators : AccelLeft(nodes, a) >= k * pod.accelerators[a]
      BY <2>1, <2>2, <2>3, FillingTakes
    <2>5. maxAdditionalReplicas(nodes, pod) \in 0 .. MaxInt32 /\ maxAdditionalReplicas(nodes, pod) >= k
      BY <2>2, <2>3, <2>4, RoomOK
    <2> QED
      BY <2>1, <2>3, <2>5 DEF capToClusterCapacity
  <1> QED
    BY <1>1, CallsType, PTL

\* A computed count is brought within the deployment's bounds and not lowered but to the maximum.
LEMMA ClampedOK ==
    ASSUME NEW d \in Int, NEW spec \in DeploymentSpecs, ReplicaCounts \subseteq Int
    PROVE  /\ Clamped(d, spec) \in Int /\ Clamped(1, spec) \in Int
           /\ Clamped(d, spec) <= spec.maxReplicas
           /\ Clamped(d, spec) >= Clamped(1, spec)
           /\ Clamped(d, spec) >= d \/ Clamped(d, spec) = spec.maxReplicas
  <1>1. spec.minReplicas \in Int /\ spec.maxReplicas \in Int
    BY DEF DeploymentSpecs
  <1> QED
    BY <1>1 DEF Clamped

\* A deployment that uses all it asked for, or more, is not scaled down.
LEMMA CeilLower ==
    ASSUME NEW c \in Nat, c > 0, NEW x \in Nat, NEW y \in Nat, y > 0, x >= y
    PROVE  Ceil(c * x, y) \in Int /\ Ceil(c * x, y) >= c
  <1>1. c * x \in Nat /\ c * y \in Nat /\ c * x >= c * y
    OBVIOUS
  <1>2. c * x + y - 1 \in Nat /\ c * x + y - 1 >= c * y
    BY <1>1
  <1> QED
    BY <1>2, DivBounds DEF Ceil

LEMMA CeilIsInt ==
    ASSUME NEW c \in Nat, NEW x \in Nat, NEW y \in Nat, y > 0
    PROVE  Ceil(c * x, y) \in Int
  <1>1. c * x \in Nat
    OBVIOUS
  <1>2. c * x + y - 1 \in Nat
    BY <1>1
  <1> QED
    BY <1>2, DivBounds DEF Ceil

(***************************************************************************)
(* reconcileOne keeps a deployment within its bounds, or at its present    *)
(* count or more when the cluster has no room for the minimum, and scales  *)
(* down only what is above its maximum or uses less memory than its        *)
(* running pods ask for, unless the computed count is no int32.            *)
(***************************************************************************)
THEOREM ScalingInBounds == SchedulingSpec => []ScalingStaysInBounds
  <1>1. ListedOK => ScalingStaysInBounds
    <2>1. SUFFICES ASSUME ListedOK, NEW spec \in DeploymentSpecs, NEW running \in {c \in ReplicaCounts : c > 0},
                          NEW used \in Loads, NEW to \in Scaled(spec, running, used, nodes), to # spec.replicas
                   PROVE  /\ to <= spec.maxReplicas
                          /\ \/ to >= Clamped(1, spec)
                             \/ /\ to >= Current(spec, running)
                                /\ maxAdditionalReplicas(nodes, pod) < Clamped(1, spec) - Current(spec, running)
                          /\ to < Current(spec, running) => \/ used < running * pod.mem
                                                            \/ Current(spec, running) > spec.maxReplicas
                                                            \/ Wanted(spec, running, used) > MaxInt32
      BY DEF ScalingStaysInBounds
    <2> DEFINE current == Current(spec, running)
               wanted == Wanted(spec, running, used)
               least == Clamped(1, spec)
               room == maxAdditionalReplicas(nodes, pod)
    <2>2. /\ spec.replicas \in Int /\ spec.maxReplicas \in Int /\ spec.request = pod /\ running \in Nat /\ running > 0
          /\ ReplicaCounts \subseteq Int /\ MaxInt32 \in Nat /\ used \in Nat /\ MinInt32 \in Int
      <3>1. MaxInt32 \in Nat /\ MinInt32 \in Int
        BY MaxInt32Assumption DEF MinInt32
      <3>2. ReplicaCounts \subseteq Int /\ used \in Nat
        BY <3>1, ReplicaCountsAssumption, LoadsAssumption
      <3>3. running \in Nat /\ running > 0
        BY <3>2
      <3>4. spec.replicas \in ReplicaCounts /\ spec.maxReplicas \in ReplicaCounts /\ spec.request = pod
        BY DEF DeploymentSpecs
      <3> QED
        BY <3>1, <3>2, <3>3, <3>4
    <2>3. RequestOK(pod) /\ pod.mem \in Int /\ room \in 0 .. MaxInt32
      BY <2>1, CallsAreListed, RoomOK DEF ListedOK, RequestOK
    <2>4. spec.maxReplicas > 0 /\ pod.mem > 0
      BY <2>1, <2>2, <2>3 DEF Scaled
    <2>5. PICK d \in ToInt32(wanted) :
             to = IF Clamped(d, spec) > current THEN capToClusterCapacity(nodes, pod, current, Clamped(d, spec))
                  ELSE Clamped(d, spec)
      BY <2>1, <2>2, <2>4 DEF Scaled
    <2>6. current \in Nat /\ current > 0
      BY <2>2 DEF Current
    <2>7. pod.mem * running \in Nat /\ pod.mem * running > 0
      BY <2>2, <2>3, <2>4
    <2>8. wanted \in Int
      BY <2>2, <2>6, <2>7, CeilIsInt DEF Wanted
    <2>9. ASSUME ~(used < running * pod.mem) PROVE wanted >= current
      <3>1. used >= pod.mem * running
        BY <2>2, <2>3, <2>9
      <3> QED
        BY <2>2, <2>6, <2>7, <3>1, CeilLower DEF Wanted
    <2> HIDE DEF current, wanted, room
    <2>10. d \in Int /\ (wanted <= MaxInt32 => d = wanted)
      BY <2>2, <2>5, <2>8 DEF ToInt32
    <2> DEFINE desired == Clamped(d, spec)
    <2>11. /\ desired \in Int /\ least \in Int /\ desired <= spec.maxReplicas /\ desired >= least
           /\ desired >= d \/ desired = spec.maxReplicas
      BY <2>2, <2>10, ClampedOK
    <2>12. to = IF desired > current THEN IF desired - current <= room THEN desired ELSE current + room
                ELSE desired
      BY <2>5 DEF capToClusterCapacity, room
    <2> HIDE DEF desired, least
    <2>13. to <= spec.maxReplicas
      BY <2>2, <2>3, <2>6, <2>11, <2>12
    <2>14. to >= least \/ (to >= current /\ room < least - current)
      BY <2>2, <2>3, <2>6, <2>11, <2>12
    <2>15. to < current => \/ used < running * pod.mem
                           \/ current > spec.maxReplicas
                           \/ wanted > MaxInt32
      BY <2>2, <2>3, <2>6, <2>8, <2>9, <2>10, <2>11, <2>12
    <2> QED
      BY <2>13, <2>14, <2>15 DEF current, wanted, least, room
  <1> QED
    BY <1>1, CallsType, PTL

-----------------------------------------------------------------------------
(* The deployment controller places with that loop.                        *)

\* The usage a pass works with counts pods.
UsageOK == \A n \in Nodes : rc.usage[n].units \in Int

LEMMA NoUsageOK ==
    ASSUME NEW usage, usage = NoUsage
    PROVE  \A n \in Nodes : usage[n].units \in Int
  BY DEF NoUsage

\* computeNodeUsage counts finitely many pods.
LEMMA ListedUsageOK ==
    ASSUME NEW usage, usage = computeNodeUsage
    PROVE  \A n \in Nodes : usage[n].units \in Int
  <1>1. IsFiniteSet(PodNames)
    <2>1. IsFiniteSet(Ordinals)
      BY FS_Interval, BoundsAssumption DEF Ordinals
    <2> QED
      BY <2>1, FiniteAssumption, FS_Product DEF PodNames
  <1>2. ASSUME NEW n \in Nodes PROVE usage[n].units \in Int
    <2> DEFINE on == {id \in PodNames : pods[id] # None /\ pods[id].node = n}
    <2>1. usage[n].units = Cardinality(on)
      BY DEF computeNodeUsage
    <2>2. Cardinality(on) \in Nat
      BY <1>1, FS_Subset, FS_CardinalityType
    <2> QED
      BY <2>1, <2>2
  <1> QED
    BY <1>2

\* A pass keeps its usage, drops it or computes it anew.
LEMMA UsageStep ==
    ASSUME TypeOK, UsageOK, [Next]_vars
    PROVE  UsageOK'
  <1>1. SUFFICES rc'.usage \in {rc.usage, NoUsage, computeNodeUsage}
    BY NoUsageOK, ListedUsageOK DEF UsageOK
  <1>2. DOMAIN rc = RcFields
    BY DEF TypeOK, RcOK
  <1>3. ASSUME NEW batch, rc' = Between(batch) PROVE rc'.usage = NoUsage
    BY <1>3 DEF Between
  <1>4. CASE Reads
    <2>1. CASE Tick
      BY <1>3, <2>1 DEF Tick
    <2>2. ASSUME NEW d \in DeploymentNames, ReconcileOne(d) PROVE rc'.usage = NoUsage
      BY <2>2 DEF ReconcileOne, Between
    <2>3. CASE PlanCreate \/ PlanDelete \/ Relist
      BY <1>2, <2>3 DEF PlanCreate, PlanDelete, Relist, RcFields
    <2>4. CASE ListUsage \/ BuildNodeCandidates
      BY <1>2, <2>4 DEF ListUsage, BuildNodeCandidates, RcFields
    <2>5. ASSUME NEW v \in Volumes, ResolveVolumeNode(v) PROVE rc'.usage = rc.usage
      BY <1>2, <2>5 DEF ResolveVolumeNode, RcFields
    <2> QED
      BY <1>4, <2>1, <2>2, <2>3, <2>4, <2>5 DEF Reads
  <1>5. CASE PodWrites
    <2>1. ASSUME NEW id \in PodNames, FilterOwned(id) \/ Evict(id) PROVE rc'.usage = rc.usage
      BY <1>2, <2>1 DEF FilterOwned, Evict, RcFields
    <2>2. ASSUME NEW id \in PodNames, CreatePod(id) \/ RemovePod(id) PROVE rc'.usage = rc.usage
      BY <1>2, <2>2 DEF CreatePod, RemovePod, RcFields
    <2>3. ASSUME NEW id \in PodNames, SchedulePod(id) PROVE rc'.usage = rc.usage
      BY <1>2, <2>3 DEF SchedulePod, PutScheduled, RcFields
    <2>4. ASSUME NEW id \in PodNames, ScheduleFails(id) PROVE rc'.usage = rc.usage
      BY <1>2, <2>4 DEF ScheduleFails, RcFields
    <2>5. ASSUME NEW id \in PodNames, StillPending(id) PROVE rc'.usage = rc.usage
      BY <1>2, <2>5 DEF StillPending, RcFields
    <2> QED
      BY <1>5, <2>1, <2>2, <2>3, <2>4, <2>5 DEF PodWrites
  <1>6. CASE Claims
    <2>1. CASE StartClaim
      BY <1>2, <2>1 DEF StartClaim, RcFields
    <2>2. ASSUME NEW v \in Volumes, ClaimGet(v) PROVE rc'.usage = rc.usage
      BY <1>2, <2>2 DEF ClaimGet, RcFields
    <2>3. CASE ClaimPut \/ ClaimFails
      BY <1>2, <2>3 DEF ClaimPut, ClaimFails, RcFields
    <2> QED
      BY <1>6, <2>1, <2>2, <2>3 DEF Claims
  <1>7. CASE Updates
    BY <1>3, <1>7 DEF Updates, StatusGet, StatusPut, WriteFails, Between
  <1>8. CASE Handlers
    BY <1>8, HandlersAppear
  <1>9. CASE UNCHANGED vars
    BY <1>9 DEF vars
  <1> QED
    BY <1>4, <1>5, <1>6, <1>7, <1>8, <1>9, NextCases

\* Over all orders in which the nodes of the pass may be listed, Schedule
\* returns exactly the nodes of Placements, and ErrNoNodeAvailable when there is none.
PlacesWithLoop ==
    LET candidates == {NodeCandidate(n, rc.usage) : n \in rc.cands}
        returned == {Schedule(podResourceRequest(rc.d), s) : s \in Listings(candidates)}
    IN  returned = IF Placements = {} THEN {NoNode} ELSE Placements

(***************************************************************************)
(* In every state of the deployment controller, against every other        *)
(* writer, the nodes schedulePod may pick are those that the scheduler's   *)
(* loop returns for some order of the listed nodes: modelling the loop by  *)
(* the set Placements loses no behaviour of the code and adds none.        *)
(***************************************************************************)
THEOREM PlacementsExact == Spec => []PlacesWithLoop
  <1>1. Init => UsageOK
    BY NoUsageOK DEF Init, UsageOK, Between
  <1>2. TypeOK /\ UsageOK /\ [Next]_vars => UsageOK'
    BY UsageStep
  <1>3. TypeOK /\ UsageOK => PlacesWithLoop
    <2>1. SUFFICES ASSUME TypeOK, UsageOK PROVE PlacesWithLoop
      OBVIOUS
    <2> DEFINE candidates == {NodeCandidate(n, rc.usage) : n \in rc.cands}
               req == podResourceRequest(rc.d)
    <2>2. rc.cands \subseteq Nodes
      BY <2>1 DEF TypeOK, RcOK
    <2>3. IsFiniteSet(candidates)
      <3> DEFINE f == [n \in rc.cands |-> NodeCandidate(n, rc.usage)]
      <3>1. IsFiniteSet(rc.cands)
        BY <2>2, FiniteAssumption, FS_Subset
      <3>2. f \in Surjection(rc.cands, candidates)
        BY DEF Surjection
      <3> HIDE DEF f, candidates
      <3> QED
        BY <3>1, <3>2, FS_Surjection
    <2>4. \A c \in candidates : FreeCPU(c) \in Int /\ FreeMem(c) \in Int
      BY <2>1, <2>2, CapacityAssumption DEF UsageOK, NodeCandidate, FreeCPU, FreeMem
    <2>5. req.cpu \in Int /\ req.mem \in Int /\ req.cpu + req.mem >= 0
      BY DEF podResourceRequest
    <2>6. Placements = BestNodes(req, candidates)
      BY DEF Placements, BestNodes, Fits, Score, FreeCPU, FreeMem, acceleratorsFit, portsFit, Count,
             Sched!BestNodes, Sched!Fits, Sched!Score, Sched!FreeCPU, Sched!FreeMem,
             Sched!acceleratorsFit, Sched!portsFit, Sched!Count
    <2> HIDE DEF candidates, req
    <2>7. BestFit(req, candidates)
      BY <2>3, <2>4, <2>5, SchedulingExact
    <2>8. {Schedule(req, s) : s \in Listings(candidates)} = IF Placements = {} THEN {NoNode} ELSE Placements
      BY <2>6, <2>7 DEF BestFit
    <2> QED
      BY <2>8 DEF PlacesWithLoop, candidates, req
  <1> QED
    BY <1>1, <1>2, <1>3, TypeCorrectness, PTL DEF Spec
=============================================================================
