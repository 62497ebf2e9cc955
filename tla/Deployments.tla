----------------------------- MODULE Deployments -----------------------------
(***************************************************************************)
(* The deployment controller (internal/controller/deployment.go with       *)
(* scheduling.go) against everything that writes the same objects: the API *)
(* handlers of deployments, pods and volumes, autoscaler and dashboard     *)
(* (which read a deployment and write it back), and the agents' status     *)
(* reports.  The registry offers no transaction and no version check, so   *)
(* every Get, List, Put and Delete is a step of its own and what a handler *)
(* read may be stale when it writes.                                       *)
(*                                                                         *)
(* A pod is named by its deployment and ordinal.  Requests and capacities  *)
(* are in units of one resource; a template may declare one container      *)
(* port.  Only the controller of the leading replica writes: when it loses *)
(* leadership its next write fails, as it does on a Raft timeout.          *)
(***************************************************************************)
EXTENDS Integers, FiniteSets

CONSTANTS
    DeploymentNames,
    Nodes,
    Volumes,
    Mounts,        \* deployment -> volumes its template mounts
    HasPort,       \* deployments whose template declares the container port
    Capacity,      \* node -> units it can allocate
    Cordoned,      \* nodes with Spec.Unschedulable
    MaxReplicas,   \* bound: largest replica count ever asked for
    MaxOps,        \* bound: client, agent and node events in a behaviour
    None           \* no object, no call under way, no node

ASSUME MountsAssumption == Mounts \in [DeploymentNames -> SUBSET Volumes]
ASSUME HasPortAssumption == HasPort \subseteq DeploymentNames
ASSUME CapacityAssumption == Capacity \in [Nodes -> Nat]
ASSUME CordonedAssumption == Cordoned \subseteq Nodes
ASSUME BoundsAssumption == MaxReplicas \in Nat /\ MaxOps \in Nat
ASSUME FiniteAssumption == IsFiniteSet(DeploymentNames) /\ IsFiniteSet(Nodes)
ASSUME NoneAssumption == None \notin Nodes \cup DeploymentNames \cup Volumes

Sched == INSTANCE Scheduler WITH NoNode <- None

Ordinals == 0 .. MaxReplicas - 1
PodNames == DeploymentNames \X Ordinals
Phases == {"pending", "running", "terminal"}    \* terminal: SUCCEEDED or FAILED

VARIABLES
    \* the registry
    deployments,   \* name -> [replicas, status] or None
    pods,          \* name -> [node, phase, message] or None
    volumes,       \* name -> [node, owner] or None
    ready,         \* node -> Node.Status.Ready (FALSE also when the node is gone)
    \* the deployment controller
    rc,            \* its program counter and local variables
    \* calls under way elsewhere
    creating,      \* deployment -> replicas, admitted but not yet Put; or None
    cascade,       \* deployments deleted whose pods are not yet listed
    doomed,        \* deployment -> pods its cascade still has to delete
    scaling,       \* [d, copy, to]: read and not yet written back; or None
    hosted,        \* node -> pods its agent runs
    updating,      \* node -> [id, copy]: UpdatePodStatus between Get and Put; or None
    ops,           \* events spent
    \* history, read by no guard
    asked,         \* deployment -> replicas last asked for by a client or autoscaler
    raced,         \* deployments asked anew between a pass's re-fetch and its status update
    peak,          \* deployment -> most replicas ever asked for
    late,          \* pods that exist because a stale copy was written after a deletion
    gone           \* deployments whose DeleteDeployment returned and that nobody re-created

registry == <<deployments, pods, volumes, ready>>
calls == <<creating, cascade, doomed, scaling, hosted, updating>>
history == <<asked, raced, peak, late, gone>>
vars == <<deployments, pods, volumes, ready, rc, creating, cascade, doomed,
          scaling, hosted, updating, ops, asked, raced, peak, late, gone>>

OrNone(S) == S \cup {None}
Status == [replicas : 0 .. MaxReplicas, readyReplicas : 0 .. MaxReplicas]
Deployment == [replicas : 0 .. MaxReplicas, status : Status]
Pod == [node : Nodes \cup {None}, phase : Phases, message : BOOLEAN]
Volume == [node : Nodes \cup {None}, owner : DeploymentNames \cup {None}]

PodsOf(d) == {id \in PodNames : id[1] = d /\ pods[id] # None}
Present(objs) == {id \in DOMAIN objs : objs[id] # None}
NoPods == [id \in PodNames |-> None]
NoStatus == [replicas |-> 0, readyReplicas |-> 0]

\* reconcileOne clamps a volume-backed deployment to one replica.
Want(d, replicas) == IF Mounts[d] # {} /\ replicas > 1 THEN 1 ELSE replicas

-----------------------------------------------------------------------------
(* Scheduling inputs, from one listing of the pods and one of the nodes.   *)

Ports(d) == IF d \in HasPort THEN {"port"} ELSE {}

podResourceRequest(d) ==
    [cpu |-> 1, mem |-> 0, accelerators |-> << >>, ports |-> Ports(d)]

computeNodeUsage ==
    [n \in Nodes |->
        LET on == {id \in PodNames : pods[id] # None /\ pods[id].node = n}
        IN  [units |-> Cardinality(on), ports |-> UNION {Ports(id[1]) : id \in on}]]

NodeCandidate(n, usage) ==
    [name |-> n, cpuCapacity |-> Capacity[n], memCapacity |-> 0,
     cpuUsed |-> usage[n].units, memUsed |-> 0, accelCapacity |-> << >>,
     accelUsed |-> << >>, usedPorts |-> usage[n].ports]

\* The nodes schedulePod may pick for a pod of the deployment in hand.
Placements ==
    Sched!BestNodes(podResourceRequest(rc.d), {NodeCandidate(n, rc.usage) : n \in rc.cands})

-----------------------------------------------------------------------------
NoUsage == [n \in Nodes |-> [units |-> 0, ports |-> {}]]
NoBatch == [d \in DeploymentNames |-> None]

\* The controller between two deployments of a pass, or after the last one.
Between(batch) ==
    [pc |-> IF batch = NoBatch THEN "idle" ELSE "next", batch |-> batch, d |-> None, replicas |-> 0, pass |-> 1,
     listed |-> NoPods, owned |-> NoPods, left |-> {}, pin |-> None,
     usage |-> NoUsage, cands |-> {}, mounts |-> {}, vol |-> None, dep |-> None]

(***************************************************************************)
(* Some deployments have just been created; the volumes exist, unclaimed;  *)
(* every node is ready.                                                    *)
(***************************************************************************)
Init ==
    /\ deployments \in [DeploymentNames -> OrNone([replicas : 0 .. MaxReplicas, status : {NoStatus}])]
    /\ \A d \in DeploymentNames :
          deployments[d] # None /\ Mounts[d] # {} => deployments[d].replicas <= 1
    /\ pods = NoPods
    /\ volumes = [v \in Volumes |-> [node |-> None, owner |-> None]]
    /\ ready = [n \in Nodes |-> TRUE]
    /\ rc = Between(NoBatch)
    /\ creating = [d \in DeploymentNames |-> None]
    /\ cascade = {}
    /\ doomed = [d \in DeploymentNames |-> {}]
    /\ scaling = None
    /\ hosted = [n \in Nodes |-> {}]
    /\ updating = [n \in Nodes |-> None]
    /\ ops = 0
    /\ asked = [d \in DeploymentNames |->
                  IF deployments[d] = None THEN 0 ELSE deployments[d].replicas]
    /\ raced = {}
    /\ peak = asked
    /\ late = {}
    /\ gone = {}

-----------------------------------------------------------------------------
(* The deployment controller.                                              *)

\* reconcileAll: List the deployments.
Tick ==
    /\ rc.pc = "idle"
    /\ rc' = Between([d \in DeploymentNames |->
                        IF deployments[d] = None THEN None ELSE deployments[d].replicas])
    /\ UNCHANGED <<registry, calls, ops, history>>

OwnedListing(d) == [id \in PodNames |-> IF id[1] = d THEN pods[id] ELSE None]

\* reconcileOne on the copy of d listed at the start of the pass; ownedPods lists the pods.
ReconcileOne(d) ==
    /\ rc.pc = "next"
    /\ rc.batch[d] # None
    /\ rc' = [Between([rc.batch EXCEPT ![d] = None]) EXCEPT
                 !.pc = "filter", !.d = d, !.replicas = rc.batch[d],
                 !.listed = OwnedListing(d)]
    /\ UNCHANGED <<registry, calls, ops, history>>

\* Mutant: pods stay on nodes that are not ready.
Evictable_NotByNode(p) == p.phase = "terminal"

(***************************************************************************)
(* One iteration of ownedPods: a pod on a node that is not ready, or in a  *)
(* terminal phase, is to be deleted (left); any other one is kept.         *)
(***************************************************************************)
Evictable(p) ==
    \/ p.node # None /\ ~ready[p.node]
    \/ p.phase = "terminal"

FilterOwned(id) ==
    /\ rc.pc = "filter"
    /\ rc.left = {}
    /\ rc.listed[id] # None
    /\ rc' = IF Evictable(rc.listed[id])
             THEN [rc EXCEPT !.left = {id}]
             ELSE [rc EXCEPT !.listed[id] = None, !.owned[id] = rc.listed[id]]
    /\ UNCHANGED <<registry, calls, ops, history>>

\* The Delete that follows, whatever the pod and its node have become since.
Evict(id) ==
    /\ rc.pc = "filter"
    /\ id \in rc.left
    /\ pods' = [pods EXCEPT ![id] = None]
    /\ late' = late \ {id}
    /\ rc' = [rc EXCEPT !.left = {}, !.listed[id] = None]
    /\ UNCHANGED <<deployments, volumes, ready, calls, ops, asked, raced, peak, gone>>

Filtered(pass) == rc.pc = "filter" /\ rc.pass = pass /\ Present(rc.listed) = {}
Have == Cardinality(Present(rc.owned))
WantNow == Want(rc.d, rc.replicas)

\* Mutants: count on from the number of pods there are; create one too many.
FreeOrdinals_FromHave == Have .. WantNow - 1
FreeOrdinals_OneMore ==
    LET free == {i \in Ordinals : rc.owned[<<rc.d, i>>] = None}
    IN  {i \in free : Cardinality({j \in free : j < i}) <= WantNow - Have}

\* The lowest ordinals no owned pod has, as many as there are pods missing.
FreeOrdinals ==
    LET free == {i \in Ordinals : rc.owned[<<rc.d, i>>] = None}
    IN  {i \in free : Cardinality({j \in free : j < i}) < WantNow - Have}

\* The ordinals to fill; the volumes have still to be looked up (mounts).
PlanCreate ==
    /\ Filtered(1)
    /\ Have < WantNow
    /\ rc' = [rc EXCEPT !.pc = "create", !.mounts = Mounts[rc.d],
                        !.left = {<<rc.d, i>> : i \in FreeOrdinals}]
    /\ UNCHANGED <<registry, calls, ops, history>>

\* One Get of resolveVolumeNode, which ends at the first volume that is claimed.
ResolveVolumeNode(v) ==
    /\ rc.pc = "create"
    /\ v \in rc.mounts
    /\ rc' = IF volumes[v] # None /\ volumes[v].node # None
             THEN [rc EXCEPT !.mounts = {}, !.pin = volumes[v].node]
             ELSE [rc EXCEPT !.mounts = @ \ {v}]
    /\ UNCHANGED <<registry, calls, ops, history>>

\* owned[want:] in the order of the listing, which is no fixed order.  (Replica
\* counts are not negative here: the code indexes owned with one and panics.)
PlanDelete ==
    /\ Filtered(1)
    /\ Have > WantNow
    /\ \E excess \in SUBSET Present(rc.owned) :
          /\ Cardinality(excess) = Have - WantNow
          /\ rc' = [rc EXCEPT !.pc = "delete", !.left = excess]
    /\ UNCHANGED <<registry, calls, ops, history>>

\* newPod, on the node its volume is pinned to, if any.
NewPod(pin) == [node |-> pin, phase |-> "pending", message |-> FALSE]

\* One newPod and Put of the creation loop, in the order of the ordinals.
CreatePod(id) ==
    /\ rc.pc = "create"
    /\ rc.mounts = {}
    /\ id \in rc.left
    /\ \A o \in rc.left : id[2] <= o[2]
    /\ pods' = [pods EXCEPT ![id] = NewPod(rc.pin)]
    /\ late' = late \ {id}
    /\ rc' = [rc EXCEPT !.left = @ \ {id}]
    /\ UNCHANGED <<deployments, volumes, ready, calls, ops, asked, raced, peak, gone>>

RemovePod(id) ==
    /\ rc.pc = "delete"
    /\ id \in rc.left
    /\ pods' = [pods EXCEPT ![id] = None]
    /\ late' = late \ {id}
    /\ rc' = [rc EXCEPT !.left = @ \ {id}]
    /\ UNCHANGED <<deployments, volumes, ready, calls, ops, asked, raced, peak, gone>>

\* The second ownedPods.
Relist ==
    /\ \/ rc.pc \in {"create", "delete"} /\ rc.left = {}
       \/ Filtered(1) /\ Have = WantNow
    /\ rc' = [rc EXCEPT !.pc = "filter", !.pass = 2, !.listed = OwnedListing(rc.d),
                        !.owned = NoPods, !.pin = None, !.replicas = 0]
    /\ UNCHANGED <<registry, calls, ops, history>>

Unassigned == {id \in Present(rc.owned) : rc.owned[id].node = None}

\* scheduleUnassigned: nodeUsage lists the pods ...
ListUsage ==
    /\ Filtered(2)
    /\ Unassigned # {}
    /\ rc' = [rc EXCEPT !.pc = "candidates", !.left = Unassigned, !.usage = computeNodeUsage]
    /\ UNCHANGED <<registry, calls, ops, history>>

\* ... and buildNodeCandidates the nodes.
BuildNodeCandidates ==
    /\ rc.pc = "candidates"
    /\ rc' = [rc EXCEPT !.pc = "schedule", !.cands = {n \in Nodes \ Cordoned : ready[n]}]
    /\ UNCHANGED <<registry, calls, ops, history>>

(***************************************************************************)
(* schedulePod.  The candidates are not updated between two pods, and the  *)
(* pod written is the listed copy: a pod deleted since comes back.         *)
(***************************************************************************)
PutScheduled(id, p) ==
    /\ pods' = [pods EXCEPT ![id] = p]
    /\ late' = IF pods[id] = None THEN late \cup {id} ELSE late
    /\ rc' = [rc EXCEPT !.left = @ \ {id}, !.owned[id] = p]
    /\ UNCHANGED <<deployments, volumes, ready, calls, ops, asked, raced, peak, gone>>

\* What it writes: the placement, or once the reason why there is none.
ToWrite(id) ==
    LET p == rc.owned[id]
    IN  IF Placements # {}
        THEN {[p EXCEPT !.node = n, !.message = FALSE] : n \in Placements}
        ELSE {[p EXCEPT !.message = TRUE]} \ {p}

SchedulePod(id) ==
    /\ rc.pc = "schedule"
    /\ id \in rc.left
    /\ \E p \in ToWrite(id) : PutScheduled(id, p)

StillPending(id) ==
    /\ rc.pc = "schedule"
    /\ id \in rc.left
    /\ ToWrite(id) = {}
    /\ rc' = [rc EXCEPT !.left = @ \ {id}]
    /\ UNCHANGED <<registry, calls, ops, history>>

Scheduled ==
    \/ Filtered(2) /\ Unassigned = {}
    \/ rc.pc = "schedule" /\ rc.left = {}

\* claimVolumeNodes: the node of the first owned pod that has one.
StartClaim ==
    /\ Scheduled
    /\ Mounts[rc.d] # {}
    /\ \E id \in Present(rc.owned) :
          /\ rc.owned[id].node # None
          /\ rc' = [rc EXCEPT !.pc = "claim", !.pin = rc.owned[id].node,
                              !.mounts = Mounts[rc.d], !.usage = NoUsage, !.cands = {}]
    /\ UNCHANGED <<registry, calls, ops, history>>

\* Mutant: a claimed volume is claimed again.
ClaimGet_Unchecked(v) ==
    /\ rc.pc = "claim"
    /\ rc.vol = None
    /\ v \in rc.mounts
    /\ rc' = IF volumes[v] # None THEN [rc EXCEPT !.vol = v] ELSE [rc EXCEPT !.mounts = @ \ {v}]
    /\ UNCHANGED <<registry, calls, ops, history>>

\* Mutant: at a volume that is claimed already the pass ends, before the status update.
ClaimGet_EndsPass(v) ==
    /\ rc.pc = "claim"
    /\ rc.vol = None
    /\ v \in rc.mounts
    /\ rc' = IF volumes[v] = None THEN [rc EXCEPT !.mounts = @ \ {v}]
             ELSE IF volumes[v].node = None THEN [rc EXCEPT !.vol = v]
             ELSE Between(rc.batch)
    /\ UNCHANGED <<registry, calls, ops, history>>

\* Get the volume: a missing or already claimed one is skipped.
ClaimGet(v) ==
    /\ rc.pc = "claim"
    /\ rc.vol = None
    /\ v \in rc.mounts
    /\ rc' = IF volumes[v] # None /\ volumes[v].node = None
             THEN [rc EXCEPT !.vol = v]
             ELSE [rc EXCEPT !.mounts = @ \ {v}]
    /\ UNCHANGED <<registry, calls, ops, history>>

ClaimPut ==
    /\ rc.pc = "claim"
    /\ rc.vol # None
    /\ volumes' = [volumes EXCEPT ![rc.vol] = [node |-> rc.pin, owner |-> rc.d]]
    /\ rc' = [rc EXCEPT !.mounts = @ \ {rc.vol}, !.vol = None]
    /\ UNCHANGED <<deployments, pods, ready, calls, ops, history>>

ClaimsDone ==
    \/ Scheduled /\ (Mounts[rc.d] = {} \/ Unassigned = Present(rc.owned))
    \/ rc.pc = "claim" /\ rc.mounts = {}

(***************************************************************************)
(* The status update: re-fetch the deployment, then write it back whole.   *)
(***************************************************************************)
StatusNow ==
    [replicas |-> Have,
     readyReplicas |-> Cardinality({id \in Present(rc.owned) : rc.owned[id].phase = "running"})]

\* Mutant: the deployment as it was listed at the start of the pass.
StatusGet_Listed ==
    /\ ClaimsDone
    /\ rc' = IF deployments[rc.d] = None
             THEN Between(rc.batch)
             ELSE [Between(rc.batch) EXCEPT
                     !.pc = "put", !.d = rc.d, !.dep = [replicas |-> rc.replicas, status |-> StatusNow]]
    /\ UNCHANGED <<registry, calls, ops, history>>

StatusGet ==
    /\ ClaimsDone
    /\ rc' = IF deployments[rc.d] = None
             THEN Between(rc.batch)
             ELSE [Between(rc.batch) EXCEPT
                     !.pc = "put", !.d = rc.d,
                     !.dep = [deployments[rc.d] EXCEPT !.status = StatusNow]]
    /\ UNCHANGED <<registry, calls, ops, history>>

StatusPut ==
    /\ rc.pc = "put"
    /\ deployments' = [deployments EXCEPT ![rc.d] = rc.dep]
    /\ rc' = Between(rc.batch)
    /\ UNCHANGED <<pods, volumes, ready, calls, ops, history>>

(***************************************************************************)
(* A write of the controller fails (leadership lost, Raft timeout).  A     *)
(* failed schedulePod leaves its choice in the copy in memory and the pass *)
(* goes on to the volumes and the status; a failed claim goes on to the    *)
(* status; any other failure ends reconcileOne.                            *)
(***************************************************************************)
ScheduleFails(id) ==
    /\ rc.pc = "schedule"
    /\ ops < MaxOps
    /\ id \in rc.left
    /\ \E p \in ToWrite(id) : rc' = [rc EXCEPT !.left = {}, !.owned[id] = p]
    /\ ops' = ops + 1
    /\ UNCHANGED <<registry, calls, history>>

ClaimFails ==
    /\ rc.pc = "claim"
    /\ rc.vol # None
    /\ ops < MaxOps
    /\ rc' = [rc EXCEPT !.vol = None, !.mounts = {}]
    /\ ops' = ops + 1
    /\ UNCHANGED <<registry, calls, history>>

WriteFails ==
    /\ \/ rc.pc \in {"create", "delete"} /\ rc.left # {}
       \/ rc.pc = "filter" /\ rc.left # {}
       \/ rc.pc = "put"
    /\ ops < MaxOps
    /\ rc' = Between(rc.batch)
    /\ ops' = ops + 1
    /\ UNCHANGED <<registry, calls, history>>

-----------------------------------------------------------------------------
(* The API server's handlers and their callers.                            *)

(***************************************************************************)
(* CreateDeployment (also every update).  Admission: VolumeReplicasPolicy  *)
(* and VolumeOwnershipPolicy, read before the Put.  The other policies can *)
(* only refuse.                                                            *)
(***************************************************************************)
Admits(d, replicas) ==
    /\ Mounts[d] # {} => replicas <= 1
    /\ \A v \in Mounts[d] : volumes[v] # None => volumes[v].owner \in {None, d}

CreateAdmit(d, replicas) ==
    /\ ops < MaxOps
    /\ creating[d] = None
    /\ Admits(d, replicas)
    /\ creating' = [creating EXCEPT ![d] = replicas]
    /\ ops' = ops + 1
    /\ UNCHANGED <<registry, rc, cascade, doomed, scaling, hosted, updating, history>>

Asked(d, replicas) ==
    /\ asked' = [asked EXCEPT ![d] = replicas]
    /\ raced' = IF rc.pc = "put" /\ rc.d = d THEN raced \cup {d} ELSE raced
    /\ peak' = [peak EXCEPT ![d] = IF replicas > @ THEN replicas ELSE @]

CreatePut(d) ==
    /\ creating[d] # None
    /\ deployments' = [deployments EXCEPT ![d] = [replicas |-> creating[d], status |-> NoStatus]]
    /\ creating' = [creating EXCEPT ![d] = None]
    /\ Asked(d, creating[d])
    /\ gone' = gone \ {d}
    /\ UNCHANGED <<pods, volumes, ready, rc, cascade, doomed, scaling, hosted, updating, ops, late>>

\* DeleteDeployment: the object, then a listing of the pods, then each owned pod.
DeleteDeployment(d) ==
    /\ ops < MaxOps
    /\ d \notin cascade /\ doomed[d] = {}
    /\ deployments' = [deployments EXCEPT ![d] = None]
    /\ cascade' = cascade \cup {d}
    /\ gone' = gone \cup {d}
    /\ ops' = ops + 1
    /\ UNCHANGED <<pods, volumes, ready, rc, creating, doomed, scaling, hosted, updating,
                   asked, raced, peak, late>>

CascadeList(d) ==
    /\ d \in cascade
    /\ doomed' = [doomed EXCEPT ![d] = PodsOf(d)]
    /\ cascade' = cascade \ {d}
    /\ UNCHANGED <<registry, rc, creating, scaling, hosted, updating, ops, history>>

CascadeDelete(id) ==
    /\ id \in doomed[id[1]]
    /\ pods' = [pods EXCEPT ![id] = None]
    /\ doomed' = [doomed EXCEPT ![id[1]] = @ \ {id}]
    /\ late' = late \ {id}
    /\ UNCHANGED <<deployments, volumes, ready, rc, creating, cascade, scaling, hosted,
                   updating, ops, asked, raced, peak, gone>>

\* The listing or a Delete fails: the handler returns, the rest of the pods stay.
CascadeFails(d) ==
    /\ ops < MaxOps
    /\ d \in cascade \/ doomed[d] # {}
    /\ cascade' = cascade \ {d}
    /\ doomed' = [doomed EXCEPT ![d] = {}]
    /\ gone' = gone \ {d}
    /\ ops' = ops + 1
    /\ UNCHANGED <<registry, rc, creating, scaling, hosted, updating, asked, raced, peak, late>>

(***************************************************************************)
(* The autoscaler (hpa.go) and the dashboard's scale handler: Get the      *)
(* deployment, change its replicas, Put it.                                *)
(***************************************************************************)
ScaleGet(d, to) ==
    /\ ops < MaxOps
    /\ scaling = None
    /\ deployments[d] # None
    /\ scaling' = [d |-> d, copy |-> [deployments[d] EXCEPT !.replicas = to]]
    /\ ops' = ops + 1
    /\ UNCHANGED <<registry, rc, creating, cascade, doomed, hosted, updating, history>>

ScalePut ==
    /\ scaling # None
    /\ deployments' = [deployments EXCEPT ![scaling.d] = scaling.copy]
    /\ Asked(scaling.d, scaling.copy.replicas)
    /\ scaling' = None
    /\ UNCHANGED <<pods, volumes, ready, rc, creating, cascade, doomed, hosted, updating,
                   ops, late, gone>>

DeletePod(id) ==
    /\ ops < MaxOps
    /\ pods[id] # None
    /\ pods' = [pods EXCEPT ![id] = None]
    /\ late' = late \ {id}
    /\ ops' = ops + 1
    /\ UNCHANGED <<deployments, volumes, ready, rc, calls, asked, raced, peak, gone>>

\* CreateVolume resets the status (and the owner label) of a volume that exists.
CreateVolume(v) ==
    /\ ops < MaxOps
    /\ volumes' = [volumes EXCEPT ![v] = [node |-> None, owner |-> None]]
    /\ ops' = ops + 1
    /\ UNCHANGED <<deployments, pods, ready, rc, calls, history>>

DeleteVolume(v) ==
    /\ ops < MaxOps
    /\ volumes' = [volumes EXCEPT ![v] = None]
    /\ ops' = ops + 1
    /\ UNCHANGED <<deployments, pods, ready, rc, calls, history>>

-----------------------------------------------------------------------------
(* Nodes: their readiness changes (heartbeats, the node health controller) *)
(* and their agents run and report the pods assigned to them.              *)

NodeChange(n) ==
    /\ ops < MaxOps
    /\ ready' = [ready EXCEPT ![n] = ~@]
    /\ ops' = ops + 1
    /\ UNCHANGED <<deployments, pods, volumes, rc, calls, history>>

\* Agent.reconcile: start what is assigned to this node, stop what no longer is.
AgentSync(n) ==
    /\ updating[n] = None
    /\ LET desired == {id \in PodNames : pods[id] # None /\ pods[id].node = n}
       IN  /\ hosted[n] # desired
           /\ hosted' = [hosted EXCEPT ![n] = desired]
    /\ UNCHANGED <<registry, rc, creating, cascade, doomed, scaling, updating, ops, history>>

(***************************************************************************)
(* UpdatePodStatus from the agent of n: Get, check that the pod is not     *)
(* assigned to another node, replace the status, Put the whole pod.        *)
(***************************************************************************)
UpdateGet(n, id, phase) ==
    /\ ops < MaxOps
    /\ updating[n] = None
    /\ id \in hosted[n]
    /\ pods[id] # None
    /\ pods[id].node \in {None, n}
    /\ updating' = [updating EXCEPT ![n] =
                      [id |-> id, copy |-> [pods[id] EXCEPT !.phase = phase, !.message = FALSE]]]
    /\ hosted' = [hosted EXCEPT ![n] = IF phase = "terminal" THEN @ \ {id} ELSE @]
    /\ ops' = ops + 1
    /\ UNCHANGED <<registry, rc, creating, cascade, doomed, scaling, history>>

UpdatePut(n) ==
    /\ updating[n] # None
    /\ LET u == updating[n]
       IN  /\ pods' = [pods EXCEPT ![u.id] = u.copy]
           /\ late' = IF pods[u.id] = None THEN late \cup {u.id} ELSE late
    /\ updating' = [updating EXCEPT ![n] = None]
    /\ UNCHANGED <<deployments, volumes, ready, rc, creating, cascade, doomed, scaling,
                   hosted, ops, asked, raced, peak, gone>>

-----------------------------------------------------------------------------
Controller ==
    \/ Tick
    \/ \E d \in DeploymentNames : ReconcileOne(d)
    \/ \E id \in PodNames : FilterOwned(id)
    \/ \E id \in PodNames : Evict(id)
    \/ PlanCreate
    \/ \E v \in Volumes : ResolveVolumeNode(v)
    \/ PlanDelete
    \/ \E id \in PodNames : CreatePod(id)
    \/ \E id \in PodNames : RemovePod(id)
    \/ Relist
    \/ ListUsage
    \/ BuildNodeCandidates
    \/ \E id \in PodNames : SchedulePod(id)
    \/ \E id \in PodNames : StillPending(id)
    \/ StartClaim
    \/ \E v \in Volumes : ClaimGet(v)
    \/ ClaimPut
    \/ StatusGet
    \/ StatusPut

Failure ==
    \/ \E id \in PodNames : ScheduleFails(id)
    \/ ClaimFails
    \/ WriteFails
    \/ \E d \in DeploymentNames : CascadeFails(d)

Calls ==
    \/ \E d \in DeploymentNames, r \in 0 .. MaxReplicas : CreateAdmit(d, r)
    \/ \E d \in DeploymentNames : DeleteDeployment(d)
    \/ \E d \in DeploymentNames, r \in 0 .. MaxReplicas : ScaleGet(d, r)
    \/ \E id \in PodNames : DeletePod(id)
    \/ \E v \in Volumes : CreateVolume(v)
    \/ \E v \in Volumes : DeleteVolume(v)
    \/ \E n \in Nodes : NodeChange(n)
    \/ \E n \in Nodes, id \in PodNames, phase \in {"running", "terminal"} :
          UpdateGet(n, id, phase)

Returns ==
    \/ \E d \in DeploymentNames : CreatePut(d)
    \/ \E d \in DeploymentNames : CascadeList(d)
    \/ \E id \in PodNames : CascadeDelete(id)
    \/ ScalePut
    \/ \E n \in Nodes : UpdatePut(n)

Agents == \E n \in Nodes : AgentSync(n)

Next == Controller \/ Failure \/ Calls \/ Returns \/ Agents

Spec == Init /\ [][Next]_vars

(***************************************************************************)
(* The controller's ticker fires for ever and a pass is a finite sequence  *)
(* of calls that return; a handler that started runs to its end; an agent  *)
(* reconciles on every tick of its own.  Nothing makes clients, nodes or   *)
(* failures happen.                                                        *)
(***************************************************************************)
Fairness ==
    /\ WF_vars(Controller)
    /\ WF_vars(Returns)
    /\ \A n \in Nodes : WF_vars(AgentSync(n))

FairSpec == Spec /\ Fairness

-----------------------------------------------------------------------------
(***************************************************************************)
(* The creation loop never overwrites a replica that is still there (Put   *)
(* is an upsert): the only pods it may find under the name it writes are   *)
(* those a stale copy brought back after their deletion.                   *)
(***************************************************************************)
CreateNeverOverwrites ==
    [][ \A id \in PodNames : CreatePod(id) => pods[id] = None \/ id \in late ]_vars

(***************************************************************************)
(* Whatever the interleaving of scaling, evictions, failures and repeated  *)
(* passes on stale copies, a deployment never has more pods than were ever *)
(* asked for at once, not counting pods a stale copy brought back.         *)
(***************************************************************************)
NeverOverprovisions ==
    \A d \in DeploymentNames : Cardinality(PodsOf(d) \ late) <= peak[d]

\* A pod of d runs on a usable node, or waits because none has room for it.
Placed(id) ==
    LET p == pods[id]
        use == computeNodeUsage
        usable == {n \in Nodes \ Cordoned : ready[n]}
    IN  IF p.node # None THEN ready[p.node]
        ELSE Sched!BestNodes(podResourceRequest(id[1]),
                             {NodeCandidate(n, use) : n \in usable}) = {}

\* A volume d mounts is claimed for a node that is not ready: reconcileOne creates
\* the pod there all the same and ownedPods evicts it, again on every pass.
Stranded(d) ==
    \E v \in Mounts[d] :
        volumes[v] # None /\ volumes[v].node # None /\ ~ready[volumes[v].node]

(***************************************************************************)
(* Self-healing: once clients, nodes and failures leave it alone, every    *)
(* deployment gets exactly the pods it asks for, each on a ready node      *)
(* unless none has room, and keeps them; and the status a client reads     *)
(* tells the truth, although each listing is stale when it is written.     *)
(* The one exception is a deployment with a volume on a node that stays    *)
(* away: its pod is created and evicted for ever.                          *)
(***************************************************************************)
Settled(d) ==
    deployments[d] # None =>
        /\ Cardinality(PodsOf(d)) = Want(d, deployments[d].replicas)
        /\ \A id \in PodsOf(d) : Placed(id) /\ pods[id].phase # "terminal"
        /\ deployments[d].status =
              [replicas |-> Cardinality(PodsOf(d)),
               readyReplicas |-> Cardinality({id \in PodsOf(d) : pods[id].phase = "running"})]

Converges == <>[](\A d \in DeploymentNames : Settled(d) \/ Stranded(d))

(***************************************************************************)
(* "First pod to use a volume claims it for that node, permanently": the   *)
(* controller never moves a claim to another node or owner.                *)
(***************************************************************************)
ClaimsArePermanent ==
    [][ \A v \in Volumes :
          volumes[v] # None /\ volumes[v].node # None =>
              volumes'[v] = volumes[v] \/ \E u \in Volumes : CreateVolume(u) \/ DeleteVolume(u) ]_vars

(***************************************************************************)
(* concurrency_test.go asserts that the controller does not clobber a      *)
(* replica change.  What holds is less: the deployment has the replicas    *)
(* last asked for, unless they were asked for between the re-fetch and the *)
(* Put of a status update.                                                 *)
(***************************************************************************)
ClobberIsExplained ==
    \A d \in DeploymentNames : deployments[d] # None /\ deployments[d].replicas # asked[d] => d \in raced

(***************************************************************************)
(* What deployment_service_test.go:47 asserts: after DeleteDeployment no   *)
(* pod the deployment owned is left behind.                                *)
(***************************************************************************)
CascadeIsComplete ==
    <>[](\A d \in gone : deployments[d] = None => PodsOf(d) = {})
=============================================================================
