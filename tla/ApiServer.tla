------------------------------ MODULE ApiServer ------------------------------
(***************************************************************************)
(* Workloads as their clients see them: the dashboard's handlers that      *)
(* create, edit, scale and delete deployments (internal/dashboard/         *)
(* dashboard.go), the gRPC services of deployments, pods and volumes       *)
(* behind the admission chain, the agents' status reports, the CSI         *)
(* hostpath driver, the GitOps reconciler, the autoscaler and the pod      *)
(* controller, with the deployment controller at work beside them.  The    *)
(* latter's passes are coarse here (fetch, size, place, claim) and in full *)
(* in the module Deployments; nodes stay ready and pods do not end.        *)
(*                                                                         *)
(* Every store call of a handler is a step, but for the reads of the       *)
(* admission chain, which are one.  The objects are those of one           *)
(* namespace; the dashboard names a volume after its deployment.  Requests *)
(* name no port (the service that a port adds is in the module Services).  *)
(* A pod made by hand has neither the name nor the owner label of a        *)
(* deployment's pod, and is held to no volume claim by the pod controller. *)
(***************************************************************************)
EXTENDS Admission, FiniteSets

CONSTANTS
    Names,        \* deployments
    Nodes,
    Handlers,     \* requests served at the same time
    Manifests,    \* deployment -> what the Git repository says of it
    Templates,    \* what the gRPC clients ask for
    Capacity,     \* units a node can allocate
    MaxReplicas,  \* bound: largest replica count asked for
    MaxRequests,  \* bound: requests the handlers serve, and syncs with the Git repository
    MaxFaults     \* bound: failures and pods deleted by hand

ASSUME VolumesAssumption == Volumes \subseteq Names
ASSUME NamesAssumption == IsFiniteSet(Names)
ASSUME SizesAssumption == Capacity \in Nat \ {0} /\ MaxReplicas \in Nat \ {0}
ASSUME TemplatesAssumption == Templates \subseteq Template
ASSUME BoundsAssumption == MaxRequests \in Nat /\ MaxFaults \in Nat

PodNames == (Names \cup {None}) \X (0 .. MaxReplicas - 1)    \* those of None have no owner
Deployment == [replicas : 0 .. MaxReplicas, t : Template, managed : BOOLEAN]
Pod == [t : Template, node : Nodes \cup {None}]
Volume == [node : Nodes \cup {None}, owner : Names \cup {None}]

ASSUME NoneAssumption == None \notin Names \cup Nodes \cup Deployment \cup Volume
ASSUME PodAssumption == None \notin Pod
ASSUME ManifestsAssumption ==
    \A d \in DOMAIN Manifests : d \in Names /\ Manifests[d] \in Deployment /\ Manifests[d].managed

VARIABLES
    deployments, pods, volumes,   \* the registry, None where nothing is stored
    dirs,         \* directories of the hostpath driver
    data,         \* <<volume, node>>: directories the agents have made
    call,         \* per handler: the request it serves
    rc,           \* the deployment controller's pass
    pr,           \* the pod controller's pass
    ops,
    flags         \* history: what can explain the oddities below

vars == <<deployments, pods, volumes, dirs, data, call, rc, pr, ops, flags>>
objects == <<deployments, pods, volumes>>
storage == <<dirs, data>>
controllers == <<rc, pr>>

Request == ops.requests < MaxRequests /\ ops' = [ops EXCEPT !.requests = @ + 1]
Fault == ops.faults < MaxFaults /\ ops' = [ops EXCEPT !.faults = @ + 1]
FaultUnless(fine) == IF fine THEN UNCHANGED ops ELSE Fault
NoCall == [op |-> "none", at |-> "idle", d |-> None, replicas |-> 0, t |-> None, node |-> None,
           edit |-> FALSE, managed |-> FALSE, left |-> {}]
NoPass == [at |-> "idle", d |-> None, copy |-> None, owned |-> << >>, usage |-> << >>, taken |-> {},
           left |-> {}]
NoPods == [id \in PodNames |-> None]

PodsOf(d) == {id \in PodNames : id[1] = d /\ pods[id] # None}
Stored == {id \in PodNames : pods[id] # None}
Usage(n) == Cardinality({id \in Stored : pods[id].node = n})
Usages == [n \in Nodes |-> Usage(n)]
At(h, where) == call[h].at = where
Goes(h, where) == call' = [call EXCEPT ![h].at = where]
Returns(h) == call' = [call EXCEPT ![h] = NoCall]
Raise(flag, x) == [flags EXCEPT ![flag] = @ \cup x]

\* reconcileOne's clamp.
Want(dep) == IF dep.t.vols # {} /\ dep.replicas > 1 THEN 1 ELSE dep.replicas
Promised(d) == IF deployments[d] = None THEN 0 ELSE Want(deployments[d])
Short(d) == Cardinality(PodsOf(d)) < Promised(d)

\* Volumes of a placed pod that nothing keeps on its node once the pod is gone.
Unclaimed(id) ==
    {v \in pods[id].t.vols : pods[id].node # None /\ (volumes[v] = None \/ volumes[v].node # pods[id].node)}
Claimed(v) == volumes[v] # None /\ volumes[v].node # None

\* Volumes of one template that are claimed for several nodes: a pod can be on one of them.
Scattered(vols) ==
    {v \in vols : Claimed(v) /\ \E u \in vols : Claimed(u) /\ volumes[u].node # volumes[v].node}

Clean == [ver |-> 0, vols |-> {}, bad |-> "none", seccomp |-> TRUE]

(***************************************************************************)
(* The namespace is empty, or one deployment with storage has been placed. *)
(***************************************************************************)
Empty ==
    /\ deployments = [d \in Names |-> None]
    /\ pods = NoPods
    /\ volumes = [v \in Volumes |-> None]
    /\ dirs = {}
    /\ data = {}

Placed ==
    \E v \in Volumes, n \in Nodes :
        LET t == [Clean EXCEPT !.vols = {v}]
        IN  /\ deployments = [d \in Names |-> IF d = v THEN [replicas |-> 1, t |-> t, managed |-> FALSE]
                                              ELSE None]
            /\ pods = [NoPods EXCEPT ![<<v, 0>>] = [t |-> t, node |-> n]]
            /\ volumes = [u \in Volumes |-> IF u = v THEN [node |-> n, owner |-> v] ELSE None]
            /\ dirs = {v}
            /\ data = {<<v, n>>}

Init ==
    /\ Empty \/ Placed
    /\ call = [h \in Handlers |-> NoCall]
    /\ rc = NoPass
    /\ pr = NoPass
    /\ ops = [requests |-> 0, faults |-> 0]
    /\ flags = [blind |-> FALSE, stale |-> {}, moved |-> {}, unowned |-> {}, crowded |-> {}, torn |-> {}]

-----------------------------------------------------------------------------
(* Requests *)

Serves(h, request) ==
    /\ Request
    /\ At(h, "idle")
    /\ call' = [call EXCEPT ![h] = request]
    /\ UNCHANGED <<objects, storage, controllers, flags>>

(***************************************************************************)
(* handleCreateDeployment, up to the GetDeployment that decides whether    *)
(* this is an edit; one that does not ask for storage keeps the volumes.   *)
(***************************************************************************)
handleCreateDeployment(h, d, replicas, persistent) ==
    /\ persistent => replicas = 1 /\ d \in Volumes
    /\ Serves(h, [NoCall EXCEPT !.op = "deploy", !.at = "lookup", !.d = d, !.replicas = replicas,
                     !.t = [ver |-> 1, vols |-> IF persistent THEN {d} ELSE {}, bad |-> "none",
                            seccomp |-> FALSE]])

\* handleScaleDeployment: the stored object with another replica count.
handleScaleDeployment(h, d, replicas) ==
    /\ deployments[d] # None
    /\ deployments[d].t.vols # {} => replicas <= 1
    /\ Serves(h, [NoCall EXCEPT !.op = "deploy", !.at = "admit", !.d = d, !.replicas = replicas,
                     !.t = deployments[d].t, !.managed = deployments[d].managed])

\* DeploymentService.CreateDeployment and PodService.CreatePod, called directly.
CreateDeployment(h, d, replicas, t) ==
    Serves(h, [NoCall EXCEPT !.op = "deploy", !.at = "admit", !.d = d, !.replicas = replicas, !.t = t])

\* A pod may name its node itself.
CreatePod(h, id, t, n) ==
    /\ id[1] = None
    /\ Serves(h, [NoCall EXCEPT !.op = "pod", !.at = "admit", !.replicas = 1, !.t = t, !.node = n,
                     !.left = {id}])

DeleteDeployment(h, d) == Serves(h, [NoCall EXCEPT !.op = "delete", !.at = "remove", !.d = d])

\* UpdatePodStatus, called by the agents: the pod is read, and later put whole.
UpdatePodStatus(h, id) ==
    /\ pods[id] # None
    /\ Serves(h, [NoCall EXCEPT !.op = "report", !.at = "report", !.t = pods[id].t,
                     !.node = pods[id].node, !.left = {id}])

(***************************************************************************)
(* The autoscaler, for a deployment with pods: the deployment is read      *)
(* again and later put with the count computed, which nobody admits.  (A   *)
(* controller, served here like a request.)                                *)
(***************************************************************************)
Autoscale(h, d, replicas) ==
    /\ Request
    /\ At(h, "idle")
    /\ deployments[d] # None /\ PodsOf(d) # {}
    /\ call' = [call EXCEPT ![h] = [NoCall EXCEPT !.op = "deploy", !.at = "put", !.d = d,
                   !.replicas = replicas, !.t = deployments[d].t, !.managed = deployments[d].managed]]
    /\ flags' = [flags EXCEPT !.blind = @ \/ replicas > Promised(d)]
    /\ UNCHANGED <<objects, storage, controllers>>

CreateVolume(h, v) == Serves(h, [NoCall EXCEPT !.op = "volume", !.at = "provision", !.d = v])
DeleteVolume(h, v) == Serves(h, [NoCall EXCEPT !.op = "volume", !.at = "deprovision", !.d = v])

\* handlePods: DELETE, or PodService.DeletePod.
DeletePod(id) ==
    /\ Fault
    /\ pods[id] # None
    /\ pods' = [pods EXCEPT ![id] = None]
    /\ flags' = Raise("moved", Unclaimed(id))
    /\ UNCHANGED <<deployments, volumes, storage, call, controllers>>

-----------------------------------------------------------------------------
(* The steps of a request *)

\* GetDeployment: what cannot be read, for whatever reason, is not there.
LookUp(h, readable) ==
    LET c == call[h]
        edit == readable /\ deployments[c.d] # None
    IN  /\ At(h, "lookup")
        /\ FaultUnless(readable)
        /\ call' = [call EXCEPT ![h].edit = edit, ![h].at = IF c.t.vols # {} THEN "volume" ELSE "admit",
               ![h].t.vols = IF @ = {} /\ edit THEN deployments[c.d].t.vols ELSE @]
        /\ UNCHANGED <<objects, storage, controllers, flags>>

\* The volume is made unless one can be read.
GetVolume(h, readable) ==
    /\ At(h, "volume")
    /\ FaultUnless(readable)
    /\ Goes(h, IF readable /\ volumes[call[h].d] # None THEN "admit" ELSE "provision")
    /\ UNCHANGED <<objects, storage, controllers, flags>>

\* Another call on the same volume is between the driver and the registry.
Overlaps(h) ==
    IF \E g \in Handlers \ {h} : call[g].d = call[h].d /\ call[g].at \in {"record", "unrecord"}
    THEN {call[h].d} ELSE {}

\* volumeService.CreateVolume: the driver makes the directory,
Provision(h) ==
    /\ At(h, "provision")
    /\ dirs' = dirs \cup {call[h].d}
    /\ flags' = Raise("torn", Overlaps(h))
    /\ Goes(h, "record")
    /\ UNCHANGED <<objects, data, controllers, ops>>

\* then the record is put, whatever claim was on the old one.
PutVolume(h) ==
    LET v == call[h].d
    IN  /\ At(h, "record")
        /\ volumes' = [volumes EXCEPT ![v] = [node |-> None, owner |-> None]]
        /\ flags' = Raise("moved", IF Claimed(v) THEN {v} ELSE {})
        /\ IF call[h].op = "deploy" THEN Goes(h, "admit") ELSE Returns(h)
        /\ UNCHANGED <<deployments, pods, storage, controllers, ops>>

\* volumeService.DeleteVolume
Deprovision(h) ==
    /\ At(h, "deprovision")
    /\ dirs' = dirs \ {call[h].d}
    /\ flags' = Raise("torn", Overlaps(h))
    /\ Goes(h, "unrecord")
    /\ UNCHANGED <<objects, data, controllers, ops>>

\* Mutant: the record stays when the volume is claimed.
UnrecordVolume_KeepsClaimed(h) ==
    LET v == call[h].d
    IN  /\ At(h, "unrecord")
        /\ volumes' = IF Claimed(v) THEN volumes ELSE [volumes EXCEPT ![v] = None]
        /\ flags' = Raise("moved", IF Claimed(v) THEN {v} ELSE {})
        /\ Returns(h)
        /\ UNCHANGED <<deployments, pods, storage, controllers, ops>>

UnrecordVolume(h) ==
    LET v == call[h].d
    IN  /\ At(h, "unrecord")
        /\ volumes' = [volumes EXCEPT ![v] = None]
        /\ flags' = Raise("moved", IF Claimed(v) THEN {v} ELSE {})
        /\ Returns(h)
        /\ UNCHANGED <<deployments, pods, storage, controllers, ops>>

\* Replicas asked for that the quota's list of pods does not show yet.
Unseen(h) ==
    \/ \E d \in Names \ {call[h].d} : Short(d)
    \/ \E g \in Handlers \ {h} : At(g, "put")
    \/ rc.at # "idle" \/ pr.at # "idle"

\* d, stored or about to be (again), mounts v.
Mounts(d, v) ==
    \/ deployments[d] # None /\ v \in deployments[d].t.vols
    \/ \E id \in PodsOf(d) : v \in pods[id].t.vols
    \/ \E g \in Handlers : At(g, "put") /\ call[g].d = d /\ v \in call[g].t.vols
    \/ rc.d = d /\ (v \in rc.copy.t.vols \/ \E id \in DOMAIN rc.owned : v \in rc.owned[id].t.vols)

\* Volumes that another deployment mounts and nobody owns yet, or whose owner,
\* another deployment, was not read.
Unowned(h, unread) ==
    {v \in call[h].t.vols :
        IF volumes[v] = None \/ volumes[v].owner = None
        THEN \E d \in Names \ {call[h].d} : Mounts(d, v)
        ELSE v \in unread /\ volumes[v].owner # call[h].d}

\* Mutant: the policies change a copy of the template.
Admit_OnACopy(h, unread) ==
    /\ At(h, "admit")
    /\ unread \subseteq call[h].t.vols
    /\ FaultUnless(unread = {})
    /\ IF Admitted(call[h].d, call[h].t, call[h].replicas, Cardinality(Stored), volumes, unread)
       THEN /\ Goes(h, "put")
            /\ flags' = [Raise("unowned", Unowned(h, unread)) EXCEPT !.blind = @ \/ Unseen(h)]
       ELSE Returns(h) /\ UNCHANGED flags
    /\ UNCHANGED <<objects, storage, controllers>>

\* CreateDeployment and CreatePod admit and, as a separate step, put.
Admit(h, unread) ==
    /\ At(h, "admit")
    /\ unread \subseteq call[h].t.vols
    /\ FaultUnless(unread = {})
    /\ IF Admitted(call[h].d, call[h].t, call[h].replicas, Cardinality(Stored), volumes, unread)
       THEN /\ call' = [call EXCEPT ![h].at = "put", ![h].t = Defaulted(@)]
            /\ flags' = [Raise("unowned", Unowned(h, unread)) EXCEPT !.blind = @ \/ Unseen(h)]
       ELSE Returns(h) /\ UNCHANGED flags
    /\ UNCHANGED <<objects, storage, controllers>>

\* Pods of another template that no restart will replace, or a pass under way.
Outdates(d, t, restarts) ==
    IF /\ deployments[d] = None \/ deployments[d].t.ver # t.ver
       /\ rc.d = d \/ (~restarts /\ \E id \in PodsOf(d) : pods[id].t.ver # t.ver)
    THEN {d} ELSE {}

PutDeployment(h) ==
    LET c == call[h]
    IN  /\ At(h, "put")
        /\ c.op = "deploy"
        /\ deployments' = [deployments EXCEPT ![c.d] =
                              [replicas |-> c.replicas, t |-> c.t, managed |-> c.managed]]
        /\ flags' = Raise("stale", Outdates(c.d, c.t, c.edit))
        /\ IF c.edit THEN Goes(h, "restart") ELSE Returns(h)
        /\ UNCHANGED <<pods, volumes, storage, controllers, ops>>

\* A pod of its own is held to no claim, whatever it mounts.
PutPod(h) ==
    /\ At(h, "put")
    /\ call[h].op = "pod"
    /\ pods' = [id \in PodNames |-> IF id \in call[h].left THEN [t |-> call[h].t, node |-> call[h].node]
                                    ELSE pods[id]]
    /\ flags' = [Raise("moved", call[h].t.vols) EXCEPT !.crowded = @ \cup ({call[h].node} \ {None})]
    /\ Returns(h)
    /\ UNCHANGED <<deployments, volumes, storage, controllers, ops>>

(***************************************************************************)
(* The report puts back what it read: a pod that was deleted, placed or    *)
(* replaced since is again what it was.                                    *)
(***************************************************************************)
ReportPut(h) ==
    LET c == call[h]
        copy == [t |-> c.t, node |-> c.node]
        undone == {id \in c.left : pods[id] # copy}
    IN  /\ At(h, "report")
        /\ pods' = [id \in PodNames |-> IF id \in c.left THEN copy ELSE pods[id]]
        /\ flags' = [flags EXCEPT
                !.blind = @ \/ \E id \in undone : pods[id] = None,
                !.stale = @ \cup ({id[1] : id \in undone} \ {None}),
                !.unowned = @ \cup UNION {c.t.vols : id \in undone},
                !.moved = @ \cup UNION {c.t.vols \cup IF pods[id] = None THEN {} ELSE pods[id].t.vols : id \in undone},
                !.crowded = @ \cup ({c.node : id \in undone} \ {None})]
        /\ Returns(h)
        /\ UNCHANGED <<deployments, volumes, storage, controllers, ops>>

\* DeleteDeployment deletes the record first, then what restartOwnedPods deletes.
Remove(h) ==
    /\ At(h, "remove")
    /\ deployments' = [deployments EXCEPT ![call[h].d] = None]
    /\ Goes(h, "restart")
    /\ UNCHANGED <<pods, volumes, storage, controllers, ops, flags>>

\* restartOwnedPods: list, then delete them one by one.
RestartList(h) ==
    LET listed == PodsOf(call[h].d)
    IN  /\ At(h, "restart")
        /\ IF listed = {} THEN Returns(h)
           ELSE call' = [call EXCEPT ![h].at = "deleting", ![h].left = listed]
        /\ flags' = Raise("stale", {call[h].d} \cap {rc.d})
        /\ UNCHANGED <<objects, storage, controllers, ops>>

Deleted(h, id) ==
    IF call[h].left = {id} THEN Returns(h) ELSE call' = [call EXCEPT ![h].left = @ \ {id}]

\* Mutant: a pod that was never placed is left to the scheduler.
RestartDelete_OnlyPlaced(h, id) ==
    /\ At(h, "deleting")
    /\ id \in call[h].left
    /\ pods' = IF pods[id] # None /\ pods[id].node = None THEN pods ELSE [pods EXCEPT ![id] = None]
    /\ Deleted(h, id)
    /\ flags' = [Raise("stale", {call[h].d} \cap {rc.d})
                    EXCEPT !.moved = IF pods[id] # None THEN @ \cup Unclaimed(id) ELSE @]
    /\ UNCHANGED <<deployments, volumes, storage, controllers, ops>>

RestartDelete(h, id) ==
    /\ At(h, "deleting")
    /\ id \in call[h].left
    /\ pods' = [pods EXCEPT ![id] = None]
    /\ Deleted(h, id)
    /\ flags' = [Raise("stale", {call[h].d} \cap {rc.d})
                    EXCEPT !.moved = IF pods[id] # None THEN @ \cup Unclaimed(id) ELSE @]
    /\ UNCHANGED <<deployments, volumes, storage, controllers, ops>>

(***************************************************************************)
(* A store or driver call fails, or the server goes down: the request ends *)
(* where it is; only restartOwnedPods goes on after a delete that failed.  *)
(* The driver may have made the directory before it failed.                *)
(***************************************************************************)
CallFails(h) ==
    /\ Fault
    /\ ~At(h, "idle")
    /\ \/ Returns(h)
       \/ At(h, "deleting") /\ call[h].op = "deploy" /\ \E id \in call[h].left : Deleted(h, id)
    /\ dirs' \in {dirs, IF At(h, "provision") THEN dirs \cup {call[h].d} ELSE dirs}
    /\ flags' = [flags EXCEPT
            !.torn = IF call[h].at \in {"provision", "record", "unrecord"} THEN @ \cup {call[h].d} ELSE @,
            !.stale = IF call[h].op = "deploy" /\ call[h].at \in {"restart", "deleting"}
                      THEN @ \cup {call[h].d} ELSE @]
    /\ UNCHANGED <<objects, data, controllers>>

-----------------------------------------------------------------------------
(* The deployment controller: one deployment of a pass *)

HasRoom(pass, n) == pass.usage[n] < Capacity
First(S) == CHOOSE id \in S : \A other \in S : id[2] <= other[2]

\* The copy may be old by the time Size uses it, as in a long pass.
Fetch(d) ==
    /\ rc.at = "idle"
    /\ deployments[d] # None
    /\ rc' = [NoPass EXCEPT !.at = "size", !.d = d, !.copy = deployments[d]]
    /\ UNCHANGED <<objects, storage, call, pr, ops, flags>>

\* Mutant: a new replica is left to the scheduler.
PinnedTo_Never(vols) == None

\* resolveVolumeNode
PinnedTo(vols) ==
    IF \E v \in vols : Claimed(v) THEN volumes[CHOOSE v \in vols : Claimed(v)].node ELSE None

\* Replicas are created at the first free ordinals, or the last ones deleted.
Size ==
    LET d == rc.d
        want == Want(rc.copy)
        have == Cardinality(PodsOf(d))
        pin == PinnedTo(rc.copy.t.vols)
        free == {<<d, i>> : i \in 0 .. MaxReplicas - 1} \ PodsOf(d)
        new == {id \in free : Cardinality({o \in free : o[2] < id[2]}) < want - have}
        old == {id \in PodsOf(d) : Cardinality({o \in PodsOf(d) : o[2] > id[2]}) < have - want}
    IN  /\ rc.at = "size"
        /\ pods' = CASE have < want -> [id \in PodNames |-> IF id \in new THEN [t |-> rc.copy.t, node |-> pin]
                                                            ELSE pods[id]]
                     [] have > want -> [id \in PodNames |-> IF id \in old THEN None ELSE pods[id]]
                     [] OTHER -> pods
        /\ rc' = [rc EXCEPT !.at = "list"]
        /\ flags' = [flags EXCEPT
                !.crowded = IF have < want /\ pin # None THEN @ \cup {pin} ELSE @,
                !.moved = @ \cup IF have < want THEN Scattered(rc.copy.t.vols)
                                ELSE UNION {Unclaimed(id) : id \in old}]
        /\ UNCHANGED <<deployments, volumes, storage, call, pr, ops>>

\* The second ownedPods, and nodeUsage.
ListOwned ==
    /\ rc.at = "list"
    /\ rc' = [rc EXCEPT !.at = "place", !.owned = [id \in PodsOf(rc.d) |-> pods[id]], !.usage = Usages]
    /\ UNCHANGED <<objects, storage, call, pr, ops, flags>>

Unplaced == {id \in DOMAIN rc.owned : rc.owned[id].node = None}

\* scheduleUnassigned is done: claimVolumeNodes has its node, if a pod is placed.
ToClaim(owned) ==
    [rc EXCEPT !.at = "claim", !.owned = owned, !.usage = << >>, !.taken = {},
        !.left = IF \E id \in DOMAIN owned : owned[id].node # None THEN rc.copy.t.vols ELSE {}]

(***************************************************************************)
(* schedulePod, with the usage of before the pass: puts the listed copy.   *)
(***************************************************************************)
Place(n) ==
    LET id == First(Unplaced)
    IN  /\ rc.at = "place"
        /\ Unplaced # {}
        /\ HasRoom(rc, n)
        /\ pods' = [pods EXCEPT ![id] = [rc.owned[id] EXCEPT !.node = n]]
        /\ rc' = [rc EXCEPT !.owned[id].node = n, !.taken = @ \cup {n}]
        /\ flags' = Raise("crowded", IF n \in rc.taken \/ pr.at # "idle" THEN {n} ELSE {})
        /\ UNCHANGED <<deployments, volumes, storage, call, pr, ops>>

\* The put fails: the pass goes on to the claim with the node it chose.
PlaceFails(n) ==
    LET id == First(Unplaced)
    IN  /\ Fault
        /\ rc.at = "place"
        /\ Unplaced # {}
        /\ HasRoom(rc, n)
        /\ rc' = ToClaim([rc.owned EXCEPT ![id].node = n])
        /\ flags' = Raise("moved", rc.copy.t.vols)
        /\ UNCHANGED <<objects, storage, call, pr>>

\* Everything is placed, or nothing fits and the reason is put on the pods.
PlaceEnds ==
    /\ rc.at = "place"
    /\ Unplaced = {} \/ \A n \in Nodes : ~HasRoom(rc, n)
    /\ \/ UNCHANGED pods
       \/ pods' = [id \in PodNames |-> IF id \in Unplaced THEN rc.owned[id] ELSE pods[id]]
    /\ rc' = ToClaim(rc.owned)
    /\ UNCHANGED <<deployments, volumes, storage, call, pr, ops, flags>>

(***************************************************************************)
(* claimVolumeNodes, volume by volume: one that is there and unclaimed is  *)
(* put with the node and the owner, whatever happened to it since the Get. *)
(***************************************************************************)
NextVolume == CHOOSE v \in rc.left : TRUE

ClaimGet ==
    LET v == NextVolume
    IN  /\ rc.at = "claim"
        /\ rc.left # {}
        /\ rc' = IF volumes[v] # None /\ volumes[v].node = None THEN [rc EXCEPT !.at = "claiming"]
                 ELSE [rc EXCEPT !.left = @ \ {v}]
        /\ UNCHANGED <<objects, storage, call, pr, ops, flags>>

ClaimPut ==
    LET v == NextVolume
        placed == DOMAIN rc.owned \ Unplaced
    IN  /\ rc.at = "claiming"
        /\ volumes' = [volumes EXCEPT ![v] = [node |-> rc.owned[First(placed)].node, owner |-> rc.d]]
        /\ rc' = [rc EXCEPT !.at = "claim", !.left = @ \ {v}]
        /\ flags' = Raise("torn", IF volumes[v] = None THEN {v} ELSE {})
        /\ UNCHANGED <<deployments, pods, storage, call, pr, ops>>

\* A Get or a Put fails: no more claims, and the pass goes on.
ClaimFails ==
    /\ Fault
    /\ rc.left # {}
    /\ rc' = [rc EXCEPT !.at = "claim", !.left = {}]
    /\ UNCHANGED <<objects, storage, call, pr, flags>>

\* The deployment is read again and put whole, with the new status.
Refetch ==
    /\ rc.at = "claim"
    /\ rc.left = {}
    /\ rc' = IF deployments[rc.d] = None THEN NoPass
             ELSE [NoPass EXCEPT !.at = "status", !.d = rc.d, !.copy = deployments[rc.d]]
    /\ UNCHANGED <<objects, storage, call, pr, ops, flags>>

PutStatus ==
    /\ rc.at = "status"
    /\ deployments' = [deployments EXCEPT ![rc.d] = rc.copy]
    /\ rc' = NoPass
    /\ flags' = Raise("stale", Outdates(rc.d, rc.copy.t, FALSE))
    /\ UNCHANGED <<pods, volumes, storage, call, pr, ops>>

\* A store call fails, or the leadership is lost: the pass ends where it is.
ControllerStops ==
    /\ Fault
    /\ \/ rc.at # "idle" /\ rc' = NoPass /\ UNCHANGED pr
       \/ pr.at # "idle" /\ pr' = NoPass /\ UNCHANGED rc
    /\ UNCHANGED <<objects, storage, call, flags>>

-----------------------------------------------------------------------------
(* The pod controller, the agents and the GitOps reconciler *)

PodFetch ==
    LET pending == {id \in Stored : id[1] = None /\ pods[id].node = None}
    IN  /\ pr.at = "idle"
        /\ pending # {}
        /\ pr' = [NoPass EXCEPT !.at = "place", !.owned = [id \in pending |-> pods[id]], !.usage = Usages]
        /\ UNCHANGED <<objects, storage, call, rc, ops, flags>>

\* The pass goes on to the next pod, on the candidates of before the pass.
PodDone(id, nodes) ==
    pr' = IF DOMAIN pr.owned = {id} THEN NoPass
          ELSE [pr EXCEPT !.owned = [i \in DOMAIN pr.owned \ {id} |-> pr.owned[i]], !.taken = @ \cup nodes]

\* Mutant: the last unit is free when it is taken.
PodPlace_Full(n) ==
    LET id == First(DOMAIN pr.owned)
    IN  /\ pr.at = "place"
        /\ pr.usage[n] <= Capacity
        /\ pods' = [pods EXCEPT ![id] = [pr.owned[id] EXCEPT !.node = n]]
        /\ PodDone(id, {n})
        /\ flags' = Raise("crowded", IF n \in pr.taken \/ rc.at = "place" THEN {n} ELSE {})
        /\ UNCHANGED <<deployments, volumes, storage, call, rc, ops>>

PodPlace(n) ==
    LET id == First(DOMAIN pr.owned)
    IN  /\ pr.at = "place"
        /\ HasRoom(pr, n)
        /\ pods' = [pods EXCEPT ![id] = [pr.owned[id] EXCEPT !.node = n]]
        /\ PodDone(id, {n})
        /\ flags' = Raise("crowded", IF n \in pr.taken \/ rc.at = "place" THEN {n} ELSE {})
        /\ UNCHANGED <<deployments, volumes, storage, call, rc, ops>>

\* Nothing fits: the reason is put with the copy, unless that fails too.
PodWaits ==
    LET id == First(DOMAIN pr.owned)
    IN  /\ pr.at = "place"
        /\ \A n \in Nodes : ~HasRoom(pr, n)
        /\ pods' \in {pods, [pods EXCEPT ![id] = pr.owned[id]]}
        /\ PodDone(id, {})
        /\ UNCHANGED <<deployments, volumes, storage, call, rc, ops, flags>>

\* The put of a placement fails: the pod waits for another pass, and this one goes on.
PodPlaceFails ==
    /\ Fault
    /\ pr.at = "place"
    /\ \E n \in Nodes : HasRoom(pr, n)
    /\ PodDone(First(DOMAIN pr.owned), {})
    /\ UNCHANGED <<objects, storage, call, rc, flags>>

\* The agent makes the directory when it starts the pod, and never removes it.
MountVolumes(id) ==
    /\ pods[id] # None /\ pods[id].node # None
    /\ data' = data \cup (pods[id].t.vols \X {pods[id].node})
    /\ UNCHANGED <<objects, dirs, call, controllers, ops, flags>>

\* Sync puts every manifest, whole and without admission.
GitSync(d) ==
    /\ Request
    /\ deployments' = [deployments EXCEPT ![d] = Manifests[d]]
    /\ flags' = [Raise("stale", Outdates(d, Manifests[d].t, FALSE)) EXCEPT
            !.blind = @ \/ Promised(d) < Want(Manifests[d]) \/ rc.d = d,
            !.unowned = @ \cup Manifests[d].t.vols]
    /\ UNCHANGED <<pods, volumes, storage, call, controllers>>

-----------------------------------------------------------------------------
Next ==
    \/ \E h \in Handlers :
          \/ \E d \in Names, r \in 1 .. MaxReplicas, p \in BOOLEAN : handleCreateDeployment(h, d, r, p)
          \/ \E d \in Names, r \in 0 .. MaxReplicas : handleScaleDeployment(h, d, r)
          \/ \E d \in Names, r \in 1 .. MaxReplicas, t \in Templates : CreateDeployment(h, d, r, t)
          \/ \E id \in PodNames, t \in Templates, n \in Nodes \cup {None} : CreatePod(h, id, t, n)
          \/ \E d \in Names : DeleteDeployment(h, d)
          \/ \E d \in Names, r \in 1 .. MaxReplicas : Autoscale(h, d, r)
          \/ \E v \in Volumes : CreateVolume(h, v) \/ DeleteVolume(h, v)
          \/ \E readable \in BOOLEAN : LookUp(h, readable) \/ GetVolume(h, readable)
          \/ Provision(h) \/ PutVolume(h) \/ Deprovision(h) \/ UnrecordVolume(h)
          \/ \E unread \in SUBSET Volumes : Admit(h, unread)
          \/ PutDeployment(h) \/ PutPod(h) \/ ReportPut(h) \/ Remove(h) \/ RestartList(h) \/ CallFails(h)
          \/ \E id \in PodNames : UpdatePodStatus(h, id) \/ RestartDelete(h, id)
    \/ \E id \in PodNames : DeletePod(id) \/ MountVolumes(id)
    \/ \E d \in Names : Fetch(d)
    \/ \E n \in Nodes : Place(n) \/ PlaceFails(n) \/ PodPlace(n)
    \/ Size \/ ListOwned \/ PlaceEnds \/ ClaimGet \/ ClaimPut \/ ClaimFails
    \/ Refetch \/ PutStatus \/ ControllerStops
    \/ PodFetch \/ PodWaits \/ PodPlaceFails
    \/ \E d \in DOMAIN Manifests : GitSync(d)

Spec == Init /\ [][Next]_vars

-----------------------------------------------------------------------------
(***************************************************************************)
(* The pods of the namespace exceed its quota only if some admission could *)
(* not see demand that was already granted (quota.go:28 sums the pods that *)
(* exist, not the replicas deployments have been promised), if the demand  *)
(* was never admitted (Sync puts what Git says, and the autoscaler puts    *)
(* the count it computed, hpa.go:135), or if a status report put a deleted *)
(* pod back (pod_service.go:83).                                           *)
(***************************************************************************)
QuotaOverrunIsExplained == Quota > 0 /\ Cardinality(Stored) > Quota => flags.blind

(***************************************************************************)
(* A pod runs another template than its deployment's only while an edit is *)
(* restarting pods, while a pass works on an old copy, after a restart     *)
(* that was cut short or met a pass, after a status report that put a pod  *)
(* back, or after one of the writes that restart nothing: CreateDeployment *)
(* itself, an edit that could not read the deployment (dashboard.go:381)   *)
(* or found none where old pods were still there, Sync, and the scale      *)
(* requests, autoscaler and status Puts that read the old template.        *)
(***************************************************************************)
StalePodIsExplained ==
    \A d \in Names : \A id \in PodsOf(d) :
        deployments[d] # None /\ pods[id].t.ver # deployments[d].t.ver =>
            \/ d \in flags.stale
            \/ rc.d = d
            \/ \E h \in Handlers : call[h].d = d /\ call[h].at \in {"restart", "deleting"}

(***************************************************************************)
(* A volume has data on two nodes only if its claim was lost (CreateVolume *)
(* over a volume in use, DeleteVolume), was never made before its pod went *)
(* away, or for another node than its pod was put on; if its pod had       *)
(* another volume on another node, the claim of which it followed; if a    *)
(* status report put its pod back; or if pods without a common owner mount *)
(* it.                                                                     *)
(***************************************************************************)
SplitVolumeIsExplained ==
    \A v \in Volumes : \A m, n \in Nodes :
        <<v, m>> \in data /\ <<v, n>> \in data /\ m # n => v \in flags.moved \cup flags.unowned

(***************************************************************************)
(* Pods of two deployments mount the same volume only if one of these was  *)
(* admitted while the other was already there and the volume had no owner  *)
(* yet (the owner is written by the controller, long after admission) or   *)
(* could not be read (volume.go:45 goes on after any error), came from     *)
(* Git, or had a pod put back by a status report.                          *)
(***************************************************************************)
SharedVolumeIsExplained ==
    \A v \in Volumes : \A a, b \in {id \in Stored : id[1] # None /\ v \in pods[id].t.vols} :
        a[1] # b[1] => v \in flags.unowned

(***************************************************************************)
(* A node has more pods than it can allocate only if one pass of either    *)
(* controller placed two there, if the two placed at the same time, or if  *)
(* a pod got there past the scheduler: pinned by a claimed volume, made    *)
(* with a node of the client's choice, or put back by a status report.     *)
(***************************************************************************)
OvercommitIsExplained == \A n \in Nodes : Usage(n) > Capacity => n \in flags.crowded

(***************************************************************************)
(* Between calls a volume is recorded exactly when the driver has it,      *)
(* unless a call was cut short (by the driver too, after it made the       *)
(* directory), two of them overlapped, or the Put of a claim brought back  *)
(* a record that DeleteVolume had removed since the Get                    *)
(* (deployment.go:341-359).                                                *)
(***************************************************************************)
DirectoriesMatchRecords ==
    \A v \in Volumes :
        \/ volumes[v] # None <=> v \in dirs
        \/ v \in flags.torn
        \/ \E h \in Handlers : call[h].d = v /\ call[h].at \in {"record", "unrecord"}

(***************************************************************************)
(* What the admission chain objects to, or has not completed, is stored    *)
(* only where it came from Git, which Sync puts without admission; the     *)
(* autoscaler and the status Puts write it again. (RestoreBackup puts      *)
(* without admission as well, backup_service.go:38: it is in the module    *)
(* Replicas.)                                                              *)
(***************************************************************************)
AdmissionBypassIsGitOps ==
    LET clean(t) == t.bad = "none" /\ t.seccomp
        fromGit(d, t) == d \in DOMAIN Manifests /\ t = Manifests[d].t
    IN  /\ \A d \in Names : deployments[d] # None =>
              clean(deployments[d].t) \/ (deployments[d].managed /\ fromGit(d, deployments[d].t))
        /\ \A id \in Stored : clean(pods[id].t) \/ fromGit(id[1], pods[id].t)
=============================================================================
