# A TLA+ model of NimbusCore

NimbusCore is a small container orchestrator: a control plane (`cmd/nimbus-apiserver`) that keeps its
objects in a Raft-replicated, encrypted store and runs reconciling controllers on the leading replica,
and an agent per node (`cmd/nimbus-agent`) that runs pods. This directory models it as TLA+ modules,
checks them with TLC on small instances, and proves with TLAPS, for every value of the parameters, every
safety property that a run checks, the refinement of an abstract store and the arithmetic of scheduler
and autoscaler included.

`PROJECT.json` lists components, runs, mutants, hazards and theorems, and maps every definition to
the lines it stands for. Generated code (`api/v1/*.pb.go`, more than half of the Go lines) is not mapped: where a
definition stands for a message or a service, the map names its `.proto` file.

## 1. The system

| Component | State | Operations | Interacts with |
|---|---|---|---|
| Encrypted store (`internal/store`) | per replica: a state machine, snapshots on disk, current and previous key in memory | Get, Put, Delete, List, Apply, Snapshot, Restore, RotateEncryptionKey, ReencryptAll | every handler and controller |
| Backup and admin services | none | CreateBackup, RestoreBackup, JoinRaft | store |
| Registry (`internal/registry`) | none | typed Get/Put/List/Delete, no transactions, no versions, List in no fixed order | the store |
| Controller manager (`controller/manager.go`) | running or not | start on leadership, stop and wait on its loss | all controllers |
| Key rotator (`controller/key_rotation.go`) | none between ticks | rotate | store |
| Deployment controller (`controller/deployment.go`, `scheduling.go`) | none between passes | one pass: list, evict, create or delete, schedule, claim volumes, write status | registry, scheduler |
| Pod controller (`controller/pod.go`) | none | schedule pods that have no owner | registry, scheduler |
| Autoscaler (`controller/hpa.go`, `capacity.go`) | none | compute and write a replica count | registry |
| GitOps reconciler (`internal/gitops`) | none | put every manifest, past admission | registry |
| Scheduler (`internal/scheduler`) | none | Schedule, a pure function | the two controllers |
| Admission chain (`internal/admission`) | none | quota, policy, security, image and volume policies | deployment and pod services, dashboard |
| Deployment, pod, volume services, dashboard | the objects | create, edit, restart, scale, delete (with cascade), status updates | controllers, agents, CSI driver |
| CSI hostpath driver (`internal/csi/hostpath`) | directories | CreateVolume, DeleteVolume | volume service |
| Node service and node health controller | node objects | CreateNode, Heartbeat, DeleteNode, checkAll | agents, deployment controller |
| Service service | services and their node ports | CreateService, DeleteService, resolve | agents |
| Agent (`internal/agent`) | table of runs, missing streaks, exit channel, open proxies | reconcile, handleExit, proxy reconcile, stop | API server, containerd, child processes |
| Mesh client (`internal/mesh`) | breaker state, failure count | Allow, RecordSuccess, RecordFailure, retry loop | every call an agent makes |
| Identity (`internal/identity`) | authority and its file, certificates, trust bundles | bootstrap, enrol, renew, handshake | every process |
| RBAC (`internal/rbac`, `apiserver/rbac.go`) | tables | Authorised | the interceptor |
| Federation (`internal/federation`) | two maps of connections, under two locks | RegisterCluster, UnregisterCluster | other clusters' identity service |
| Network policy, image signing, FinOps, sessions, telemetry, wasm | see `PROJECT.json` | | |

What is hard here:

* **No transactions.** Every handler and controller reads objects and writes them back whole, in
  separate store calls. Whatever another writer did in between is undone, or a deleted object returns.
* **Leadership, crashes and failures.** Writes fail when leadership is lost; passes end half-way; keys
  that were rotated in exist in one process's memory only.
* **Processes without memory of each other.** Exit events carry a pod's key, not its run; containerd's
  list misses tasks; agents crash and come back with empty tables.
* **Time.** Heartbeats that are late, breakers that cool down, certificates that run out, confirmations
  counted in ticks.
* **Checks long before effects.** Admission looks at pods that exist and at owners that are written later.

What makes each part correct, in a line: the store never loses what it acknowledged to a key change, and
every replica shows one point of one history; a deployment gets exactly its replicas and never tramples
one; a volume claim stays; what admission refuses is not stored; the agent runs what is assigned and
watches what it runs; dead nodes and only dead nodes end up not ready; a port belongs to one service and
proxies follow services; the breaker counts, tries again and recovers; members keep valid certificates of
an authority that survives a restart; connections to other clusters are neither leaked nor mixed up.

## 2. Modules

| Module | Models | Checked by | Proved in |
|---|---|---|---|
| `KeyRotation` | `store/raft.go`, `store/crypto.go`, `key_rotation.go`, `manager.go` | `key_rotation`, `key_rotation_readable` | `KeyRotation_proofs` |
| `KVStore` | the promise of `store/store.go` (abstract) | `replicas` | `Replicas_proofs` |
| `Replicas` (instantiates `KVStore`) | `store/raft.go` over several processes, `admin_service.go`, `backup_service.go` | `replicas` | `Replicas_proofs` |
| `Scheduler` | `scheduler/scheduler.go` | `scheduler` | `Deployments_proofs` |
| `Autoscaler` (extends `Scheduler`) | `hpa.go`, `capacity.go` | `scheduler` | `Deployments_proofs` |
| `Scheduling` (extends `Autoscaler`) | the calls of both: `buildNodeCandidates`, `podResourceRequest`, `computeNodeUsage` | `scheduler` | `Deployments_proofs` |
| `Deployments` (instantiates `Scheduler`) | `deployment.go`, `scheduling.go`, deployment, pod and volume services, volume admission | `deployments`, `deployments_volume`, `deployments_cascade` | `Deployments_proofs` |
| `Admission` | `internal/admission` | `apiserver` | `ApiServer_proofs` |
| `ApiServer` (extends `Admission`) | dashboard handlers, gRPC services, status reports, hostpath driver, GitOps, autoscaler, pod controller, and coarser passes of the deployment controller | `apiserver` | `ApiServer_proofs` |
| `Agent` | `agent/agent.go`, `agent/process.go` | `agent` | `Agent_proofs` |
| `Nodes` | node service, node health controller, heartbeat loop | `heartbeats` | `Heartbeats_proofs` |
| `Mesh` | `internal/mesh` | `heartbeats` | `Heartbeats_proofs` |
| `Heartbeats` (extends `Nodes`, `Mesh`) | one agent's heartbeats and other calls through their shared breaker | `heartbeats` | `Heartbeats_proofs` |
| `Services` | service service, `agent/nodeport.go` | `services` | `Services_proofs` |
| `RBAC` | `apiserver/rbac.go`, `rbac/rbac.go`, the services of `api/v1/*.proto`, what each client calls | `identity` | `Federation_proofs` |
| `Identity` (extends `RBAC`) | `internal/identity`, `identity_service.go`, `auth.go` | `identity` | `Federation_proofs` |
| `Federation` (extends `Identity`) | `federation_service.go`, `federation/registry.go` | `identity` | `Federation_proofs` |

Modules named `MC...` give the constants their values. Definitions with an underscore in their name
(`ReencryptDone_Early`) are mutants: a definition as a plausible bug would have it, used to confirm
that each property can fail.

### KeyRotation
A ciphertext is the generation of the key that sealed it and the plaintext. `Put` is two steps, since it
seals under `keyMu` and applies to Raft afterwards; `ReencryptAll` is a List, a Put per key and a last
critical section. Leadership comes and goes between any two steps; the manager is started and stopped
as `RunWhileLeader` does. Four history variables record what the properties need: the last value written
per key, keys whose Put straddled a rotation, generations given up by a failed rotation, and keys
changed while a re-encryption held an older copy.

### Replicas and KVStore
The Raft library is external: it elects among voters that have a majority up, and delivers one log of committed
commands. A write returns when the leader has applied it, so commit and the leader's Apply are one step; other
replicas apply later, or have a snapshot installed. `RaftStore.Put` seals under `keyMu`, lets go of it and
commits later, so a Put may straddle any number of rotations: a client's Put commits under any key that its
process has had (calls of any age may be under way), and `RestoreBackup`, which makes one Put at a time, seals
and commits in two steps. `ReencryptAll` runs in the goroutine that draws the keys and straddles none. A
snapshot is a clone that reaches the disk while commands go on. A process that ends loses what it had in memory:
its keys are then again the ones of `bootstrap.json`. A joiner enrols with the bootstrap replica and ends if
that one does not lead (`log.Fatalf`). `KVStore` says what readers of a store may rely on: one history of
contents, every reader at one point of it, none going back while its process runs.

### Scheduler, Autoscaler and Scheduling
`Schedule` is the loop of the code as a recursive function of the candidates seen. `BestNodes` is the set of
answers over all orders in which the registry may list them; `BestFit` says so. `Autoscaler` has the clamping,
rounding and capacity estimate, with the sums of `computeClusterCapacity` as a recursive function of the nodes.
The code divides in `float64`; the model computes exactly with integers. The largest int32 is a constant: the
estimate saturates there (`fitCount`), and a computed count beyond it is whatever the processor makes of
the conversion (`ToInt32`: the smallest int32 on amd64, the largest on arm64). Sums of int64 are taken not to overflow.

Both are pure functions, so `Scheduling` is a state machine of their inputs: a pod's request and the list of
candidates, to which a step adds a ready, schedulable node. Its properties say what the functions promise on
every input. `Placing` is what `computeNodeUsage` finds after one more pod, `Filled` the clusters
that scheduling the same request again and again leads through. Requests may be negative (no code
rejects them); candidates may be over-committed.

### Deployments
Every Get, List, Put and Delete is a step of its own: in the eviction loop the Get of the node and the Delete of
the pod are two, and `resolveVolumeNode` reads one volume per step, up to the first that is claimed. The
controller's local variables are the record `rc`. Clients create, delete and scale; pods are deleted; volumes
are created and deleted; nodes change readiness; agents sync and report. Each controller write may fail.
Requests are in units of one resource and a template has at most one container port; the full arithmetic is in
`Scheduler`. A failed Put of a handler leaves nothing behind and is not a step, except in the cascade, which it
ends half-way (`CascadeFails`). Replica counts are not negative: the gRPC service rejects none, and the pass would then
panic at `deployment.go:130-131`, where it indexes the pods with it. A client that labels a pod of its own as
owned by a deployment is not modelled.

### Admission and ApiServer
A template is a version, the volumes it mounts, what a policy would object to and whether the seccomp
default is filled in. `ApiServer` has two requests at a time: dashboard create, edit, scale and delete, the gRPC
calls for deployments, pods (with or without a node of the client's choice) and volumes, an agent's
`UpdatePodStatus` (a Get and a later Put of the whole pod, which puts a deleted one back) and the autoscaler's
Put, which no admission sees. GitOps, the pod controller (all pending pods on candidates computed once) and passes
of the deployment controller (fetch, size, place, claim, with the Get and the Put of a claim apart) run between any
two of their store calls. The reads of the admission chain are one step.

Reads fail open where the code does: `VolumeOwnershipPolicy` passes over a volume it could not read, whatever
the error (`volume.go:45`), the dashboard takes an unreadable deployment for a new one (`dashboard.go:381`) and
provisions a volume it could not read once more (`dashboard.go:433`). Such an error counts as a fault, as does a
driver that fails after it made the directory (`hostpath.go:95`).

The record `flags` keeps, as history, the events that can explain an oddity. A template may mount any
number of volumes, each with a claim of its own (`Scattered` names those claimed for several nodes, of
which `resolveVolumeNode` can follow one); the instance TLC checks has one volume, the proofs have any.
The lists of reasons in the properties are complete for these writers. Outside this module are: nodes that are not ready
and pods that end (`Deployments`' subject), pods made by hand under the name or the owner label of a deployment's pod,
and `RestoreBackup`, whose Puts bypass admission as well (`Replicas` has it).

### Agent
One goroutine serves the ticker and the exit channel; wait goroutines send into the channel when it has
room; containerd is the set `live` and may miss tasks in a listing. A run is a pair of a key and a
number, which lets a property tell an exit of a former run from one of the present run, which the code
cannot. The agent knows a container by its name only, and `containerName` joins namespace and
pod name with a dash: `prod/eu-web` and `prod-eu/web` have the same. `ContainerName` is therefore any function of
the keys. Two such pods share one container: starting the second removes it and makes it anew, stopping either
removes it. `Tick` is the part of a reconcile up to the sends of `checkContainerdExits`, which can block;
`ReconcileRest` is the rest. A start takes a
run number that is free; that there is one (`Startable`) is the model's only bound on starts.

### Nodes, Mesh and Heartbeats
A stored node is its flag `ready` and whether its last heartbeat is within the timeout. Heartbeat and
`checkAll` both read and write back later. `CreateNode` at the start of an agent overwrites. `Mesh` is one
breaker and any number of concurrent calls with their retry loops; `cooling` says that the reset timeout
has not passed. `Heartbeats` puts the second in front of the first: the heartbeat loop of one agent is
one of the calls, and a NotFound from a deleted node counts as a failure like any other.

### Services
`CreateService` is a check and a later Put. An agent's list is a snapshot which it applies later;
within `ListServices` the reads of services, pods and nodes are taken as one. As `List` iterates over a
Go map, an agent may pick either of two services with one port, on every tick anew.

### RBAC, Identity and Federation
`RBAC` has the table from methods to resources and verbs, the roles, and for every client of the
repository the methods it calls. A certificate is the generation of its authority and the half lifetimes
it has left. A connection is verified at its handshake and never again. Agents dial again; a joining replica dials
once and ends if that fails (`main.go:300-318`). `Rotate` replaces key and
certificate and not the trust bundle. `Federation` has any number of concurrent register and unregister
calls for one cluster name; connections are numbered as they are made, and the history variable
`overlapped` tells whether the last calls were under way at once.

## 3. Runs

| Run | Properties | What it shows |
|---|---|---|
| `key_rotation` | `TypeOK`, `UnreadableIsExplained`, `ReencryptionPreservesValues`, `CompletedRotationRetiresOldKey`, `RotationEnds` | a value becomes unreadable only through a Put that straddled a rotation or after an abandoned rotation; re-encryption alters no value unless a writer overtook it; a completed pass leaves nothing under the old key; rotations end |
| `key_rotation_readable` | violation of `RotationKeepsDataReadable` | a Put sealed before a rotation and applied after `ReencryptAll` cannot be read any more, and makes every later List fail |
| `replicas` | `ViewsAreOfHistory`, `KeyLossIsExplained`, `RestoreIsComplete`, `ImplementsStore` | no snapshot, restart or late follower mixes two points of the history; a value is unreadable only for the reasons named: a key of another process or another life of it, a key replaced too early, or a Put that straddled a rotation; a successful restore has stored every entry, and the replica reads it unless its key was replaced too early or under a Put; the whole refines `KVStore` |
| `scheduler` | `ScheduleIsBestFit`, `CapWithholdsNothing`, `ScalingStaysInBounds` | the loop finds a best fit (negative scores of over-committed nodes included), listing order decides ties only, the capacity estimate never refuses replicas the scheduler could place one by one, on nodes that are not over-committed, and a deployment stays in its bounds |
| `deployments` | `NeverOverprovisions`, `ClobberIsExplained`, `CreateNeverOverwrites`, `Converges` | stale copies, failed writes and evictions never lead to more pods than were asked for or to a replica overwritten; a client's change is undone only by a status Put whose Get came before it; pods and status settle (this run mounts no volumes) |
| `deployments_volume` | `ClaimsArePermanent`, `Converges` | two deployments on one volume: the controller never moves a claim; pods and status settle, but for a deployment whose volume is claimed for a node that stays away (`Stranded`), whose pod is created there and evicted on every pass for ever |
| `deployments_cascade` | violation of `CascadeIsComplete` | a pass that listed a pod before DeleteDeployment puts it back after the cascade has deleted it (`scheduling.go:98`), and no later pass owns it |
| `apiserver` | `QuotaOverrunIsExplained`, `StalePodIsExplained`, `SplitVolumeIsExplained`, `SharedVolumeIsExplained`, `OvercommitIsExplained`, `DirectoriesMatchRecords`, `AdmissionBypassIsGitOps` | each promise of admission, claims, restarts and scheduling is broken only in the ways its property lists: windows between a check and its effect, reads that fail open, and writers that no check sees (Sync, the autoscaler, status reports) |
| `agent` | `UntrackedIsExplained`, `DeadIsNoticed`, `HealthyContainersAreKept`, `AgentConverges` | no process runs unwatched without a known reason; no death goes unnoticed, but for a run whose restart failed (`stuck`: the code leaves it in its table for ever); no healthy container is removed on missed listings or stale exits, only when a pod with the same container name is stopped; and the agent converges unless it blocks on its own channel (`BlockedOnItself`). The last two exceptions are faults of the code that the properties state and do not catch |
| `services` | `DuplicatesAreRaced`, `ProxiesConverge` | a node port is given twice only to overlapping calls; proxies converge |
| `heartbeats` | `OpenCountsFailures`, `HalfOpenHasTrial`, `DetectionSettles`, `BreakerRecovers` | heartbeats and the health controller overwrite each other, yet each node's status settles at the truth; the shared breaker counts in any order of outcomes and recovers, for an agent whose node was deleted too |
| `identity` | `SigningAuthorityIsSaved`, `ExpiryMeansMissedRenewal`, `OnlyNodeCommandsAreDenied`, `RegistryMatchesService`, `AgentsReconnect` | an authority is on disk before it signs; one failed renewal, and only that, lets a certificate run out; the role tables deny nothing but two commands of nimbusctl; agents come back unless the authority changed under them; the federation's maps part only when calls overlap |

### Bounds
* `key_rotation`: two keys, two values, one writer (Puts of different writers meet only in the order in which
  they are applied, and one writer reaches every order on each key), two rotations after the configured key: the
  first can be abandoned and the second can then forget its predecessor. `key_rotation_readable`: one rotation,
  so that the counterexample is a Put that straddles it.
* `replicas`: a bootstrap replica and a joiner, two keys, three committed commands, one rotation, three
  failures, snapshots or backups (1.8 million states). Three commands are a write, a re-encryption and a write
  by another replica; the keys are symmetric.
* `scheduler`: every request (CPU from -1 to 1) and every list of up to three candidates with free CPU from -1
  to 2, with and without an accelerator, with the port free or taken: two candidates make a tie, a third one can
  win later. The names are symmetric. `MaxInt32` is 3, so that estimates saturate and computed counts (up to 27)
  exceed it; replica counts are -1, 0, 1 and 3, each of the bounds and of the present count.
* `deployments`: one deployment, two replicas, two nodes, two events (`MaxOps`). Every disagreement found needs
  one event and a stale step of the controller; two let one disturbance hit the repair of another.
  `deployments_volume`: two deployments of one replica sharing a volume on two nodes, one event (a node that
  goes away for good strands the deployment that claimed the volume there).
* `apiserver`: two deployments, one volume, two pods without an owner, two nodes of one unit, a quota of two,
  two requests (a sync with Git counts as one) and one failure or deletion by hand (600 000 states, about a
  minute). Every window named takes two requests, or a request and a controller's pass; the passes are not
  bounded.
* `agent`: a process and two containers that share a name, three confirmations as in the code (`process.go:59`),
  a channel of two, four events; six run numbers, which is more than four events can use up. The code's channel
  holds 32: the block needs as many simultaneous exits as the channel has room for, whatever its size.
* `services`: two services, two callers, a range of two ports, one agent (agents do not interact), five events.
* `heartbeats`: two nodes, one with its client side of two calls, two attempts, a threshold of two, four errors,
  four events: enough to open the breaker, fail a trial and open again while the node is deleted or dies.
* `identity`: an agent, a joiner, a command line client, two federation calls, two connections, two faults: one
  to lose the file or stop the issuer, one to miss a renewal.

Deadlock is checked except in `agent` (the agent can really block itself), `heartbeats` (with every node
deleted and every agent dead nothing is left to happen), `apiserver` (nothing is left to do in an empty namespace
once the bounded requests are spent), and `replicas` and `identity` (a cluster whose
quorum or whose authority file is gone, with the faults and commands spent, really stops).

### Fairness
* Controllers and agents run on tickers and their calls return: weak fairness on each pass's steps, on
  returning handlers, on the rotator, on agents' ticks, on renewal loops. Clients, nodes and failures have none.
* `Agent` assumes strong fairness of `HandleExit` and of sending: Go's `select` picks at random
  among ready cases, and senders blocked on a channel are served in turn.
* `Heartbeats` assumes that attempts end and, once the bounded errors are spent, succeed: `BreakerRecovers`
  is about what happens when errors stop. The agent's other loops get strong fairness: they tick every
  2 s and heartbeats every 5 s, so of the times a trial may begin they do not miss all.
* `Identity`: time passes, tickers fire and an agent keeps dialling, as its loops do; joining replicas and clients
  dial once, and nothing is assumed of them or of the issuer (`AgentsReconnect` supposes that it is up for good).

## 4. Proofs

All theorems hold for every value of the constants under the named assumptions of the modules (bounds are
natural numbers, `None` and `Absent` are none of the values they stand apart from).

`KeyRotation_proofs`: `TypeCorrectness`, `UnreadableExplained`, `ReencryptionPreserves` and
`RotationRetiresOldKey`. None of the invariants is inductive alone. `IndInv` adds what holds in the middle
of a re-encryption: `ReencryptedAreCurrent` (a key already written back or never listed is under the
current key, or its Put straddled the rotation) and `CopiesAreCurrent` (a plaintext still held is the last
one written, or a writer overtook it). The first gives `UnreadableIsExplained` when `prevEncKey` is dropped,
and the action property; the second gives `ReencryptionPreservesValues` when a copy is written back.

`Replicas_proofs`: `TypeCorrectness`, `ViewsOfHistory`, `StoreImplemented` (the refinement of `KVStore`),
`KeyLossExplained` and `RestoresComplete`. `StoreInv` says that the log leads from each point of the history to
the next, that a snapshot is never ahead of its state machine and is what a stopped process will start from, and
that a leader runs. The first makes Apply a move along the history; the second makes the end of a process a
fall-back and its start a stutter of its contents. Writes, moves, ends and starts have one lemma each, which
gives both the invariant and the abstract step. `KeyInv` says of a process that was not deposed since it drew a
key that nobody else leads (`Sole`), that it reads every entry under a key it has held, present or still to
come, unless it dropped that key early, which includes replacing it while a Put sealed under it was under way
(`Reads`), and that its re-encryption still has on its list whatever is under the previous key (`Pending`).
`RestoreInv` follows a restore entry by entry: what it has sealed is the entry it is about to commit, and what
it wrote and nobody touched is there, and readable or yet to be rewritten.

`Federation_proofs`: `TypeCorrectness`, `AuthoritySaved`, `ExpiryExplained`, `OnlyNodeCommands` and
`RegistryAgrees`. `Renewals` strengthens the third: a member that missed no renewal has a whole lifetime
left, or half of it while its ticker is due. `OnlyNodeCommands` rests on the tables of `RBAC`, one lemma per
kind of client, and on the fact that a connection's role is the one its certificate was issued for.
`Alone` and `Stages` strengthen the last: while calls have not overlapped only one is under way, and what
it finds in the maps depends on how far it is.

`Deployments_proofs`: `Invariance`, `TypeCorrectness`, `Overprovisioning`, `ClobberExplained`, `NoOverwrites`
and `ClaimsPermanent`. `Inv` has three parts besides the types. `InHand`: a pass is about the pods of one
deployment. `PassInv` says what a pass may still rely on although others have written since: no replica
there is escapes the listing being filtered, but for pods a stale copy brought back (`Seen`); the names
yet to be created are free (`NamesAreFree`, which gives `NoOverwrites`); every count in use was asked for
(`WithinPeak`); a status in hand has the count asked for, or it changed since the re-fetch
(`PutIsExplained`); the volume about to be claimed is free (`ClaimIsFree`). `Counts` adds that the pods there are
and those still to be created fit under the largest count asked for (`RoomToCreate`), from which
`NeverOverprovisions` follows by counting; two lemmas about cardinalities (`LiveShrinks`, `LowestAreFew`)
carry that.

The module also holds the proofs about `Scheduler`, `Autoscaler` and `Scheduling`. `SchedulingExact`: for every
finite set of candidates and every request that is not negative altogether `BestFit` holds. The loop
invariant is `Chosen`: the first of the best candidates so far. `CallsType` gives the inputs of `Scheduling`
their types, from which follow
* `SchedulesBestFit`, by `SchedulingExact`;
* `NothingIsWithheld`. `PlacesOne`: a pod that finds a node takes exactly its request from each sum over the
  nodes (`SumTakes`) and leaves no node over-committed (`LoadedOK`). `FillingTakes`: so if k pods found a node one
  after the other, k requests were there of each resource. `RoomOK`: then `maxAdditionalReplicas` is at least k,
  since integer division loses no whole unit (`DivBounds`) and k is an int32;
* `ScalingInBounds`, from the bounds of `Clamped`, from room being in 0 .. `MaxInt32` (`RoomOK`) and from
  `CeilLower`: pods that use all they ask for are not scaled down.

`PlacementsExact` ties the two together: in every state of `Deployments` the nodes a pod may be placed on
(`Placements`) are exactly those that the loop returns over all orders of the listed nodes, so that the model's
choice is neither wider nor narrower than the code's. It adds to the invariant that usage is a count of pods.

The inductions, over the length of a list or the number of pods placed, are arguments about a least
counterexample (`LeastNumber`), as the library's induction rules are not usable here; the existence of the
recursive functions is proved the same way (`LoopExists`, `AddingExists`, `FillingExists`).

`Agent_proofs`: `TypeCorrectness`, `UntrackedExplained`, `DeadNoticed` and `HealthyContainersKept`. The invariant
adds to the properties that a run is kept under its own key (`OwnKeys`), that no container name has two
tasks (`OneTask`), that the exits being sent are of containers still tracked, and that none are left to
send when the loop is back at its `select`. `HealthyContainersKept`, an action property, needs it at every
step that removes: an exit in the queue may be that of a former run of the same pod. It holds for any function
`ContainerName`, with the namesake's stop as the one exception.

`ApiServer_proofs`: `TypeCorrectness` and a theorem for each of the seven invariants of `ApiServer`, each from
a family of its own:
* `AdmissionInv`: whatever a request or a pass has in hand and may yet store was admitted or is from Git.
* `DirectoryInv`: between the driver and the registry a volume call is alone and the driver has done its
  part; with no call there, directory and record are both present or both absent.
* `SharingInv`: a volume nobody was let in on unseen is mounted by one deployment, counting copies in
  flight, and owned by no other.
* `StaleInv`: unless `flags.stale` names its deployment, a pod, or a pass's copy of one, has the stored template or is
  about to be deleted by a restart; a status report in flight raises the flag when its Put brings a pod back.
* `LoadInv`: the usage a pass of either controller counted is at least what a node carries, until the pass itself, the
  other controller, a client or a status report has put something there.
* `QuotaInv`: pods that exist are not the measure, since a deployment admitted may create its pods much
  later. Every pod there is or may still come from a deployment, a pass or an admitted request is given a
  slot, the pods of one deployment being ranked (`Ranks`), and until a flag is raised all slots together
  fit the quota. An admission adds no more slots than the room it saw, a creation uses one up, and
  everything else only gives slots up.
* `SplitInv` (on top of `SharingInv`): pods that mount volumes are the first of their deployment, those a status report
  has in hand included; the pods stored are those a pass has listed; a claim about to be put finds none; data is where
  every pod of the volume is, and a claim or a pod keeps it there. Pods without an owner are held to no claim and are
  explained from the start.

Two proof attempts changed the model. The proof of `SplitVolumes` failed for a template with two
volumes claimed for different nodes: the pod can follow only one claim, and the other volume's data is
split without any claim lost. TLC finds such a behaviour on an instance with two volumes, and the code
does it (`deployment.go:302-316` returns the first claimed node it meets), so the explanation now names
it (`Scattered`). And the history behind `SharedVolumeIsExplained` had to count the pods a pass has listed
among those that mount a volume (`Mounts`), since placing a listed pod puts it back after a deletion.

`Heartbeats_proofs` holds the theorems of `Mesh` and of the composition. For `Mesh`: `TypeCorrectness` (with the
bound on attempts), `BreakerCountsFailures` and `TrialUnderWay` for any set of calls, any threshold and any
number of attempts, zero and negative arguments included (the constructor replaces them). The lemma that
a recorded outcome always leaves half-open carries the argument. In the composition, where the agent may
die and NotFound counts: `AgentTypeCorrectness`, `SharedBreakerCounts`, `SharedTrialUnderWay`, and for the
nodes `NodesTypeCorrectness` and `RecentNodesAreReady`. A step of the composition is a step of `Mesh` with
those two exceptions, so the invariant of `Mesh` is reused.

`Services_proofs`: `TypeCorrectness` and `DuplicatesExplained`, from `CheckedPortsAreFree`: what a call's list
showed stays true until another call writes, because deletions only free ports.

The families of `ApiServer_proofs` were each checked by TLC on the instance of `apiserver` before they were proved
(`SplitInv` on one with two volumes as well).

Only model-checked: liveness (`RotationEnds`, `Converges`, `AgentConverges`, `ProxiesConverge`, `DetectionSettles`,
`BreakerRecovers`, `AgentsReconnect`), as fairness is out of the prover's reach. The two runs that expect a
violation have no theorem either: what they check is false.

## 5. Disagreements and observations

Two runs show that the code does not do what its tests or comments say (`findings` in `PROJECT.json`).
The models also reach the following:

* A scale request between the status re-fetch and the status Put is undone; the test that guards against
  it (`concurrency_test.go:83`) covers the time before the re-fetch. `ClobberIsExplained` says that this
  window is the only one.
* The exit of a killed process is applied to the run that replaced it, which is then started once more
  (`agent.go:158-160` tells them apart by key only); containers are asked about again and are kept.
* Two deployments created before either claims their volume are both admitted, though
  `admission/volume.go:32-34` says it "can never be silently shared" (`SharedVolumeIsExplained`).
* The quota counts the pods that exist, not the replicas deployments have been promised
  (`QuotaOverrunIsExplained`); and an edit of a deployment is charged for all its replicas on top of
  its own existing pods (`quota.go:44`), so that it can be refused although it asks for nothing more.
* Replicas with a container port scheduled in one pass get the same node, as `scheduleUnassigned` builds
  its candidates once (`deployment.go:290`).
* After a failed assignment the volume is claimed for the node in memory (`scheduling.go:91`), and the
  pod may land elsewhere; `deployment.go:300-301` says every pod "must land on that same node".
* A failing Delete ends the cascade of `DeleteDeployment` half-way with the deployment gone
  (`deployment_service.go:78`): only a repeated call removes the other pods.
* A crash while `bootstrap-identity.json` is written leaves a file that does not parse (`persist.go:42`
  writes in place), and the bootstrap replica does not start until it is removed.
* A replaced authority strands running members: the renewed certificate is the new authority's, the trust
  bundle still the old one's (`rotate.go`), until the process is restarted.
* `nimbusctl` cannot apply or delete Nodes with the role it is given.
* The breaker stays open for 30 s, the health controller waits 15 s: five failed calls of any kind get a live
  node marked. Heartbeats of an agent whose node was deleted are such failures.
* A pod with `RESTART_POLICY_NEVER` is started again on the tick after it ended (`agent.go:93`).
* `stop` keeps `missingStreaks`, so a re-created pod may count as exited after fewer ticks than
  `process.go:53-55` requires; `HealthyContainersAreKept` shows that a running container survives it.
* The capacity estimate adds up free resources over nodes, deficits of over-committed nodes included, and
  can then withhold replicas that would fit.
* A computed count beyond int32 (`hpa.go:103`) is the smallest int32 on amd64, and a deployment under
  extreme load is then scaled down to its minimum; on arm64 it gets its maximum. `ScalingStaysInBounds` names
  this as the only way in which a deployment at or below its maximum that uses what it asked for loses replicas.
* A request that is negative altogether fits on an over-committed node, which then loses against the initial best
  score of -1 (`scheduler.go:57`): the pod stays pending. Nothing rejects such a request; `ScheduleIsBestFit` excludes it.

## 6. Not modelled, and the plan

Not modelled, with reasons, in `PROJECT.json`: I/O wrappers (containerd client, builds, log and file
servers, wasm), telemetry, cost reports (sums in floating point), cryptography and image verification
(verdicts are inputs of `Admission`), dashboard pages and sessions, the parsing and printing of nimbusctl,
single-call services (namespaces, secrets), and network policies, which are stored and which no
code outside tests enforces. A federated cluster's certificate is never renewed
(`federation_service.go:42`): there is no code to model.

What is left:

1. `Deployments` with the autoscaler's computed counts instead of any count in bounds.
2. Larger instances of `apiserver` (three requests) when a longer run is acceptable.

## 7. Running

    tlc -workers 2 -config MCReplicas.cfg MCReplicas
    tlapm Replicas_proofs.tla
