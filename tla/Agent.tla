-------------------------------- MODULE Agent --------------------------------
(***************************************************************************)
(* A node's agent (internal/agent/agent.go, process.go): one goroutine     *)
(* that serves a ticker and the channel of exit events, the goroutines     *)
(* that wait for child processes, and containerd, whose list of running    *)
(* tasks may miss one for a moment.                                        *)
(*                                                                         *)
(* A run is one started process or container, named by its pod's key and a *)
(* number that no run still known to anyone has.  The agent holds on to a  *)
(* process itself, to a container only by its name, and two pods may have  *)
(* the same container name.  A wasm module behaves as a process.           *)
(* External: containerd, reached through containerd_client.go, and the API *)
(* server, of which only the set of assigned pods matters.                 *)
(***************************************************************************)
EXTENDS Integers, Sequences, FiniteSets

CONSTANTS
    Keys,            \* pod keys; a pod deleted and re-created keeps its key
    Containers,      \* the keys whose pods run under containerd
    ContainerName,   \* containerNameRaw: "nimbus-<namespace>-<name>", so that
                     \* prod/eu-web and prod-eu/web have one name
    Policy,          \* key -> "always", "onFailure" or "never"
    Confirmations,   \* containerdMissingConfirmations
    ChanCap,         \* capacity of the channel processRuntime.exited
    RunIds,          \* bound: numbers for the runs of one key
    MaxOps,          \* bound: events from outside in a behaviour
    None

ASSUME ContainersAssumption == Containers \subseteq Keys
ASSUME PolicyAssumption == Policy \in [Keys -> {"always", "onFailure", "never"}]
ASSUME NamesAssumption == DOMAIN ContainerName = Containers
ASSUME NoneAssumption ==
    None \notin (Keys \X RunIds) \cup {ContainerName[k] : k \in Containers}
ASSUME LimitsAssumption ==
    Confirmations \in Nat \ {0} /\ ChanCap \in Nat \ {0} /\ RunIds \subseteq Nat /\ MaxOps \in Nat

VARIABLES
    assigned,   \* pods the API server lists for this node
    procs,      \* processRuntime.procs: key -> run or container name, or None
    live,       \* runs that are running and that a wait goroutine or containerd watches
    waiting,    \* exits a wait goroutine has seen and not yet sent
    exited,     \* the channel
    streak,     \* processRuntime.missingStreaks
    pc,         \* "select"; inside reconcile, "sending" in checkContainerdExits
                \* and "starting" after it
    desired,    \* the pods listed by the reconcile under way
    left,       \* the keys its loop has still to send an exit of, or to start
    ops,
    \* history, read by no guard
    lost,       \* runs nobody will stop: overwritten while running, or orphaned by a crash
    stuck       \* keys whose last restart failed

vars == <<assigned, procs, live, waiting, exited, streak, pc, desired, left, ops,
          lost, stuck>>

Runs == Keys \X RunIds
Names == {ContainerName[k] : k \in Containers}
Exit == [key : Keys, run : Runs \cup {None}, code : {-1, 0, 1}]
Processes == Keys \ Containers

RunsOf(k) == {r \in Runs : r[1] = k}
Known(k) ==
    {r \in RunsOf(k) : r \in live \/ procs[k] = r \/ r \in lost
                       \/ \E e \in waiting : e.run = r
                       \/ \E i \in DOMAIN exited : exited[i].run = r}
\* The run that start makes, with a number that is free; the bound on starts is
\* that there is one.
Startable(k) == RunsOf(k) \ Known(k) # {}
NewRun(k) == CHOOSE r \in RunsOf(k) \ Known(k) : TRUE
Tracked == {k \in Keys : procs[k] # None}

\* The tasks that containerd runs under a name, whosever pod they were started for.
Tasks(name) == {r \in live : r[1] \in Containers /\ ContainerName[r[1]] = name}
HasTask(k) == k \in Containers /\ Tasks(ContainerName[k]) # {}

Init ==
    /\ assigned \in SUBSET Keys
    /\ procs = [k \in Keys |-> None]
    /\ live = {}
    /\ waiting = {}
    /\ exited = << >>
    /\ streak = [k \in Keys |-> 0]
    /\ pc = "select"
    /\ desired = {}
    /\ left = {}
    /\ ops = 0
    /\ lost = {}
    /\ stuck = {}

history == <<lost, stuck>>
loop == <<pc, desired, left>>

-----------------------------------------------------------------------------
(* Outside the agent.                                                      *)

Event == ops < MaxOps /\ ops' = ops + 1

\* The pod is created (again) and scheduled here, or deleted or moved away.
Assign(k) ==
    /\ Event
    /\ k \notin assigned
    /\ assigned' = assigned \cup {k}
    /\ UNCHANGED <<procs, live, waiting, exited, streak, loop, history>>

Unassign(k) ==
    /\ Event
    /\ k \in assigned
    /\ assigned' = assigned \ {k}
    /\ UNCHANGED <<procs, live, waiting, exited, streak, loop, history>>

\* A process ends by itself: cmd.Wait returns in its goroutine.
ProcessEnds(r, code) ==
    /\ Event
    /\ r \in live /\ r[1] \in Processes
    /\ live' = live \ {r}
    /\ lost' = lost \ {r}
    /\ waiting' = waiting \cup {[key |-> r[1], run |-> r, code |-> code]}
    /\ UNCHANGED <<assigned, procs, exited, streak, loop, stuck>>

TaskEnds(r) ==
    /\ Event
    /\ r \in live /\ r[1] \in Containers
    /\ live' = live \ {r}
    /\ UNCHANGED <<assigned, procs, waiting, exited, streak, loop, history>>

\* Mutant: a send that does not wait for room and drops the event.
SendExit_Drops(e) ==
    /\ e \in waiting
    /\ exited' = IF Len(exited) < ChanCap THEN Append(exited, e) ELSE exited
    /\ waiting' = waiting \ {e}
    /\ UNCHANGED <<assigned, procs, live, streak, loop, ops, history>>

\* The wait goroutine sends, when the channel has room.
SendExit(e) ==
    /\ e \in waiting
    /\ Len(exited) < ChanCap
    /\ exited' = Append(exited, e)
    /\ waiting' = waiting \ {e}
    /\ UNCHANGED <<assigned, procs, live, streak, loop, ops, history>>

\* Mutant: stop only forgets.
Killed_None(k) == {}

(***************************************************************************)
(* stop: forget the run and kill it, a container by its name.  Killing a   *)
(* process makes its wait goroutine report an exit later; removing a       *)
(* container does not.                                                     *)
(***************************************************************************)
Killed(k) == IF k \in Containers THEN Tasks(procs[k]) ELSE live \cap {procs[k]}
ExitsOf(k) ==
    {[key |-> k, run |-> r, code |-> -1] : r \in {s \in Killed(k) : k \in Processes}}

(***************************************************************************)
(* The agent process ends and is started again with empty state.  After a  *)
(* crash its containers still run, and so do its child processes, which    *)
(* nobody waits for any more (they leave `live' for `lost'); when its      *)
(* context is cancelled, stopAll has stopped every run it tracked.         *)
(***************************************************************************)
Restarted ==
    /\ Event
    /\ procs' = [k \in Keys |-> None]
    /\ waiting' = {}
    /\ exited' = << >>
    /\ streak' = [k \in Keys |-> 0]
    /\ pc' = "select" /\ desired' = {} /\ left' = {}
    /\ stuck' = {}
    /\ UNCHANGED assigned

Crash ==
    /\ Restarted
    /\ lost' = lost \cup {r \in live : r[1] \in Processes}
    /\ live' = {r \in live : r[1] \in Containers}

Shutdown ==
    /\ pc = "select"
    /\ Restarted
    /\ lost' = lost \cup {r \in live : r[1] \in Processes /\ procs[r[1]] # r}
    /\ live' = {r \in live : r[1] \in Containers} \ UNION {Killed(k) : k \in Tracked}

-----------------------------------------------------------------------------
(* The agent.                                                              *)

\* Mutant: containerd is not asked at all.
Tick_NoCheck(missed) ==
    /\ pc = "select"
    /\ desired' = assigned
    /\ pc' = "sending"
    /\ IF missed = {} THEN UNCHANGED ops ELSE Event
    /\ UNCHANGED <<assigned, procs, live, waiting, exited, streak, left, history>>

(***************************************************************************)
(* reconcile, first part: list the assigned pods, then                     *)
(* checkContainerdExits against a task list in which the running tasks of  *)
(* the names `missed' do not appear.                                       *)
(***************************************************************************)
Tick(missed) ==
    /\ pc = "select"
    /\ desired' = assigned
    /\ LET gone == {k \in Tracked \cap Containers : ~HasTask(k) \/ ContainerName[k] \in missed}
           seen == (Tracked \cap Containers) \ gone
           out == {k \in gone : streak[k] + 1 >= Confirmations}
       IN  /\ streak' = [k \in Keys |-> IF k \in seen \cup out THEN 0
                                        ELSE IF k \in gone THEN streak[k] + 1 ELSE streak[k]]
           /\ left' = out
    /\ pc' = "sending"
    /\ IF missed = {} THEN UNCHANGED ops ELSE Event
    /\ UNCHANGED <<assigned, procs, live, waiting, exited, history>>

\* The same, when containerd cannot be asked: no streak changes.
TickListFails ==
    /\ pc = "select"
    /\ Event
    /\ desired' = assigned
    /\ pc' = "sending"
    /\ UNCHANGED <<assigned, procs, live, waiting, exited, streak, left, history>>

\* The loop's own goroutine sends into the channel only it receives from.
AgentSend(k) ==
    /\ pc = "sending"
    /\ k \in left
    /\ Len(exited) < ChanCap
    /\ exited' = Append(exited, [key |-> k, run |-> None, code |-> -1])
    /\ left' = left \ {k}
    /\ UNCHANGED <<assigned, procs, live, waiting, streak, pc, desired, ops, history>>

(***************************************************************************)
(* removeOrphanContainers: what runs under a name that no listed pod has   *)
(* is removed, as far as the list shows it.                                *)
(***************************************************************************)
RemoveOrphans(missed) ==
    /\ pc = "sending"
    /\ left = {}
    /\ LET wanted == {ContainerName[k] : k \in desired \cap Containers}
       IN  live' = live \ UNION {Tasks(name) : name \in Names \ (wanted \cup missed)}
    /\ pc' = "starting"
    /\ left' = desired \ Tracked
    /\ IF missed = {} THEN UNCHANGED ops ELSE Event
    /\ UNCHANGED <<assigned, procs, waiting, exited, streak, desired, history>>

\* A pod that is not tracked and whose container runs, its own or a namesake's.
AdoptIfRunning(k) ==
    /\ pc = "starting"
    /\ k \in left
    /\ HasTask(k)
    /\ procs' = [procs EXCEPT ![k] = ContainerName[k]]
    /\ left' = left \ {k}
    /\ UNCHANGED <<assigned, live, waiting, exited, streak, pc, desired, ops, history>>

\* start: startContainerd removes any container of that name before anything that can fail.
Replaced(k) == IF k \in Containers THEN Tasks(ContainerName[k]) ELSE {}

Started(k) ==
    /\ Startable(k)
    /\ procs' = [procs EXCEPT ![k] = IF k \in Containers THEN ContainerName[k] ELSE NewRun(k)]
    /\ live' = (live \ Replaced(k)) \cup {NewRun(k)}
    /\ stuck' = stuck \ {k}

\* `missed' says that the task runs and adoptIfRunning did not see it.
StartPod(k, missed) ==
    /\ pc = "starting"
    /\ k \in left
    /\ missed = HasTask(k)
    /\ Started(k)
    /\ left' = left \ {k}
    /\ IF missed THEN Event ELSE UNCHANGED ops
    /\ UNCHANGED <<assigned, waiting, exited, streak, pc, desired, lost>>

StartPodFails(k) ==
    /\ Event
    /\ pc = "starting"
    /\ k \in left
    /\ live' = live \ Replaced(k)
    /\ left' = left \ {k}
    /\ UNCHANGED <<assigned, procs, waiting, exited, streak, pc, desired, history>>

\* stop, for every key that is tracked and not listed.
StopPod(k) ==
    /\ pc = "starting"
    /\ left = {}
    /\ k \in Tracked \ desired
    /\ procs' = [procs EXCEPT ![k] = None]
    /\ live' = live \ Killed(k)
    /\ waiting' = waiting \cup ExitsOf(k)
    /\ stuck' = stuck \ {k}
    /\ UNCHANGED <<assigned, exited, streak, loop, ops, lost>>

ReconcileDone ==
    /\ pc = "starting"
    /\ left = {}
    /\ Tracked \subseteq desired
    /\ pc' = "select"
    /\ desired' = {}
    /\ UNCHANGED <<assigned, procs, live, waiting, exited, streak, left, ops, history>>

(***************************************************************************)
(* handleExit on the head of the channel.  stillRunning asks containerd,   *)
(* whose list may miss the task, and is false for a process whatever run   *)
(* the event is about.                                                     *)
(***************************************************************************)
ShouldRestart(k, code) ==
    \/ Policy[k] = "always"
    \/ Policy[k] = "onFailure" /\ code # 0

\* Mutant: containerd is not asked again.
StillRunning_NotAsked(k) == FALSE

StillRunning(k) == procs[k] # None /\ HasTask(k)

Receive ==
    /\ pc = "select"
    /\ exited # << >>
    /\ exited' = Tail(exited)

ExitedKey == Head(exited).key

IgnoreExit ==
    /\ Receive
    /\ procs[ExitedKey] = None \/ StillRunning(ExitedKey)
    /\ UNCHANGED <<assigned, procs, live, waiting, streak, loop, ops, history>>

\* handleExit goes on; `missed' says that the task runs and was not listed.
ActOnExit(missed) ==
    /\ Receive
    /\ procs[ExitedKey] # None
    /\ missed = StillRunning(ExitedKey)
    /\ IF missed THEN Event ELSE UNCHANGED ops

\* What still runs under the container's name is removed; a process is not killed.
RestartPod(missed) ==
    /\ ActOnExit(missed)
    /\ LET k == ExitedKey
       IN  /\ ShouldRestart(k, Head(exited).code)
           /\ Started(k)
           /\ lost' = IF k \in Processes /\ procs[k] \in live THEN lost \cup {procs[k]} ELSE lost
    /\ UNCHANGED <<assigned, waiting, streak, loop>>

\* The restart fails: the entry of the dead run stays in procs.
RestartFails ==
    /\ Event
    /\ Receive
    /\ LET k == ExitedKey
       IN  /\ procs[k] # None
           /\ ShouldRestart(k, Head(exited).code)
           /\ live' = live \ Replaced(k)
           /\ stuck' = stuck \cup {k}
    /\ UNCHANGED <<assigned, procs, waiting, streak, loop, lost>>

\* Terminal phase: stop and report.
FinishPod(missed) ==
    /\ ActOnExit(missed)
    /\ LET k == ExitedKey
       IN  /\ ~ShouldRestart(k, Head(exited).code)
           /\ procs' = [procs EXCEPT ![k] = None]
           /\ live' = live \ Killed(k)
           /\ waiting' = waiting \cup ExitsOf(k)
           /\ stuck' = stuck \ {k}
    /\ UNCHANGED <<assigned, streak, loop, lost>>

-----------------------------------------------------------------------------
Reconcile ==
    \/ Tick({})
    \/ RemoveOrphans({})
    \/ ReconcileDone
    \/ \E k \in Keys :
          AgentSend(k) \/ AdoptIfRunning(k) \/ StartPod(k, FALSE) \/ StopPod(k)

HandleExit == IgnoreExit \/ RestartPod(FALSE) \/ FinishPod(FALSE)

Send == \E e \in waiting : SendExit(e)

\* What the outside world does to the agent.
Disturbance ==
    \/ \E k \in Keys : Assign(k)
    \/ \E k \in Keys : Unassign(k)
    \/ \E r \in live, code \in {0, 1} : ProcessEnds(r, code)
    \/ \E r \in live : TaskEnds(r)
    \/ Crash
    \/ Shutdown
    \/ TickListFails
    \/ \E missed \in (SUBSET Names) \ {{}} : Tick(missed) \/ RemoveOrphans(missed)
    \/ \E k \in Keys : StartPod(k, TRUE) \/ StartPodFails(k)
    \/ RestartPod(TRUE)
    \/ RestartFails
    \/ FinishPod(TRUE)

Next ==
    \/ Reconcile
    \/ HandleExit
    \/ Send
    \/ Disturbance

Spec == Init /\ [][Next]_vars

(***************************************************************************)
(* The ticker keeps firing and a reconcile goes on unless it is blocked;   *)
(* select does not pass over a ready channel for ever (it picks among the  *)
(* ready cases at random); goroutines blocked on a full channel are served *)
(* in turn when it has room again.                                         *)
(***************************************************************************)
FairSpec ==
    /\ Spec
    /\ WF_vars(Reconcile)
    /\ SF_vars(HandleExit)
    /\ SF_vars(Send)

-----------------------------------------------------------------------------
(***************************************************************************)
(* Every running process is one the agent tracks and will stop, unless an  *)
(* exit event restarted its pod under it or the agent crashed; a container *)
(* is never lost, and no two run under one name.                           *)
(***************************************************************************)
UntrackedIsExplained ==
    /\ \A r \in live : r[1] \in Processes => procs[r[1]] = r \/ r \in lost
    /\ \A name \in Names : Cardinality(Tasks(name)) <= 1

(***************************************************************************)
(* A tracked process that is dead does not go unnoticed: its exit is still *)
(* on its way to handleExit.  The one exception is the code's own gap: a   *)
(* restart that failed leaves the dead run in procs, and the pod is        *)
(* reported RUNNING for ever.                                              *)
(***************************************************************************)
Pending(r) ==
    \/ \E e \in waiting : e.run = r
    \/ \E i \in DOMAIN exited : exited[i].run = r

DeadIsNoticed ==
    \A k \in Processes :
        procs[k] # None /\ procs[k] \notin live => Pending(procs[k]) \/ k \in stuck

\* checkContainerdExits waits for room that only its own goroutine can make.
BlockedOnItself == pc = "sending" /\ left # {} /\ Len(exited) = ChanCap

(***************************************************************************)
(* Once pods, processes and containerd are left alone, the agent tracks    *)
(* exactly the pods assigned to its node and keeps them running (a "never" *)
(* or a failed-to-restart pod aside), or it has blocked itself on its own  *)
(* full channel.  Of container pods with one name a single container runs, *)
(* and counts for all of them.                                             *)
(***************************************************************************)
InSync ==
    /\ Tracked = assigned
    /\ \A k \in assigned : procs[k] \in live \/ HasTask(k) \/ k \in stuck

AgentConverges == <>[](InSync \/ BlockedOnItself)

(***************************************************************************)
(* A container that runs for a pod that is tracked and wanted is not       *)
(* removed by anything the agent does by itself, whatever exits are queued *)
(* about it or about former runs of its pod and however streaks began:     *)
(* before handleExit acts it asks containerd once more, and only           *)
(* containerd's list missing the task at that moment too can deceive it.   *)
(* The exception is a namesake: containerName is not injective, and when a *)
(* pod with the same container name is no longer wanted, stop removes the  *)
(* container they share.                                                   *)
(***************************************************************************)
NamesakeStops(k) ==
    \E j \in Containers \ (desired \cup {k}) :
        ContainerName[j] = ContainerName[k] /\ procs[j] # None /\ procs'[j] = None

HealthyContainersAreKept ==
    [][ ops' = ops =>
          \A k \in Containers :
              procs[k] # None /\ (pc = "select" \/ k \in desired) =>
                  Tasks(ContainerName[k]) \subseteq live' \/ (pc = "starting" /\ NamesakeStops(k)) ]_vars
=============================================================================
