---------------------------- MODULE Agent_proofs ----------------------------
(***************************************************************************)
(* The agent for any number of pods, whatever their container names, the   *)
(* capacity of its channel, its policies and the failures it meets:        *)
(* nothing runs untracked without a reason, no death of a tracked process  *)
(* goes unnoticed, and a healthy container is kept unless a pod with the   *)
(* same container name is stopped.                                         *)
(***************************************************************************)
EXTENDS Agent, FiniteSetTheorems, TLAPS

\* An exit of a run is filed under the key of the run.
OwnExit == {e \in Exit : e.run = None \/ e.run[1] = e.key}

TypeOK ==
    /\ assigned \subseteq Keys
    /\ procs \in [Keys -> Runs \cup Names \cup {None}]
    /\ live \subseteq Runs
    /\ waiting \subseteq OwnExit
    /\ exited \in Seq(OwnExit)
    /\ streak \in [Keys -> Nat]
    /\ pc \in {"select", "sending", "starting"}
    /\ desired \subseteq Keys
    /\ left \subseteq Keys
    /\ ops \in 0 .. MaxOps
    /\ lost \subseteq Runs
    /\ stuck \subseteq Keys

\* A process is stored as itself, under its own key; a container as its name.
OwnRuns ==
    /\ \A k \in Processes : procs[k] # None => procs[k] \in Runs /\ procs[k][1] = k
    /\ \A k \in Containers : procs[k] \in {ContainerName[k], None}

\* Nobody but the loop changes procs, so what it has still to start is untracked.
LoopOK ==
    /\ pc = "select" => left = {}
    /\ pc = "starting" => \A k \in left : procs[k] = None

Untracked == \A r \in live : r[1] \in Processes => procs[r[1]] = r \/ r \in lost

OneTask ==
    \A r, s \in live :
        r[1] \in Containers /\ s[1] \in Containers /\ ContainerName[r[1]] = ContainerName[s[1]] => r = s

Inv == TypeOK /\ OwnRuns /\ LoopOK /\ Untracked /\ OneTask /\ DeadIsNoticed

-----------------------------------------------------------------------------
LEMMA KeyKinds ==
    /\ Keys = Containers \cup Processes /\ Containers \cap Processes = {}
    /\ Processes \subseteq Keys /\ Containers \subseteq Keys
BY ContainersAssumption DEF Processes

LEMMA RunsHaveKeys == ASSUME NEW r \in Runs PROVE r[1] \in Keys /\ r # None
BY NoneAssumption DEF Runs

LEMMA NewRunIsNew ==
    ASSUME NEW k \in Keys, Startable(k)
    PROVE  NewRun(k) \in Runs /\ NewRun(k)[1] = k /\ NewRun(k) # None
BY NoneAssumption DEF Startable, NewRun, RunsOf, Runs

LEMMA NamesAreNames == ASSUME NEW k \in Containers PROVE ContainerName[k] \in Names /\ ContainerName[k] # None
BY NoneAssumption DEF Names

LEMMA EventBounded == ASSUME TypeOK, Event PROVE ops' \in 0 .. MaxOps /\ ops' # ops
BY LimitsAssumption DEF TypeOK, Event

LEMMA OpsBounded == ASSUME TypeOK, Event \/ ops' = ops PROVE ops' \in 0 .. MaxOps
BY EventBounded DEF TypeOK

\* What the channel holds is an exit of a known key.
LEMMA HeadIsExit ==
    ASSUME TypeOK, exited # << >>
    PROVE  Head(exited) \in OwnExit /\ ExitedKey \in Keys /\ Tail(exited) \in Seq(OwnExit)
<1>1. exited \in Seq(OwnExit)
  BY DEF TypeOK
<1>2. Head(exited) \in OwnExit /\ Tail(exited) \in Seq(OwnExit)
  BY <1>1
<1> QED
  BY <1>2 DEF ExitedKey, OwnExit, Exit

\* Pending exits survive more waiting ones and what is sent ...
LEMMA PendingGrows ==
    ASSUME TypeOK, NEW r, Pending(r), waiting \subseteq waiting',
           exited' = exited \/ \E e \in OwnExit : exited' = Append(exited, e)
    PROVE  Pending(r)'
<1>1. exited \in Seq(OwnExit)
  BY DEF TypeOK
<1>2. ASSUME NEW i \in DOMAIN exited PROVE i \in DOMAIN exited' /\ exited'[i] = exited[i]
  BY <1>1, <1>2
<1> QED
  BY <1>2 DEF Pending

\* ... an exit that is sent is pending still ...
LEMMA PendingSent ==
    ASSUME TypeOK, NEW r, Pending(r), NEW e \in waiting, waiting' = waiting \ {e}, exited' = Append(exited, e)
    PROVE  Pending(r)'
<1>1. exited \in Seq(OwnExit) /\ e \in OwnExit
  BY DEF TypeOK
<1>2. ASSUME NEW i \in DOMAIN exited PROVE i \in DOMAIN exited' /\ exited'[i] = exited[i]
  BY <1>1, <1>2
<1>3. Len(exited) + 1 \in DOMAIN exited' /\ exited'[Len(exited) + 1] = e
  BY <1>1
<1> QED
  BY <1>2, <1>3 DEF Pending

\* ... and the receipt of another run's exit.
LEMMA PendingReceived ==
    ASSUME TypeOK, NEW r, Pending(r), exited # << >>, exited' = Tail(exited), waiting \subseteq waiting',
           Head(exited).run # r
    PROVE  Pending(r)'
<1>1. exited \in Seq(OwnExit) /\ Len(exited) \in Nat
  BY DEF TypeOK
<1>2. CASE \E e \in waiting : e.run = r
  BY <1>2 DEF Pending
<1>3. ASSUME NEW i \in DOMAIN exited, exited[i].run = r PROVE Pending(r)'
  <2>1. i # 1 /\ i \in 1 .. Len(exited)
    BY <1>1, <1>3
  <2>2. i - 1 \in DOMAIN exited' /\ exited'[i - 1] = exited[i]
    BY <1>1, <2>1
  <2> QED
    BY <1>3, <2>2 DEF Pending
<1> QED
  BY <1>2, <1>3 DEF Pending

\* handleExit takes the head of the channel off: no exit of another key's run is lost.
LEMMA OthersStayPending ==
    ASSUME TypeOK, Receive, waiting \subseteq waiting', NEW r \in Runs, r[1] # ExitedKey, Pending(r)
    PROVE  Pending(r)'
<1>1. exited # << >> /\ exited' = Tail(exited) /\ Head(exited) \in OwnExit
  BY HeadIsExit DEF Receive
<1>2. Head(exited).run # r
  BY <1>1, RunsHaveKeys DEF OwnExit, ExitedKey
<1> QED
  BY <1>1, <1>2, PendingReceived

\* What stop kills: a process itself, or whatever runs under a container's name.
LEMMA KilledRuns ==
    ASSUME Inv, NEW k \in Keys, procs[k] # None
    PROVE  /\ k \in Containers => Killed(k) = Tasks(ContainerName[k])
           /\ k \in Processes => Killed(k) \subseteq {procs[k]}
           /\ Killed(k) \subseteq live
           /\ ExitsOf(k) \subseteq OwnExit
<1>1. k \in Containers => Killed(k) = Tasks(ContainerName[k])
  BY DEF Killed, Inv, OwnRuns
<1>2. k \in Processes => Killed(k) \subseteq {procs[k]}
  BY KeyKinds DEF Killed
<1>3. Killed(k) \subseteq live
  BY DEF Killed, Tasks
<1>4. ASSUME NEW e \in ExitsOf(k) PROVE e \in OwnExit
  <2>1. PICK r \in Killed(k) : k \in Processes /\ e = [key |-> k, run |-> r, code |-> -1]
    BY <1>4 DEF ExitsOf
  <2>2. r \in Runs /\ r[1] = k
    BY <1>2, <2>1 DEF Inv, OwnRuns
  <2> QED
    BY <2>1, <2>2 DEF OwnExit, Exit
<1> QED
  BY <1>1, <1>2, <1>3, <1>4

\* Of processes no step removes any but those it kills as processes.
LEMMA TasksAreContainers ==
    ASSUME NEW name, NEW r \in Tasks(name)
    PROVE  r \in live /\ r[1] \in Containers /\ r[1] \notin Processes /\ ContainerName[r[1]] = name
BY KeyKinds DEF Tasks

-----------------------------------------------------------------------------
(***************************************************************************)
(* The steps that concern one pod: what they do to its own entry and runs, *)
(* and that they leave everybody else's processes and exits alone.         *)
(***************************************************************************)
OthersLeftAlone(k) ==
    /\ \A j \in Keys \ {k} : procs'[j] = procs[j]
    /\ \A r \in live : r[1] \in Processes \ {k} => r \in live'
    /\ lost \subseteq lost'
    /\ stuck \ {k} \subseteq stuck'
    /\ \A r \in Runs : r[1] # k /\ Pending(r) => Pending(r)'

LEMMA OnePodKeeps ==
    ASSUME Inv, NEW k \in Keys, OthersLeftAlone(k), TypeOK', LoopOK',
           k \in Processes => \/ procs'[k] = None
                              \/ procs'[k] \in Runs /\ procs'[k][1] = k /\ (procs'[k] \in live' \/ k \in stuck'),
           k \in Containers => procs'[k] \in {ContainerName[k], None},
           \A r \in live' \ live : r[1] = k /\ (k \in Processes => r = procs'[k]),
           k \in Processes => \A r \in live' \cap live : r[1] = k /\ procs[k] = r => procs'[k] = r \/ r \in lost',
           OneTask'
    PROVE  Inv'
<1>1. OwnRuns'
  BY KeyKinds DEF Inv, OwnRuns, OthersLeftAlone
<1>2. Untracked'
  <2> SUFFICES ASSUME NEW r \in live', r[1] \in Processes PROVE procs'[r[1]] = r \/ r \in lost'
    BY DEF Untracked
  <2>1. CASE r \notin live
    BY <2>1
  <2>2. CASE r \in live
    <3>1. procs[r[1]] = r \/ r \in lost
      BY <2>2 DEF Inv, Untracked
    <3> QED
      BY <2>2, <3>1, KeyKinds DEF OthersLeftAlone
  <2> QED
    BY <2>1, <2>2
<1>3. DeadIsNoticed'
  <2> SUFFICES ASSUME NEW j \in Processes, NEW r, r = procs'[j], r # None, r \notin live'
               PROVE  Pending(r)' \/ j \in stuck'
    BY DEF DeadIsNoticed, Pending
  <2>1. CASE j = k
    BY <2>1
  <2>2. CASE j # k
    <3>1. r = procs[j] /\ r \in Runs /\ r[1] = j
      BY <2>2, KeyKinds DEF OthersLeftAlone, Inv, OwnRuns
    <3>2. r \notin live
      BY <2>2, <3>1 DEF OthersLeftAlone
    <3>3. Pending(r) \/ j \in stuck
      BY <3>1, <3>2 DEF Inv, DeadIsNoticed
    <3> QED
      BY <2>2, <3>1, <3>3 DEF OthersLeftAlone
  <2> QED
    BY <2>1, <2>2
<1> QED
  BY <1>1, <1>2, <1>3 DEF Inv

\* Steps that start and kill no process, restart none and lose no exit.
LEMMA TasksGoneKeeps ==
    ASSUME Inv, TypeOK', LoopOK', UNCHANGED <<procs, lost, stuck>>,
           live' \subseteq live, \A r \in live : r[1] \in Processes => r \in live',
           \A r \in Runs : Pending(r) => Pending(r)'
    PROVE  Inv'
<1>1. OwnRuns' /\ Untracked' /\ OneTask'
  BY DEF Inv, OwnRuns, Untracked, OneTask
<1>2. DeadIsNoticed'
  <2> SUFFICES ASSUME NEW k \in Processes, NEW r, r = procs[k], r # None, r \notin live'
               PROVE  Pending(r)' \/ k \in stuck
    BY DEF DeadIsNoticed, Pending
  <2>1. r \in Runs /\ r[1] = k
    BY DEF Inv, OwnRuns
  <2>2. r \notin live
    BY <2>1
  <2> QED
    BY <2>1, <2>2 DEF Inv, DeadIsNoticed
<1> QED
  BY <1>1, <1>2 DEF Inv

-----------------------------------------------------------------------------
(* Steps outside the agent *)

LEMMA AssignKeeps == ASSUME Inv, NEW k \in Keys, Assign(k) \/ Unassign(k) PROVE Inv'
<1>1. /\ Event /\ assigned' \subseteq Keys
      /\ UNCHANGED <<procs, live, waiting, exited, lost, stuck, streak, pc, desired, left>>
  BY DEF Assign, Unassign, loop, history, Inv, TypeOK
<1>2. ops' \in 0 .. MaxOps
  BY <1>1, OpsBounded DEF Inv
<1>3. TypeOK' /\ LoopOK'
  BY <1>1, <1>2 DEF Inv, TypeOK, LoopOK
<1>4. \A r \in Runs : Pending(r) => Pending(r)'
  BY <1>1 DEF Pending
<1> QED
  BY <1>1, <1>3, <1>4, TasksGoneKeeps

LEMMA ProcessEndsKeeps == ASSUME Inv, NEW r \in live, NEW code \in {0, 1}, ProcessEnds(r, code) PROVE Inv'
<1> DEFINE e == [key |-> r[1], run |-> r, code |-> code]
<1>1. /\ r[1] \in Processes /\ live' = live \ {r} /\ lost' = lost \ {r} /\ waiting' = waiting \cup {e}
      /\ UNCHANGED <<assigned, procs, exited, streak, pc, desired, left, stuck>>
  BY DEF ProcessEnds, loop
<1>2. e \in OwnExit /\ e.run = r /\ r \in Runs
  BY <1>1, KeyKinds DEF OwnExit, Exit, Inv, TypeOK
<1>3. ops' \in 0 .. MaxOps
  BY OpsBounded DEF Inv, ProcessEnds
<1>4. TypeOK' /\ LoopOK'
  BY <1>1, <1>2, <1>3 DEF Inv, TypeOK, LoopOK
<1>5. OwnRuns' /\ Untracked' /\ OneTask'
  BY <1>1 DEF Inv, OwnRuns, Untracked, OneTask
<1>6. DeadIsNoticed'
  <2> SUFFICES ASSUME NEW k \in Processes, procs[k] # None, procs[k] \notin live'
               PROVE  Pending(procs[k])' \/ k \in stuck
    BY <1>1 DEF DeadIsNoticed, Pending
  <2>1. CASE procs[k] = r
    BY <1>1, <1>2, <2>1 DEF Pending
  <2>2. CASE procs[k] \notin live
    BY <1>1, <2>2, PendingGrows DEF Inv, DeadIsNoticed
  <2> QED
    BY <1>1, <2>1, <2>2
<1> QED
  BY <1>4, <1>5, <1>6 DEF Inv

LEMMA TaskEndsKeeps == ASSUME Inv, NEW r \in live, TaskEnds(r) PROVE Inv'
<1>1. /\ r[1] \in Containers /\ live' = live \ {r}
      /\ UNCHANGED <<assigned, procs, waiting, exited, streak, pc, desired, left, lost, stuck>>
  BY DEF TaskEnds, loop, history
<1>2. ops' \in 0 .. MaxOps
  BY OpsBounded DEF Inv, TaskEnds
<1>3. TypeOK' /\ LoopOK'
  BY <1>1, <1>2 DEF Inv, TypeOK, LoopOK
<1>4. \A s \in Runs : Pending(s) => Pending(s)'
  BY <1>1 DEF Pending
<1> QED
  BY <1>1, <1>3, <1>4, KeyKinds, TasksGoneKeeps

LEMMA SendExitKeeps == ASSUME Inv, NEW e \in waiting, SendExit(e) PROVE Inv'
<1>1. /\ exited' = Append(exited, e) /\ waiting' = waiting \ {e}
      /\ UNCHANGED <<assigned, procs, live, streak, pc, desired, left, ops, lost, stuck>>
  BY DEF SendExit, loop, history
<1>2. exited' \in Seq(OwnExit) /\ waiting' \subseteq OwnExit
  <2>1. exited \in Seq(OwnExit) /\ e \in OwnExit /\ waiting \subseteq OwnExit
    BY DEF Inv, TypeOK
  <2> QED
    BY <1>1, <2>1
<1>3. TypeOK' /\ LoopOK'
  BY <1>1, <1>2 DEF Inv, TypeOK, LoopOK
<1>4. \A r \in Runs : Pending(r) => Pending(r)'
  BY <1>1, PendingSent DEF Inv
<1> QED
  BY <1>1, <1>3, <1>4, TasksGoneKeeps

\* After a crash or a shutdown nothing is tracked, and only containers are left.
LEMMA RestartedKeeps ==
    ASSUME Inv, Restarted, live' \subseteq {r \in live : r[1] \in Containers}, lost' \subseteq Runs
    PROVE  Inv'
<1>1. /\ procs' = [k \in Keys |-> None] /\ waiting' = {} /\ exited' = << >> /\ streak' = [k \in Keys |-> 0]
      /\ pc' = "select" /\ desired' = {} /\ left' = {} /\ stuck' = {} /\ assigned' = assigned
  BY DEF Restarted
<1>2. ops' \in 0 .. MaxOps
  BY OpsBounded DEF Inv, Restarted
<1>3. TypeOK' /\ LoopOK'
  BY <1>1, <1>2 DEF Inv, TypeOK, LoopOK
<1>4. OwnRuns' /\ Untracked' /\ OneTask'
  BY <1>1, KeyKinds DEF Inv, OwnRuns, Untracked, OneTask
<1>5. DeadIsNoticed'
  BY <1>1 DEF DeadIsNoticed, Processes
<1> QED
  BY <1>1, <1>3, <1>4, <1>5 DEF Inv

LEMMA CrashKeeps == ASSUME Inv, Crash \/ Shutdown PROVE Inv'
<1>1. Restarted /\ live' \subseteq {r \in live : r[1] \in Containers} /\ lost' \subseteq Runs
  BY DEF Crash, Shutdown, Inv, TypeOK
<1> QED
  BY <1>1, RestartedKeeps

-----------------------------------------------------------------------------
(* The reconcile loop *)

LEMMA TickKeeps == ASSUME Inv, NEW missed, Tick(missed) PROVE Inv'
<1> DEFINE gone == {k \in Tracked \cap Containers : ~HasTask(k) \/ ContainerName[k] \in missed}
           seen == (Tracked \cap Containers) \ gone
           out == {k \in gone : streak[k] + 1 >= Confirmations}
<1>1. /\ desired' = assigned /\ left' = out /\ pc' = "sending"
      /\ streak' = [k \in Keys |-> IF k \in seen \cup out THEN 0
                                   ELSE IF k \in gone THEN streak[k] + 1 ELSE streak[k]]
      /\ UNCHANGED <<assigned, procs, live, waiting, exited, lost, stuck>>
  BY DEF Tick, history
<1>2. ops' \in 0 .. MaxOps
  BY OpsBounded DEF Inv, Tick
<1>3. streak' \in [Keys -> Nat] /\ left' \subseteq Keys
  BY <1>1 DEF Inv, TypeOK, Tracked
<1>4. TypeOK' /\ LoopOK'
  BY <1>1, <1>2, <1>3 DEF Inv, TypeOK, LoopOK
<1>5. \A r \in Runs : Pending(r) => Pending(r)'
  BY <1>1 DEF Pending
<1> QED
  BY <1>1, <1>4, <1>5, TasksGoneKeeps

LEMMA TickListFailsKeeps == ASSUME Inv, TickListFails PROVE Inv'
<1>1. /\ UNCHANGED <<procs, live, waiting, exited, lost, stuck, streak, assigned, left>>
      /\ pc' = "sending" /\ desired' = assigned
  BY DEF TickListFails, history
<1>2. ops' \in 0 .. MaxOps
  BY OpsBounded DEF Inv, TickListFails
<1>3. TypeOK' /\ LoopOK'
  BY <1>1, <1>2 DEF Inv, TypeOK, LoopOK
<1>4. \A r \in Runs : Pending(r) => Pending(r)'
  BY <1>1 DEF Pending
<1> QED
  BY <1>1, <1>3, <1>4, TasksGoneKeeps

LEMMA AgentSendKeeps == ASSUME Inv, NEW k \in Keys, AgentSend(k) PROVE Inv'
<1> DEFINE e == [key |-> k, run |-> None, code |-> -1]
<1>1. /\ exited' = Append(exited, e) /\ left' = left \ {k} /\ pc = "sending"
      /\ UNCHANGED <<assigned, procs, live, waiting, streak, pc, desired, ops, lost, stuck>>
  BY DEF AgentSend, history
<1>2. e \in OwnExit
  BY DEF OwnExit, Exit
<1>3. exited' \in Seq(OwnExit)
  <2>1. exited \in Seq(OwnExit)
    BY DEF Inv, TypeOK
  <2> QED
    BY <1>1, <1>2, <2>1
<1>4. TypeOK' /\ LoopOK'
  BY <1>1, <1>3 DEF Inv, TypeOK, LoopOK
<1>5. \A r \in Runs : Pending(r) => Pending(r)'
  BY <1>1, <1>2, PendingGrows DEF Inv
<1> QED
  BY <1>1, <1>4, <1>5, TasksGoneKeeps

LEMMA RemoveOrphansKeeps == ASSUME Inv, NEW missed, RemoveOrphans(missed) PROVE Inv'
<1> DEFINE wanted == {ContainerName[k] : k \in desired \cap Containers}
<1>1. /\ pc' = "starting" /\ left' = desired \ Tracked
      /\ live' = live \ UNION {Tasks(name) : name \in Names \ (wanted \cup missed)}
      /\ UNCHANGED <<assigned, procs, waiting, exited, streak, desired, lost, stuck>>
  BY DEF RemoveOrphans, history
<1>2. ops' \in 0 .. MaxOps
  BY OpsBounded DEF Inv, RemoveOrphans
<1>3. live' \subseteq live
  BY <1>1
<1>4. TypeOK' /\ LoopOK'
  BY <1>1, <1>2, <1>3 DEF Inv, TypeOK, LoopOK, Tracked
<1>5. \A r \in live : r[1] \in Processes => r \in live'
  BY <1>1, TasksAreContainers
<1>6. \A r \in Runs : Pending(r) => Pending(r)'
  BY <1>1 DEF Pending
<1> QED
  BY <1>1, <1>3, <1>4, <1>5, <1>6, TasksGoneKeeps

LEMMA AdoptKeeps == ASSUME Inv, NEW k \in Keys, AdoptIfRunning(k) PROVE Inv'
<1>1. /\ k \in Containers /\ procs' = [procs EXCEPT ![k] = ContainerName[k]] /\ left' = left \ {k} /\ pc = "starting"
      /\ UNCHANGED <<assigned, live, waiting, exited, streak, pc, desired, ops, lost, stuck>>
  BY DEF AdoptIfRunning, HasTask, history
<1>2. procs'[k] = ContainerName[k] /\ \A j \in Keys \ {k} : procs'[j] = procs[j]
  BY <1>1 DEF Inv, TypeOK
<1>3. TypeOK' /\ LoopOK'
  BY <1>1, <1>2, NamesAreNames DEF Inv, TypeOK, LoopOK
<1>4. OthersLeftAlone(k)
  BY <1>1, <1>2 DEF OthersLeftAlone, Pending
<1>5. OneTask'
  BY <1>1 DEF Inv, OneTask
<1> QED
  BY <1>1, <1>2, <1>3, <1>4, <1>5, KeyKinds, OnePodKeeps

\* What start does when it succeeds.
LEMMA StartedEffect ==
    ASSUME Inv, NEW k \in Keys, Started(k)
    PROVE  /\ \A j \in Keys \ {k} : procs'[j] = procs[j]
           /\ k \in Containers => procs'[k] = ContainerName[k]
           /\ k \in Processes => procs'[k] = NewRun(k) /\ procs'[k] \in Runs /\ procs'[k][1] = k /\ procs'[k] \in live'
           /\ procs' \in [Keys -> Runs \cup Names \cup {None}]
           /\ live' \subseteq Runs
           /\ \A r \in live : r[1] \in Processes => r \in live'
           /\ \A r \in live' \ live : r = NewRun(k) /\ r[1] = k
           /\ stuck' = stuck \ {k}
           /\ OneTask'
<1>1. /\ procs' = [procs EXCEPT ![k] = IF k \in Containers THEN ContainerName[k] ELSE NewRun(k)]
      /\ live' = (live \ Replaced(k)) \cup {NewRun(k)} /\ stuck' = stuck \ {k}
      /\ NewRun(k) \in Runs /\ NewRun(k)[1] = k
  BY NewRunIsNew DEF Started
<1>2. /\ \A j \in Keys \ {k} : procs'[j] = procs[j]
      /\ k \in Containers => procs'[k] = ContainerName[k]
      /\ k \in Processes => procs'[k] = NewRun(k)
  BY <1>1, KeyKinds DEF Inv, TypeOK
<1>3. procs' \in [Keys -> Runs \cup Names \cup {None}]
  BY <1>1, NamesAreNames DEF Inv, TypeOK
<1>4. live' \subseteq Runs /\ \A r \in live' \ live : r = NewRun(k) /\ r[1] = k
  BY <1>1 DEF Inv, TypeOK
<1>5. \A r \in live : r[1] \in Processes => r \in live'
  BY <1>1, TasksAreContainers DEF Replaced
<1>6. OneTask'
  <2> SUFFICES ASSUME NEW r \in live', NEW s \in live', r[1] \in Containers, s[1] \in Containers,
                      ContainerName[r[1]] = ContainerName[s[1]]
               PROVE  r = s
    BY DEF OneTask
  <2>1. CASE r = NewRun(k) \/ s = NewRun(k)
    <3>1. k \in Containers /\ ContainerName[r[1]] = ContainerName[k] /\ ContainerName[s[1]] = ContainerName[k]
      BY <1>1, <2>1
    <3>2. \A q \in live' : q[1] \in Containers /\ ContainerName[q[1]] = ContainerName[k] => q = NewRun(k)
      BY <1>1, <3>1 DEF Replaced, Tasks
    <3> QED
      BY <3>1, <3>2
  <2>2. CASE r # NewRun(k) /\ s # NewRun(k)
    BY <1>1, <2>2 DEF Inv, OneTask
  <2> QED
    BY <2>1, <2>2
<1> QED
  BY <1>1, <1>2, <1>3, <1>4, <1>5, <1>6

LEMMA StartPodKeeps == ASSUME Inv, NEW k \in Keys, NEW missed \in BOOLEAN, StartPod(k, missed) PROVE Inv'
<1>1. /\ Started(k) /\ k \in left /\ pc = "starting" /\ left' = left \ {k}
      /\ UNCHANGED <<assigned, waiting, exited, streak, pc, desired, lost>>
  BY DEF StartPod
<1>2. ops' \in 0 .. MaxOps
  BY OpsBounded DEF Inv, StartPod
<1>3. /\ \A j \in Keys \ {k} : procs'[j] = procs[j]
      /\ k \in Containers => procs'[k] = ContainerName[k]
      /\ k \in Processes => procs'[k] = NewRun(k) /\ procs'[k] \in Runs /\ procs'[k][1] = k /\ procs'[k] \in live'
      /\ procs' \in [Keys -> Runs \cup Names \cup {None}]
      /\ live' \subseteq Runs
      /\ \A r \in live : r[1] \in Processes => r \in live'
      /\ \A r \in live' \ live : r = NewRun(k) /\ r[1] = k
      /\ stuck' = stuck \ {k}
      /\ OneTask'
  BY <1>1, StartedEffect
<1>4. TypeOK' /\ LoopOK'
  BY <1>1, <1>2, <1>3 DEF Inv, TypeOK, LoopOK
<1>5. OthersLeftAlone(k)
  BY <1>1, <1>3 DEF OthersLeftAlone, Pending
<1>6. procs[k] = None
  BY <1>1 DEF Inv, LoopOK
<1>7. \A r \in live : procs[k] # r
  BY <1>6, RunsHaveKeys DEF Inv, TypeOK
<1> QED
  BY <1>3, <1>4, <1>5, <1>7, KeyKinds, OnePodKeeps

LEMMA ReplacedKeepsTasks ==
    ASSUME Inv, NEW k \in Keys, live' = live \ Replaced(k)
    PROVE  live' \subseteq live /\ (\A r \in live : r[1] \in Processes => r \in live') /\ OneTask'
BY TasksAreContainers DEF Replaced, Inv, OneTask

LEMMA StartPodFailsKeeps == ASSUME Inv, NEW k \in Keys, StartPodFails(k) PROVE Inv'
<1>1. /\ live' = live \ Replaced(k) /\ left' = left \ {k} /\ pc = "starting"
      /\ UNCHANGED <<assigned, procs, waiting, exited, streak, pc, desired, lost, stuck>>
  BY DEF StartPodFails, history
<1>2. ops' \in 0 .. MaxOps
  BY OpsBounded DEF Inv, StartPodFails
<1>3. live' \subseteq live /\ \A r \in live : r[1] \in Processes => r \in live'
  BY <1>1, ReplacedKeepsTasks
<1>4. TypeOK' /\ LoopOK'
  BY <1>1, <1>2, <1>3 DEF Inv, TypeOK, LoopOK
<1>5. \A r \in Runs : Pending(r) => Pending(r)'
  BY <1>1 DEF Pending
<1> QED
  BY <1>1, <1>3, <1>4, <1>5, TasksGoneKeeps

\* What stop does.
LEMMA StoppedEffect ==
    ASSUME Inv, NEW k \in Keys, procs[k] # None,
           procs' = [procs EXCEPT ![k] = None], live' = live \ Killed(k), waiting' = waiting \cup ExitsOf(k)
    PROVE  /\ procs'[k] = None
           /\ \A j \in Keys \ {k} : procs'[j] = procs[j]
           /\ procs' \in [Keys -> Runs \cup Names \cup {None}]
           /\ live' \subseteq live
           /\ \A r \in live : r[1] \in Processes \ {k} => r \in live'
           /\ k \in Processes => \A r \in live' : procs[k] # r
           /\ waiting \subseteq waiting' /\ waiting' \subseteq OwnExit
           /\ OneTask'
<1>1. procs'[k] = None /\ (\A j \in Keys \ {k} : procs'[j] = procs[j]) /\ procs' \in [Keys -> Runs \cup Names \cup {None}]
  BY DEF Inv, TypeOK
<1>2. waiting \subseteq waiting' /\ waiting' \subseteq OwnExit
  BY KilledRuns DEF Inv, TypeOK
<1>3. \A r \in live : r[1] \in Processes \ {k} => r \in live'
  <2> SUFFICES ASSUME NEW r \in live, r[1] \in Processes \ {k} PROVE r \notin Killed(k)
    OBVIOUS
  <2>1. CASE k \in Containers
    BY <2>1, KilledRuns, TasksAreContainers
  <2>2. CASE k \in Processes
    BY <2>2, KilledRuns DEF Inv, OwnRuns
  <2> QED
    BY <2>1, <2>2, KeyKinds
<1>4. k \in Processes => \A r \in live' : procs[k] # r
  BY KeyKinds DEF Killed
<1>5. OneTask'
  BY DEF Inv, OneTask
<1> QED
  BY <1>1, <1>2, <1>3, <1>4, <1>5

LEMMA StopPodKeeps == ASSUME Inv, NEW k \in Keys, StopPod(k) PROVE Inv'
<1>1. /\ procs[k] # None /\ pc = "starting" /\ left = {}
      /\ procs' = [procs EXCEPT ![k] = None] /\ live' = live \ Killed(k) /\ waiting' = waiting \cup ExitsOf(k)
      /\ stuck' = stuck \ {k}
      /\ UNCHANGED <<assigned, exited, streak, pc, desired, left, ops, lost>>
  BY DEF StopPod, Tracked, loop
<1>2. /\ procs'[k] = None
      /\ \A j \in Keys \ {k} : procs'[j] = procs[j]
      /\ procs' \in [Keys -> Runs \cup Names \cup {None}]
      /\ live' \subseteq live
      /\ \A r \in live : r[1] \in Processes \ {k} => r \in live'
      /\ k \in Processes => \A r \in live' : procs[k] # r
      /\ waiting \subseteq waiting' /\ waiting' \subseteq OwnExit
      /\ OneTask'
  BY <1>1, StoppedEffect
<1>3. TypeOK' /\ LoopOK'
  BY <1>1, <1>2 DEF Inv, TypeOK, LoopOK
<1>4. OthersLeftAlone(k)
  BY <1>1, <1>2 DEF OthersLeftAlone, Pending
<1> QED
  BY <1>2, <1>3, <1>4, OnePodKeeps

LEMMA ReconcileDoneKeeps == ASSUME Inv, ReconcileDone PROVE Inv'
<1>1. /\ pc' = "select" /\ desired' = {} /\ left' = {}
      /\ UNCHANGED <<assigned, procs, live, waiting, exited, streak, left, ops, lost, stuck>>
  BY DEF ReconcileDone, history
<1>2. TypeOK' /\ LoopOK'
  BY <1>1 DEF Inv, TypeOK, LoopOK
<1>3. \A r \in Runs : Pending(r) => Pending(r)'
  BY <1>1 DEF Pending
<1> QED
  BY <1>1, <1>2, <1>3, TasksGoneKeeps

-----------------------------------------------------------------------------
(* Exits *)

LEMMA ReceiveEffect ==
    ASSUME Inv, Receive
    PROVE  /\ ExitedKey \in Keys /\ pc = "select" /\ left = {} /\ exited' \in Seq(OwnExit)
           /\ waiting \subseteq waiting' => \A r \in Runs : r[1] # ExitedKey /\ Pending(r) => Pending(r)'
<1>1. ExitedKey \in Keys /\ pc = "select" /\ left = {} /\ exited' \in Seq(OwnExit)
  BY HeadIsExit DEF Inv, Receive, LoopOK
<1> QED
  BY <1>1, OthersStayPending DEF Inv

LEMMA IgnoreExitKeeps == ASSUME Inv, IgnoreExit PROVE Inv'
<1> DEFINE k == ExitedKey
<1>1. /\ Receive
      /\ procs[k] = None \/ k \in Containers
      /\ UNCHANGED <<assigned, procs, live, waiting, streak, pc, desired, left, ops, lost, stuck>>
  BY DEF IgnoreExit, StillRunning, HasTask, loop, history
<1>2. k \in Keys /\ exited' \in Seq(OwnExit) /\ \A r \in Runs : r[1] # k /\ Pending(r) => Pending(r)'
  BY <1>1, ReceiveEffect
<1> HIDE DEF k
<1>3. TypeOK' /\ LoopOK'
  BY <1>1, <1>2 DEF Inv, TypeOK, LoopOK
<1>4. OthersLeftAlone(k)
  BY <1>1, <1>2 DEF OthersLeftAlone
<1>5. OneTask' /\ (k \in Containers => procs'[k] \in {ContainerName[k], None})
  BY <1>1 DEF Inv, OneTask, OwnRuns
<1>6. k \in Processes => procs'[k] = None
  BY <1>1, KeyKinds
<1> QED
  BY <1>1, <1>2, <1>3, <1>4, <1>5, <1>6, OnePodKeeps

LEMMA ActsOnKey ==
    ASSUME Inv, NEW missed \in BOOLEAN, ActOnExit(missed)
    PROVE  Receive /\ procs[ExitedKey] # None /\ ops' \in 0 .. MaxOps
BY OpsBounded DEF Inv, ActOnExit

LEMMA RestartPodKeeps == ASSUME Inv, NEW missed \in BOOLEAN, RestartPod(missed) PROVE Inv'
<1> DEFINE k == ExitedKey
<1>1. /\ Started(k)
      /\ lost' = IF k \in Processes /\ procs[k] \in live THEN lost \cup {procs[k]} ELSE lost
      /\ UNCHANGED <<assigned, waiting, streak, pc, desired, left>>
  BY DEF RestartPod, loop
<1>2. Receive /\ procs[k] # None /\ ops' \in 0 .. MaxOps
  BY ActsOnKey DEF RestartPod
<1>3. /\ k \in Keys /\ pc = "select" /\ left = {} /\ exited' \in Seq(OwnExit)
      /\ \A r \in Runs : r[1] # k /\ Pending(r) => Pending(r)'
  BY <1>1, <1>2, ReceiveEffect
<1> HIDE DEF k
<1>4. /\ \A j \in Keys \ {k} : procs'[j] = procs[j]
      /\ k \in Containers => procs'[k] = ContainerName[k]
      /\ k \in Processes => procs'[k] = NewRun(k) /\ procs'[k] \in Runs /\ procs'[k][1] = k /\ procs'[k] \in live'
      /\ procs' \in [Keys -> Runs \cup Names \cup {None}]
      /\ live' \subseteq Runs
      /\ \A r \in live : r[1] \in Processes => r \in live'
      /\ \A r \in live' \ live : r = NewRun(k) /\ r[1] = k
      /\ stuck' = stuck \ {k}
      /\ OneTask'
  BY <1>1, <1>3, StartedEffect
<1>5. lost \subseteq lost' /\ lost' \subseteq Runs
  BY <1>1 DEF Inv, TypeOK
<1>6. TypeOK' /\ LoopOK'
  BY <1>1, <1>2, <1>3, <1>4, <1>5 DEF Inv, TypeOK, LoopOK
<1>7. OthersLeftAlone(k)
  BY <1>1, <1>3, <1>4, <1>5 DEF OthersLeftAlone
<1>8. k \in Processes => \A r \in live' \cap live : procs[k] = r => r \in lost'
  BY <1>1
<1> QED
  BY <1>3, <1>4, <1>6, <1>7, <1>8, KeyKinds, OnePodKeeps

LEMMA RestartFailsKeeps == ASSUME Inv, RestartFails PROVE Inv'
<1> DEFINE k == ExitedKey
<1>1. /\ Receive /\ Event /\ live' = live \ Replaced(k) /\ stuck' = stuck \cup {k}
      /\ UNCHANGED <<assigned, procs, waiting, streak, pc, desired, left, lost>>
  BY DEF RestartFails, loop
<1>2. /\ k \in Keys /\ exited' \in Seq(OwnExit) /\ ops' \in 0 .. MaxOps
      /\ \A r \in Runs : r[1] # k /\ Pending(r) => Pending(r)'
  BY <1>1, ReceiveEffect, OpsBounded DEF Inv
<1> HIDE DEF k
<1>3. live' \subseteq live /\ (\A r \in live : r[1] \in Processes => r \in live') /\ OneTask'
  BY <1>1, <1>2, ReplacedKeepsTasks
<1>4. TypeOK' /\ LoopOK'
  BY <1>1, <1>2, <1>3 DEF Inv, TypeOK, LoopOK
<1>5. OthersLeftAlone(k)
  BY <1>1, <1>2, <1>3 DEF OthersLeftAlone
<1>6. k \in Containers => procs'[k] \in {ContainerName[k], None}
  BY <1>1 DEF Inv, OwnRuns
<1>7. ASSUME NEW j \in Processes, j = k
      PROVE  procs'[j] = None \/ (procs'[j] \in Runs /\ procs'[j][1] = j /\ j \in stuck')
  <2>1. procs[j] # None => procs[j] \in Runs /\ procs[j][1] = j
    BY DEF Inv, OwnRuns
  <2>2. procs'[j] = procs[j] /\ j \in stuck'
    BY <1>1, <1>7
  <2> QED
    BY <2>1, <2>2
<1> QED
  BY <1>1, <1>2, <1>3, <1>4, <1>5, <1>6, <1>7, OnePodKeeps

LEMMA FinishPodKeeps == ASSUME Inv, NEW missed \in BOOLEAN, FinishPod(missed) PROVE Inv'
<1> DEFINE k == ExitedKey
<1>1. /\ procs' = [procs EXCEPT ![k] = None] /\ live' = live \ Killed(k)
      /\ waiting' = waiting \cup ExitsOf(k) /\ stuck' = stuck \ {k}
      /\ UNCHANGED <<assigned, streak, pc, desired, left, lost>>
  BY DEF FinishPod, loop
<1>2. Receive /\ procs[k] # None /\ ops' \in 0 .. MaxOps
  BY ActsOnKey DEF FinishPod
<1>3. /\ k \in Keys /\ pc = "select" /\ left = {} /\ exited' \in Seq(OwnExit)
      /\ \A r \in Runs : r[1] # k /\ Pending(r) => Pending(r)'
  BY <1>1, <1>2, ReceiveEffect
<1> HIDE DEF k
<1>4. /\ procs'[k] = None
      /\ \A j \in Keys \ {k} : procs'[j] = procs[j]
      /\ procs' \in [Keys -> Runs \cup Names \cup {None}]
      /\ live' \subseteq live
      /\ \A r \in live : r[1] \in Processes \ {k} => r \in live'
      /\ k \in Processes => \A r \in live' : procs[k] # r
      /\ waiting \subseteq waiting' /\ waiting' \subseteq OwnExit
      /\ OneTask'
  BY <1>1, <1>2, <1>3, StoppedEffect
<1>5. TypeOK' /\ LoopOK'
  BY <1>1, <1>2, <1>3, <1>4 DEF Inv, TypeOK, LoopOK
<1>6. OthersLeftAlone(k)
  BY <1>1, <1>3, <1>4 DEF OthersLeftAlone
<1> QED
  BY <1>3, <1>4, <1>5, <1>6, OnePodKeeps

-----------------------------------------------------------------------------
LEMMA InitInv == Init => Inv
<1> SUFFICES ASSUME Init PROVE Inv
  OBVIOUS
<1>1. TypeOK
  BY LimitsAssumption DEF Init, TypeOK
<1> QED
  BY <1>1, KeyKinds DEF Init, Inv, OwnRuns, LoopOK, Untracked, OneTask, DeadIsNoticed

LEMMA NextInv == ASSUME Inv, [Next]_vars PROVE Inv'
<1>1. CASE Reconcile
  BY <1>1, TickKeeps, AgentSendKeeps, RemoveOrphansKeeps, AdoptKeeps, StartPodKeeps, StopPodKeeps, ReconcileDoneKeeps
     DEF Reconcile
<1>2. CASE HandleExit
  BY <1>2, IgnoreExitKeeps, RestartPodKeeps, FinishPodKeeps DEF HandleExit
<1>3. CASE Send
  BY <1>3, SendExitKeeps DEF Send
<1>4. CASE Disturbance
  <2>1. CASE \E r \in live, code \in {0, 1} : ProcessEnds(r, code)
    BY <2>1, ProcessEndsKeeps
  <2>2. CASE \E missed \in (SUBSET Names) \ {{}} : Tick(missed) \/ RemoveOrphans(missed)
    BY <2>2, TickKeeps, RemoveOrphansKeeps
  <2>3. CASE \E k \in Keys : StartPod(k, TRUE) \/ StartPodFails(k)
    BY <2>3, StartPodKeeps, StartPodFailsKeeps
  <2> QED
    BY <1>4, <2>1, <2>2, <2>3, AssignKeeps, TaskEndsKeeps, CrashKeeps, TickListFailsKeeps,
       RestartPodKeeps, RestartFailsKeeps, FinishPodKeeps DEF Disturbance
<1>5. CASE UNCHANGED vars
  <2>1. TypeOK' /\ LoopOK'
    BY <1>5 DEF vars, Inv, TypeOK, LoopOK
  <2>2. \A r \in Runs : Pending(r) => Pending(r)'
    BY <1>5 DEF vars, Pending
  <2> QED
    BY <1>5, <2>1, <2>2, TasksGoneKeeps DEF vars
<1> QED
  BY <1>1, <1>2, <1>3, <1>4, <1>5 DEF Next

LEMMA InvHolds == Spec => []Inv
<1>1. Inv /\ [Next]_vars => Inv'
  BY NextInv
<1> QED
  BY <1>1, InitInv, PTL DEF Spec

(***************************************************************************)
(* Every reachable state of an agent is well typed, and every exit on its  *)
(* way is filed under the key of the run it is about.                      *)
(***************************************************************************)
THEOREM TypeCorrectness == Spec => []TypeOK
<1>1. Inv => TypeOK
  BY DEF Inv
<1> QED
  BY <1>1, InvHolds, PTL

(***************************************************************************)
(* For any number of pods and any sequence of exits, crashes, missed task  *)
(* lists and failing starts (process.go), a process that runs is tracked   *)
(* or was lost in one of the two known ways, and no container name has two *)
(* containers.                                                             *)
(***************************************************************************)
THEOREM UntrackedExplained == Spec => []UntrackedIsExplained
<1>1. Inv => UntrackedIsExplained
  <2> SUFFICES ASSUME Inv, NEW name \in Names PROVE Cardinality(Tasks(name)) <= 1
    BY DEF Inv, Untracked, UntrackedIsExplained
  <2>1. \A r, s \in Tasks(name) : r = s
    BY DEF Tasks, Inv, OneTask
  <2>2. CASE Tasks(name) = {}
    BY <2>2, FS_EmptySet
  <2>3. CASE Tasks(name) # {}
    <3>1. PICK r : Tasks(name) = {r}
      BY <2>1, <2>3
    <3>2. Cardinality({r}) = 1
      BY FS_Singleton
    <3> QED
      BY <3>1, <3>2
  <2> QED
    BY <2>2, <2>3
<1> QED
  BY <1>1, InvHolds, PTL

(***************************************************************************)
(* The exit of a tracked process that is dead is on its way to handleExit, *)
(* or the restart that followed it failed (agent.go: handleExit): no       *)
(* order of events and no full channel loses it.                           *)
(***************************************************************************)
THEOREM DeadNoticed == Spec => []DeadIsNoticed
<1>1. Inv => DeadIsNoticed
  BY DEF Inv
<1> QED
  BY <1>1, InvHolds, PTL

\* Containers that stay when another pod is stopped: all but those of its name.
LEMMA KilledAreNamesakes ==
    ASSUME Inv, NEW k \in Containers, NEW j \in Keys, procs[j] # None,
           j \in Containers => ContainerName[j] # ContainerName[k] \/ ~HasTask(j)
    PROVE  Tasks(ContainerName[k]) \cap Killed(j) = {}
<1>1. CASE j \in Containers
  BY <1>1, KilledRuns, TasksAreContainers DEF HasTask
<1>2. CASE j \in Processes
  BY <1>2, KilledRuns, TasksAreContainers DEF Inv, OwnRuns
<1> QED
  BY <1>1, <1>2, KeyKinds

\* The steps without an event from outside, one by one.
LEMMA HealthyKept ==
    ASSUME Inv, Next, ops' = ops, NEW k \in Containers, procs[k] # None, pc = "select" \/ k \in desired
    PROVE  Tasks(ContainerName[k]) \subseteq live' \/ (pc = "starting" /\ NamesakeStops(k))
<1>1. k \in Keys /\ Tasks(ContainerName[k]) \subseteq live
  BY KeyKinds DEF Tasks
<1>2. ~Event
  BY EventBounded DEF Inv
<1>3. CASE RemoveOrphans({})
  <2>1. /\ pc = "sending"
        /\ live' = live \ UNION {Tasks(name) : name \in Names \ ({ContainerName[j] : j \in desired \cap Containers} \cup {})}
    BY <1>3 DEF RemoveOrphans
  <2>2. ContainerName[k] \in {ContainerName[j] : j \in desired \cap Containers}
    BY <2>1
  <2> QED
    BY <1>1, <2>1, <2>2, TasksAreContainers
<1>4. ASSUME NEW j \in Keys, StopPod(j) PROVE Tasks(ContainerName[k]) \subseteq live' \/ (pc = "starting" /\ NamesakeStops(k))
  <2>1. /\ pc = "starting" /\ procs[j] # None /\ j \notin desired /\ live' = live \ Killed(j)
        /\ procs' = [procs EXCEPT ![j] = None]
    BY <1>4 DEF StopPod, Tracked
  <2>2. procs'[j] = None /\ j # k
    BY <2>1 DEF Inv, TypeOK
  <2>3. CASE j \in Containers /\ ContainerName[j] = ContainerName[k]
    BY <2>1, <2>2, <2>3 DEF NamesakeStops
  <2>4. CASE ~(j \in Containers /\ ContainerName[j] = ContainerName[k])
    BY <1>1, <2>1, <2>4, KilledAreNamesakes
  <2> QED
    BY <2>3, <2>4
<1>5. CASE (\E j \in Keys : StartPod(j, FALSE)) \/ RestartPod(FALSE)
  <2>1. PICK j \in Keys : Started(j) /\ ~HasTask(j)
    <3>1. ASSUME RestartPod(FALSE) PROVE Started(ExitedKey) /\ ~HasTask(ExitedKey) /\ ExitedKey \in Keys
      <4>1. ActOnExit(FALSE) /\ Started(ExitedKey)
        BY <3>1 DEF RestartPod
      <4>2. Receive /\ procs[ExitedKey] # None /\ ~StillRunning(ExitedKey)
        BY <4>1 DEF ActOnExit
      <4> QED
        BY <4>1, <4>2, ReceiveEffect DEF StillRunning
    <3> QED
      BY <1>5, <3>1 DEF StartPod
  <2>2. Replaced(j) = {}
    BY <2>1 DEF HasTask, Replaced
  <2> QED
    BY <1>1, <2>1, <2>2 DEF Started
<1>6. CASE FinishPod(FALSE)
  <2>1. ActOnExit(FALSE) /\ live' = live \ Killed(ExitedKey)
    BY <1>6 DEF FinishPod
  <2>2. Receive /\ procs[ExitedKey] # None /\ ~HasTask(ExitedKey)
    BY <2>1 DEF ActOnExit, StillRunning
  <2>3. ExitedKey \in Keys
    BY <2>2, ReceiveEffect
  <2> QED
    BY <1>1, <2>1, <2>2, <2>3, KilledAreNamesakes
<1>7. CASE Tick({}) \/ (\E j \in Keys : AgentSend(j) \/ AdoptIfRunning(j)) \/ ReconcileDone \/ IgnoreExit \/ Send
  BY <1>1, <1>7 DEF Tick, AgentSend, AdoptIfRunning, ReconcileDone, IgnoreExit, Send, SendExit
<1>8. CASE Disturbance
  <2>1. ~RestartPod(TRUE) /\ ~FinishPod(TRUE) /\ \A j \in Keys : ~StartPod(j, TRUE)
    BY <1>2 DEF RestartPod, FinishPod, ActOnExit, StartPod
  <2>2. \A missed \in (SUBSET Names) \ {{}} : ~Tick(missed) /\ ~RemoveOrphans(missed)
    <3> SUFFICES ASSUME NEW missed \in (SUBSET Names) \ {{}}, Tick(missed) \/ RemoveOrphans(missed) PROVE FALSE
      OBVIOUS
    <3>1. IF missed = {} THEN UNCHANGED ops ELSE Event
      BY DEF Tick, RemoveOrphans
    <3> QED
      BY <1>2, <3>1
  <2> QED
    BY <1>2, <1>8, <2>1, <2>2 DEF Disturbance, Assign, Unassign, ProcessEnds, TaskEnds, Crash, Shutdown, Restarted,
                                  TickListFails, RestartFails, StartPodFails
<1> QED
  BY <1>3, <1>4, <1>5, <1>6, <1>7, <1>8 DEF Next, Reconcile, HandleExit

(***************************************************************************)
(* Nothing the agent does by itself removes a container that runs for a    *)
(* tracked and wanted pod (checkContainerdExits, handleExit, stillRunning, *)
(* removeOrphanContainers), whatever exits are queued, but stopping a pod  *)
(* that shares the container's name.                                       *)
(***************************************************************************)
THEOREM HealthyContainersKept == Spec => HealthyContainersAreKept
<1>1. Inv /\ [Next]_vars =>
        [ ops' = ops =>
          \A k \in Containers :
              procs[k] # None /\ (pc = "select" \/ k \in desired) =>
                  Tasks(ContainerName[k]) \subseteq live' \/ (pc = "starting" /\ NamesakeStops(k)) ]_vars
  BY HealthyKept
<1> QED
  BY <1>1, InvHolds, PTL DEF Spec, HealthyContainersAreKept
=============================================================================
