------------------------------ MODULE Replicas ------------------------------
(***************************************************************************)
(* The replicated store (internal/store/raft.go) across processes: the     *)
(* state machine each replica applies the Raft log to, its snapshots, the  *)
(* data-encryption keys each process holds in memory, the start of a       *)
(* bootstrap or joining replica (cmd/nimbus-apiserver/main.go, JoinRaft in *)
(* internal/apiserver/admin_service.go) and backups                        *)
(* (internal/apiserver/backup_service.go).                                 *)
(*                                                                         *)
(* The Raft library is external: it elects among voters that have a        *)
(* majority up and delivers one log of committed commands to every state   *)
(* machine, in order.  A write returns when the leader has applied it, so  *)
(* commit and the leader's Apply are one step.  RaftStore.Put lets go of   *)
(* keyMu between encrypt and apply, so sealing a value and committing it   *)
(* are two moments, with any number of rotations between them.  Of a       *)
(* client's Put only the second is a step, and the key it sealed under any *)
(* that this process has had: calls of any age may be under way.  A        *)
(* restore makes one Put at a time, so both moments are steps.             *)
(* ReencryptAll runs in the goroutine that draws the keys: none of its     *)
(* Puts straddles a rotation.  The module KeyRotation has the finer steps  *)
(* of one RaftStore.                                                       *)
(***************************************************************************)
EXTENDS Integers, Sequences, FiniteSets

CONSTANTS
    Replicas,
    Boot,        \* the replica started with -bootstrap
    Keys,
    Values,      \* plaintexts
    Absent,
    None,
    MaxLog,      \* bound: committed commands
    MaxGen,      \* bound: data-encryption keys drawn by rotations
    MaxEvents    \* bound: failures, lost leaderships, snapshots, backups and restores

ASSUME BootAssumption == Boot \in Replicas
ASSUME AbsentAssumption == Absent \notin Values \cup [gen : Nat, val : Values]
ASSUME NoneAssumption == None \notin Replicas \cup [Keys -> Values \cup {Absent}]
ASSUME BoundsAssumption == MaxLog \in Nat /\ MaxGen \in Nat /\ MaxEvents \in Nat

VARIABLES
    log,         \* the committed commands: [key, stored]
    leader,      \* the replica whose IsLeader() is true, or None
    voters,      \* the Raft configuration
    up,          \* running processes
    joining,     \* of these, the ones that have not yet passed joinRaftCluster
    data,        \* per replica: fsm.data
    applied,     \* per replica: commands applied to it
    snap,        \* per replica: the snapshot on disk, [index, data]
    clone,       \* per replica: the fsmSnapshot being persisted, or None
    encKey,      \* per replica: RaftStore.encKey
    prevEncKey,  \* per replica: RaftStore.prevEncKey, NoKey when nil
    todo,        \* per replica: what its ReencryptAll still has to write, or None
    backup,      \* the latest BackupData, or None
    restore,     \* a RestoreBackup under way: [by, left, sealed], or None
    held,        \* per replica: the keys this process has had in memory
    gens,        \* keys drawn so far; 0 is the one kept in bootstrap.json
    events,
    \* history, read by no action's guard:
    truth,       \* the contents after each committed command
    dropped,     \* per replica: keys pushed out before ReencryptAll was done with
                 \* them, replaced before the state machine had caught up, or
                 \* replaced while a Put sealed under them was under way
    deposed,     \* replicas that drew a key and then saw another lead
    touched      \* keys written by others since the running restore wrote them

cluster == <<leader, voters, up, joining>>
machine == <<log, data, applied, truth>>
disk == <<snap, clone>>
keyring == <<encKey, prevEncKey, gens, held, dropped>>
backups == <<backup, restore>>
vars == <<log, leader, voters, up, joining, data, applied, snap, clone, encKey,
          prevEncKey, todo, backup, restore, gens, events, truth, held, dropped,
          deposed, touched>>

NoKey == -1
Dek == 0
Ciphertext == [gen : 0 .. MaxGen, val : Values]
Command == [key : Keys, stored : Ciphertext \cup {Absent}]
Empty == [k \in Keys |-> Absent]
Plains == [Keys -> Values \cup {Absent}]

Majority == {S \in SUBSET voters : 2 * Cardinality(S) > Cardinality(voters)}
HasQuorum == up \cap voters \in Majority
Event == events < MaxEvents /\ events' = events + 1

(***************************************************************************)
(* encrypt, decrypt, and List, which fails when one value does not open.   *)
(***************************************************************************)
encrypt(r, v) == [gen |-> encKey[r], val |-> v]

Opens(c, key, prevKey) == c.gen = key \/ (prevKey # NoKey /\ c.gen = prevKey)

ListOK(r, key, prevKey) ==
    \A k \in Keys : data[r][k] # Absent => Opens(data[r][k], key, prevKey)

List(r) == [k \in Keys |-> IF data[r][k] = Absent THEN Absent ELSE data[r][k].val]

Init ==
    /\ log = << >>
    /\ leader = None
    /\ voters = {Boot}
    /\ up = {Boot}
    /\ joining = {}
    /\ data = [r \in Replicas |-> Empty]
    /\ applied = [r \in Replicas |-> 0]
    /\ snap = [r \in Replicas |-> [index |-> 0, data |-> Empty]]
    /\ clone = [r \in Replicas |-> None]
    /\ encKey = [r \in Replicas |-> Dek]
    /\ prevEncKey = [r \in Replicas |-> NoKey]
    /\ todo = [r \in Replicas |-> None]
    /\ backup = None
    /\ restore = None
    /\ gens = 0
    /\ events = 0
    /\ truth = <<Empty>>
    /\ held = [r \in Replicas |-> {Dek}]
    /\ dropped = [r \in Replicas |-> {}]
    /\ deposed = {}
    /\ touched = {}

-----------------------------------------------------------------------------
(* Processes and leadership *)

Elect(r) ==
    /\ leader = None
    /\ r \in up \cap voters
    /\ HasQuorum
    /\ leader' = r
    /\ deposed' = deposed \cup {q \in up \ {r} : held[q] # {Dek}}
    /\ UNCHANGED <<voters, up, joining, events, machine, disk, keyring, todo, backups, touched>>

StepDown ==
    /\ Event
    /\ leader # None
    /\ leader' = None
    /\ UNCHANGED <<voters, up, joining, machine, disk, keyring, todo, backups, deposed, touched>>

\* What a replica has in memory when NewRaftStore returns: the state machine
\* restored from the newest snapshot on disk, and the configured key.
Fresh(r) ==
    /\ data' = [data EXCEPT ![r] = snap[r].data]
    /\ applied' = [applied EXCEPT ![r] = snap[r].index]
    /\ encKey' = [encKey EXCEPT ![r] = Dek]
    /\ prevEncKey' = [prevEncKey EXCEPT ![r] = NoKey]
    /\ held' = [held EXCEPT ![r] = {Dek}]
    /\ dropped' = [dropped EXCEPT ![r] = {}]
    /\ deposed' = deposed \ {r}
    /\ UNCHANGED <<log, truth, gens>>

\* The process of r ends, and with it everything it had only in memory.
Ends(r) ==
    /\ up' = up \ {r}
    /\ joining' = joining \ {r}
    /\ leader' = IF leader = r THEN None ELSE leader
    /\ clone' = [clone EXCEPT ![r] = None]
    /\ todo' = [todo EXCEPT ![r] = None]
    /\ restore' = IF restore # None /\ restore.by = r THEN None ELSE restore
    /\ touched' = IF restore' = None THEN {} ELSE touched
    /\ Fresh(r)
    /\ UNCHANGED <<voters, snap, backup>>

Crash(r) == Event /\ r \in up /\ Ends(r)

(***************************************************************************)
(* NewRaftStore with the key it is configured with: the one in             *)
(* bootstrap.json, or the copy of it that RequestSVID gives a joiner.      *)
(***************************************************************************)
NewRaftStore(r) ==
    /\ up' = up \cup {r}
    /\ Fresh(r)
    /\ UNCHANGED <<leader, voters, disk, todo, backups, touched>>

StartBootstrap ==
    /\ Boot \notin up
    /\ NewRaftStore(Boot)
    /\ UNCHANGED <<joining, events>>

\* A joiner enrols with the bootstrap replica, the only one with an IdentityService.
StartJoiner(r) ==
    /\ r \notin up
    /\ r # Boot
    /\ Boot \in up
    /\ NewRaftStore(r)
    /\ joining' = joining \cup {r}
    /\ UNCHANGED events

\* JoinRaft at -join-api-addr, the same replica: AddVoter works on the leader only.
JoinRaft(r) ==
    /\ r \in joining
    /\ leader = Boot
    /\ HasQuorum
    /\ voters' = voters \cup {r}
    /\ joining' = joining \ {r}
    /\ UNCHANGED <<leader, up, events, machine, disk, keyring, todo, backups, deposed, touched>>

\* Any answer but success ends the joining process (log.Fatalf).
JoinRaftFails(r) ==
    /\ r \in joining
    /\ leader # Boot
    /\ Ends(r)
    /\ UNCHANGED events

-----------------------------------------------------------------------------
(* The state machine *)

\* fsm.Apply: put stores the value, delete removes the key.
Applied(contents, cmd) == [contents EXCEPT ![cmd.key] = cmd.stored]

\* apply: a command of the leader r is committed.  c is Absent for a delete.
Commit(r, k, c) ==
    /\ r = leader
    /\ r \notin joining
    /\ HasQuorum
    /\ Len(log) < MaxLog
    /\ applied[r] = Len(log)
    /\ log' = Append(log, [key |-> k, stored |-> c])
    /\ truth' = Append(truth, [truth[Len(truth)] EXCEPT ![k] = c])
    /\ data' = [data EXCEPT ![r] = Applied(@, [key |-> k, stored |-> c])]
    /\ applied' = [applied EXCEPT ![r] = @ + 1]
    /\ UNCHANGED <<cluster, events>>

\* apply fails: ErrNotLeader, or the leader's raft.Apply runs into its timeout.
Refused(r) == IF r = leader THEN Event ELSE UNCHANGED events

Touch(k) == IF restore = None THEN touched ELSE touched \cup {k}

\* Of a value that r commits under a key it has replaced meanwhile, nothing is
\* known: ReencryptAll may have listed the store before it was there.
Late(r, c) == [dropped EXCEPT ![r] = @ \cup ({c.gen} \ {encKey[r]})]

\* Put comes to apply, having sealed v under g when g was the current key.
Put(r, k, v, g) ==
    /\ g \in held[r]
    /\ Commit(r, k, [gen |-> g, val |-> v])
    /\ dropped' = Late(r, [gen |-> g, val |-> v])
    /\ touched' = Touch(k)
    /\ UNCHANGED <<disk, encKey, prevEncKey, gens, held, todo, backups, deposed>>

Delete(r, k) ==
    /\ Commit(r, k, Absent)
    /\ touched' = Touch(k)
    /\ UNCHANGED <<disk, keyring, todo, backups, deposed>>

\* Another replica, or a leader that has just won, applies the next command.
Apply(r) ==
    /\ r \in up \cap voters
    /\ leader # None
    /\ applied[r] < Len(log)
    /\ data' = [data EXCEPT ![r] = Applied(@, log[applied[r] + 1])]
    /\ applied' = [applied EXCEPT ![r] = @ + 1]
    /\ UNCHANGED <<log, truth, cluster, events, disk, keyring, todo, backups, deposed, touched>>

Snapshot(r) ==
    /\ Event
    /\ r \in up
    /\ clone[r] = None
    /\ applied[r] > snap[r].index
    /\ clone' = [clone EXCEPT ![r] = [index |-> applied[r], data |-> data[r]]]
    /\ UNCHANGED <<machine, cluster, snap, keyring, todo, backups, deposed, touched>>

\* Mutant: the snapshot shares its map with the running state machine.
Persist_Live(r) ==
    /\ clone[r] # None
    /\ snap' = [snap EXCEPT ![r] = [index |-> clone[r].index, data |-> data[r]]]
    /\ clone' = [clone EXCEPT ![r] = None]
    /\ UNCHANGED <<machine, cluster, events, keyring, todo, backups, deposed, touched>>

\* The clone reaches the disk while commands are being applied.
Persist(r) ==
    /\ clone[r] # None
    /\ snap' = [snap EXCEPT ![r] = IF clone[r].index > @.index THEN clone[r] ELSE @]
    /\ clone' = [clone EXCEPT ![r] = None]
    /\ UNCHANGED <<machine, cluster, events, keyring, todo, backups, deposed, touched>>

\* sink.Cancel()
PersistFails(r) ==
    /\ Event
    /\ clone[r] # None
    /\ clone' = [clone EXCEPT ![r] = None]
    /\ UNCHANGED <<machine, cluster, snap, keyring, todo, backups, deposed, touched>>

\* Mutant: an older snapshot is taken in as well.
Restore_Older(r) ==
    /\ leader # None
    /\ r \in (up \cap voters) \ {leader}
    /\ snap[leader].index # applied[r]
    /\ data' = [data EXCEPT ![r] = snap[leader].data]
    /\ applied' = [applied EXCEPT ![r] = snap[leader].index]
    /\ snap' = [snap EXCEPT ![r] = snap[leader]]
    /\ UNCHANGED <<log, truth, cluster, events, clone, keyring, todo, backups, deposed, touched>>

\* A follower far behind is sent the leader's snapshot: fsm.Restore.
Restore(r) ==
    /\ leader # None
    /\ r \in (up \cap voters) \ {leader}
    /\ snap[leader].index > applied[r]
    /\ data' = [data EXCEPT ![r] = snap[leader].data]
    /\ applied' = [applied EXCEPT ![r] = snap[leader].index]
    /\ snap' = [snap EXCEPT ![r] = snap[leader]]
    /\ UNCHANGED <<log, truth, cluster, events, clone, keyring, todo, backups, deposed, touched>>

-----------------------------------------------------------------------------
(* Key rotation, seen from the cluster *)

(***************************************************************************)
(* KeyRotationReconciler.rotate on the leading replica: its own keys       *)
(* change, nobody else's, and nothing is persisted.  Then ReencryptAll     *)
(* lists the store, and gives up when that fails.                          *)
(***************************************************************************)
Rotate(r) ==
    /\ r = leader
    /\ r \notin joining
    /\ todo[r] = None
    /\ gens < MaxGen
    /\ gens' = gens + 1
    /\ encKey' = [encKey EXCEPT ![r] = gens + 1]
    /\ prevEncKey' = [prevEncKey EXCEPT ![r] = encKey[r]]
    /\ held' = [held EXCEPT ![r] = @ \cup {gens + 1}]
    /\ dropped' = [dropped EXCEPT ![r] = @ \cup ({prevEncKey[r]} \ {NoKey})
                           \cup (IF applied[r] < Len(log) THEN {encKey[r]} ELSE {})]
    /\ todo' = [todo EXCEPT ![r] =
                   IF ListOK(r, gens + 1, encKey[r]) THEN List(r) ELSE None]
    /\ UNCHANGED <<machine, cluster, events, disk, backups, deposed, touched>>

ReencryptPut(r, k) ==
    /\ todo[r] # None
    /\ todo[r][k] # Absent
    /\ Commit(r, k, encrypt(r, todo[r][k]))
    /\ todo' = [todo EXCEPT ![r] = [@ EXCEPT ![k] = Absent]]
    /\ touched' = Touch(k)
    /\ UNCHANGED <<disk, keyring, backups, deposed>>

\* A Put of the loop fails: prevEncKey stays.
ReencryptFails(r) ==
    /\ todo[r] # None
    /\ todo[r] # Empty
    /\ Refused(r)
    /\ todo' = [todo EXCEPT ![r] = None]
    /\ UNCHANGED <<machine, cluster, disk, keyring, backups, deposed, touched>>

\* Mutant: the previous key goes before everything is written back.
ReencryptDone_Early(r) ==
    /\ todo[r] # None
    /\ prevEncKey' = [prevEncKey EXCEPT ![r] = NoKey]
    /\ todo' = [todo EXCEPT ![r] = None]
    /\ UNCHANGED <<machine, cluster, events, disk, encKey, gens, held, dropped, backups, deposed, touched>>

ReencryptDone(r) ==
    /\ todo[r] = Empty
    /\ prevEncKey' = [prevEncKey EXCEPT ![r] = NoKey]
    /\ todo' = [todo EXCEPT ![r] = None]
    /\ UNCHANGED <<machine, cluster, events, disk, encKey, gens, held, dropped, backups, deposed, touched>>

-----------------------------------------------------------------------------
(* Backups *)

\* Any replica that serves the API answers; an unreadable value makes the call fail.
CreateBackup(r) ==
    /\ Event
    /\ r \in up \ joining
    /\ ListOK(r, encKey[r], prevEncKey[r])
    /\ restore = None
    /\ backup # List(r)
    /\ backup' = List(r)
    /\ UNCHANGED <<machine, cluster, disk, keyring, todo, restore, deposed, touched>>

RestoreBackup(r) ==
    /\ Event
    /\ r \in up \ joining
    /\ backup # None
    /\ restore = None
    /\ restore' = [by |-> r, left |-> backup, sealed |-> {}]
    /\ touched' = {}
    /\ UNCHANGED <<machine, cluster, disk, keyring, todo, backup, deposed>>

\* The Put of one entry, up to the point where keyMu is let go.  On a replica
\* that does not lead it fails, or finds the same key once that is elected.
RestoreSeal(k) ==
    /\ restore # None
    /\ restore.by = leader
    /\ restore.sealed = {}
    /\ restore.left[k] # Absent
    /\ restore' = [restore EXCEPT
          !.sealed = {[key |-> k, stored |-> encrypt(restore.by, restore.left[k])]}]
    /\ UNCHANGED <<machine, cluster, events, disk, keyring, todo, backup, deposed, touched>>

\* The rest of it.
RestorePut(p) ==
    /\ restore # None
    /\ p \in restore.sealed
    /\ Commit(restore.by, p.key, p.stored)
    /\ restore' = [restore EXCEPT !.left[p.key] = Absent, !.sealed = {}]
    /\ dropped' = Late(restore.by, p.stored)
    /\ touched' = touched \ {p.key}
    /\ UNCHANGED <<disk, encKey, prevEncKey, gens, held, todo, backup, deposed>>

\* The first failing Put ends the call; what was written stays.
RestoreFails ==
    /\ restore # None
    /\ restore.left # Empty
    /\ Refused(restore.by)
    /\ restore' = None
    /\ touched' = {}
    /\ UNCHANGED <<machine, cluster, disk, keyring, todo, backup, deposed>>

\* Mutant: the error of a Put is not returned.
RestoreDone_Early ==
    /\ restore # None
    /\ restore' = None
    /\ touched' = {}
    /\ UNCHANGED <<machine, cluster, events, disk, keyring, todo, backup, deposed>>

RestoreDone ==
    /\ restore # None
    /\ restore.left = Empty
    /\ restore' = None
    /\ touched' = {}
    /\ UNCHANGED <<machine, cluster, events, disk, keyring, todo, backup, deposed>>

-----------------------------------------------------------------------------
Next ==
    \/ StepDown \/ StartBootstrap \/ RestoreFails \/ RestoreDone
    \/ \E r \in Replicas :
          \/ Elect(r) \/ Crash(r) \/ StartJoiner(r) \/ JoinRaft(r) \/ JoinRaftFails(r)
          \/ Apply(r) \/ Snapshot(r) \/ Persist(r) \/ PersistFails(r) \/ Restore(r)
          \/ Rotate(r) \/ ReencryptFails(r) \/ ReencryptDone(r)
          \/ CreateBackup(r) \/ RestoreBackup(r)
          \/ \E k \in Keys :
                \/ Delete(r, k)
                \/ ReencryptPut(r, k)
                \/ \E v \in Values, g \in held[r] : Put(r, k, v, g)
    \/ \E k \in Keys : RestoreSeal(k)
    \/ restore # None /\ \E p \in restore.sealed : RestorePut(p)

Spec == Init /\ [][Next]_vars

-----------------------------------------------------------------------------
(***************************************************************************)
(* The type of every variable.                                             *)
(***************************************************************************)
Contents == [Keys -> Ciphertext \cup {Absent}]
Snapshots == [index : 0 .. Len(log), data : Contents]

Restores == [by : up, left : Plains, sealed : SUBSET [key : Keys, stored : Ciphertext]]

TypeOK ==
    /\ log \in Seq(Command)
    /\ truth \in Seq(Contents)
    /\ leader \in Replicas \cup {None}
    /\ voters \subseteq Replicas
    /\ up \subseteq Replicas
    /\ joining \subseteq up
    /\ data \in [Replicas -> Contents]
    /\ applied \in [Replicas -> 0 .. Len(log)]
    /\ snap \in [Replicas -> Snapshots]
    /\ clone \in [Replicas -> Snapshots \cup {None}]
    /\ encKey \in [Replicas -> 0 .. MaxGen]
    /\ prevEncKey \in [Replicas -> (0 .. MaxGen) \cup {NoKey}]
    /\ todo \in [Replicas -> Plains \cup {None}]
    /\ backup \in Plains \cup {None}
    /\ restore \in Restores \cup {None}
    /\ held \in [Replicas -> SUBSET (0 .. MaxGen)]
    /\ gens \in 0 .. MaxGen
    /\ events \in 0 .. MaxEvents

(***************************************************************************)
(* What every replica's Get and List work on, and every snapshot in memory *)
(* or on disk, is the store's contents as they were after some number of   *)
(* committed writes: no restart, no snapshot persisted while commands are  *)
(* applied and no snapshot installed over a lagging state machine mixes    *)
(* two points of the history.                                              *)
(***************************************************************************)
ViewsAreOfHistory ==
    \A r \in Replicas :
        /\ data[r] = truth[applied[r] + 1]
        /\ snap[r].data = truth[snap[r].index + 1]
        /\ clone[r] # None => clone[r].data = truth[clone[r].index + 1]

(***************************************************************************)
(* A running replica holds a value it cannot open only when its key was    *)
(* drawn by another process (or by an earlier life of this one: the key is *)
(* not persisted), when a second rotation pushed the key out after a       *)
(* re-encryption that was cut short, when a new leader re-encrypted before *)
(* it had applied all that was committed, when the value was sealed by     *)
(* this replica before a rotation of it and committed after it, or when    *)
(* the replica drew a key and another replica, with other keys, has led    *)
(* since.  Until the first rotation every replica reads everything.        *)
(***************************************************************************)
KeyLossIsExplained ==
    \A r \in up : \A k \in Keys :
        data[r][k] # Absent /\ ~Opens(data[r][k], encKey[r], prevEncKey[r]) =>
            \/ data[r][k].gen \notin held[r]
            \/ data[r][k].gen \in dropped[r]
            \/ r \in deposed

(***************************************************************************)
(* A RestoreBackup that reports success has stored every entry of the      *)
(* backup, except where a write of someone else followed, whatever         *)
(* elections, rotations and re-encryptions happen in between.  The replica *)
(* that did it can read the entry, or it has replaced the entry's key      *)
(* while a Put under it (of this restore, or a client's) was under way or  *)
(* before a re-encryption was done.  Keys the backup lacks are not         *)
(* removed.                                                                *)
(***************************************************************************)
RestoreIsComplete ==
    [][ RestoreDone =>
          \A k \in Keys :
              backup[k] # Absent /\ k \notin touched =>
                  /\ truth[Len(truth)][k] # Absent
                  /\ truth[Len(truth)][k].val = backup[k]
                  /\ \/ Opens(truth[Len(truth)][k], encKey[restore.by], prevEncKey[restore.by])
                     \/ truth[Len(truth)][k].gen \in dropped[restore.by] ]_vars

(***************************************************************************)
(* The replicated store keeps the promise of store.Store: one history of   *)
(* writes, every replica at one point of it, and none going back on it     *)
(* while its process runs.                                                 *)
(***************************************************************************)
KV == INSTANCE KVStore WITH
          Readers <- Replicas, Stored <- Ciphertext,
          history <- truth, running <- up,
          at <- [r \in Replicas |-> applied[r] + 1], view <- data

ImplementsStore == KV!Spec
=============================================================================
