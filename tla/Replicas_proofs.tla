--------------------------- MODULE Replicas_proofs ---------------------------
(***************************************************************************)
(* The replicated store for any number of replicas, keys and rotations:    *)
(* every replica and every snapshot is at one point of the history of      *)
(* writes, and the store implements the abstract one of KVStore.           *)
(***************************************************************************)
EXTENDS Replicas, TLAPS

(***************************************************************************)
(* The strengthening.  The log leads from each point of the history to the *)
(* next; a snapshot is never ahead of the state machine it was taken from, *)
(* is being persisted by a running process only, and is what a process     *)
(* that does not run will start from; who leads, runs.                     *)
(***************************************************************************)
LogExplainsHistory ==
    /\ Len(truth) = Len(log) + 1
    /\ \A i \in 1 .. Len(log) : truth[i + 1] = Applied(truth[i], log[i])

SnapshotsAreBehind ==
    \A r \in Replicas :
        /\ snap[r].index <= applied[r]
        /\ clone[r] # None => clone[r].index <= applied[r] /\ r \in up
        /\ r \notin up => applied[r] = snap[r].index

LeaderRuns == leader # None => leader \in up

StoreInv ==
    /\ LogExplainsHistory
    /\ ViewsAreOfHistory
    /\ SnapshotsAreBehind
    /\ LeaderRuns

Inv == TypeOK /\ StoreInv

(***************************************************************************)
(* The strengthening for keys.  What a replica will see, now and as it     *)
(* catches up, are the points of the history from its own on.  A replica   *)
(* that drew a key and has not been deposed shares the lead with nobody,   *)
(* so what is written from there on is under its own current key; what     *)
(* ReencryptAll has still to write includes everything that is stored      *)
(* under the previous one.                                                 *)
(***************************************************************************)
Ahead(r) == applied[r] + 1 .. Len(truth)

Own(r) ==
    /\ encKey[r] \in held[r]
    /\ encKey[r] <= gens
    /\ prevEncKey[r] # encKey[r]
    /\ todo[r] # None => held[r] # {Dek}

Sole(r) == held[r] # {Dek} => leader \in {r, None}

Reads(r) ==
    \A j \in Ahead(r), k \in Keys :
        truth[j][k] # Absent /\ truth[j][k].gen \in held[r] =>
            truth[j][k].gen \in dropped[r] \/ Opens(truth[j][k], encKey[r], prevEncKey[r])

Pending(r) ==
    todo[r] # None /\ prevEncKey[r] \notin dropped[r] =>
        \A j \in Ahead(r), k \in Keys :
            truth[j][k] # Absent /\ truth[j][k].gen = prevEncKey[r] => todo[r][k] # Absent

KeyTypes == held \in [Replicas -> SUBSET Nat] /\ dropped \in [Replicas -> SUBSET Int]

KeyInv ==
    /\ KeyTypes
    /\ \A r \in Replicas \ up : todo[r] = None
    /\ \A r \in up : Own(r)
    /\ \A r \in up \ deposed : Sole(r) /\ Reads(r) /\ Pending(r)

(***************************************************************************)
(* The strengthening for restores: an entry that RestoreBackup has written *)
(* and nobody has touched since is there, and is readable or will be       *)
(* written again by the ReencryptAll under way.                            *)
(***************************************************************************)
Latest == truth[Len(truth)]

Restored(k) == backup[k] # Absent /\ restore.left[k] = Absent /\ k \notin touched

RestoredIsThere ==
    \A k \in Keys : Restored(k) =>
        /\ Latest[k] # Absent
        /\ Latest[k].val = backup[k]
        /\ Latest[k].gen \in dropped[restore.by] \/ Opens(Latest[k], encKey[restore.by], prevEncKey[restore.by])
        /\ todo[restore.by] # None /\ Latest[k].gen = prevEncKey[restore.by] =>
              Latest[k].gen \in dropped[restore.by] \/ todo[restore.by][k] # Absent

RestoreInv ==
    restore # None =>
        /\ backup # None
        /\ \A p \in restore.sealed : restore.left[p.key] # Absent /\ p.stored.val = restore.left[p.key]
        /\ \A k \in Keys : restore.left[k] \in {Absent, backup[k]}
        /\ RestoredIsThere

-----------------------------------------------------------------------------
(* Types *)

LEMMA EventBounded == ASSUME TypeOK, Event PROVE events' \in 0 .. MaxEvents
BY BoundsAssumption DEF TypeOK, Event

\* What List returns are plaintexts.
LEMMA ListsPlaintexts == ASSUME TypeOK, NEW r \in Replicas PROVE List(r) \in Plains
<1>1. \A k \in Keys : data[r][k] \in Ciphertext \cup {Absent}
  BY DEF TypeOK, Contents
<1>2. \A c \in Ciphertext : c.val \in Values
  BY DEF Ciphertext
<1> QED
  BY <1>1, <1>2 DEF List, Plains

LEMMA EncryptsToCiphertext ==
    ASSUME TypeOK, NEW r \in Replicas, NEW v \in Values
    PROVE  encrypt(r, v) \in Ciphertext
BY DEF TypeOK, encrypt, Ciphertext

\* A command changes contents into contents.
LEMMA AppliedType ==
    ASSUME NEW m \in Contents, NEW cmd \in Command
    PROVE  Applied(m, cmd) \in Contents
BY DEF Applied, Contents, Command

\* The variables that Commit writes keep their types, and the others that mention the log.
LEMMA CommitTypes ==
    ASSUME Inv, NEW r \in Replicas, NEW k \in Keys, NEW c \in Ciphertext \cup {Absent}, Commit(r, k, c),
           snap' = snap, clone' = clone
    PROVE  /\ log' \in Seq(Command) /\ truth' \in Seq(Contents) /\ Len(log') = Len(log) + 1
           /\ data' \in [Replicas -> Contents] /\ applied' \in [Replicas -> 0 .. Len(log')]
           /\ snap' \in [Replicas -> Snapshots'] /\ clone' \in [Replicas -> Snapshots' \cup {None}]
           /\ UNCHANGED <<leader, voters, up, joining, events>>
<1> DEFINE cmd == [key |-> k, stored |-> c]
<1>1. cmd \in Command /\ log \in Seq(Command) /\ truth \in Seq(Contents)
  BY DEF Inv, TypeOK, Command
<1>2. log' \in Seq(Command) /\ Len(log') = Len(log) + 1 /\ Len(log) \in Nat
  BY <1>1 DEF Commit
<1>3. truth[Len(truth)] \in Contents
  BY <1>1 DEF Inv, StoreInv, LogExplainsHistory
<1>4. [truth[Len(truth)] EXCEPT ![k] = c] \in Contents
  BY <1>3 DEF Contents
<1>5. truth' \in Seq(Contents)
  BY <1>1, <1>4 DEF Commit
<1>6. data' \in [Replicas -> Contents]
  <2>1. Applied(data[r], cmd) \in Contents
    BY <1>1, AppliedType DEF Inv, TypeOK
  <2> QED
    BY <2>1 DEF Commit, Inv, TypeOK
<1>7. applied' \in [Replicas -> 0 .. Len(log')]
  BY <1>2 DEF Commit, Inv, TypeOK
<1>8. Snapshots \subseteq Snapshots'
  BY <1>2 DEF Snapshots
<1>9. snap' \in [Replicas -> Snapshots'] /\ clone' \in [Replicas -> Snapshots' \cup {None}]
  BY <1>8 DEF Inv, TypeOK
<1> QED
  BY <1>2, <1>5, <1>6, <1>7, <1>9 DEF Commit, cluster

\* A Put stores a ciphertext, whichever key it was sealed under.
LEMMA PutSeals ==
    ASSUME TypeOK, NEW r \in Replicas, NEW v \in Values, NEW g \in held[r]
    PROVE  [gen |-> g, val |-> v] \in Ciphertext
BY DEF TypeOK, Ciphertext

LEMMA PutTypes ==
    ASSUME Inv, NEW r \in Replicas, NEW k \in Keys, NEW v \in Values, NEW g \in held[r], Put(r, k, v, g)
    PROVE  TypeOK'
<1>1. [gen |-> g, val |-> v] \in Ciphertext
  BY PutSeals DEF Inv
<1> QED
  BY <1>1, CommitTypes DEF Inv, TypeOK, Put, disk, backups, Command, Restores

LEMMA DeleteTypes == ASSUME Inv, NEW r \in Replicas, NEW k \in Keys, Delete(r, k) PROVE TypeOK'
BY CommitTypes DEF Inv, TypeOK, Delete, disk, keyring, backups, Command, Restores

LEMMA ReencryptPutTypes == ASSUME Inv, NEW r \in Replicas, NEW k \in Keys, ReencryptPut(r, k) PROVE TypeOK'
<1>1. todo[r] \in Plains /\ todo[r][k] \in Values
  BY DEF Inv, TypeOK, ReencryptPut, Plains
<1>2. encrypt(r, todo[r][k]) \in Ciphertext
  BY <1>1, EncryptsToCiphertext DEF Inv
<1>3. todo' \in [Replicas -> Plains \cup {None}]
  BY <1>1 DEF Inv, TypeOK, ReencryptPut, Plains
<1> QED
  BY <1>2, <1>3, CommitTypes DEF Inv, TypeOK, ReencryptPut, disk, keyring, backups, Command, Restores

\* What a restore has sealed is one of its entries.
LEMMA RestoreSeals ==
    ASSUME TypeOK, restore # None, NEW p \in restore.sealed
    PROVE  /\ restore \in Restores /\ restore.by \in up /\ restore.by \in Replicas
           /\ p.key \in Keys /\ p.stored \in Ciphertext
BY DEF TypeOK, Restores

LEMMA RestorePutTypes == ASSUME Inv, restore # None, NEW p \in restore.sealed, RestorePut(p) PROVE TypeOK'
<1>1. restore \in Restores /\ restore.by \in Replicas /\ p.key \in Keys /\ p.stored \in Ciphertext
  BY RestoreSeals DEF Inv
<1>2. restore' \in Restores
  BY <1>1 DEF RestorePut, Restores, Plains
<1> QED
  BY <1>1, <1>2, CommitTypes DEF Inv, TypeOK, RestorePut, disk, backups, Command, Restores

LEMMA RestoreSealTypes == ASSUME Inv, NEW k \in Keys, RestoreSeal(k) PROVE TypeOK'
<1>1. restore \in Restores /\ restore.by \in Replicas /\ restore.left[k] \in Values
  BY DEF Inv, TypeOK, RestoreSeal, Restores, Plains
<1>2. encrypt(restore.by, restore.left[k]) \in Ciphertext
  BY <1>1, EncryptsToCiphertext DEF Inv
<1>3. restore' \in Restores
  BY <1>1, <1>2 DEF RestoreSeal, Restores
<1> QED
  BY <1>3 DEF Inv, TypeOK, RestoreSeal, Snapshots, Restores, machine, cluster, disk, keyring

LEMMA FreshTypes ==
    ASSUME TypeOK, NEW r \in Replicas, Fresh(r)
    PROVE  /\ data' \in [Replicas -> Contents] /\ applied' \in [Replicas -> 0 .. Len(log)]
           /\ encKey' \in [Replicas -> 0 .. MaxGen] /\ prevEncKey' \in [Replicas -> (0 .. MaxGen) \cup {NoKey}]
           /\ held' \in [Replicas -> SUBSET (0 .. MaxGen)]
           /\ log' = log /\ truth' = truth /\ gens' = gens
<1>1. snap[r].data \in Contents /\ snap[r].index \in 0 .. Len(log)
  BY DEF TypeOK, Snapshots
<1>2. Dek \in 0 .. MaxGen
  BY BoundsAssumption DEF Dek
<1> QED
  BY <1>1, <1>2 DEF TypeOK, Fresh

LEMMA EndsTypes == ASSUME TypeOK, NEW r \in Replicas, Ends(r), events' \in 0 .. MaxEvents PROVE TypeOK'
<1>1. restore' \in Restores' \cup {None}
  BY DEF TypeOK, Ends, Restores
<1>2. Snapshots' = Snapshots
  BY FreshTypes DEF Ends, Snapshots
<1>3. clone' \in [Replicas -> Snapshots \cup {None}] /\ todo' \in [Replicas -> Plains \cup {None}]
  BY DEF TypeOK, Ends
<1> QED
  BY <1>1, <1>2, <1>3, FreshTypes DEF TypeOK, Ends

LEMMA NewRaftStoreTypes ==
    ASSUME TypeOK, NEW r \in Replicas, NewRaftStore(r), joining' \subseteq joining \cup {r}, UNCHANGED events
    PROVE  TypeOK'
<1>1. up \subseteq up' /\ up' \subseteq Replicas /\ joining' \subseteq up'
  BY DEF TypeOK, NewRaftStore
<1>2. restore' \in Restores' \cup {None}
  BY <1>1 DEF TypeOK, NewRaftStore, backups, Restores
<1>3. Snapshots' = Snapshots
  BY FreshTypes DEF NewRaftStore, Snapshots
<1> QED
  BY <1>1, <1>2, <1>3, FreshTypes DEF TypeOK, NewRaftStore, disk, backups

LEMMA ApplyTypes == ASSUME Inv, NEW r \in Replicas, Apply(r) PROVE TypeOK'
<1>1. applied[r] \in Nat /\ applied[r] + 1 \in 1 .. Len(log) /\ Len(log) \in Nat
  BY DEF Inv, TypeOK, Apply
<1>2. log[applied[r] + 1] \in Command
  <2>1. log \in Seq(Command)
    BY DEF Inv, TypeOK, Command
  <2> QED
    BY <1>1, <2>1
<1>3. Applied(data[r], log[applied[r] + 1]) \in Contents
  BY <1>2, AppliedType DEF Inv, TypeOK
<1>4. data' \in [Replicas -> Contents] /\ applied' \in [Replicas -> 0 .. Len(log)]
  BY <1>1, <1>3 DEF Inv, TypeOK, Apply
<1> QED
  BY <1>4 DEF Inv, TypeOK, Apply, Snapshots, Restores, cluster, disk, keyring, backups

LEMMA DiskTypes ==
    ASSUME Inv, NEW r \in Replicas, Snapshot(r) \/ Persist(r) \/ PersistFails(r) \/ Restore(r)
    PROVE  TypeOK'
<1> USE DEF machine, cluster, disk, keyring, backups, Restores
<1>1. CASE Snapshot(r)
  <2>1. [index |-> applied[r], data |-> data[r]] \in Snapshots
    BY DEF Inv, TypeOK, Snapshots
  <2> QED
    BY <1>1, <2>1, EventBounded DEF Inv, TypeOK, Snapshot, Snapshots
<1>2. CASE Persist(r)
  BY <1>2 DEF Inv, TypeOK, Persist, Snapshots
<1>3. CASE PersistFails(r)
  BY <1>3, EventBounded DEF Inv, TypeOK, PersistFails, Snapshots
<1>4. CASE Restore(r)
  <2>1. snap[leader] \in Snapshots /\ snap[leader].data \in Contents /\ snap[leader].index \in 0 .. Len(log)
    BY <1>4 DEF Inv, TypeOK, Restore, Snapshots
  <2> QED
    BY <1>4, <2>1 DEF Inv, TypeOK, Restore, Snapshots
<1> QED
  BY <1>1, <1>2, <1>3, <1>4

LEMMA RotateTypes == ASSUME Inv, NEW r \in Replicas, Rotate(r) PROVE TypeOK'
<1>1. gens + 1 \in 0 .. MaxGen
  BY BoundsAssumption DEF Inv, TypeOK, Rotate
<1>2. todo' \in [Replicas -> Plains \cup {None}]
  BY ListsPlaintexts DEF Inv, TypeOK, Rotate
<1>3. encKey' \in [Replicas -> 0 .. MaxGen] /\ prevEncKey' \in [Replicas -> (0 .. MaxGen) \cup {NoKey}]
  BY <1>1 DEF Inv, TypeOK, Rotate
<1>4. held' \in [Replicas -> SUBSET (0 .. MaxGen)]
  BY <1>1 DEF Inv, TypeOK, Rotate
<1> QED
  BY <1>1, <1>2, <1>3, <1>4 DEF Inv, TypeOK, Rotate, Snapshots, Restores, machine, cluster, disk, backups

LEMMA OtherTypes ==
    ASSUME Inv, NEW r \in Replicas,
           \/ StepDown \/ RestoreFails \/ RestoreDone \/ Elect(r) \/ JoinRaft(r)
           \/ ReencryptFails(r) \/ ReencryptDone(r) \/ CreateBackup(r) \/ RestoreBackup(r)
    PROVE  TypeOK'
<1> USE DEF machine, cluster, disk, keyring, backups, Restores
<1>1. CASE StepDown
  BY <1>1, EventBounded DEF Inv, TypeOK, StepDown, Snapshots
<1>2. CASE RestoreFails \/ RestoreDone
  <2>1. events' \in 0 .. MaxEvents
    BY <1>2, EventBounded DEF Inv, TypeOK, RestoreFails, RestoreDone, Refused
  <2> QED
    BY <1>2, <2>1 DEF Inv, TypeOK, RestoreFails, RestoreDone, Snapshots
<1>3. CASE Elect(r) \/ JoinRaft(r)
  BY <1>3 DEF Inv, TypeOK, Elect, JoinRaft, Snapshots
<1>4. CASE ReencryptFails(r)
  <2>1. events' \in 0 .. MaxEvents
    BY <1>4, EventBounded DEF Inv, TypeOK, ReencryptFails, Refused
  <2> QED
    BY <1>4, <2>1 DEF Inv, TypeOK, ReencryptFails, Snapshots
<1>5. CASE ReencryptDone(r)
  BY <1>5 DEF Inv, TypeOK, ReencryptDone, Snapshots
<1>6. CASE CreateBackup(r)
  BY <1>6, EventBounded, ListsPlaintexts DEF Inv, TypeOK, CreateBackup, Snapshots
<1>7. CASE RestoreBackup(r)
  <2>1. backup \in Plains /\ r \in up
    BY <1>7 DEF Inv, TypeOK, RestoreBackup
  <2>2. restore' \in Restores
    BY <1>7, <2>1 DEF RestoreBackup
  <2> QED
    BY <1>7, <2>2, EventBounded DEF Inv, TypeOK, RestoreBackup, Snapshots
<1> QED
  BY <1>1, <1>2, <1>3, <1>4, <1>5, <1>6, <1>7

-----------------------------------------------------------------------------
(* History, and the steps of KVStore *)

\* The points at which the replicas are, as KVStore counts them.
LEMMA MappedAt ==
    ASSUME TypeOK, NEW r \in Replicas, NEW i, applied' = [applied EXCEPT ![r] = i]
    PROVE  [q \in Replicas |-> applied[q] + 1]' = [[q \in Replicas |-> applied[q] + 1] EXCEPT ![r] = i + 1]
BY DEF TypeOK

LEMMA CommitStore ==
    ASSUME Inv, NEW r \in Replicas, NEW k \in Keys, NEW c \in Ciphertext \cup {Absent}, Commit(r, k, c),
           snap' = snap, clone' = clone
    PROVE  StoreInv' /\ KV!Write(r, k, c)
<1> DEFINE cmd == [key |-> k, stored |-> c]
           n == Len(log)
<1>1. /\ log \in Seq(Command) /\ truth \in Seq(Contents) /\ n \in Nat /\ Len(truth) = n + 1
      /\ applied[r] = n /\ cmd \in Command /\ applied \in [Replicas -> 0 .. n]
      /\ data \in [Replicas -> Contents] /\ truth[n + 1] \in Contents
  BY DEF Inv, TypeOK, StoreInv, LogExplainsHistory, Command, Commit
<1>2. /\ log' = Append(log, cmd) /\ truth' = Append(truth, [truth[n + 1] EXCEPT ![k] = c])
      /\ data' = [data EXCEPT ![r] = Applied(@, cmd)] /\ applied' = [applied EXCEPT ![r] = n + 1]
      /\ UNCHANGED <<leader, up>>
  BY <1>1 DEF Commit, cluster
<1>3. Applied(truth[n + 1], cmd) = [truth[n + 1] EXCEPT ![k] = c] /\ data[r] = truth[n + 1]
  BY <1>1 DEF Applied, Inv, StoreInv, ViewsAreOfHistory
<1>4. /\ Len(log') = n + 1 /\ Len(truth') = n + 2
      /\ log'[n + 1] = cmd /\ truth'[n + 2] = Applied(truth[n + 1], cmd)
      /\ \A i \in 1 .. n : log'[i] = log[i]
      /\ \A i \in 1 .. n + 1 : truth'[i] = truth[i]
  BY <1>1, <1>2, <1>3
<1>5. LogExplainsHistory'
  <2>3. Len(truth') = Len(log') + 1 /\ 1 .. Len(log') = 1 .. n + 1
    BY <1>1, <1>4
  <2> SUFFICES ASSUME NEW i \in 1 .. n + 1 PROVE truth'[i + 1] = Applied(truth'[i], log'[i])
    BY <2>3 DEF LogExplainsHistory, Applied
  <2>1. CASE i = n + 1
    BY <1>1, <1>4, <2>1
  <2>2. CASE i # n + 1
    <3>1. i \in 1 .. n /\ i + 1 \in 1 .. n + 1
      BY <1>1, <2>2
    <3> QED
      BY <1>4, <3>1 DEF Inv, StoreInv, LogExplainsHistory
  <2> QED
    BY <2>1, <2>2
<1>6. ViewsAreOfHistory'
  <2> SUFFICES ASSUME NEW q \in Replicas
               PROVE  /\ data'[q] = truth'[applied'[q] + 1]
                      /\ snap[q].data = truth'[snap[q].index + 1]
                      /\ clone[q] # None => clone[q].data = truth'[clone[q].index + 1]
    BY DEF ViewsAreOfHistory
  <2>1. data'[q] = truth'[applied'[q] + 1]
    <3>1. CASE q = r
      BY <1>1, <1>2, <1>3, <1>4, <3>1
    <3>2. CASE q # r
      <4>1. data'[q] = data[q] /\ applied'[q] = applied[q] /\ applied[q] + 1 \in 1 .. n + 1
        BY <1>1, <1>2, <3>2
      <4> QED
        BY <1>4, <4>1 DEF Inv, StoreInv, ViewsAreOfHistory
    <3> QED
      BY <3>1, <3>2
  <2>2. snap[q].index + 1 \in 1 .. n + 1
    BY <1>1 DEF Inv, TypeOK, Snapshots
  <2>3. clone[q] # None => clone[q].index + 1 \in 1 .. n + 1
    BY <1>1 DEF Inv, TypeOK, Snapshots
  <2> QED
    BY <1>4, <2>1, <2>2, <2>3 DEF Inv, StoreInv, ViewsAreOfHistory
<1>7. leader \in up /\ r = leader
  BY NoneAssumption DEF Inv, StoreInv, LeaderRuns, Commit
<1>8. SnapshotsAreBehind' /\ LeaderRuns'
  <2>1. \A q \in Replicas : applied'[q] >= applied[q] /\ applied[q] \in Nat /\ (q \notin up => applied'[q] = applied[q])
    BY <1>1, <1>2, <1>7
  <2>2. \A q \in Replicas : snap[q].index \in Nat /\ (clone[q] # None => clone[q].index \in Nat)
    BY <1>1 DEF Inv, TypeOK, Snapshots
  <2>3. \A q \in Replicas : applied'[q] \in Nat
    BY <1>1, <1>2
  <2> QED
    BY <1>2, <2>1, <2>2, <2>3 DEF Inv, StoreInv, SnapshotsAreBehind, LeaderRuns
<1>9. KV!Write(r, k, c)
  <2>1. [q \in Replicas |-> applied[q] + 1]' = [[q \in Replicas |-> applied[q] + 1] EXCEPT ![r] = @ + 1]
    BY <1>1, <1>2, MappedAt DEF Inv
  <2>2. data' = [data EXCEPT ![r] = [@ EXCEPT ![k] = c]]
    BY <1>1, <1>2 DEF Applied
  <2> QED
    BY <1>1, <1>2, <1>7, <2>1, <2>2 DEF KV!Write
<1> QED
  BY <1>5, <1>6, <1>8, <1>9 DEF StoreInv

\* A state machine moves to a later point of the same history.
LEMMA AdvanceStore ==
    ASSUME Inv, NEW r \in up, NEW i \in Nat, applied[r] < i, i <= Len(log),
           data' = [data EXCEPT ![r] = truth[i + 1]], applied' = [applied EXCEPT ![r] = i],
           UNCHANGED <<log, truth, up, leader, clone>>,
           \/ snap' = snap
           \/ \E q \in Replicas : snap[q].index = i /\ snap' = [snap EXCEPT ![r] = snap[q]]
    PROVE  StoreInv' /\ KV!Advance(r)
<1>1. r \in Replicas /\ applied \in [Replicas -> 0 .. Len(log)] /\ Len(log) \in Nat /\ data \in [Replicas -> Contents]
      /\ snap \in [Replicas -> Snapshots]
  BY DEF Inv, TypeOK
<1>2. data'[r] = truth[i + 1] /\ applied'[r] = i
      /\ \A q \in Replicas \ {r} : data'[q] = data[q] /\ applied'[q] = applied[q] /\ snap'[q] = snap[q]
  BY <1>1
<1>3. snap'[r].data = truth[snap'[r].index + 1] /\ snap'[r].index <= i
  <2>1. CASE snap' = snap
    BY <1>1, <2>1 DEF Inv, StoreInv, ViewsAreOfHistory, SnapshotsAreBehind, Snapshots
  <2>2. CASE \E q \in Replicas : snap[q].index = i /\ snap' = [snap EXCEPT ![r] = snap[q]]
    BY <1>1, <2>2 DEF Inv, StoreInv, ViewsAreOfHistory
  <2> QED
    BY <2>1, <2>2
<1>4. ViewsAreOfHistory'
  BY <1>2, <1>3 DEF Inv, StoreInv, ViewsAreOfHistory
<1>5. SnapshotsAreBehind'
  <2>1. clone[r] # None => clone[r].index <= i
    BY <1>1 DEF Inv, TypeOK, StoreInv, SnapshotsAreBehind, Snapshots
  <2> QED
    BY <1>2, <1>3, <2>1 DEF Inv, StoreInv, SnapshotsAreBehind
<1>6. LogExplainsHistory' /\ LeaderRuns'
  BY DEF Inv, StoreInv, LogExplainsHistory, LeaderRuns, Applied
<1>7. KV!Advance(r)
  <2>1. [q \in Replicas |-> applied[q] + 1]' = [[q \in Replicas |-> applied[q] + 1] EXCEPT ![r] = i + 1]
    BY <1>1, MappedAt DEF Inv
  <2>2. i + 1 \in [q \in Replicas |-> applied[q] + 1][r] + 1 .. Len(truth)
    BY <1>1 DEF Inv, StoreInv, LogExplainsHistory
  <2> QED
    BY <2>1, <2>2 DEF KV!Advance, KV!Shows
<1> QED
  BY <1>4, <1>5, <1>6, <1>7 DEF StoreInv

LEMMA ApplyStore == ASSUME Inv, NEW r \in Replicas, Apply(r) PROVE StoreInv' /\ KV!Advance(r)
<1>1. applied[r] \in Nat /\ Len(log) \in Nat /\ applied[r] + 1 \in 1 .. Len(log) /\ r \in up
  BY DEF Inv, TypeOK, Apply
<1>2. Applied(data[r], log[applied[r] + 1]) = truth[(applied[r] + 1) + 1]
  <2>1. truth[(applied[r] + 1) + 1] = Applied(truth[applied[r] + 1], log[applied[r] + 1])
    BY <1>1 DEF Inv, StoreInv, LogExplainsHistory
  <2> QED
    BY <1>1, <2>1 DEF Inv, StoreInv, ViewsAreOfHistory
<1>3. data' = [data EXCEPT ![r] = truth[(applied[r] + 1) + 1]] /\ applied' = [applied EXCEPT ![r] = applied[r] + 1]
  <2>1. data' = [data EXCEPT ![r] = Applied(data[r], log[applied[r] + 1])] /\ applied' = [applied EXCEPT ![r] = applied[r] + 1]
    BY DEF Apply
  <2> QED
    BY <1>2, <2>1
<1>4. UNCHANGED <<log, truth, up, leader, clone>> /\ snap' = snap
  BY DEF Apply, cluster, disk
<1> DEFINE i == applied[r] + 1
<1>5. i \in Nat /\ applied[r] < i /\ i <= Len(log)
  BY <1>1
<1> HIDE DEF i
<1> QED
  BY <1>1, <1>3, <1>4, <1>5, AdvanceStore DEF i

LEMMA RestoreStore == ASSUME Inv, NEW r \in Replicas, Restore(r) PROVE StoreInv' /\ KV!Advance(r)
<1> DEFINE i == snap[leader].index
<1>1. leader \in Replicas /\ r \in up /\ snap[leader] \in Snapshots /\ i \in Nat /\ i <= Len(log) /\ applied[r] < i
  BY DEF Inv, TypeOK, Restore, Snapshots
<1>2. data' = [data EXCEPT ![r] = truth[i + 1]] /\ applied' = [applied EXCEPT ![r] = i]
  BY <1>1 DEF Inv, StoreInv, ViewsAreOfHistory, Restore
<1>3. UNCHANGED <<log, truth, up, leader, clone>> /\ snap' = [snap EXCEPT ![r] = snap[leader]]
  BY DEF Restore, cluster
<1> QED
  BY <1>1, <1>2, <1>3, AdvanceStore

\* Snapshots come and go without anyone's contents changing.
LEMMA DiskStore ==
    ASSUME Inv, NEW r \in Replicas, Snapshot(r) \/ Persist(r) \/ PersistFails(r)
    PROVE  StoreInv' /\ UNCHANGED KV!vars
<1> USE DEF machine, cluster
<1>1. UNCHANGED <<log, truth, data, applied, up, leader>> /\ applied \in [Replicas -> 0 .. Len(log)]
      /\ snap \in [Replicas -> Snapshots] /\ clone \in [Replicas -> Snapshots \cup {None}]
  BY DEF Inv, TypeOK, Snapshot, Persist, PersistFails
<1>2. LogExplainsHistory' /\ LeaderRuns' /\ UNCHANGED KV!vars
  BY <1>1 DEF Inv, StoreInv, LogExplainsHistory, LeaderRuns, Applied, KV!vars
<1>3. CASE Snapshot(r)
  <2>1. applied[r] <= applied[r]
    BY <1>1
  <2> QED
    BY <1>1, <1>2, <1>3, <2>1 DEF Snapshot, Inv, StoreInv, ViewsAreOfHistory, SnapshotsAreBehind
<1>4. CASE Persist(r)
  <2>1. snap'[r] \in {clone[r], snap[r]} /\ clone'[r] = None /\ clone[r] # None /\ r \in up
        /\ \A q \in Replicas \ {r} : snap'[q] = snap[q] /\ clone'[q] = clone[q]
    BY <1>1, <1>4 DEF Persist, Inv, StoreInv, SnapshotsAreBehind
  <2>2. ViewsAreOfHistory'
    BY <1>1, <2>1 DEF Inv, StoreInv, ViewsAreOfHistory
  <2>3. SnapshotsAreBehind'
    <3>1. snap'[r].index <= applied[r]
      BY <2>1 DEF Inv, StoreInv, SnapshotsAreBehind
    <3> QED
      BY <1>1, <2>1, <3>1 DEF Inv, StoreInv, SnapshotsAreBehind
  <2> QED
    BY <1>2, <2>2, <2>3 DEF StoreInv
<1>5. CASE PersistFails(r)
  BY <1>1, <1>2, <1>5 DEF PersistFails, disk, Inv, StoreInv, ViewsAreOfHistory, SnapshotsAreBehind
<1> QED
  BY <1>3, <1>4, <1>5, <1>2

\* A process that ends falls back to its snapshot.
LEMMA EndsStore == ASSUME Inv, NEW r \in Replicas, Ends(r) PROVE StoreInv' /\ KV!End(r)
<1> DEFINE i == snap[r].index
<1>1. /\ data' = [data EXCEPT ![r] = snap[r].data] /\ applied' = [applied EXCEPT ![r] = i]
      /\ up' = up \ {r} /\ snap' = snap /\ clone' = [clone EXCEPT ![r] = None]
      /\ leader' = (IF leader = r THEN None ELSE leader) /\ UNCHANGED <<log, truth>>
  BY DEF Ends, Fresh
<1>2. applied \in [Replicas -> 0 .. Len(log)] /\ data \in [Replicas -> Contents] /\ snap[r] \in Snapshots
      /\ clone \in [Replicas -> Snapshots \cup {None}] /\ Len(log) \in Nat /\ i \in Nat /\ i <= applied[r]
  BY DEF Inv, TypeOK, Snapshots, StoreInv, SnapshotsAreBehind
<1>3. ViewsAreOfHistory'
  BY <1>1, <1>2 DEF Inv, StoreInv, ViewsAreOfHistory
<1>4. SnapshotsAreBehind'
  BY <1>1, <1>2 DEF Inv, StoreInv, SnapshotsAreBehind
<1>5. LogExplainsHistory' /\ LeaderRuns'
  BY <1>1 DEF Inv, StoreInv, LogExplainsHistory, LeaderRuns, Applied
<1>6. KV!End(r)
  <2>1. [q \in Replicas |-> applied[q] + 1]' = [[q \in Replicas |-> applied[q] + 1] EXCEPT ![r] = i + 1]
    BY <1>1, MappedAt DEF Inv
  <2>2. snap[r].data = truth[i + 1]
    BY DEF Inv, StoreInv, ViewsAreOfHistory
  <2>3. i + 1 \in 1 .. [q \in Replicas |-> applied[q] + 1][r]
    BY <1>2
  <2> QED
    BY <1>1, <2>1, <2>2, <2>3 DEF KV!End, KV!Shows
<1> QED
  BY <1>3, <1>4, <1>5, <1>6 DEF StoreInv

\* A process that starts finds what its last life fell back to.
LEMMA NewRaftStoreStore ==
    ASSUME Inv, NEW r \in Replicas, r \notin up, NewRaftStore(r)
    PROVE  StoreInv' /\ KV!Start(r)
<1>1. data[r] = snap[r].data /\ applied[r] = snap[r].index
  BY DEF Inv, StoreInv, ViewsAreOfHistory, SnapshotsAreBehind
<1>2. UNCHANGED <<log, truth, data, applied, snap, clone, leader>> /\ up' = up \cup {r}
  BY <1>1 DEF NewRaftStore, Fresh, disk, Inv, TypeOK
<1> QED
  BY <1>2 DEF Inv, StoreInv, LogExplainsHistory, Applied, ViewsAreOfHistory, SnapshotsAreBehind, LeaderRuns, KV!Start

\* Steps that leave contents, snapshots and processes alone.
LEMMA OtherStore ==
    ASSUME Inv, UNCHANGED <<machine, disk, up>>, LeaderRuns'
    PROVE  StoreInv' /\ UNCHANGED KV!vars
BY DEF Inv, StoreInv, LogExplainsHistory, Applied, ViewsAreOfHistory, SnapshotsAreBehind, machine, disk, KV!vars

-----------------------------------------------------------------------------
LEMMA InitInv == Init => Inv
<1> SUFFICES ASSUME Init PROVE Inv
  OBVIOUS
<1>1. Empty \in Contents
  BY DEF Empty, Contents
<1>2. [index |-> 0, data |-> Empty] \in Snapshots
  BY <1>1 DEF Init, Snapshots
<1>3. TypeOK
  BY <1>1, <1>2, BootAssumption, BoundsAssumption DEF Init, TypeOK, Dek
<1>4. StoreInv
  BY DEF Init, StoreInv, LogExplainsHistory, ViewsAreOfHistory, SnapshotsAreBehind, LeaderRuns
<1> QED
  BY <1>3, <1>4 DEF Inv

\* Every step preserves the invariant and is a step, or a stutter, of KVStore.
LEMMA NextInv == ASSUME Inv, [Next]_vars PROVE Inv' /\ [KV!Next]_(KV!vars)
<1>1. ASSUME NEW r \in Replicas, NEW k \in Keys, NEW v \in Values, NEW g \in held[r], Put(r, k, v, g)
      PROVE  Inv' /\ KV!Next
  <2>1. [gen |-> g, val |-> v] \in Ciphertext
    BY PutSeals DEF Inv
  <2> QED
    BY <1>1, <2>1, PutTypes, CommitStore DEF Put, disk, Inv, KV!Next, KV!Put
<1>2. ASSUME NEW r \in Replicas, NEW k \in Keys, Delete(r, k) PROVE Inv' /\ KV!Next
  BY <1>2, DeleteTypes, CommitStore DEF Delete, disk, Inv, KV!Next, KV!Delete
<1>3. ASSUME NEW r \in Replicas, NEW k \in Keys, ReencryptPut(r, k) PROVE Inv' /\ KV!Next
  <2>1. todo[r][k] \in Values
    BY <1>3 DEF Inv, TypeOK, ReencryptPut, Plains
  <2>2. encrypt(r, todo[r][k]) \in Ciphertext
    BY <2>1, EncryptsToCiphertext DEF Inv
  <2> QED
    BY <1>3, <2>2, ReencryptPutTypes, CommitStore DEF ReencryptPut, disk, Inv, KV!Next, KV!Put
<1>4. ASSUME restore # None, NEW p \in restore.sealed, RestorePut(p) PROVE Inv' /\ KV!Next
  <2>1. restore.by \in Replicas /\ p.key \in Keys /\ p.stored \in Ciphertext
    BY <1>4, RestoreSeals DEF Inv
  <2> QED
    BY <1>4, <2>1, RestorePutTypes, CommitStore DEF RestorePut, disk, Inv, KV!Next, KV!Put
<1>5. ASSUME NEW r \in Replicas, Crash(r) \/ JoinRaftFails(r) PROVE Inv' /\ KV!Next
  <2>1. events' \in 0 .. MaxEvents /\ Ends(r)
    BY <1>5, EventBounded DEF Inv, TypeOK, Crash, JoinRaftFails
  <2> QED
    BY <2>1, EndsTypes, EndsStore DEF Inv, KV!Next
<1>6. CASE StartBootstrap
  BY <1>6, BootAssumption, NewRaftStoreTypes, NewRaftStoreStore DEF StartBootstrap, Inv, KV!Next
<1>7. ASSUME NEW r \in Replicas, StartJoiner(r) PROVE Inv' /\ KV!Next
  BY <1>7, NewRaftStoreTypes, NewRaftStoreStore DEF StartJoiner, Inv, KV!Next
<1>8. ASSUME NEW r \in Replicas, Apply(r) \/ Restore(r) PROVE Inv' /\ KV!Next
  BY <1>8, ApplyTypes, DiskTypes, ApplyStore, RestoreStore DEF Inv, KV!Next
<1>9. ASSUME NEW r \in Replicas, Snapshot(r) \/ Persist(r) \/ PersistFails(r) PROVE Inv' /\ UNCHANGED KV!vars
  BY <1>9, DiskTypes, DiskStore DEF Inv
<1>10. ASSUME NEW r \in Replicas, Rotate(r) PROVE Inv' /\ UNCHANGED KV!vars
  <2>1. UNCHANGED <<machine, disk, up>> /\ LeaderRuns'
    BY <1>10 DEF Rotate, cluster, Inv, StoreInv, LeaderRuns
  <2> QED
    BY <1>10, <2>1, RotateTypes, OtherStore DEF Inv
<1>11. ASSUME NEW r \in Replicas,
              \/ StepDown \/ RestoreFails \/ RestoreDone \/ Elect(r) \/ JoinRaft(r)
              \/ ReencryptFails(r) \/ ReencryptDone(r) \/ CreateBackup(r) \/ RestoreBackup(r)
       PROVE  Inv' /\ UNCHANGED KV!vars
  <2>1. UNCHANGED <<machine, disk, up>>
    BY <1>11 DEF StepDown, RestoreFails, RestoreDone, Elect, JoinRaft, ReencryptFails, ReencryptDone,
                 CreateBackup, RestoreBackup, cluster
  <2>2. LeaderRuns'
    BY <1>11, <2>1 DEF StepDown, RestoreFails, RestoreDone, Elect, JoinRaft, ReencryptFails, ReencryptDone,
                       CreateBackup, RestoreBackup, cluster, Inv, StoreInv, LeaderRuns
  <2> QED
    BY <1>11, <2>1, <2>2, OtherTypes, OtherStore DEF Inv
<1>13. ASSUME NEW k \in Keys, RestoreSeal(k) PROVE Inv' /\ UNCHANGED KV!vars
  <2>1. UNCHANGED <<machine, disk, up>> /\ LeaderRuns'
    BY <1>13 DEF RestoreSeal, cluster, Inv, StoreInv, LeaderRuns
  <2> QED
    BY <1>13, <2>1, RestoreSealTypes, OtherStore DEF Inv
<1>12. CASE UNCHANGED vars
  <2>1. UNCHANGED <<machine, disk, up>> /\ LeaderRuns'
    BY <1>12 DEF vars, machine, disk, Inv, StoreInv, LeaderRuns
  <2>2. TypeOK'
    BY <1>12 DEF vars, Inv, TypeOK, Snapshots, Restores
  <2> QED
    BY <2>1, <2>2, OtherStore DEF Inv
<1> QED
  BY <1>1, <1>2, <1>3, <1>4, <1>5, <1>6, <1>7, <1>8, <1>9, <1>10, <1>11, <1>12, <1>13, BootAssumption DEF Next

LEMMA InvHolds == Spec => []Inv
<1>1. Inv /\ [Next]_vars => Inv'
  BY NextInv
<1> QED
  BY <1>1, InitInv, PTL DEF Spec

-----------------------------------------------------------------------------
(* Keys *)

\* What a step must leave alone for a replica to go on reading what it read.
LEMMA KeepsReading ==
    ASSUME Inv, KeyInv, NEW r \in up \ deposed, truth' = truth,
           encKey'[r] = encKey[r], prevEncKey'[r] = prevEncKey[r], held'[r] = held[r], dropped'[r] = dropped[r],
           applied'[r] \in Nat, applied'[r] >= applied[r], todo'[r] \in {todo[r], None}
    PROVE  Reads(r)' /\ Pending(r)'
<1>1. Ahead(r)' \subseteq Ahead(r)
  <2>1. applied[r] \in Nat /\ Len(truth) \in Nat
    BY DEF Inv, TypeOK
  <2> QED
    BY <2>1 DEF Ahead
<1>2. Reads(r) /\ Pending(r)
  BY DEF KeyInv
<1>3. Reads(r)'
  BY <1>1, <1>2 DEF Reads, Opens
<1>4. Pending(r)'
  BY <1>1, <1>2 DEF Pending
<1> QED
  BY <1>3, <1>4

\* Steps that change neither keys nor history, and depose nobody without saying so.
LEMMA QuietKeys ==
    ASSUME Inv, KeyInv, UNCHANGED <<truth, keyring, up>>, leader' \in {leader, None}, deposed \subseteq deposed',
           \A r \in Replicas : applied'[r] \in Nat /\ applied'[r] >= applied[r] /\ todo'[r] \in {todo[r], None}
    PROVE  KeyInv'
<1>1. up \subseteq Replicas
  BY DEF Inv, TypeOK
<1>2. UNCHANGED <<encKey, prevEncKey, gens, held, dropped>>
  BY DEF keyring
<1>3. KeyTypes' /\ \A r \in Replicas \ up' : todo'[r] = None
  BY <1>2 DEF KeyInv, KeyTypes
<1>4. \A r \in up : Own(r)'
  BY <1>1, <1>2 DEF KeyInv, Own
<1>5. \A r \in up \ deposed' : Sole(r)'
  BY <1>2 DEF KeyInv, Sole
<1>6. \A r \in up \ deposed' : Reads(r)' /\ Pending(r)'
  BY <1>1, <1>2, KeepsReading
<1> QED
  BY <1>3, <1>4, <1>5, <1>6 DEF KeyInv

\* An election deposes everybody else who has drawn a key.
LEMMA ElectKeys == ASSUME Inv, KeyInv, NEW r \in Replicas, Elect(r) PROVE KeyInv'
<1>1. /\ UNCHANGED <<truth, applied, todo, encKey, prevEncKey, gens, held, dropped, up>>
      /\ leader' = r /\ deposed' = deposed \cup {q \in up \ {r} : held[q] # {Dek}}
  BY DEF Elect, machine, keyring
<1>2. up \subseteq Replicas /\ applied \in [Replicas -> Nat] /\ \A q \in Replicas : applied[q] >= applied[q]
  BY DEF Inv, TypeOK
<1>3. \A q \in up : Own(q)'
  BY <1>1 DEF KeyInv, Own
<1>4. \A q \in up \ deposed' : Sole(q)'
  BY <1>1 DEF Sole
<1>5. ASSUME NEW q \in up \ deposed' PROVE Reads(q)' /\ Pending(q)'
  BY <1>1, <1>2, <1>5, KeepsReading
<1> QED
  BY <1>1, <1>3, <1>4, <1>5 DEF KeyInv, KeyTypes

\* A value goes into the log under the leader's current key, or under one it
\* is noted for having replaced; nobody else with a key of his own reads on
\* undeposed.
Sealed(r, c) ==
    /\ dropped' \in [Replicas -> SUBSET Int]
    /\ dropped[r] \subseteq dropped'[r]
    /\ \A q \in Replicas \ {r} : dropped'[q] = dropped[q]
    /\ c # Absent => c.gen = encKey[r] \/ c.gen \in dropped'[r]

LEMMA CommitKeys ==
    ASSUME Inv, KeyInv, NEW r \in Replicas, NEW k \in Keys, NEW c \in Ciphertext \cup {Absent}, Commit(r, k, c),
           Sealed(r, c), UNCHANGED <<encKey, prevEncKey, gens, held, deposed>>,
           \/ todo' = todo
           \/ /\ todo[r] # None
              /\ todo' = [todo EXCEPT ![r] = [@ EXCEPT ![k] = Absent]]
    PROVE  KeyInv'
<1> DEFINE n == Len(log)
<1>1. /\ truth \in Seq(Contents) /\ n \in Nat /\ Len(truth) = n + 1 /\ applied[r] = n
      /\ applied \in [Replicas -> 0 .. n] /\ todo \in [Replicas -> Plains \cup {None}]
      /\ up \subseteq Replicas /\ truth[n + 1] \in Contents
  BY DEF Inv, TypeOK, StoreInv, LogExplainsHistory, Commit
<1>2. /\ truth' = Append(truth, [truth[n + 1] EXCEPT ![k] = c]) /\ applied' = [applied EXCEPT ![r] = n + 1]
      /\ UNCHANGED <<leader, up, encKey, prevEncKey, gens, held, deposed>> /\ leader = r
  BY <1>1 DEF Commit, cluster
<1>3. r \in up
  BY <1>2, NoneAssumption DEF Inv, StoreInv, LeaderRuns
<1>4. \A q \in Replicas : (todo'[q] = None) <=> (todo[q] = None)
  <2>1. ASSUME todo[r] # None PROVE [todo[r] EXCEPT ![k] = Absent] # None
    <3>1. todo[r] \in Plains
      BY <1>1, <2>1
    <3>2. [todo[r] EXCEPT ![k] = Absent] \in Plains
      BY <3>1 DEF Plains
    <3> QED
      BY <3>2, NoneAssumption DEF Plains
  <2> QED
    BY <1>1, <2>1
<1>5. KeyTypes' /\ \A q \in Replicas \ up' : todo'[q] = None
  BY <1>2, <1>4 DEF KeyInv, KeyTypes, Sealed
<1>6. \A q \in up : Own(q)'
  BY <1>1, <1>2, <1>4 DEF KeyInv, Own
<1>7. \A q \in up \ deposed : Sole(q)'
  BY <1>2 DEF KeyInv, Sole
<1>8. Ahead(r)' = {n + 2} /\ n + 1 \in Ahead(r)
  BY <1>1, <1>2 DEF Ahead
<1>9. truth'[n + 2][k] = c /\ \A l \in Keys \ {k} : truth'[n + 2][l] = truth[n + 1][l]
  BY <1>1, <1>2 DEF Contents
<1>10. Opens(c, encKey[r], prevEncKey[r]) \/ c = Absent \/ c.gen \in dropped'[r]
  BY DEF Opens, Sealed
<1>11. ASSUME r \notin deposed PROVE Reads(r)'
  <2>1. Reads(r)
    BY <1>3, <1>11 DEF KeyInv
  <2> SUFFICES ASSUME NEW l \in Keys, truth'[n + 2][l] # Absent, truth'[n + 2][l].gen \in held[r]
               PROVE  truth'[n + 2][l].gen \in dropped'[r] \/ Opens(truth'[n + 2][l], encKey[r], prevEncKey[r])
    BY <1>2, <1>8 DEF Reads, Opens
  <2>2. dropped[r] \subseteq dropped'[r]
    BY DEF Sealed
  <2> QED
    BY <1>8, <1>9, <1>10, <2>1, <2>2 DEF Reads
<1>12. ASSUME r \notin deposed PROVE Pending(r)'
  <2>1. Pending(r) /\ Own(r)
    BY <1>3, <1>12 DEF KeyInv
  <2> SUFFICES ASSUME todo[r] # None, prevEncKey[r] \notin dropped'[r], NEW l \in Keys,
                      truth'[n + 2][l] # Absent, truth'[n + 2][l].gen = prevEncKey[r]
               PROVE  todo'[r][l] # Absent
    BY <1>2, <1>4, <1>8 DEF Pending
  <2>2. l # k /\ prevEncKey[r] \notin dropped[r]
    BY <1>9, <2>1 DEF Own, Sealed
  <2>3. todo[r][l] # Absent
    BY <1>8, <1>9, <2>1, <2>2 DEF Pending
  <2>4. todo[r] \in Plains
    BY <1>1
  <2> QED
    BY <1>1, <2>2, <2>3, <2>4 DEF Plains
<1>13. ASSUME NEW q \in up \ deposed, q # r PROVE Reads(q)' /\ Pending(q)'
  <2>1. held[q] = {Dek} /\ encKey[q] = Dek /\ todo[q] = None
    BY <1>2, <1>13, NoneAssumption DEF KeyInv, Sole, Own
  <2> QED
    BY <1>1, <1>2, <1>4, <2>1 DEF Reads, Pending, Opens
<1> QED
  BY <1>2, <1>5, <1>6, <1>7, <1>11, <1>12, <1>13 DEF KeyInv

\* A process that starts or ends has the key of bootstrap.json only.
LEMMA FreshKeys ==
    ASSUME Inv, KeyInv, NEW r \in Replicas, Fresh(r), up' \in {up \cup {r}, up \ {r}}, leader' \in {leader, None},
           \A q \in Replicas \ {r} : todo'[q] = todo[q], todo'[r] = None
    PROVE  KeyInv'
<1>1. /\ truth' = truth /\ gens' = gens /\ deposed' = deposed \ {r}
      /\ applied' = [applied EXCEPT ![r] = snap[r].index] /\ encKey' = [encKey EXCEPT ![r] = Dek]
      /\ prevEncKey' = [prevEncKey EXCEPT ![r] = NoKey] /\ held' = [held EXCEPT ![r] = {Dek}]
      /\ dropped' = [dropped EXCEPT ![r] = {}]
  BY DEF Fresh
<1>2. /\ up \subseteq Replicas /\ applied \in [Replicas -> 0 .. Len(log)] /\ encKey \in [Replicas -> 0 .. MaxGen]
      /\ prevEncKey \in [Replicas -> (0 .. MaxGen) \cup {NoKey}] /\ gens \in Nat
      /\ held \in [Replicas -> SUBSET Nat] /\ dropped \in [Replicas -> SUBSET Int]
  BY BoundsAssumption DEF Inv, TypeOK, KeyInv, KeyTypes
<1>3. encKey'[r] = Dek /\ prevEncKey'[r] = NoKey /\ held'[r] = {Dek}
  BY <1>1, <1>2
<1>4. \A q \in Replicas \ {r} : /\ encKey'[q] = encKey[q] /\ prevEncKey'[q] = prevEncKey[q] /\ held'[q] = held[q]
                               /\ dropped'[q] = dropped[q] /\ applied'[q] = applied[q]
  BY <1>1, <1>2
<1>5. KeyTypes'
  BY <1>1, <1>2 DEF KeyTypes, Dek
<1>6. \A q \in Replicas \ up' : todo'[q] = None
  BY DEF KeyInv
<1>7. Own(r)' /\ Sole(r)' /\ Reads(r)' /\ Pending(r)'
  BY <1>1, <1>2, <1>3 DEF Own, Sole, Reads, Pending, Opens, Dek, NoKey
<1>8. ASSUME NEW q \in up \ {r} PROVE Own(q)'
  BY <1>1, <1>2, <1>4, <1>8 DEF KeyInv, Own
<1>9. ASSUME NEW q \in up \ {r}, q \notin deposed PROVE Sole(q)' /\ Reads(q)' /\ Pending(q)'
  <2>1. Sole(q)'
    BY <1>2, <1>4, <1>9 DEF KeyInv, Sole
  <2>2. applied'[q] \in Nat /\ applied'[q] >= applied[q]
    BY <1>2, <1>4, <1>9
  <2> QED
    BY <1>1, <1>2, <1>4, <1>9, <2>1, <2>2, KeepsReading
<1> QED
  BY <1>1, <1>5, <1>6, <1>7, <1>8, <1>9 DEF KeyInv

LEMMA RotateKeys == ASSUME Inv, KeyInv, NEW r \in Replicas, Rotate(r) PROVE KeyInv'
<1> DEFINE g == gens + 1
           lost == dropped[r] \cup ({prevEncKey[r]} \ {NoKey})
                              \cup (IF applied[r] < Len(log) THEN {encKey[r]} ELSE {})
<1>1. /\ leader = r /\ gens' = g /\ encKey' = [encKey EXCEPT ![r] = g] /\ prevEncKey' = [prevEncKey EXCEPT ![r] = encKey[r]]
      /\ held' = [held EXCEPT ![r] = @ \cup {g}] /\ dropped' = [dropped EXCEPT ![r] = lost]
      /\ todo' = [todo EXCEPT ![r] = IF ListOK(r, g, encKey[r]) THEN List(r) ELSE None]
      /\ UNCHANGED <<truth, applied, log, data, leader, up, deposed>>
  BY DEF Rotate, machine, cluster
<1>2. /\ up \subseteq Replicas /\ applied \in [Replicas -> 0 .. Len(log)] /\ encKey \in [Replicas -> 0 .. MaxGen]
      /\ prevEncKey \in [Replicas -> (0 .. MaxGen) \cup {NoKey}] /\ gens \in Nat /\ MaxGen \in Nat
      /\ held \in [Replicas -> SUBSET Nat] /\ dropped \in [Replicas -> SUBSET Int]
      /\ todo \in [Replicas -> Plains \cup {None}] /\ Len(log) \in Nat /\ Len(truth) = Len(log) + 1
  BY BoundsAssumption DEF Inv, TypeOK, KeyInv, KeyTypes, StoreInv, LogExplainsHistory
<1>3. r \in up
  BY <1>1, NoneAssumption DEF Inv, StoreInv, LeaderRuns
<1>4. /\ encKey'[r] = g /\ prevEncKey'[r] = encKey[r] /\ held'[r] = held[r] \cup {g} /\ dropped'[r] = lost
      /\ todo'[r] = (IF ListOK(r, g, encKey[r]) THEN List(r) ELSE None) /\ applied'[r] = applied[r]
  BY <1>1, <1>2
<1>5. \A q \in Replicas \ {r} : /\ encKey'[q] = encKey[q] /\ prevEncKey'[q] = prevEncKey[q] /\ held'[q] = held[q]
                               /\ dropped'[q] = dropped[q] /\ applied'[q] = applied[q] /\ todo'[q] = todo[q]
  BY <1>1, <1>2
<1>6. KeyTypes'
  <2>1. lost \in SUBSET Int
    BY <1>2 DEF NoKey
  <2> QED
    BY <1>1, <1>2, <2>1 DEF KeyTypes
<1>7. \A q \in Replicas \ up' : todo'[q] = None
  BY <1>1, <1>3, <1>5 DEF KeyInv
<1>8. Own(r)'
  <2>1. g \in held'[r] /\ g # Dek /\ g <= gens' /\ encKey[r] # g
    BY <1>1, <1>2, <1>3, <1>4 DEF Dek, KeyInv, Own
  <2> QED
    BY <1>4, <2>1 DEF Own
<1>9. ASSUME NEW q \in up \ {r} PROVE Own(q)'
  BY <1>1, <1>2, <1>5, <1>9 DEF KeyInv, Own
<1>10. ASSUME NEW q \in up \ {r}, q \notin deposed PROVE Sole(q)' /\ Reads(q)' /\ Pending(q)'
  <2>1. Sole(q)'
    BY <1>1, <1>2, <1>5, <1>10 DEF KeyInv, Sole
  <2>2. applied'[q] \in Nat /\ applied'[q] >= applied[q]
    BY <1>2, <1>5, <1>10
  <2> QED
    BY <1>1, <1>2, <1>5, <1>10, <2>1, <2>2, KeepsReading
<1>11. Sole(r)'
  BY <1>1 DEF Sole
<1>12. ASSUME r \notin deposed PROVE Reads(r)'
  <2>1. Reads(r)
    BY <1>3, <1>12 DEF KeyInv
  <2> SUFFICES ASSUME NEW j \in Ahead(r), NEW k \in Keys, truth[j][k] # Absent, truth[j][k].gen \in held[r] \cup {g}
               PROVE  truth[j][k].gen \in lost \/ Opens(truth[j][k], g, encKey[r])
    BY <1>1, <1>4 DEF Reads, Ahead, Opens
  <2>2. encKey[r] # NoKey
    BY <1>2 DEF NoKey
  <2> QED
    BY <2>1, <2>2 DEF Reads, Opens
<1>13. ASSUME r \notin deposed PROVE Pending(r)'
  <2> SUFFICES ASSUME encKey[r] \notin lost, todo'[r] # None, NEW j \in Ahead(r), NEW k \in Keys, truth[j][k] # Absent
               PROVE  todo'[r][k] # Absent
    BY <1>1, <1>4 DEF Pending, Ahead
  <2>1. applied[r] = Len(log)
    BY <1>2
  <2>2. j = applied[r] + 1
    BY <1>2, <2>1 DEF Ahead
  <2>3. data[r][k] = truth[j][k] /\ data[r][k] \in Ciphertext
    BY <2>2 DEF Inv, StoreInv, ViewsAreOfHistory, TypeOK, Contents
  <2>4. data[r][k].val \in Values
    BY <2>3 DEF Ciphertext
  <2> QED
    BY <1>4, <2>3, <2>4, AbsentAssumption DEF List
<1> QED
  BY <1>1, <1>6, <1>7, <1>8, <1>9, <1>10, <1>11, <1>12, <1>13 DEF KeyInv

\* When nothing is left to write, nothing is left under the previous key.
LEMMA ReencryptDoneKeys == ASSUME Inv, KeyInv, NEW r \in Replicas, ReencryptDone(r) PROVE KeyInv'
<1>1. /\ todo[r] = Empty /\ prevEncKey' = [prevEncKey EXCEPT ![r] = NoKey] /\ todo' = [todo EXCEPT ![r] = None]
      /\ UNCHANGED <<truth, applied, leader, up, deposed, encKey, gens, held, dropped>>
  BY DEF ReencryptDone, machine, cluster
<1>2. /\ up \subseteq Replicas /\ applied \in [Replicas -> 0 .. Len(log)] /\ encKey \in [Replicas -> 0 .. MaxGen]
      /\ prevEncKey \in [Replicas -> (0 .. MaxGen) \cup {NoKey}] /\ todo \in [Replicas -> Plains \cup {None}]
  BY DEF Inv, TypeOK
<1>3. todo[r] # None
  <2>1. Empty \in Plains
    BY DEF Empty, Plains
  <2> QED
    BY <1>1, <2>1, NoneAssumption DEF Plains
<1>4. prevEncKey'[r] = NoKey /\ todo'[r] = None
      /\ \A q \in Replicas \ {r} : prevEncKey'[q] = prevEncKey[q] /\ todo'[q] = todo[q]
  BY <1>1, <1>2
<1>5. KeyTypes' /\ \A q \in Replicas \ up' : todo'[q] = None
  BY <1>1, <1>4 DEF KeyInv, KeyTypes
<1>6. \A q \in up : Own(q)'
  <2>1. encKey[r] # NoKey
    BY <1>2 DEF NoKey
  <2> QED
    BY <1>1, <1>2, <1>4, <2>1 DEF KeyInv, Own
<1>7. \A q \in up \ deposed : Sole(q)'
  BY <1>1 DEF KeyInv, Sole
<1>8. ASSUME NEW q \in up \ deposed, q # r PROVE Reads(q)' /\ Pending(q)'
  <2>1. applied'[q] \in Nat /\ applied'[q] >= applied[q]
    BY <1>1, <1>2, <1>8
  <2> QED
    BY <1>1, <1>2, <1>4, <1>8, <2>1, KeepsReading
<1>9. ASSUME r \in up \ deposed PROVE Reads(r)' /\ Pending(r)'
  <2>1. Reads(r) /\ Pending(r)
    BY <1>9 DEF KeyInv
  <2>2. \A k \in Keys : todo[r][k] = Absent
    BY <1>1 DEF Empty
  <2> QED
    BY <1>1, <1>3, <1>4, <2>1, <2>2 DEF Reads, Pending, Opens, Ahead
<1> QED
  BY <1>1, <1>5, <1>6, <1>7, <1>8, <1>9 DEF KeyInv

LEMMA InitKeys == Init => KeyInv
<1> SUFFICES ASSUME Init PROVE KeyInv
  OBVIOUS
<1>1. \A r \in Replicas : encKey[r] = Dek /\ prevEncKey[r] = NoKey /\ todo[r] = None /\ held[r] = {Dek} /\ applied[r] = 0
  BY DEF Init
<1>2. \A r \in Replicas : Own(r)
  BY <1>1 DEF Own, Init, Dek, NoKey
<1>3. \A r \in Replicas : Sole(r) /\ Reads(r) /\ Pending(r)
  BY <1>1 DEF Sole, Reads, Pending, Opens
<1> QED
  BY <1>1, <1>2, <1>3, BootAssumption DEF KeyInv, KeyTypes, Init, Dek

\* The steps that neither commit, nor start or end a process, nor rotate.
QuietStep(r) ==
    \/ StepDown \/ RestoreFails \/ RestoreDone \/ JoinRaft(r) \/ Apply(r) \/ Snapshot(r) \/ Persist(r)
    \/ PersistFails(r) \/ Restore(r) \/ ReencryptFails(r) \/ CreateBackup(r) \/ RestoreBackup(r)
    \/ UNCHANGED vars \/ \E k \in Keys : RestoreSeal(k)

LEMMA QuietSteps ==
    ASSUME Inv, NEW r \in Replicas, QuietStep(r)
    PROVE  /\ UNCHANGED <<truth, keyring, up, deposed>> /\ leader' \in {leader, None}
           /\ \A q \in Replicas : applied'[q] \in Nat /\ applied'[q] >= applied[q] /\ todo'[q] \in {todo[q], None}
<1> USE DEF machine, cluster, keyring, backups
<1>1. applied \in [Replicas -> 0 .. Len(log)] /\ todo \in [Replicas -> Plains \cup {None}] /\ Len(log) \in Nat
  BY DEF Inv, TypeOK
<1>2. \A q \in Replicas : applied[q] \in Nat /\ applied[q] >= applied[q]
  BY <1>1
<1>3. CASE Apply(r)
  <2>1. applied' = [applied EXCEPT ![r] = applied[r] + 1] /\ UNCHANGED <<truth, keyring, up, deposed, leader, todo>>
    BY <1>3 DEF Apply
  <2> QED
    BY <1>1, <1>2, <2>1
<1>4. CASE Restore(r)
  <2>1. snap[leader].index \in Nat /\ snap[leader].index > applied[r]
    BY <1>1, <1>4 DEF Restore, Inv, TypeOK, Snapshots
  <2>2. applied' = [applied EXCEPT ![r] = snap[leader].index] /\ UNCHANGED <<truth, keyring, up, deposed, leader, todo>>
    BY <1>4 DEF Restore
  <2> QED
    BY <1>1, <1>2, <2>1, <2>2
<1>5. CASE ReencryptFails(r)
  <2>1. todo' = [todo EXCEPT ![r] = None] /\ UNCHANGED <<truth, keyring, up, deposed, leader, applied>>
    BY <1>5 DEF ReencryptFails
  <2> QED
    BY <1>1, <1>2, <2>1
<1>6. CASE StepDown \/ JoinRaft(r) \/ RestoreFails \/ RestoreDone
  BY <1>2, <1>6 DEF StepDown, JoinRaft, RestoreFails, RestoreDone
<1>7. CASE Snapshot(r) \/ Persist(r) \/ PersistFails(r) \/ CreateBackup(r) \/ RestoreBackup(r)
  BY <1>2, <1>7 DEF Snapshot, Persist, PersistFails, CreateBackup, RestoreBackup
<1>8. CASE UNCHANGED vars
  BY <1>2, <1>8 DEF vars
<1>9. CASE \E k \in Keys : RestoreSeal(k)
  BY <1>2, <1>9 DEF RestoreSeal
<1> QED
  BY <1>3, <1>4, <1>5, <1>6, <1>7, <1>8, <1>9 DEF QuietStep

\* A start or an end of the process of r.
LifeStep(r) == Crash(r) \/ JoinRaftFails(r) \/ StartJoiner(r) \/ (r = Boot /\ StartBootstrap)

LEMMA LifeSteps ==
    ASSUME Inv, KeyInv, NEW r \in Replicas, LifeStep(r)
    PROVE  /\ Fresh(r) /\ up' \in {up \cup {r}, up \ {r}} /\ leader' \in {leader, None}
           /\ \A q \in Replicas \ {r} : todo'[q] = todo[q]
           /\ todo'[r] = None
           /\ backup' = backup
           /\ \/ restore' = None
              \/ restore' = restore /\ touched' = touched /\ restore.by \in up \ {r}
<1>1. todo \in [Replicas -> Plains \cup {None}] /\ restore \in Restores \cup {None}
  BY DEF Inv, TypeOK
<1>2. CASE Ends(r)
  BY <1>1, <1>2 DEF Ends, Restores
<1>3. CASE r \notin up /\ NewRaftStore(r)
  <2>1. todo[r] = None
    BY <1>3 DEF KeyInv
  <2>2. UNCHANGED <<leader, todo, backup, restore, touched>> /\ Fresh(r) /\ up' = up \cup {r}
    BY <1>3 DEF NewRaftStore, backups
  <2>3. restore = None \/ restore.by \in up \ {r}
    BY <1>1, <1>3 DEF Restores
  <2> QED
    BY <2>1, <2>2, <2>3
<1> QED
  BY <1>2, <1>3 DEF LifeStep, Crash, JoinRaftFails, StartJoiner, StartBootstrap

\* A write of c to k through r, and whether it was ReencryptAll that made it.
WriteStep(r, k, c) ==
    /\ Commit(r, k, c)
    /\ Sealed(r, c)
    /\ UNCHANGED <<encKey, prevEncKey, gens, held, deposed, backup>>
    /\ \/ todo' = todo
       \/ /\ todo[r] # None
          /\ todo' = [todo EXCEPT ![r] = [@ EXCEPT ![k] = Absent]]
    /\ \/ restore' = restore /\ touched' = Touch(k)
       \/ /\ restore # None /\ restore.by = r /\ restore.left[k] # Absent
          /\ c # Absent /\ c.val = restore.left[k] /\ todo' = todo
          /\ restore' = [restore EXCEPT !.left[k] = Absent, !.sealed = {}] /\ touched' = touched \ {k}

\* What is committed is noted when it is late, and nothing is noted otherwise.
LEMMA LateIsSealed ==
    ASSUME KeyInv, NEW r \in Replicas, NEW c \in Ciphertext, dropped' = Late(r, c)
    PROVE  Sealed(r, c)
<1>1. c.gen \in Int /\ dropped \in [Replicas -> SUBSET Int]
  BY BoundsAssumption DEF Ciphertext, KeyInv, KeyTypes
<1> QED
  BY <1>1 DEF Late, Sealed

LEMMA CurrentIsSealed ==
    ASSUME KeyInv, NEW r \in Replicas, NEW c, c # Absent => c.gen = encKey[r], dropped' = dropped
    PROVE  Sealed(r, c)
BY DEF KeyInv, KeyTypes, Sealed

LEMMA NextCases ==
    ASSUME Inv, KeyInv, RestoreInv, [Next]_vars
    PROVE  \E r \in Replicas :
              \/ QuietStep(r) \/ LifeStep(r) \/ Elect(r) \/ Rotate(r) \/ ReencryptDone(r)
              \/ \E k \in Keys, c \in Ciphertext \cup {Absent} : WriteStep(r, k, c)
<1>1. ASSUME NEW r \in Replicas, NEW k \in Keys, NEW v \in Values, NEW g \in held[r], Put(r, k, v, g)
      PROVE  WriteStep(r, k, [gen |-> g, val |-> v]) /\ [gen |-> g, val |-> v] \in Ciphertext
  <2>1. [gen |-> g, val |-> v] \in Ciphertext
    BY PutSeals DEF Inv
  <2>2. Sealed(r, [gen |-> g, val |-> v])
    BY <1>1, <2>1, LateIsSealed DEF Put
  <2> QED
    BY <1>1, <2>1, <2>2 DEF Put, WriteStep, backups
<1>2. ASSUME NEW r \in Replicas, NEW k \in Keys, Delete(r, k) PROVE WriteStep(r, k, Absent)
  BY <1>2, CurrentIsSealed DEF Delete, WriteStep, backups, keyring
<1>3. ASSUME NEW r \in Replicas, NEW k \in Keys, ReencryptPut(r, k)
      PROVE  WriteStep(r, k, encrypt(r, todo[r][k])) /\ encrypt(r, todo[r][k]) \in Ciphertext
  <2>1. todo[r][k] \in Values
    BY <1>3 DEF Inv, TypeOK, ReencryptPut, Plains
  <2>2. Sealed(r, encrypt(r, todo[r][k]))
    BY <1>3, CurrentIsSealed DEF ReencryptPut, keyring, encrypt
  <2> QED
    BY <1>3, <2>1, <2>2, EncryptsToCiphertext DEF Inv, ReencryptPut, WriteStep, backups, keyring
<1>4. ASSUME restore # None, NEW p \in restore.sealed, RestorePut(p)
      PROVE  /\ restore.by \in Replicas /\ p.key \in Keys
             /\ WriteStep(restore.by, p.key, p.stored)
             /\ p.stored \in Ciphertext
  <2>1. restore.by \in Replicas /\ p.key \in Keys /\ p.stored \in Ciphertext
    BY <1>4, RestoreSeals DEF Inv
  <2>2. Sealed(restore.by, p.stored)
    BY <1>4, <2>1, LateIsSealed DEF RestorePut
  <2>3. p.stored # Absent /\ restore.left[p.key] # Absent /\ p.stored.val = restore.left[p.key]
    <3>1. Absent \notin Ciphertext
      BY AbsentAssumption DEF Ciphertext
    <3> QED
      BY <1>4, <2>1, <3>1 DEF RestoreInv
  <2> QED
    BY <1>4, <2>1, <2>2, <2>3 DEF RestorePut, WriteStep
<1>8. ASSUME NEW k \in Keys, RestoreSeal(k) PROVE QuietStep(Boot)
  BY <1>8 DEF QuietStep
<1>5. CASE UNCHANGED vars
  BY <1>5, BootAssumption DEF QuietStep
<1>6. CASE StepDown \/ StartBootstrap \/ RestoreFails \/ RestoreDone
  BY <1>6, BootAssumption DEF QuietStep, LifeStep
<1>7. ASSUME NEW r \in Replicas,
             \/ Elect(r) \/ Crash(r) \/ StartJoiner(r) \/ JoinRaft(r) \/ JoinRaftFails(r)
             \/ Apply(r) \/ Snapshot(r) \/ Persist(r) \/ PersistFails(r) \/ Restore(r)
             \/ Rotate(r) \/ ReencryptFails(r) \/ ReencryptDone(r)
             \/ CreateBackup(r) \/ RestoreBackup(r)
      PROVE  QuietStep(r) \/ LifeStep(r) \/ Elect(r) \/ Rotate(r) \/ ReencryptDone(r)
  BY <1>7 DEF QuietStep, LifeStep
<1> DEFINE W(r) == \E k \in Keys, c \in Ciphertext \cup {Absent} : WriteStep(r, k, c)
<1>9. ASSUME NEW r \in Replicas, NEW k \in Keys,
             \/ Delete(r, k) \/ ReencryptPut(r, k)
             \/ \E v \in Values, g \in held[r] : Put(r, k, v, g)
      PROVE  W(r)
  BY <1>1, <1>2, <1>3, <1>9
<1>10. ASSUME restore # None, NEW p \in restore.sealed, RestorePut(p) PROVE \E r \in Replicas : W(r)
  BY <1>4, <1>10
<1> HIDE DEF W
<1>11. \E r \in Replicas : QuietStep(r) \/ LifeStep(r) \/ Elect(r) \/ Rotate(r) \/ ReencryptDone(r) \/ W(r)
  <2> DEFINE Goal == \E r \in Replicas :
                QuietStep(r) \/ LifeStep(r) \/ Elect(r) \/ Rotate(r) \/ ReencryptDone(r) \/ W(r)
  <2>1. ASSUME NEW r \in Replicas,
               \/ Elect(r) \/ Crash(r) \/ StartJoiner(r) \/ JoinRaft(r) \/ JoinRaftFails(r)
               \/ Apply(r) \/ Snapshot(r) \/ Persist(r) \/ PersistFails(r) \/ Restore(r)
               \/ Rotate(r) \/ ReencryptFails(r) \/ ReencryptDone(r)
               \/ CreateBackup(r) \/ RestoreBackup(r)
        PROVE  Goal
    BY <1>7, <2>1
  <2>2. ASSUME NEW k \in Keys, RestoreSeal(k) PROVE Goal
    BY <1>8, <2>2, BootAssumption
  <2>3. ASSUME NEW r \in Replicas, W(r) PROVE Goal
    BY <2>3
  <2>4. ASSUME UNCHANGED vars \/ StepDown \/ StartBootstrap \/ RestoreFails \/ RestoreDone PROVE Goal
    BY <1>5, <1>6, <2>4, BootAssumption DEF QuietStep, LifeStep
  <2> HIDE DEF Goal
  <2>6. ASSUME NEW r \in Replicas, NEW k \in Keys,
               \/ Delete(r, k) \/ ReencryptPut(r, k)
               \/ \E v \in Values, g \in held[r] : Put(r, k, v, g)
        PROVE  Goal
    BY <1>9, <2>3, <2>6
  <2>7. ASSUME restore # None, NEW p \in restore.sealed, RestorePut(p) PROVE Goal
    BY <1>10, <2>3, <2>7
  <2>5. Goal
    BY <2>1, <2>2, <2>4, <2>6, <2>7 DEF Next
  <2> QED
    BY <2>5 DEF Goal
<1> QED
  BY <1>11 DEF W

LEMMA NextKeys == ASSUME Inv, KeyInv, RestoreInv, [Next]_vars PROVE KeyInv'
<1>1. ASSUME NEW r \in Replicas, QuietStep(r) PROVE KeyInv'
  BY <1>1, QuietSteps, QuietKeys
<1>2. ASSUME NEW r \in Replicas, LifeStep(r) PROVE KeyInv'
  BY <1>2, LifeSteps, FreshKeys
<1>3. ASSUME NEW r \in Replicas, NEW k \in Keys, NEW c \in Ciphertext \cup {Absent}, WriteStep(r, k, c) PROVE KeyInv'
  BY <1>3, CommitKeys DEF WriteStep
<1> QED
  BY <1>1, <1>2, <1>3, NextCases, ElectKeys, RotateKeys, ReencryptDoneKeys

-----------------------------------------------------------------------------
(* Restores *)

\* What a step must leave alone for what a restore has written to stay readable.
LEMMA KeepsRestored ==
    ASSUME Inv, RestoreInv, UNCHANGED <<truth, backup, restore, touched>>, restore # None,
           encKey'[restore.by] = encKey[restore.by], prevEncKey'[restore.by] = prevEncKey[restore.by],
           dropped'[restore.by] = dropped[restore.by], todo'[restore.by] \in {todo[restore.by], None}
    PROVE  RestoreInv'
BY DEF RestoreInv, RestoredIsThere, Restored, Latest, Opens

LEMMA QuietRestores == ASSUME Inv, RestoreInv, NEW r \in Replicas, QuietStep(r) PROVE RestoreInv'
<1>1. restore \in Restores \cup {None} /\ up \subseteq Replicas /\ backup \in Plains \cup {None}
  BY DEF Inv, TypeOK
<1>2. UNCHANGED <<truth, encKey, prevEncKey, dropped>> /\ \A q \in Replicas : todo'[q] \in {todo[q], None}
  BY QuietSteps DEF keyring
<1>3. CASE RestoreBackup(r)
  <2>1. restore' = [by |-> r, left |-> backup, sealed |-> {}] /\ backup' = backup /\ backup # None
    BY <1>3 DEF RestoreBackup
  <2> QED
    BY <2>1 DEF RestoreInv, RestoredIsThere, Restored
<1>4. CASE restore' = None
  BY <1>4 DEF RestoreInv
<1>5. CASE UNCHANGED <<backup, restore, touched>> /\ restore # None
  BY <1>1, <1>2, <1>5, KeepsRestored DEF Restores
<1>7. ASSUME NEW k \in Keys, RestoreSeal(k) PROVE RestoreInv'
  <2>1. /\ restore' = [restore EXCEPT !.sealed = {[key |-> k, stored |-> encrypt(restore.by, restore.left[k])]}]
        /\ UNCHANGED <<backup, touched>> /\ restore # None /\ restore.left[k] # Absent /\ restore \in Restores
    BY <1>1, <1>7 DEF RestoreSeal
  <2>2. restore'.by = restore.by /\ restore'.left = restore.left /\ restore.by \in Replicas
        /\ \A p \in restore'.sealed : p.key = k /\ p.stored.val = restore.left[k]
    BY <1>1, <2>1 DEF Restores, encrypt
  <2>3. RestoredIsThere'
    BY <1>2, <2>1, <2>2 DEF RestoreInv, RestoredIsThere, Restored, Latest, Opens
  <2> QED
    BY <2>1, <2>2, <2>3 DEF RestoreInv
<1>6. restore' = None \/ RestoreBackup(r) \/ (UNCHANGED <<backup, restore, touched>> /\ restore # None)
      \/ \E k \in Keys : RestoreSeal(k)
  BY DEF QuietStep, StepDown, RestoreFails, RestoreDone, JoinRaft, Apply, Snapshot, Persist, PersistFails, Restore,
         ReencryptFails, CreateBackup, vars, backups
<1> QED
  BY <1>3, <1>4, <1>5, <1>6, <1>7

LEMMA LifeRestores == ASSUME Inv, KeyInv, RestoreInv, NEW r \in Replicas, LifeStep(r) PROVE RestoreInv'
<1>1. CASE restore' = None
  BY <1>1 DEF RestoreInv
<1>2. CASE restore' # None
  <2>1. restore' = restore /\ touched' = touched /\ restore.by \in up \ {r} /\ backup' = backup /\ restore # None
        /\ todo'[restore.by] = todo[restore.by] /\ Fresh(r)
    BY <1>2, LifeSteps DEF Inv, TypeOK, Restores
  <2>2. truth' = truth /\ encKey'[restore.by] = encKey[restore.by] /\ prevEncKey'[restore.by] = prevEncKey[restore.by]
        /\ dropped'[restore.by] = dropped[restore.by]
    BY <2>1 DEF Fresh, Inv, TypeOK, KeyInv, KeyTypes
  <2> QED
    BY <2>1, <2>2, KeepsRestored
<1> QED
  BY <1>1, <1>2

LEMMA WriteRestores ==
    ASSUME Inv, KeyInv, RestoreInv, NEW r \in Replicas, NEW k \in Keys, NEW c \in Ciphertext \cup {Absent},
           WriteStep(r, k, c)
    PROVE  RestoreInv'
<1> SUFFICES ASSUME restore' # None PROVE RestoreInv'
  BY DEF RestoreInv
<1> DEFINE n == Len(log)
<1>1. /\ truth \in Seq(Contents) /\ n \in Nat /\ Len(truth) = n + 1 /\ truth[n + 1] \in Contents
      /\ todo \in [Replicas -> Plains \cup {None}] /\ up \subseteq Replicas
      /\ restore \in Restores \cup {None} /\ backup \in Plains \cup {None}
  BY DEF Inv, TypeOK, StoreInv, LogExplainsHistory
<1>2. /\ truth' = Append(truth, [truth[n + 1] EXCEPT ![k] = c])
      /\ UNCHANGED <<encKey, prevEncKey, backup>>
  BY <1>1 DEF WriteStep, Commit
<1>3. Latest'[k] = c /\ \A l \in Keys \ {k} : Latest'[l] = Latest[l]
  <2>1. Latest' = [truth[n + 1] EXCEPT ![k] = c] /\ Latest = truth[n + 1]
    BY <1>1, <1>2 DEF Latest
  <2> QED
    BY <1>1, <2>1 DEF Contents
<1>4. restore # None /\ restore'.by = restore.by /\ restore.by \in up /\ restore \in Restores
  BY <1>1 DEF WriteStep, Restores
<1>5. backup # None /\ RestoredIsThere /\ \A l \in Keys : restore.left[l] \in {Absent, backup[l]}
  BY <1>4 DEF RestoreInv
<1> DEFINE by == restore.by
<1>6. \A l \in Keys \ {k} : (todo'[by] # None => todo[by] # None /\ todo'[by][l] = todo[by][l])
  <2>1. CASE todo' = todo
    BY <2>1
  <2>2. CASE todo[r] # None /\ todo' = [todo EXCEPT ![r] = [@ EXCEPT ![k] = Absent]]
    <3>1. todo[r] \in [Keys -> Values \cup {Absent}]
      BY <1>1, <2>2 DEF Plains
    <3>2. \A l \in Keys \ {k} : [todo[r] EXCEPT ![k] = Absent][l] = todo[r][l]
      BY <3>1
    <3> QED
      BY <1>1, <1>4, <2>2, <3>2
  <2> QED
    BY <2>1, <2>2 DEF WriteStep
<1>7. ASSUME NEW l \in Keys \ {k} PROVE Restored(l)' => Restored(l)
  BY <1>2, <1>4, <1>7 DEF Restored, WriteStep, Touch, Plains, Restores
<1>8. \A l \in Keys : restore'.left[l] \in {Absent, backup[l]}
  BY <1>4, <1>5 DEF WriteStep, Plains, Restores
<1>12. \A p \in restore'.sealed : restore'.left[p.key] # Absent /\ p.stored.val = restore'.left[p.key]
  BY <1>4 DEF WriteStep, Restores, RestoreInv
<1>13. dropped[by] \subseteq dropped'[by]
  BY <1>1, <1>4 DEF WriteStep, Sealed
<1>9. ASSUME Restored(k)' PROVE /\ restore.by = r /\ c.val = backup[k] /\ c # Absent
                                /\ c.gen = encKey[by] \/ c.gen \in dropped'[by]
  <2>1. k \notin touched'
    BY <1>9 DEF Restored
  <2>2. restore.by = r /\ restore.left[k] # Absent /\ c.val = restore.left[k] /\ c # Absent
    BY <1>4, <2>1 DEF WriteStep, Touch
  <2>3. restore.left[k] = backup[k]
    BY <1>5, <2>2
  <2> QED
    BY <2>2, <2>3 DEF WriteStep, Sealed
<1>10. prevEncKey[by] # encKey[by]
  BY <1>4 DEF KeyInv, Own
<1>11. RestoredIsThere'
  <2> SUFFICES ASSUME NEW l \in Keys, Restored(l)'
               PROVE  /\ Latest'[l] # Absent
                      /\ Latest'[l].val = backup[l]
                      /\ Latest'[l].gen \in dropped'[by] \/ Opens(Latest'[l], encKey[by], prevEncKey[by])
                      /\ todo'[by] # None /\ Latest'[l].gen = prevEncKey[by] =>
                            Latest'[l].gen \in dropped'[by] \/ todo'[by][l] # Absent
    BY <1>2, <1>4 DEF RestoredIsThere, Opens
  <2>1. CASE l = k
    BY <1>3, <1>9, <1>10, <2>1 DEF Opens
  <2>2. CASE l # k
    BY <1>3, <1>5, <1>6, <1>7, <1>13, <2>2 DEF RestoredIsThere
  <2> QED
    BY <2>1, <2>2
<1> QED
  BY <1>2, <1>5, <1>8, <1>11, <1>12 DEF RestoreInv

LEMMA RotateRestores == ASSUME Inv, KeyInv, RestoreInv, NEW r \in Replicas, Rotate(r) PROVE RestoreInv'
<1> SUFFICES ASSUME restore # None PROVE RestoreInv'
  BY DEF RestoreInv, Rotate, backups
<1> DEFINE g == gens + 1
           lost == dropped[r] \cup ({prevEncKey[r]} \ {NoKey})
                              \cup (IF applied[r] < Len(log) THEN {encKey[r]} ELSE {})
<1>1. /\ encKey' = [encKey EXCEPT ![r] = g] /\ prevEncKey' = [prevEncKey EXCEPT ![r] = encKey[r]]
      /\ dropped' = [dropped EXCEPT ![r] = lost]
      /\ todo' = [todo EXCEPT ![r] = IF ListOK(r, g, encKey[r]) THEN List(r) ELSE None]
      /\ UNCHANGED <<truth, applied, log, data, backup, restore, touched>>
  BY DEF Rotate, machine, backups
<1>2. /\ applied \in [Replicas -> 0 .. Len(log)] /\ encKey \in [Replicas -> 0 .. MaxGen]
      /\ prevEncKey \in [Replicas -> (0 .. MaxGen) \cup {NoKey}] /\ dropped \in [Replicas -> SUBSET Int]
      /\ todo \in [Replicas -> Plains \cup {None}] /\ Len(log) \in Nat /\ Len(truth) = Len(log) + 1
      /\ restore.by \in Replicas
  BY DEF Inv, TypeOK, KeyInv, KeyTypes, StoreInv, LogExplainsHistory, Restores
<1>3. CASE restore.by # r
  <2>1. encKey'[restore.by] = encKey[restore.by] /\ prevEncKey'[restore.by] = prevEncKey[restore.by]
        /\ dropped'[restore.by] = dropped[restore.by] /\ todo'[restore.by] = todo[restore.by]
    BY <1>1, <1>2, <1>3
  <2> QED
    BY <1>1, <2>1, KeepsRestored
<1>4. CASE restore.by = r
  <2>1. /\ encKey'[r] = g /\ prevEncKey'[r] = encKey[r] /\ dropped'[r] = lost
        /\ todo'[r] = (IF ListOK(r, g, encKey[r]) THEN List(r) ELSE None)
    BY <1>1, <1>2
  <2>2. encKey[r] # NoKey
    BY <1>2 DEF NoKey
  <2>3. ASSUME NEW k \in Keys, Latest[k] # Absent, todo'[r] # None, applied[r] = Len(log) PROVE todo'[r][k] # Absent
    <3>1. data[r][k] = Latest[k] /\ data[r][k] \in Ciphertext
      <4>1. data[r] = Latest
        BY <1>2, <2>3 DEF Latest, Inv, StoreInv, ViewsAreOfHistory
      <4> QED
        BY <2>3, <4>1 DEF Inv, TypeOK, Contents
    <3>2. data[r][k].val \in Values
      BY <3>1 DEF Ciphertext
    <3> QED
      BY <2>1, <2>3, <3>1, <3>2, AbsentAssumption DEF List
  <2>4. applied[r] < Len(log) \/ applied[r] = Len(log)
    BY <1>2
  <2>5. RestoredIsThere
    BY DEF RestoreInv
  <2>6. RestoredIsThere'
    <3> SUFFICES ASSUME NEW k \in Keys, Restored(k)
                 PROVE  /\ Latest[k] # Absent
                        /\ Latest[k].val = backup[k]
                        /\ Latest[k].gen \in lost \/ Opens(Latest[k], g, encKey[r])
                        /\ todo'[r] # None /\ Latest[k].gen = encKey[r] =>
                              Latest[k].gen \in lost \/ todo'[r][k] # Absent
      BY <1>1, <1>4, <2>1 DEF RestoredIsThere, Opens, Latest, Restored
    <3>1. /\ Latest[k] # Absent /\ Latest[k].val = backup[k]
          /\ Latest[k].gen \in dropped[r] \/ Opens(Latest[k], encKey[r], prevEncKey[r])
      BY <1>4, <2>5 DEF RestoredIsThere
    <3>2. Latest[k].gen \in lost \/ Opens(Latest[k], g, encKey[r])
      BY <2>2, <3>1 DEF Opens
    <3> QED
      BY <2>3, <2>4, <3>1, <3>2
  <2> QED
    BY <1>1, <2>6 DEF RestoreInv
<1> QED
  BY <1>3, <1>4

LEMMA ReencryptDoneRestores == ASSUME Inv, RestoreInv, NEW r \in Replicas, ReencryptDone(r) PROVE RestoreInv'
<1> SUFFICES ASSUME restore # None PROVE RestoreInv'
  BY DEF RestoreInv, ReencryptDone, backups
<1>1. /\ todo[r] = Empty /\ prevEncKey' = [prevEncKey EXCEPT ![r] = NoKey] /\ todo' = [todo EXCEPT ![r] = None]
      /\ UNCHANGED <<truth, encKey, dropped, backup, restore, touched>>
  BY DEF ReencryptDone, machine, backups
<1>2. /\ prevEncKey \in [Replicas -> (0 .. MaxGen) \cup {NoKey}] /\ todo \in [Replicas -> Plains \cup {None}]
      /\ restore.by \in Replicas
  BY DEF Inv, TypeOK, Restores
<1>3. CASE restore.by # r
  BY <1>1, <1>2, <1>3, KeepsRestored
<1>4. CASE restore.by = r
  <2>1. prevEncKey'[r] = NoKey /\ todo'[r] = None
    BY <1>1, <1>2
  <2>2. todo[r] # None
    <3>1. Empty \in Plains
      BY DEF Empty, Plains
    <3> QED
      BY <1>1, <3>1, NoneAssumption DEF Plains
  <2>3. \A k \in Keys : todo[r][k] = Absent
    BY <1>1 DEF Empty
  <2>4. RestoredIsThere'
    BY <1>1, <1>4, <2>1, <2>2, <2>3 DEF RestoreInv, RestoredIsThere, Restored, Latest, Opens
  <2> QED
    BY <1>1, <2>4 DEF RestoreInv
<1> QED
  BY <1>3, <1>4

LEMMA NextRestores == ASSUME Inv, KeyInv, RestoreInv, [Next]_vars PROVE RestoreInv'
<1>1. ASSUME NEW r \in Replicas, Elect(r) PROVE RestoreInv'
  <2>1. UNCHANGED <<truth, backup, restore, touched, encKey, prevEncKey, dropped, todo>>
    BY <1>1 DEF Elect, machine, keyring, backups
  <2> QED
    BY <2>1 DEF RestoreInv, RestoredIsThere, Restored, Latest, Opens
<1> QED
  BY <1>1, NextCases, QuietRestores, LifeRestores, WriteRestores, RotateRestores, ReencryptDoneRestores

LEMMA KeyInvHolds == Spec => [](Inv /\ KeyInv /\ RestoreInv)
<1>1. Init => Inv /\ KeyInv /\ RestoreInv
  BY InitInv, InitKeys DEF Init, RestoreInv
<1>2. Inv /\ KeyInv /\ RestoreInv /\ [Next]_vars => (Inv /\ KeyInv /\ RestoreInv)'
  BY NextInv, NextKeys, NextRestores
<1> QED
  BY <1>1, <1>2, PTL DEF Spec

(***************************************************************************)
(* Every reachable state of the replicas is well typed, however many there *)
(* are and whatever is restored: the state of raft.go and of the backups.  *)
(***************************************************************************)
THEOREM TypeCorrectness == Spec => []TypeOK
<1>1. Inv => TypeOK
  BY DEF Inv
<1> QED
  BY <1>1, InvHolds, PTL

(***************************************************************************)
(* Every replica's contents and every snapshot are those after some number *)
(* of writes (fsm.Apply, Snapshot, Persist and Restore in raft.go).        *)
(***************************************************************************)
THEOREM ViewsOfHistory == Spec => []ViewsAreOfHistory
<1>1. Inv => ViewsAreOfHistory
  BY DEF Inv, StoreInv
<1> QED
  BY <1>1, InvHolds, PTL

(***************************************************************************)
(* However many replicas, rotations, elections and restarts there are, a   *)
(* value a running replica (raft.go: encrypt, decrypt, RotateKey,          *)
(* ReencryptAll) cannot open is one whose key it never held, one whose key *)
(* it replaced with a Put under it still under way or a re-encryption      *)
(* undone, or the replica has been deposed since it drew a key.            *)
(***************************************************************************)
THEOREM KeyLossExplained == Spec => []KeyLossIsExplained
<1>1. Inv /\ KeyInv => KeyLossIsExplained
  <2> SUFFICES ASSUME Inv, KeyInv, NEW r \in up \ deposed, NEW k \in Keys,
                      data[r][k] # Absent, data[r][k].gen \in held[r], data[r][k].gen \notin dropped[r]
               PROVE  Opens(data[r][k], encKey[r], prevEncKey[r])
    BY DEF KeyLossIsExplained
  <2>1. r \in Replicas /\ applied[r] \in 0 .. Len(log) /\ Len(log) \in Nat /\ Len(truth) = Len(log) + 1
    BY DEF Inv, TypeOK, StoreInv, LogExplainsHistory
  <2>2. applied[r] + 1 \in Ahead(r) /\ data[r] = truth[applied[r] + 1]
    BY <2>1 DEF Ahead, Inv, StoreInv, ViewsAreOfHistory
  <2> QED
    BY <2>2 DEF KeyInv, Reads
<1> QED
  BY <1>1, KeyInvHolds, PTL

(***************************************************************************)
(* A RestoreBackup that reports success (backup_service.go) has stored     *)
(* every entry that nobody wrote after it, and the replica that did it can *)
(* read the entry, or it replaced the entry's key with a Put under it (the *)
(* restore's own, or a client's) still under way or a re-encryption undone.*)
(***************************************************************************)
THEOREM RestoresComplete == Spec => RestoreIsComplete
<1>1. RestoreInv /\ [Next]_vars =>
        [ RestoreDone =>
          \A k \in Keys :
              backup[k] # Absent /\ k \notin touched =>
                  /\ truth[Len(truth)][k] # Absent
                  /\ truth[Len(truth)][k].val = backup[k]
                  /\ \/ Opens(truth[Len(truth)][k], encKey[restore.by], prevEncKey[restore.by])
                     \/ truth[Len(truth)][k].gen \in dropped[restore.by] ]_vars
  BY DEF RestoreInv, RestoredIsThere, Restored, Latest, RestoreDone, Empty
<1> QED
  BY <1>1, KeyInvHolds, PTL DEF Spec, RestoreIsComplete

(***************************************************************************)
(* The replicated store (raft.go) implements the abstract store of         *)
(* KVStore: one history of writes, every replica at one point of it, and   *)
(* none going back on it while its process runs.                           *)
(***************************************************************************)
THEOREM StoreImplemented == Spec => ImplementsStore
<1>1. Init => KV!Init
  BY BootAssumption DEF Init, KV!Init, Empty, KV!Empty
<1>2. Inv /\ [Next]_vars => [KV!Next]_(KV!vars)
  BY NextInv
<1> QED
  BY <1>1, <1>2, InvHolds, PTL DEF Spec, KV!Spec, ImplementsStore
=============================================================================
