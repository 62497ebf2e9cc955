----------------------------- MODULE KeyRotation -----------------------------
(***************************************************************************)
(* Encryption at rest in one RaftStore (internal/store/raft.go) and the    *)
(* controller that rotates its key (internal/controller/key_rotation.go),  *)
(* on the replica that leads.                                              *)
(*                                                                         *)
(* A data-encryption key is its generation: 0 is the key the process was   *)
(* configured with, every rotation draws the next one.  A ciphertext is    *)
(* the pair of the generation that sealed it and the plaintext; AES-GCM    *)
(* opens it under that generation and under no other.  The interleavings   *)
(* are those of the code: RaftStore.Put seals the value under keyMu and    *)
(* hands it to Raft after it has released keyMu, RotateEncryptionKey       *)
(* swaps the keys in one critical section, and ReencryptAll is a List      *)
(* followed by one Put per key followed by a critical section that forgets *)
(* the previous key.                                                       *)
(***************************************************************************)
EXTENDS Integers

CONSTANTS
    Keys,      \* registry keys
    Values,    \* plaintexts
    Writers,   \* API handlers and controllers that write through the store
    Absent,    \* no value under this key
    NoPut,     \* the writer has no Put under way
    MaxGen     \* bound: generations drawn by the rotator

ASSUME AbsentAssumption == Absent \notin Values \cup [gen : Nat, val : Values]
ASSUME NoPutAssumption == NoPut \notin [key : Keys, gen : Nat, val : Values]
ASSUME MaxGenAssumption == MaxGen \in Nat

VARIABLES
    data,        \* fsm.data: the replicated ciphertexts
    encKey,      \* RaftStore.encKey
    prevEncKey,  \* RaftStore.prevEncKey, NoKey when nil
    leading,     \* RaftStore.IsLeader()
    running,     \* RunWhileLeader's manager (hence the rotator) is running
    put,         \* per writer: a Put between encrypt and apply
    pc,          \* where the rotator is
    todo,        \* ReencryptAll: the listed plaintexts still to be written back
    \* history, read by no action's guard:
    latest,      \* what the writers last stored under each key
    escaped,     \* keys whose ciphertext was sealed before a rotation and applied after it
    abandoned,   \* generations forgotten by a rotation before they were re-encrypted away
    overtaken    \* keys a writer last changed while ReencryptAll held an older copy of them

store == <<data, encKey, prevEncKey>>
raft == <<leading, running>>
rotator == <<pc, todo>>
history == <<latest, escaped, abandoned, overtaken>>
vars == <<data, encKey, prevEncKey, leading, running, put, pc, todo,
          latest, escaped, abandoned, overtaken>>

NoKey == -1
Gens == 0 .. MaxGen
Ciphertext == [gen : Gens, val : Values]
Pending == [key : Keys, gen : Gens, val : Values]

(***************************************************************************)
(* encrypt / decrypt.  decrypt tries the current key, then the previous    *)
(* one when there is one.                                                  *)
(***************************************************************************)
encrypt(v) == [gen |-> encKey, val |-> v]

Decryptable(c) ==
    \/ c.gen = encKey
    \/ prevEncKey # NoKey /\ c.gen = prevEncKey

\* RaftStore.List fails as a whole when one value does not decrypt.
ListOK == \A k \in Keys : data[k] # Absent => Decryptable(data[k])

Plain(k) == IF data[k] = Absent THEN Absent ELSE data[k].val

(***************************************************************************)
(* Initially the store is empty or was filled under the configured key.    *)
(***************************************************************************)
Init ==
    /\ data \in [Keys -> {Absent} \cup [gen : {0}, val : Values]]
    /\ encKey = 0
    /\ prevEncKey = NoKey
    /\ leading = FALSE
    /\ running = FALSE
    /\ put = [w \in Writers |-> NoPut]
    /\ pc = "idle"
    /\ todo = [k \in Keys |-> Absent]
    /\ latest = [k \in Keys |-> IF data[k] = Absent THEN Absent ELSE data[k].val]
    /\ escaped = {}
    /\ abandoned = {}
    /\ overtaken = {}

(***************************************************************************)
(* Leadership, as the code in src/ sees it: IsLeader changes under it.     *)
(***************************************************************************)
GainLeadership ==
    /\ ~leading
    /\ leading' = TRUE
    /\ UNCHANGED <<store, running, put, rotator, history>>

LoseLeadership ==
    /\ leading
    /\ leading' = FALSE
    /\ UNCHANGED <<store, running, put, rotator, history>>

\* RunWhileLeader starts the manager when it polls IsLeader and finds it true.
StartManager ==
    /\ leading
    /\ ~running
    /\ running' = TRUE
    /\ UNCHANGED <<store, leading, put, rotator, history>>

\* cancel(); <-done: the manager is gone only when the rotator has returned
\* to its select.
StopManager ==
    /\ ~leading
    /\ running
    /\ pc = "idle"
    /\ running' = FALSE
    /\ UNCHANGED <<store, leading, put, rotator, history>>

(***************************************************************************)
(* RaftStore.Put, first half: encrypt reads encKey and releases keyMu.     *)
(***************************************************************************)
PutEncrypt(w, k, v) ==
    /\ put[w] = NoPut
    /\ LET c == encrypt(v)
       IN  put' = [put EXCEPT ![w] = [key |-> k, gen |-> c.gen, val |-> c.val]]
    /\ UNCHANGED <<store, raft, rotator, history>>

(***************************************************************************)
(* RaftStore.Put, second half: apply refuses when this replica does not    *)
(* lead; raft.Apply may also commit and still report an error, which is    *)
(* the same store step as success.                                         *)
(***************************************************************************)
OvertakenAfter(k) == IF todo[k] # Absent THEN overtaken \cup {k} ELSE overtaken \ {k}

PutApply(w) ==
    /\ put[w] # NoPut
    /\ leading
    /\ LET p == put[w]
       IN  /\ data' = [data EXCEPT ![p.key] = [gen |-> p.gen, val |-> p.val]]
           /\ latest' = [latest EXCEPT ![p.key] = p.val]
           /\ escaped' = IF p.gen = encKey THEN escaped \ {p.key}
                                           ELSE escaped \cup {p.key}
           /\ overtaken' = OvertakenAfter(p.key)
    /\ put' = [put EXCEPT ![w] = NoPut]
    /\ UNCHANGED <<encKey, prevEncKey, raft, rotator, abandoned>>

\* ErrNotLeader, or raft.Apply lost the entry.
PutFail(w) ==
    /\ put[w] # NoPut
    /\ put' = [put EXCEPT ![w] = NoPut]
    /\ UNCHANGED <<store, raft, rotator, history>>

Delete(k) ==
    /\ leading
    /\ data' = [data EXCEPT ![k] = Absent]
    /\ latest' = [latest EXCEPT ![k] = Absent]
    /\ escaped' = escaped \ {k}
    /\ overtaken' = OvertakenAfter(k)
    /\ UNCHANGED <<encKey, prevEncKey, raft, put, rotator, abandoned>>

(***************************************************************************)
(* KeyRotationReconciler.rotate: RotateEncryptionKey with a fresh key.  It *)
(* does not look at IsLeader, and it forgets prevEncKey whether or not the *)
(* last ReencryptAll came to its end.                                      *)
(***************************************************************************)
RotateEncryptionKey ==
    /\ running
    /\ pc = "idle"
    /\ encKey < MaxGen
    /\ prevEncKey' = encKey
    /\ encKey' = encKey + 1
    /\ abandoned' = abandoned \cup ({prevEncKey} \ {NoKey})
    /\ pc' = "rotated"
    /\ UNCHANGED <<data, raft, put, todo, latest, escaped, overtaken>>

\* Mutant: a failed List is tried again instead of being reported.
ReencryptList_Retries ==
    /\ pc = "rotated"
    /\ IF ListOK
       THEN pc' = "reencrypting" /\ todo' = [k \in Keys |-> Plain(k)]
       ELSE UNCHANGED rotator
    /\ UNCHANGED <<store, raft, put, history>>

\* ReencryptAll's List.  On an error the rotator gives up and prevEncKey stays.
ReencryptList ==
    /\ pc = "rotated"
    /\ IF ListOK
       THEN /\ pc' = "reencrypting"
            /\ todo' = [k \in Keys |-> Plain(k)]
       ELSE /\ pc' = "idle"
            /\ UNCHANGED todo
    /\ UNCHANGED <<store, raft, put, history>>

\* Mutants of the loop's Put: it writes the plaintext itself; it writes the copy
\* under a key that is not its own.
ReencryptWrites(k, j, c) ==
    /\ pc = "reencrypting"
    /\ todo[k] # Absent
    /\ leading
    /\ data' = [data EXCEPT ![j] = c]
    /\ escaped' = escaped \ {j}
    /\ todo' = [todo EXCEPT ![k] = Absent]
    /\ UNCHANGED <<encKey, prevEncKey, raft, put, pc, latest, abandoned, overtaken>>

ReencryptPut_Plaintext(k) == ReencryptWrites(k, k, todo[k])
ReencryptPut_OtherKey(k) == \E j \in Keys : ReencryptWrites(k, j, encrypt(todo[k]))

(***************************************************************************)
(* One Put of ReencryptAll's loop.  Only the rotator changes encKey, so    *)
(* its own encrypt and apply cannot be separated by a rotation.            *)
(***************************************************************************)
ReencryptPut(k) ==
    /\ pc = "reencrypting"
    /\ todo[k] # Absent
    /\ leading
    /\ data' = [data EXCEPT ![k] = encrypt(todo[k])]
    /\ escaped' = escaped \ {k}
    /\ todo' = [todo EXCEPT ![k] = Absent]
    /\ UNCHANGED <<encKey, prevEncKey, raft, put, pc, latest, abandoned, overtaken>>

\* A Put of the loop fails: the rest is not written and prevEncKey stays.
ReencryptFail ==
    /\ pc = "reencrypting"
    /\ \E k \in Keys : todo[k] # Absent
    /\ pc' = "idle"
    /\ todo' = [k \in Keys |-> Absent]
    /\ UNCHANGED <<store, raft, put, history>>

\* Mutant: prevEncKey = nil although the loop is not over.
ReencryptDone_Early ==
    /\ pc = "reencrypting"
    /\ prevEncKey' = NoKey
    /\ todo' = [k \in Keys |-> Absent]
    /\ pc' = "idle"
    /\ UNCHANGED <<data, encKey, raft, put, history>>

\* Mutant: the loop ends before all is written, and the previous key is kept.
ReencryptDone_Partial ==
    /\ pc = "reencrypting"
    /\ todo' = [k \in Keys |-> Absent]
    /\ pc' = "idle"
    /\ UNCHANGED <<data, encKey, prevEncKey, raft, put, history>>

\* The loop is over: prevEncKey = nil.
ReencryptDone ==
    /\ pc = "reencrypting"
    /\ \A k \in Keys : todo[k] = Absent
    /\ prevEncKey' = NoKey
    /\ pc' = "idle"
    /\ UNCHANGED <<data, encKey, raft, put, todo, history>>

Rotator ==
    \/ ReencryptList
    \/ \E k \in Keys : ReencryptPut(k)
    \/ ReencryptFail
    \/ ReencryptDone

Next ==
    \/ GainLeadership
    \/ LoseLeadership
    \/ StartManager
    \/ StopManager
    \/ \E w \in Writers, k \in Keys, v \in Values : PutEncrypt(w, k, v)
    \/ \E w \in Writers : PutApply(w)
    \/ \E w \in Writers : PutFail(w)
    \/ \E k \in Keys : Delete(k)
    \/ RotateEncryptionKey
    \/ Rotator

Spec == Init /\ [][Next]_vars

(***************************************************************************)
(* A goroutine inside ReencryptAll is scheduled again until it returns:    *)
(* every step of it is a call that ends or times out.                      *)
(***************************************************************************)
FairSpec == Spec /\ WF_vars(Rotator)

-----------------------------------------------------------------------------
(***************************************************************************)
(* The type of every variable: whatever is stored, held by a Put or held   *)
(* by the rotator was sealed by encrypt under one of the keys.             *)
(***************************************************************************)
TypeOK ==
    /\ data \in [Keys -> {Absent} \cup Ciphertext]
    /\ encKey \in Gens
    /\ prevEncKey \in Gens \cup {NoKey}
    /\ leading \in BOOLEAN
    /\ running \in BOOLEAN
    /\ put \in [Writers -> {NoPut} \cup Pending]
    /\ pc \in {"idle", "rotated", "reencrypting"}
    /\ todo \in [Keys -> {Absent} \cup Values]
    /\ latest \in [Keys -> {Absent} \cup Values]
    /\ escaped \subseteq Keys
    /\ abandoned \subseteq Gens
    /\ overtaken \subseteq Keys

(***************************************************************************)
(* RaftStore.Get finds a value it cannot open only in the two ways the     *)
(* code leaves open: the value was sealed by a Put that straddled a        *)
(* rotation, or its key was pushed out of prevEncKey by a second rotation  *)
(* after a ReencryptAll that returned early.  In particular ReencryptAll   *)
(* never forgets a key that a value it listed still needs.                 *)
(***************************************************************************)
UnreadableIsExplained ==
    \A k \in Keys :
        data[k] # Absent /\ ~Decryptable(data[k]) =>
            \/ k \in escaped
            \/ data[k].gen \in abandoned

(***************************************************************************)
(* Re-encryption changes no plaintext behind the writers' backs: a key     *)
(* reads back as what was last stored under it, unless a writer changed it *)
(* while ReencryptAll (which writes back what it listed) was under way.    *)
(***************************************************************************)
ReencryptionPreservesValues ==
    \A k \in Keys : Plain(k) # latest[k] => k \in overtaken

(***************************************************************************)
(* The inductive invariant: while ReencryptAll runs, a key it has already  *)
(* written back (or never listed) is sealed under the current key, and the *)
(* copies it still holds are current unless a writer overtook them.        *)
(***************************************************************************)
ReencryptedAreCurrent ==
    pc = "reencrypting" =>
        \A k \in Keys :
            todo[k] = Absent /\ data[k] # Absent =>
                data[k].gen = encKey \/ k \in escaped

CopiesAreCurrent ==
    \A k \in Keys : todo[k] # Absent /\ todo[k] # latest[k] => k \in overtaken

IndInv ==
    /\ TypeOK
    /\ UnreadableIsExplained
    /\ ReencryptionPreservesValues
    /\ ReencryptedAreCurrent
    /\ CopiesAreCurrent

(***************************************************************************)
(* Once a rotation has completed (prevEncKey is nil again), the old key    *)
(* opens nothing but what a straddling Put sealed or an abandoned rotation *)
(* left behind: "the old key can still decrypt data" must not happen for   *)
(* data that was there when ReencryptAll listed it.                        *)
(***************************************************************************)
CompletedRotationRetiresOldKey ==
    [][ ReencryptDone =>
          \A k \in Keys : data[k] # Absent /\ data[k].gen # encKey => k \in escaped ]_vars

(***************************************************************************)
(* A rotation that started comes to an end, whatever the writers and the   *)
(* elections do: the rotator's goroutine returns to its select, so that    *)
(* RunWhileLeader's <-done does not block for ever.                        *)
(***************************************************************************)
RotationEnds == pc # "idle" ~> pc = "idle"

(***************************************************************************)
(* What internal/store/rotation_test.go expects of a rotation: data stays  *)
(* readable, under the current key or through the fallback to the previous *)
(* one.                                                                    *)
(***************************************************************************)
RotationKeepsDataReadable ==
    \A k \in Keys : data[k] # Absent => Decryptable(data[k])
=============================================================================
