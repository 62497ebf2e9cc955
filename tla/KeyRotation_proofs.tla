------------------------- MODULE KeyRotation_proofs -------------------------
(***************************************************************************)
(* KeyRotation for every set of keys, plaintexts and writers and every     *)
(* number of rotations.                                                    *)
(***************************************************************************)
EXTENDS KeyRotation, TLAPS

\* A ciphertext is a record, so it is what its two fields say.
LEMMA CiphertextFields ==
  ASSUME NEW g \in Gens, NEW v \in Values
  PROVE  [gen |-> g, val |-> v] \in Ciphertext
  BY DEF Ciphertext

\* The empty or once-filled store satisfies the inductive invariant.
LEMMA InitIndInv == Init => IndInv
<1> SUFFICES ASSUME Init PROVE IndInv
  OBVIOUS
<1>0. 0 \in Gens /\ NoKey \notin Gens
  BY MaxGenAssumption DEF Gens, NoKey
<1>1. \A k \in Keys : data[k] # Absent => data[k].gen = 0 /\ data[k].val \in Values /\ data[k] \in Ciphertext
  <2> SUFFICES ASSUME NEW k \in Keys, data[k] # Absent
               PROVE  data[k].gen = 0 /\ data[k].val \in Values /\ data[k] \in Ciphertext
    OBVIOUS
  <2>1. data[k] \in [gen : {0}, val : Values]
    BY DEF Init
  <2> QED
    BY <2>1, <1>0 DEF Ciphertext
<1>2. TypeOK
  <2>1. data \in [Keys -> {Absent} \cup Ciphertext]
    BY <1>1 DEF Init
  <2>2. latest \in [Keys -> {Absent} \cup Values]
    BY <1>1 DEF Init
  <2>3. put \in [Writers -> {NoPut} \cup Pending]
    BY DEF Init
  <2>4. leading \in BOOLEAN /\ running \in BOOLEAN
    BY DEF Init
  <2>5. todo \in [Keys -> {Absent} \cup Values]
    BY DEF Init
  <2> QED
    BY <1>0, <2>1, <2>2, <2>3, <2>4, <2>5 DEF Init, TypeOK
<1>3. UnreadableIsExplained
  BY <1>1 DEF Init, UnreadableIsExplained, Decryptable
<1>4. ReencryptionPreservesValues
  BY <1>1 DEF Init, ReencryptionPreservesValues, Plain
<1>5. ReencryptedAreCurrent /\ CopiesAreCurrent
  BY DEF Init, ReencryptedAreCurrent, CopiesAreCurrent
<1> QED
  BY <1>2, <1>3, <1>4, <1>5 DEF IndInv

\* Every step keeps the variables in their types.
LEMMA NextTypeOK == TypeOK /\ [Next]_vars => TypeOK'
<1> SUFFICES ASSUME TypeOK, [Next]_vars PROVE TypeOK'
  OBVIOUS
<1> USE MaxGenAssumption DEF TypeOK, store, raft, rotator, history
<1>1. CASE GainLeadership
  BY <1>1 DEF GainLeadership
<1>2. CASE LoseLeadership
  BY <1>2 DEF LoseLeadership
<1>3. CASE StartManager
  BY <1>3 DEF StartManager
<1>4. CASE StopManager
  BY <1>4 DEF StopManager
<1>5. ASSUME NEW w \in Writers, NEW k \in Keys, NEW v \in Values, PutEncrypt(w, k, v)
      PROVE  TypeOK'
  <2>1. [key |-> k, gen |-> encKey, val |-> v] \in Pending
    BY DEF Pending
  <2> QED
    BY <1>5, <2>1 DEF PutEncrypt, encrypt
<1>6. ASSUME NEW w \in Writers, PutApply(w) PROVE TypeOK'
  <2>1. put[w] \in Pending
    BY <1>6 DEF PutApply
  <2>2. /\ put[w].key \in Keys
        /\ put[w].val \in Values
        /\ [gen |-> put[w].gen, val |-> put[w].val] \in Ciphertext
    BY <2>1 DEF Pending, Ciphertext
  <2> QED
    BY <1>6, <2>2 DEF PutApply, OvertakenAfter
<1>7. ASSUME NEW w \in Writers, PutFail(w) PROVE TypeOK'
  BY <1>7 DEF PutFail
<1>8. ASSUME NEW k \in Keys, Delete(k) PROVE TypeOK'
  BY <1>8 DEF Delete, OvertakenAfter
<1>9. CASE RotateEncryptionKey
  <2>1. encKey + 1 \in Gens
    BY <1>9 DEF RotateEncryptionKey, Gens
  <2> QED
    BY <1>9, <2>1 DEF RotateEncryptionKey
<1>10. CASE ReencryptList
  <2>1. \A k \in Keys : Plain(k) \in {Absent} \cup Values
    BY DEF Plain, Ciphertext
  <2> QED
    BY <1>10, <2>1 DEF ReencryptList
<1>11. ASSUME NEW k \in Keys, ReencryptPut(k) PROVE TypeOK'
  <2>1. encrypt(todo[k]) \in Ciphertext
    BY <1>11 DEF ReencryptPut, encrypt, Ciphertext
  <2> QED
    BY <1>11, <2>1 DEF ReencryptPut
<1>12. CASE ReencryptFail
  BY <1>12 DEF ReencryptFail
<1>13. CASE ReencryptDone
  BY <1>13 DEF ReencryptDone
<1>14. CASE UNCHANGED vars
  BY <1>14 DEF vars
<1> QED
  BY <1>1, <1>2, <1>3, <1>4, <1>5, <1>6, <1>7, <1>8, <1>9, <1>10, <1>11, <1>12,
     <1>13, <1>14 DEF Next, Rotator

-----------------------------------------------------------------------------
\* Shared facts about one step: what a Put applies, and that a listed value
\* is a plaintext.
LEMMA PendingIsPut ==
  ASSUME TypeOK, NEW w \in Writers, put[w] # NoPut
  PROVE  /\ put[w].key \in Keys
         /\ put[w].gen \in Gens
         /\ put[w].val \in Values
  BY DEF TypeOK, Pending

LEMMA PlainOfPresent ==
  ASSUME TypeOK, NEW k \in Keys
  PROVE  /\ data[k] # Absent => /\ Plain(k) = data[k].val
                                /\ Plain(k) \in Values
                                /\ Plain(k) # Absent
         /\ data[k] = Absent => Plain(k) = Absent
  BY AbsentAssumption DEF TypeOK, Plain, Ciphertext

\* A stored ciphertext is never mistaken for the absence of a value.
LEMMA CiphertextIsPresent ==
  ASSUME TypeOK, NEW k \in Keys, NEW g \in Gens, NEW v \in Values,
         data' = [data EXCEPT ![k] = [gen |-> g, val |-> v]]
  PROVE  /\ data'[k] # Absent
         /\ data'[k].gen = g
         /\ data'[k].val = v
         /\ \A j \in Keys \ {k} : data'[j] = data[j]
<1>1. [gen |-> g, val |-> v] \in [gen : Nat, val : Values]
  BY MaxGenAssumption DEF Gens
<1> QED
  BY <1>1, AbsentAssumption DEF TypeOK

\* The steps of Raft and of the manager, a Put's first half and a Put that
\* fails change nothing the invariant speaks of.
LEMMA QuietSteps ==
  ASSUME IndInv, UNCHANGED <<data, encKey, prevEncKey, pc, todo, latest,
                             escaped, abandoned, overtaken>>, TypeOK'
  PROVE  IndInv'
  BY DEF IndInv, UnreadableIsExplained, ReencryptionPreservesValues,
         ReencryptedAreCurrent, CopiesAreCurrent, Plain, Decryptable
\* The second half of a Put.
LEMMA PutApplyIndInv ==
  ASSUME IndInv, TypeOK', NEW w \in Writers, PutApply(w)
  PROVE  IndInv'
<1> DEFINE k == put[w].key
           g == put[w].gen
           v == put[w].val
<1>1. TypeOK /\ put[w] # NoPut
  BY DEF IndInv, PutApply
<1>2. k \in Keys /\ g \in Gens /\ v \in Values
  BY <1>1, PendingIsPut
<1>3. data' = [data EXCEPT ![k] = [gen |-> g, val |-> v]]
  BY DEF PutApply
<1>4. /\ data'[k] # Absent
      /\ data'[k].gen = g
      /\ data'[k].val = v
      /\ \A j \in Keys \ {k} : data'[j] = data[j]
  BY <1>1, <1>2, <1>3, CiphertextIsPresent
<1>5. /\ latest' = [latest EXCEPT ![k] = v]
      /\ escaped' = IF g = encKey THEN escaped \ {k} ELSE escaped \cup {k}
      /\ overtaken' = IF todo[k] # Absent THEN overtaken \cup {k} ELSE overtaken \ {k}
      /\ UNCHANGED <<encKey, prevEncKey, pc, todo, abandoned>>
  BY DEF PutApply, OvertakenAfter, raft, rotator
<1>6. latest'[k] = v /\ \A j \in Keys \ {k} : latest'[j] = latest[j]
  BY <1>1, <1>2, <1>5 DEF TypeOK
<1> HIDE DEF k, g, v
<1>7. UnreadableIsExplained'
  BY <1>2, <1>4, <1>5 DEF IndInv, UnreadableIsExplained, Decryptable
<1>8. ReencryptionPreservesValues'
  BY <1>2, <1>4, <1>5, <1>6 DEF IndInv, ReencryptionPreservesValues, Plain
<1>9. ReencryptedAreCurrent'
  BY <1>2, <1>4, <1>5 DEF IndInv, ReencryptedAreCurrent
<1>10. CopiesAreCurrent'
  BY <1>2, <1>5, <1>6 DEF IndInv, CopiesAreCurrent
<1> QED
  BY <1>7, <1>8, <1>9, <1>10 DEF IndInv

\* A deletion.
LEMMA DeleteIndInv ==
  ASSUME IndInv, TypeOK', NEW k \in Keys, Delete(k)
  PROVE  IndInv'
<1>1. /\ data'[k] = Absent
      /\ latest'[k] = Absent
      /\ \A j \in Keys \ {k} : data'[j] = data[j] /\ latest'[j] = latest[j]
      /\ escaped' = escaped \ {k}
      /\ overtaken' = IF todo[k] # Absent THEN overtaken \cup {k} ELSE overtaken \ {k}
      /\ UNCHANGED <<encKey, prevEncKey, pc, todo, abandoned>>
  BY DEF IndInv, TypeOK, Delete, OvertakenAfter, raft, rotator
<1>2. UnreadableIsExplained'
  BY <1>1 DEF IndInv, UnreadableIsExplained, Decryptable
<1>3. ReencryptionPreservesValues'
  BY <1>1 DEF IndInv, ReencryptionPreservesValues, Plain
<1>4. ReencryptedAreCurrent'
  BY <1>1 DEF IndInv, ReencryptedAreCurrent
<1>5. CopiesAreCurrent'
  BY <1>1 DEF IndInv, CopiesAreCurrent
<1> QED
  BY <1>2, <1>3, <1>4, <1>5 DEF IndInv

\* A rotation: what was current becomes previous, what was previous is abandoned.
LEMMA RotateIndInv ==
  ASSUME IndInv, TypeOK', RotateEncryptionKey
  PROVE  IndInv'
<1>1. /\ prevEncKey' = encKey
      /\ encKey' = encKey + 1
      /\ abandoned' = abandoned \cup ({prevEncKey} \ {NoKey})
      /\ pc' = "rotated"
      /\ UNCHANGED <<data, todo, latest, escaped, overtaken>>
  BY DEF RotateEncryptionKey
<1>2. encKey # NoKey
  BY DEF IndInv, TypeOK, Gens, NoKey
<1>3. UnreadableIsExplained'
  BY <1>1, <1>2 DEF IndInv, UnreadableIsExplained, Decryptable
<1>4. ReencryptionPreservesValues' /\ CopiesAreCurrent'
  BY <1>1 DEF IndInv, ReencryptionPreservesValues, CopiesAreCurrent, Plain
<1>5. ReencryptedAreCurrent'
  BY <1>1 DEF ReencryptedAreCurrent
<1> QED
  BY <1>3, <1>4, <1>5 DEF IndInv

\* ReencryptAll's List: everything present is now held as a copy.
LEMMA ReencryptListIndInv ==
  ASSUME IndInv, TypeOK', ReencryptList
  PROVE  IndInv'
<1>1. UNCHANGED <<data, encKey, prevEncKey, latest, escaped, abandoned, overtaken>>
  BY DEF ReencryptList, store, history
<1>2. UnreadableIsExplained' /\ ReencryptionPreservesValues'
  BY <1>1 DEF IndInv, UnreadableIsExplained, ReencryptionPreservesValues, Decryptable, Plain
<1>3. CASE ListOK
  <2>1. pc' = "reencrypting" /\ todo' = [k \in Keys |-> Plain(k)]
    BY <1>3 DEF ReencryptList
  <2>2. ReencryptedAreCurrent'
    BY <1>1, <2>1, PlainOfPresent DEF IndInv, ReencryptedAreCurrent
  <2>3. CopiesAreCurrent'
    BY <1>1, <2>1 DEF IndInv, CopiesAreCurrent, ReencryptionPreservesValues
  <2> QED
    BY <1>2, <2>2, <2>3 DEF IndInv
<1>4. CASE ~ListOK
  <2>1. pc' = "idle" /\ UNCHANGED todo
    BY <1>4 DEF ReencryptList
  <2> QED
    BY <1>1, <1>2, <2>1 DEF IndInv, ReencryptedAreCurrent, CopiesAreCurrent
<1> QED
  BY <1>3, <1>4

\* One Put of ReencryptAll's loop.
LEMMA ReencryptPutIndInv ==
  ASSUME IndInv, TypeOK', NEW k \in Keys, ReencryptPut(k)
  PROVE  IndInv'
<1>1. todo[k] \in Values /\ todo[k] # Absent /\ encKey \in Gens /\ TypeOK
  BY DEF IndInv, TypeOK, ReencryptPut
<1>2. data' = [data EXCEPT ![k] = [gen |-> encKey, val |-> todo[k]]]
  BY DEF ReencryptPut, encrypt
<1>3. /\ data'[k] # Absent
      /\ data'[k].gen = encKey
      /\ data'[k].val = todo[k]
      /\ \A j \in Keys \ {k} : data'[j] = data[j]
  BY <1>1, <1>2, CiphertextIsPresent
<1>4. /\ todo'[k] = Absent
      /\ \A j \in Keys \ {k} : todo'[j] = todo[j]
      /\ escaped' = escaped \ {k}
      /\ UNCHANGED <<encKey, prevEncKey, pc, latest, abandoned, overtaken>>
  BY DEF IndInv, TypeOK, ReencryptPut
<1>5. UnreadableIsExplained'
  BY <1>3, <1>4 DEF IndInv, UnreadableIsExplained, Decryptable
<1>6. ReencryptionPreservesValues'
  BY <1>1, <1>3, <1>4 DEF IndInv, ReencryptionPreservesValues, CopiesAreCurrent, Plain
<1>7. ReencryptedAreCurrent'
  BY <1>3, <1>4 DEF IndInv, ReencryptedAreCurrent
<1>8. CopiesAreCurrent'
  BY <1>4 DEF IndInv, CopiesAreCurrent
<1> QED
  BY <1>5, <1>6, <1>7, <1>8 DEF IndInv

\* The end of ReencryptAll, by an error or by forgetting the previous key.
LEMMA ReencryptEndIndInv ==
  ASSUME IndInv, TypeOK', ReencryptFail \/ ReencryptDone
  PROVE  IndInv'
<1>1. CASE ReencryptFail
  <2>1. /\ pc' = "idle"
        /\ \A k \in Keys : todo'[k] = Absent
        /\ UNCHANGED <<data, encKey, prevEncKey, latest, escaped, abandoned, overtaken>>
    BY <1>1 DEF ReencryptFail, store, history
  <2> QED
    BY <2>1 DEF IndInv, UnreadableIsExplained, ReencryptionPreservesValues,
                ReencryptedAreCurrent, CopiesAreCurrent, Plain, Decryptable
<1>2. CASE ReencryptDone
  <2>1. /\ pc = "reencrypting"
        /\ \A k \in Keys : todo[k] = Absent
        /\ prevEncKey' = NoKey
        /\ pc' = "idle"
        /\ UNCHANGED <<data, encKey, todo, latest, escaped, abandoned, overtaken>>
    BY <1>2 DEF ReencryptDone, history
  <2>2. UnreadableIsExplained'
    BY <2>1 DEF IndInv, UnreadableIsExplained, ReencryptedAreCurrent, Decryptable
  <2> QED
    BY <2>1, <2>2 DEF IndInv, ReencryptionPreservesValues, ReencryptedAreCurrent,
                      CopiesAreCurrent, Plain
<1> QED
  BY <1>1, <1>2

LEMMA NextIndInv == IndInv /\ [Next]_vars => IndInv'
<1> SUFFICES ASSUME IndInv, [Next]_vars PROVE IndInv'
  OBVIOUS
<1>0. TypeOK'
  BY NextTypeOK DEF IndInv
<1>1. CASE \/ GainLeadership \/ LoseLeadership \/ StartManager \/ StopManager
           \/ \E w \in Writers, k \in Keys, v \in Values : PutEncrypt(w, k, v)
           \/ \E w \in Writers : PutFail(w)
           \/ UNCHANGED vars
  <2>1. UNCHANGED <<data, encKey, prevEncKey, pc, todo, latest,
                    escaped, abandoned, overtaken>>
    BY <1>1 DEF GainLeadership, LoseLeadership, StartManager, StopManager,
                PutEncrypt, PutFail, vars, store, rotator, history
  <2> QED
    BY <1>0, <2>1, QuietSteps
<1>2. CASE \E w \in Writers : PutApply(w)
  BY <1>0, <1>2, PutApplyIndInv
<1>3. CASE \E k \in Keys : Delete(k)
  BY <1>0, <1>3, DeleteIndInv
<1>4. CASE RotateEncryptionKey
  BY <1>0, <1>4, RotateIndInv
<1>5. CASE ReencryptList
  BY <1>0, <1>5, ReencryptListIndInv
<1>6. CASE \E k \in Keys : ReencryptPut(k)
  BY <1>0, <1>6, ReencryptPutIndInv
<1>7. CASE ReencryptFail \/ ReencryptDone
  BY <1>0, <1>7, ReencryptEndIndInv
<1> QED
  BY <1>1, <1>2, <1>3, <1>4, <1>5, <1>6, <1>7 DEF Next, Rotator

\* The inductive invariant holds of every behaviour.
THEOREM Invariance == Spec => []IndInv
  BY InitIndInv, NextIndInv, PTL DEF Spec

\* Type correctness of the store, its rotator and their history.
THEOREM TypeCorrectness == Spec => []TypeOK
<1>1. IndInv => TypeOK
  BY DEF IndInv
<1> QED
  BY <1>1, Invariance, PTL

\* RaftStore.Get fails to open a value only after a Put that straddled a
\* rotation or a rotation that followed a failed ReencryptAll.
THEOREM UnreadableExplained == Spec => []UnreadableIsExplained
<1>1. IndInv => UnreadableIsExplained
  BY DEF IndInv
<1> QED
  BY <1>1, Invariance, PTL

\* ReencryptAll changes a plaintext only under a concurrent writer.
THEOREM ReencryptionPreserves == Spec => []ReencryptionPreservesValues
<1>1. IndInv => ReencryptionPreservesValues
  BY DEF IndInv
<1> QED
  BY <1>1, Invariance, PTL

\* When ReencryptAll forgets the previous key, no value it listed needs it.
THEOREM RotationRetiresOldKey == Spec => CompletedRotationRetiresOldKey
<1>1. IndInv /\ [Next]_vars =>
        [ReencryptDone =>
           \A k \in Keys : data[k] # Absent /\ data[k].gen # encKey => k \in escaped]_vars
  BY DEF IndInv, ReencryptedAreCurrent, ReencryptDone
<1> QED
  BY <1>1, Invariance, PTL DEF Spec, CompletedRotationRetiresOldKey
=============================================================================
