-------------------------- MODULE Heartbeats_proofs --------------------------
(***************************************************************************)
(* The mesh client and the nodes.  First the client by itself, for any set *)
(* of concurrent calls, threshold and number of attempts: the breaker      *)
(* counts correctly and a half-open breaker has a trial under way.  Then   *)
(* both together, for any set of nodes and calls: a step of the            *)
(* composition is a step of the client, with two exceptions (the agent     *)
(* dies, a heartbeat finds its node deleted), so the client's invariant    *)
(* carries over; the nodes have their own.                                 *)
(***************************************************************************)
EXTENDS Heartbeats, TLAPS

-----------------------------------------------------------------------------
(* The mesh client by itself *)

\* Whatever the arguments, threshold and attempts are positive.
LEMMA PositiveParameters == Threshold \in Nat \ {0} /\ Attempts \in Nat \ {0}
BY ThresholdAssumption, AttemptsAssumption DEF Threshold, Attempts

\* The conjunction is inductive as it stands: each part needs only TypeOK.
Inv == TypeOK /\ OpenCountsFailures /\ HalfOpenHasTrial

\* What the operations of the breaker leave of OpenCountsFailures.
LEMMA BreakerCounts ==
    ASSUME TypeOK, OpenCountsFailures, Allow \/ RecordSuccess \/ RecordFailure
    PROVE  /\ OpenCountsFailures'
           /\ state' \in {"closed", "open", "half"}
           /\ failures' \in Nat
           /\ cooling' \in BOOLEAN
<1> USE PositiveParameters
<1>1. CASE Allow
  BY <1>1 DEF Allow, TypeOK, OpenCountsFailures
<1>2. CASE RecordSuccess
  BY <1>2 DEF RecordSuccess, TypeOK, OpenCountsFailures
<1>3. CASE RecordFailure
  <2>1. failures \in Nat /\ failures' = failures + 1
    BY <1>3 DEF RecordFailure, TypeOK
  <2>2. CASE state = "half" \/ failures + 1 >= Threshold
    <3>1. state' = "open" /\ cooling' = TRUE
      BY <1>3, <2>2 DEF RecordFailure
    <3>2. failures + 1 >= Threshold
      BY <2>1, <2>2 DEF OpenCountsFailures
    <3> QED
      BY <2>1, <3>1, <3>2 DEF OpenCountsFailures
  <2>3. CASE ~(state = "half" \/ failures + 1 >= Threshold)
    <3>1. state' = state /\ cooling' = cooling
      BY <1>3, <2>3 DEF RecordFailure
    <3> QED
      BY <2>1, <2>3, <3>1 DEF OpenCountsFailures, TypeOK
  <2> QED
    BY <2>2, <2>3
<1> QED
  BY <1>1, <1>2, <1>3

\* The bound on errors leaves their count in its range.
LEMMA ErrorsBounded ==
    ASSUME TypeOK, Error
    PROVE  errors' \in 0 .. MaxErrors
BY MaxErrorsAssumption DEF TypeOK, Error

\* A recorded outcome is a decision: the breaker is not half-open after it.
LEMMA OutcomeDecides ==
    ASSUME RecordSuccess \/ RecordFailure
    PROVE  state' # "half"
<1>1. CASE RecordSuccess
  BY <1>1 DEF RecordSuccess
<1>2. CASE RecordFailure
  BY <1>2 DEF RecordFailure
<1> QED
  BY <1>1, <1>2

LEMMA InitInv == Init => Inv
<1> SUFFICES ASSUME Init PROVE Inv
  OBVIOUS
<1>1. TypeOK
  <2>1. cooling \in BOOLEAN /\ state \in {"closed", "open", "half"}
    BY DEF Init
  <2> QED
    BY <2>1, PositiveParameters, MaxErrorsAssumption DEF Init, TypeOK
<1>2. OpenCountsFailures
  BY PositiveParameters DEF Init, OpenCountsFailures
<1>3. HalfOpenHasTrial
  BY DEF Init, HalfOpenHasTrial
<1> QED
  BY <1>1, <1>2, <1>3 DEF Inv

LEMMA NextInv == Inv /\ [Next]_vars => Inv'
<1> SUFFICES ASSUME Inv, [Next]_vars PROVE Inv'
  OBVIOUS
<1> USE PositiveParameters DEF Inv
<1>1. ASSUME NEW c \in Calls, Begin(c) PROVE Inv'
  <2>1. TypeOK'
    BY <1>1, BreakerCounts DEF Begin, TypeOK
  <2>2. HalfOpenHasTrial'
    BY <1>1 DEF Begin, TypeOK, HalfOpenHasTrial
  <2> QED
    BY <1>1, <2>1, <2>2, BreakerCounts DEF Begin
<1>2. ASSUME NEW c \in Calls, Succeed(c) PROVE Inv'
  <2>1. TypeOK'
    BY <1>2, BreakerCounts DEF Succeed, Return, TypeOK
  <2> QED
    BY <1>2, <2>1, BreakerCounts, OutcomeDecides DEF Succeed, HalfOpenHasTrial
<1>3. ASSUME NEW c \in Calls, FailRetryable(c) PROVE Inv'
  <2>1. TypeOK'
    BY <1>3, ErrorsBounded DEF FailRetryable, TypeOK, breaker
  <2>2. OpenCountsFailures'
    BY <1>3 DEF FailRetryable, OpenCountsFailures, breaker
  <2>3. HalfOpenHasTrial'
    BY <1>3 DEF FailRetryable, TypeOK, HalfOpenHasTrial, breaker
  <2> QED
    BY <2>1, <2>2, <2>3
<1>4. ASSUME NEW c \in Calls, FailFinally(c) PROVE Inv'
  <2>1. TypeOK'
    BY <1>4, BreakerCounts, ErrorsBounded DEF FailFinally, Return, TypeOK
  <2> QED
    BY <1>4, <2>1, BreakerCounts, OutcomeDecides DEF FailFinally, HalfOpenHasTrial
<1>5. ASSUME NEW c \in Calls, Retry(c) PROVE Inv'
  <2>1. TypeOK'
    BY <1>5 DEF Retry, TypeOK, breaker
  <2>2. OpenCountsFailures'
    BY <1>5 DEF Retry, OpenCountsFailures, breaker
  <2>3. HalfOpenHasTrial'
    BY <1>5 DEF Retry, TypeOK, HalfOpenHasTrial, breaker
  <2> QED
    BY <2>1, <2>2, <2>3
<1>6. ASSUME NEW c \in Calls, Cancelled(c) PROVE Inv'
  <2>1. TypeOK'
    BY <1>6, BreakerCounts, ErrorsBounded DEF Cancelled, Return, TypeOK
  <2> QED
    BY <1>6, <2>1, BreakerCounts, OutcomeDecides DEF Cancelled, HalfOpenHasTrial
<1>7. CASE ResetTimeoutElapses
  BY <1>7 DEF ResetTimeoutElapses, TypeOK, OpenCountsFailures, HalfOpenHasTrial
<1>8. CASE UNCHANGED vars
  BY <1>8 DEF vars, TypeOK, OpenCountsFailures, HalfOpenHasTrial
<1> QED
  BY <1>1, <1>2, <1>3, <1>4, <1>5, <1>6, <1>7, <1>8 DEF Next

\* The inductive invariant holds in every reachable state.
LEMMA Invariance == Spec => []Inv
BY InitInv, NextInv, PTL DEF Spec

\* The type invariant of the mesh client, with its bound on attempts.
THEOREM TypeCorrectness == Spec => []TypeOK
BY Invariance, PTL DEF Inv

\* CircuitBreaker is away from closed exactly from the threshold on.
THEOREM BreakerCountsFailures == Spec => []OpenCountsFailures
BY Invariance, PTL DEF Inv

\* CircuitBreaker is half-open only while a call it let through is under way.
THEOREM TrialUnderWay == Spec => []HalfOpenHasTrial
BY Invariance, PTL DEF Inv

-----------------------------------------------------------------------------
(* The composition *)

NodesInv == NodesTypeOK /\ RecentMeansReady
HInv == NodesInv /\ Inv

NotReady == [ready |-> FALSE, recent |-> FALSE]

-----------------------------------------------------------------------------
(* The nodes *)

\* None is no node, so a copy that is not None is one.
LEMMA NodeShapes ==
    /\ Healthy \in Node /\ Healthy # None
    /\ NotReady \in Node /\ NotReady # None
    /\ None \notin Node
<1>1. TRUE \in BOOLEAN /\ FALSE \in BOOLEAN
  OBVIOUS
<1>2. None \notin Node
  BY NoneAssumption DEF Node
<1>3. Healthy \in Node /\ NotReady \in Node
  BY <1>1 DEF Node, Healthy, NotReady
<1> QED
  BY <1>2, <1>3

\* What clearing one field of a node leaves, field by field.
LEMMA NodeUpdated ==
    ASSUME NEW r \in Node
    PROVE  /\ [r EXCEPT !.ready = FALSE] = [ready |-> FALSE, recent |-> r.recent]
           /\ [r EXCEPT !.recent = FALSE] = [ready |-> r.ready, recent |-> FALSE]
<1> DEFINE B == BOOLEAN
           v == FALSE
<1>1. r \in [ready : B, recent : B]
  BY DEF Node
<1> HIDE DEF B, v
<1>2. [r EXCEPT !.ready = v] = [ready |-> v, recent |-> r.recent]
  BY <1>1
<1>3. [r EXCEPT !.recent = v] = [ready |-> r.ready, recent |-> v]
  BY <1>1
<1> QED
  BY <1>2, <1>3 DEF v

\* The bound on events leaves their count in its range.
LEMMA OpsBounded ==
    ASSUME NodesTypeOK, Event
    PROVE  ops' \in 0 .. MaxOps
BY MaxOpsAssumption DEF NodesTypeOK, Event

\* A Put of a healthy or of an overdue copy, or a deletion, keeps both parts.
LEMMA NodeWritten ==
    ASSUME NodesInv, NEW n \in NodeNames, NEW copy \in {None, Healthy, NotReady},
           nodes' = [nodes EXCEPT ![n] = copy]
    PROVE  /\ nodes' \in [NodeNames -> OrNone(Node)]
           /\ RecentMeansReady'
<1>1. copy \in OrNone(Node)
  BY NodeShapes DEF OrNone
<1>3. copy # None /\ copy.recent => copy.ready
  <2>1. Healthy.ready = TRUE /\ NotReady.recent = FALSE
    BY DEF Healthy, NotReady
  <2> QED
    BY <2>1
<1>2. nodes' \in [NodeNames -> OrNone(Node)]
  BY <1>1 DEF NodesInv, NodesTypeOK
<1> QED
  BY <1>3, <1>2 DEF NodesInv, NodesTypeOK, RecentMeansReady

LEMMA RegisterKeeps == ASSUME NodesInv, NEW n \in NodeNames, Register(n) PROVE NodesInv'
<1>1. RecentMeansReady' /\ nodes' \in [NodeNames -> OrNone(Node)]
  BY NodeWritten DEF Register
<1> QED
  BY <1>1, OpsBounded DEF NodesInv, NodesTypeOK, Register

LEMMA AgentDiesKeeps == ASSUME NodesInv, NEW n \in NodeNames, AgentDies(n) PROVE NodesInv'
BY OpsBounded DEF NodesInv, NodesTypeOK, RecentMeansReady, AgentDies

LEMMA DeleteNodeKeeps == ASSUME NodesInv, NEW n \in NodeNames, DeleteNode(n) PROVE NodesInv'
<1>1. RecentMeansReady' /\ nodes' \in [NodeNames -> OrNone(Node)]
  BY NodeWritten DEF DeleteNode
<1> QED
  BY <1>1, OpsBounded DEF NodesInv, NodesTypeOK, DeleteNode

LEMMA HeartbeatGetKeeps == ASSUME NodesInv, NEW n \in NodeNames, HeartbeatGet(n) PROVE NodesInv'
BY DEF NodesInv, NodesTypeOK, RecentMeansReady, HeartbeatGet

LEMMA HeartbeatPutKeeps == ASSUME NodesInv, NEW n \in NodeNames, HeartbeatPut(n) PROVE NodesInv'
<1>1. beat[n] \in {None, Healthy, NotReady}
  BY DEF NodesInv, NodesTypeOK
<1>2. RecentMeansReady' /\ nodes' \in [NodeNames -> OrNone(Node)]
  BY <1>1, NodeWritten DEF HeartbeatPut
<1> QED
  BY <1>2 DEF NodesInv, NodesTypeOK, HeartbeatPut

LEMMA HeartbeatFailsKeeps == ASSUME NodesInv, NEW n \in NodeNames, HeartbeatFails(n) PROVE NodesInv'
BY OpsBounded DEF NodesInv, NodesTypeOK, RecentMeansReady, HeartbeatFails

\* Age alone never makes a node look recent.
LEMMA ExpiredKeeps ==
    ASSUME NodesInv, NEW n \in NodeNames, Expired(n), ops' \in 0 .. MaxOps
    PROVE  NodesInv'
<1>1. nodes[n] \in Node
  BY DEF Expired, NodesInv, NodesTypeOK, OrNone
<1>2. nodes' = [nodes EXCEPT ![n] = [ready |-> nodes[n].ready, recent |-> FALSE]]
  <2>1. [nodes[n] EXCEPT !.recent = FALSE] = [ready |-> nodes[n].ready, recent |-> FALSE]
    BY <1>1, NodeUpdated
  <2> QED
    BY <2>1 DEF Expired
<1>3. [ready |-> nodes[n].ready, recent |-> FALSE] \in Node
  BY <1>1 DEF Node
<1>4. nodes' \in [NodeNames -> OrNone(Node)]
  BY <1>2, <1>3 DEF NodesInv, NodesTypeOK, OrNone
<1>5. RecentMeansReady'
  BY <1>2 DEF NodesInv, NodesTypeOK, RecentMeansReady
<1> QED
  BY <1>4, <1>5 DEF NodesInv, NodesTypeOK, Expired

\* checkAll copies overdue nodes only: ready ones without a recent heartbeat.
LEMMA CheckAllKeeps == ASSUME NodesInv, CheckAll PROVE NodesInv'
<1>1. ASSUME NEW n \in NodeNames, Overdue(n)
      PROVE  [nodes[n] EXCEPT !.ready = FALSE] = NotReady
  <2>1. nodes[n] \in Node /\ nodes[n].recent = FALSE
    BY <1>1 DEF Overdue, NodesInv, NodesTypeOK, OrNone, Node
  <2>2. [nodes[n] EXCEPT !.ready = FALSE] = [ready |-> FALSE, recent |-> nodes[n].recent]
    BY <2>1, NodeUpdated
  <2> QED
    BY <2>1, <2>2 DEF NotReady
<1>2. marking' \in [NodeNames -> {None, NotReady}]
  BY <1>1 DEF CheckAll
<1> QED
  BY <1>2 DEF NodesInv, NodesTypeOK, RecentMeansReady, CheckAll, NotReady

LEMMA MarkNotReadyKeeps == ASSUME NodesInv, NEW n \in NodeNames, MarkNotReady(n) PROVE NodesInv'
<1>1. marking[n] \in {None, Healthy, NotReady}
  BY DEF NodesInv, NodesTypeOK, NotReady
<1>2. RecentMeansReady' /\ nodes' \in [NodeNames -> OrNone(Node)]
  BY <1>1, NodeWritten DEF MarkNotReady
<1> QED
  BY <1>2 DEF NodesInv, NodesTypeOK, MarkNotReady

LEMMA MarkFailsKeeps == ASSUME NodesInv, NEW n \in NodeNames, MarkFails(n) PROVE NodesInv'
BY OpsBounded DEF NodesInv, NodesTypeOK, RecentMeansReady, MarkFails

LEMMA NodesStutter == ASSUME NodesInv, UNCHANGED nodeVars PROVE NodesInv'
BY DEF NodesInv, NodesTypeOK, RecentMeansReady, nodeVars

-----------------------------------------------------------------------------
(* The breaker *)

\* The agent's death leaves the client side as it starts.
LEMMA SelfDiesKeeps == ASSUME Inv, SelfDies PROVE Inv'
<1>1. cooling' \in BOOLEAN /\ state' \in {"closed", "open", "half"}
  BY DEF SelfDies
<1>2. TypeOK'
  BY <1>1, PositiveParameters DEF Inv, SelfDies, TypeOK
<1>3. OpenCountsFailures' /\ HalfOpenHasTrial'
  BY PositiveParameters DEF SelfDies, OpenCountsFailures, HalfOpenHasTrial
<1> QED
  BY <1>2, <1>3 DEF Inv

\* NotFound is a failure like any other; the bound only stops the count.
LEMMA BeatNotFoundKeeps == ASSUME Inv, BeatNotFound PROVE Inv'
<1> USE PositiveParameters, BeatAssumption, MaxFailuresAssumption
<1>1. CASE failures < MaxFailures
  <2>1. RecordFailure
    BY <1>1 DEF BeatNotFound
  <2>2. OpenCountsFailures' /\ state' \in {"closed", "open", "half"} /\ failures' \in Nat /\ cooling' \in BOOLEAN
    BY <2>1, BreakerCounts DEF Inv
  <2>3. TypeOK'
    BY <2>2 DEF Inv, TypeOK, BeatNotFound, Return
  <2> QED
    BY <2>1, <2>2, <2>3, OutcomeDecides DEF Inv, HalfOpenHasTrial
<1>2. CASE ~(failures < MaxFailures)
  <2>1. state' = "open" /\ cooling' = TRUE /\ failures' = failures
    BY <1>2 DEF BeatNotFound
  <2>2. failures \in Nat /\ failures >= Threshold
    BY <1>2 DEF Inv, TypeOK
  <2>3. TypeOK'
    BY <2>1, <2>2 DEF Inv, TypeOK, BeatNotFound, Return
  <2> QED
    BY <2>1, <2>2, <2>3 DEF Inv, OpenCountsFailures, HalfOpenHasTrial
<1> QED
  BY <1>1, <1>2

-----------------------------------------------------------------------------
LEMMA HInitInv == HInit => HInv
<1> SUFFICES ASSUME HInit PROVE HInv
  OBVIOUS
<1>1. NodesInv
  BY NodeShapes, MaxOpsAssumption DEF HInit, NodesInit, NodesInv, NodesTypeOK, RecentMeansReady, OrNone
<1> QED
  BY <1>1, InitInv DEF HInit, HInv

LEMMA HNextInv == HInv /\ [HNext]_allVars => HInv'
<1> SUFFICES ASSUME HInv, [HNext]_allVars PROVE HInv'
  OBVIOUS
<1> USE DEF HInv
<1>self. Self \in NodeNames /\ Beat \in Calls
  BY SelfAssumption, BeatAssumption
<1>mesh. ASSUME UNCHANGED nodeVars, [Next]_vars PROVE HInv'
  BY <1>mesh, NextInv, NodesStutter
<1>node. ASSUME UNCHANGED vars, NodesInv' PROVE HInv'
  BY <1>node, NextInv
<1>1. CASE SelfStarts
  BY <1>1, <1>self, <1>node, RegisterKeeps DEF SelfStarts
<1>2. CASE SelfDies
  BY <1>2, <1>self, SelfDiesKeeps, AgentDiesKeeps DEF SelfDies
<1>3. CASE BreakerCools
  BY <1>3, <1>mesh DEF BreakerCools, Next
<1>4. CASE Checks
  BY <1>4, <1>node, CheckAllKeeps DEF Checks
<1>5. ASSUME NEW c \in Calls, LoopCalls(c) \/ CallSucceeds(c) \/ CallFails(c) \/ CallRetries(c)
      PROVE  HInv'
  BY <1>5, <1>mesh DEF LoopCalls, CallSucceeds, CallFails, CallRetries, Next
<1>6. CASE BeatGet
  BY <1>6, <1>self, <1>node, HeartbeatGetKeeps DEF BeatGet
<1>7. CASE BeatPut
  <2>1. Next
    BY <1>7, <1>self DEF BeatPut, Next
  <2> QED
    BY <1>7, <1>self, <2>1, NextInv, HeartbeatPutKeeps DEF BeatPut
<1>8. CASE BeatPutLate
  BY <1>8, <1>self, <1>node, HeartbeatPutKeeps DEF BeatPutLate
<1>9. CASE BeatPutLost
  <2>1. Next
    BY <1>9, <1>self DEF BeatPutLost, Next
  <2> QED
    BY <1>9, <1>self, <2>1, NextInv, HeartbeatPutKeeps DEF BeatPutLost
<1>10. CASE BeatNotFound
  BY <1>10, BeatNotFoundKeeps, NodesStutter DEF BeatNotFound
<1>11. CASE BeatRefused
  <2>1. Next
    BY <1>11, <1>self DEF BeatRefused, Next
  <2> QED
    BY <1>11, <1>self, <2>1, NextInv, HeartbeatFailsKeeps DEF BeatRefused
<1>12. CASE BeatHeldUp
  <2>1. ops' \in 0 .. MaxOps
    BY <1>12 DEF BeatHeldUp, NodesInv, NodesTypeOK
  <2> QED
    BY <1>12, <1>self, <2>1, <1>node, ExpiredKeeps DEF BeatHeldUp
<1>13. ASSUME NEW n \in NodeNames, OtherBeats(n) PROVE HInv'
  BY <1>13, <1>node, HeartbeatGetKeeps, HeartbeatPutKeeps, HeartbeatFailsKeeps DEF OtherBeats
<1>14. ASSUME NEW n \in NodeNames, OtherComesOrGoes(n) PROVE HInv'
  BY <1>14, <1>node, RegisterKeeps, AgentDiesKeeps DEF OtherComesOrGoes
<1>15. ASSUME NEW n \in NodeNames, Passes(n) PROVE HInv'
  <2>1. ops' \in 0 .. MaxOps
    BY <1>15, OpsBounded DEF Passes, Expire, Delay, NodesInv, NodesTypeOK
  <2> QED
    BY <1>15, <2>1, <1>node, ExpiredKeeps DEF Passes, Expire, Delay
<1>16. ASSUME NEW n \in NodeNames, Deletes(n) PROVE HInv'
  BY <1>16, <1>node, DeleteNodeKeeps DEF Deletes
<1>17. ASSUME NEW n \in NodeNames, Marks(n) PROVE HInv'
  BY <1>17, <1>node, MarkNotReadyKeeps, MarkFailsKeeps DEF Marks
<1>18. CASE UNCHANGED allVars
  BY <1>18, <1>mesh DEF allVars
<1> QED
  BY <1>1, <1>2, <1>3, <1>4, <1>5, <1>6, <1>7, <1>8, <1>9, <1>10, <1>11, <1>12,
     <1>13, <1>14, <1>15, <1>16, <1>17, <1>18 DEF HNext, Others

LEMMA HInvariance == HSpec => []HInv
BY HInitInv, HNextInv, PTL DEF HSpec

\* The registry, the heartbeats under way and the controller's copies keep
\* their types: a Heartbeat writes healthy copies, checkAll overdue ones.
THEOREM NodesTypeCorrectness == HSpec => []NodesTypeOK
BY HInvariance, PTL DEF HInv, NodesInv

\* Heartbeat and checkAll never leave a node not ready with a recent heartbeat.
THEOREM RecentNodesAreReady == HSpec => []RecentMeansReady
BY HInvariance, PTL DEF HInv, NodesInv

\* The client side keeps its types through deaths and NotFound answers too.
THEOREM AgentTypeCorrectness == HSpec => []TypeOK
BY HInvariance, PTL DEF HInv, Inv

\* The breaker shared by heartbeats and other calls counts what they record.
THEOREM SharedBreakerCounts == HSpec => []OpenCountsFailures
BY HInvariance, PTL DEF HInv, Inv

\* A half-open breaker of a running agent has its trial under way.
THEOREM SharedTrialUnderWay == HSpec => []HalfOpenHasTrial
BY HInvariance, PTL DEF HInv, Inv
=============================================================================
