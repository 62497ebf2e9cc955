----------------------------- MODULE Heartbeats -----------------------------
(***************************************************************************)
(* Heartbeats on their way: the nodes of the module Nodes, one of which,   *)
(* Self, is seen with the client side of its agent, the module Mesh.  Its  *)
(* heartbeats and all its other calls share one circuit breaker, so that   *)
(* failures of either hold up both; the breaker stays open for longer      *)
(* (30 s) than the health controller waits for a heartbeat (15 s).         *)
(***************************************************************************)
EXTENDS Nodes, Mesh

CONSTANTS
    Self,
    Beat,          \* the call that carries the heartbeats of Self
    MaxFailures    \* bound: failures NotFound counts up to

ASSUME SelfAssumption == Self \in NodeNames
ASSUME BeatAssumption == Beat \in Calls
ASSUME MaxFailuresAssumption == MaxFailures \in Nat /\ MaxFailures >= Threshold

allVars == <<nodeVars, vars>>
Others == NodeNames \ {Self}

HInit == NodesInit /\ Init

-----------------------------------------------------------------------------
\* main registers the node, then starts the loops on a new breaker.
SelfStarts == Register(Self) /\ UNCHANGED vars

\* The client's state goes with the process; a call the server has goes on.
SelfDies ==
    /\ AgentDies(Self)
    /\ state' = "closed" /\ failures' = 0 /\ cooling' = FALSE
    /\ phase' = [c \in Calls |-> "idle"]
    /\ attempt' = [c \in Calls |-> 0]
    /\ UNCHANGED errors

\* A loop ticks and the breaker lets the call through.
LoopCalls(c) == Self \in alive /\ Begin(c) /\ UNCHANGED nodeVars

CallSucceeds(c) == c # Beat /\ Succeed(c) /\ UNCHANGED nodeVars

\* The control plane does not answer, before or after it has done its part.
CallFails(c) == (FailRetryable(c) \/ FailFinally(c) \/ Cancelled(c)) /\ UNCHANGED nodeVars
CallRetries(c) == Retry(c) /\ UNCHANGED nodeVars

BreakerCools == ResetTimeoutElapses /\ UNCHANGED nodeVars

-----------------------------------------------------------------------------
(* The heartbeat of Self at the server *)

BeatGet == phase[Beat] = "invoking" /\ HeartbeatGet(Self) /\ UNCHANGED vars

BeatPut == HeartbeatPut(Self) /\ Succeed(Beat)

\* The answer comes too late, or is lost.
BeatPutLate == phase[Beat] # "invoking" /\ HeartbeatPut(Self) /\ UNCHANGED vars
BeatPutLost == HeartbeatPut(Self) /\ (FailRetryable(Beat) \/ FailFinally(Beat))

\* The node has been deleted: NotFound is not retried and counts as a failure.
BeatNotFound ==
    /\ phase[Beat] = "invoking"
    /\ beat[Self] = None
    /\ nodes[Self] = None
    /\ IF failures < MaxFailures THEN RecordFailure
       ELSE state' = "open" /\ cooling' = TRUE /\ UNCHANGED failures
    /\ Return(Beat)
    /\ UNCHANGED <<errors, nodeVars>>

BeatRefused == HeartbeatFails(Self) /\ phase[Beat] = "invoking" /\ FailFinally(Beat)

\* The breaker is open for longer than the controller waits.
BeatHeldUp == state = "open" /\ cooling /\ Self \in alive /\ Expired(Self) /\ UNCHANGED <<ops, vars>>

-----------------------------------------------------------------------------
OtherBeats(n) == (HeartbeatGet(n) \/ HeartbeatPut(n) \/ HeartbeatFails(n)) /\ UNCHANGED vars
OtherComesOrGoes(n) == (Register(n) \/ AgentDies(n)) /\ UNCHANGED vars
Passes(n) == (Expire(n) \/ Delay(n)) /\ UNCHANGED vars
Deletes(n) == DeleteNode(n) /\ UNCHANGED vars
Checks == CheckAll /\ UNCHANGED vars
Marks(n) == (MarkNotReady(n) \/ MarkFails(n)) /\ UNCHANGED vars

HNext ==
    \/ SelfStarts \/ SelfDies \/ BreakerCools \/ Checks
    \/ \E c \in Calls : LoopCalls(c) \/ CallSucceeds(c) \/ CallFails(c) \/ CallRetries(c)
    \/ BeatGet \/ BeatPut \/ BeatPutLate \/ BeatPutLost \/ BeatNotFound \/ BeatRefused \/ BeatHeldUp
    \/ \E n \in Others : OtherBeats(n) \/ OtherComesOrGoes(n)
    \/ \E n \in NodeNames : Passes(n) \/ Deletes(n) \/ Marks(n)

HSpec == HInit /\ [][HNext]_allVars

(***************************************************************************)
(* Tickers keep firing, calls return, time passes.  The agent's main loop  *)
(* ticks more often (2 s) than it sends heartbeats (5 s), so these do not  *)
(* win every race for an open breaker's trial: its calls get strong        *)
(* fairness.                                                               *)
(***************************************************************************)
HFairSpec ==
    /\ HSpec
    /\ WF_allVars(BreakerCools)
    /\ WF_allVars(Checks)
    /\ WF_allVars(BeatGet)
    /\ WF_allVars(BeatPut \/ BeatPutLate)
    /\ WF_allVars(LoopCalls(Beat))
    /\ WF_allVars(BeatNotFound)
    /\ \A c \in Calls : WF_allVars(CallSucceeds(c)) /\ WF_allVars(CallRetries(c))
    /\ \A c \in Calls \ {Beat} : SF_allVars(LoopCalls(c))
    /\ \A n \in Others :
          WF_allVars(HeartbeatGet(n) /\ UNCHANGED vars) /\ WF_allVars(HeartbeatPut(n) /\ UNCHANGED vars)
    /\ \A n \in NodeNames :
          WF_allVars(Expire(n) /\ UNCHANGED vars) /\ WF_allVars(MarkNotReady(n) /\ UNCHANGED vars)

-----------------------------------------------------------------------------
(***************************************************************************)
(* Failure detection: once agents and operators leave them alone and calls *)
(* get through, the nodes of dead agents end up not ready and those of     *)
(* live agents, if the registry has them, ready.  A mark made on a stale   *)
(* copy, or because an open breaker held heartbeats up, is undone.         *)
(***************************************************************************)
DetectionSettles ==
    <>[](\A n \in NodeNames : nodes[n] # None => (nodes[n].ready <=> n \in alive))

(***************************************************************************)
(* The breaker closes again and again, so the agent is never cut off for   *)
(* good: not even one whose node was deleted, although each NotFound its   *)
(* heartbeats meet counts against the breaker its pods depend on.  When    *)
(* errors stop and the node stays registered it closes to remain closed:   *)
(* late failures of older calls postpone a trial finitely often.           *)
(***************************************************************************)
BreakerRecovers ==
    /\ []<>(state = "closed")
    /\ <>[](nodes[Self] # None) => <>[](state = "closed")
=============================================================================
