-------------------------------- MODULE Mesh --------------------------------
(***************************************************************************)
(* The client side of every call an agent makes (internal/mesh): one       *)
(* circuit breaker shared by all the agent's goroutines and, per call, a   *)
(* retry loop.  The breaker is asked once, before the first attempt; its   *)
(* answer is old by the time the outcome is recorded, and outcomes of      *)
(* calls let in before it opened arrive in any state.                      *)
(*                                                                         *)
(* Time appears as cooling, which says that less than resetTimeout has     *)
(* passed since openedAt.  Backoff delays are not measured.                *)
(***************************************************************************)
EXTENDS Integers

CONSTANTS
    Calls,           \* the agent's concurrent calls
    ThresholdArg,    \* arguments of NewCircuitBreaker and of RetryPolicy
    MaxAttempts,
    MaxErrors        \* bound: failed attempts and cancelled calls

ASSUME ThresholdAssumption == ThresholdArg \in Int
ASSUME AttemptsAssumption == MaxAttempts \in Int
ASSUME MaxErrorsAssumption == MaxErrors \in Nat

Threshold == IF ThresholdArg <= 0 THEN 5 ELSE ThresholdArg
Attempts == IF MaxAttempts <= 0 THEN 1 ELSE MaxAttempts

VARIABLES
    state,      \* "closed", "open" or "half": the breaker
    failures,
    cooling,
    phase,      \* per call: "idle", "invoking" or "backoff"
    attempt,    \* per call: the number of the current attempt
    errors

vars == <<state, failures, cooling, phase, attempt, errors>>
breaker == <<state, failures, cooling>>

Init ==
    /\ state = "closed"
    /\ failures = 0
    /\ cooling = FALSE
    /\ phase = [c \in Calls |-> "idle"]
    /\ attempt = [c \in Calls |-> 0]
    /\ errors = 0

Error == errors < MaxErrors /\ errors' = errors + 1

-----------------------------------------------------------------------------
(* The breaker.  Each operation holds its mutex. *)

\* Allow returns true; when it returns false nothing changes.
Allow ==
    /\ state # "open" \/ ~cooling
    /\ state' = IF state = "open" THEN "half" ELSE state
    /\ UNCHANGED <<failures, cooling>>

\* Mutant: the counter survives a success.
RecordSuccess_KeepsCount ==
    /\ state' = "closed"
    /\ UNCHANGED <<failures, cooling>>

RecordSuccess ==
    /\ failures' = 0
    /\ state' = "closed"
    /\ UNCHANGED cooling

RecordFailure ==
    /\ failures' = failures + 1
    /\ IF state = "half" \/ failures + 1 >= Threshold
       THEN state' = "open" /\ cooling' = TRUE
       ELSE UNCHANGED <<state, cooling>>

ResetTimeoutElapses ==
    /\ cooling
    /\ cooling' = FALSE
    /\ UNCHANGED <<state, failures, phase, attempt, errors>>

-----------------------------------------------------------------------------
(* The interceptor *)

\* Mutant: a rejected call takes the time anew before it compares.
Begin_RenewsOpenedAt(c) ==
    /\ phase[c] = "idle"
    /\ IF state = "open"
       THEN cooling' = TRUE /\ UNCHANGED <<state, failures, phase, attempt, errors>>
       ELSE /\ phase' = [phase EXCEPT ![c] = "invoking"]
            /\ attempt' = [attempt EXCEPT ![c] = 1]
            /\ UNCHANGED <<breaker, errors>>

Begin(c) ==
    /\ phase[c] = "idle"
    /\ Allow
    /\ phase' = [phase EXCEPT ![c] = "invoking"]
    /\ attempt' = [attempt EXCEPT ![c] = 1]
    /\ UNCHANGED errors

Return(c) ==
    /\ phase' = [phase EXCEPT ![c] = "idle"]
    /\ attempt' = [attempt EXCEPT ![c] = 0]

Succeed(c) ==
    /\ phase[c] = "invoking"
    /\ RecordSuccess
    /\ Return(c)
    /\ UNCHANGED errors

\* A retryable error with attempts left: wait for the backoff.
FailRetryable(c) ==
    /\ Error
    /\ phase[c] = "invoking"
    /\ attempt[c] < Attempts
    /\ phase' = [phase EXCEPT ![c] = "backoff"]
    /\ UNCHANGED <<breaker, attempt>>

\* The last attempt fails, or the error is not one to retry.
FailFinally(c) ==
    /\ Error
    /\ phase[c] = "invoking"
    /\ RecordFailure
    /\ Return(c)

Retry(c) ==
    /\ phase[c] = "backoff"
    /\ phase' = [phase EXCEPT ![c] = "invoking"]
    /\ attempt' = [attempt EXCEPT ![c] = @ + 1]
    /\ UNCHANGED <<breaker, errors>>

\* Mutant: a call that is given up tells the breaker nothing.
Cancelled_NotRecorded(c) ==
    /\ Error
    /\ phase[c] = "backoff"
    /\ Return(c)
    /\ UNCHANGED breaker

\* The caller's context ends during a backoff.
Cancelled(c) ==
    /\ Error
    /\ phase[c] = "backoff"
    /\ RecordFailure
    /\ Return(c)

Next ==
    \/ \E c \in Calls : Begin(c)
    \/ \E c \in Calls : Succeed(c)
    \/ \E c \in Calls : FailRetryable(c)
    \/ \E c \in Calls : FailFinally(c)
    \/ \E c \in Calls : Retry(c)
    \/ \E c \in Calls : Cancelled(c)
    \/ ResetTimeoutElapses

Spec == Init /\ [][Next]_vars

-----------------------------------------------------------------------------
(***************************************************************************)
(* The type of every variable.  A call makes at most Attempts attempts and *)
(* waits for a backoff only when it has one left.                          *)
(***************************************************************************)
TypeOK ==
    /\ state \in {"closed", "open", "half"}
    /\ failures \in Nat
    /\ cooling \in BOOLEAN
    /\ phase \in [Calls -> {"idle", "invoking", "backoff"}]
    /\ attempt \in [Calls -> 0 .. Attempts]
    /\ errors \in 0 .. MaxErrors
    /\ \A c \in Calls : phase[c] = "backoff" => attempt[c] < Attempts

(***************************************************************************)
(* The breaker is away from closed exactly when as many failures as the    *)
(* threshold have been recorded since the last success, in whatever order  *)
(* the outcomes of overlapping calls are recorded.                         *)
(***************************************************************************)
OpenCountsFailures == state # "closed" <=> failures >= Threshold

(***************************************************************************)
(* While the breaker is half-open a call it let through is still on its    *)
(* way: every path out of the interceptor, cancellation included, records  *)
(* an outcome, so a trial never ends without the breaker deciding.         *)
(***************************************************************************)
HalfOpenHasTrial == state = "half" => \E c \in Calls : phase[c] # "idle"
=============================================================================
