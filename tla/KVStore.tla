------------------------------- MODULE KVStore -------------------------------
(***************************************************************************)
(* What store.Store promises its readers (internal/store/store.go, memStore *)
(* is the one-process implementation): one history of contents, to which   *)
(* every Put and Delete adds the next, and readers that each see the whole *)
(* contents as they were at one point of it.  A reader moves forward along *)
(* the history; only a process that starts again falls back.               *)
(***************************************************************************)
EXTENDS Integers, Sequences

CONSTANTS
    Readers,   \* the processes that hold a store
    Keys,
    Stored,    \* what can be stored under a key
    Absent     \* nothing is

VARIABLES
    history,   \* the contents after each write, oldest first
    running,   \* the readers whose process runs
    at,        \* per reader: the point of the history it sees
    view       \* per reader: what Get and List find

vars == <<history, running, at, view>>

Empty == [k \in Keys |-> Absent]

Init ==
    /\ history = <<Empty>>
    /\ running \subseteq Readers
    /\ at = [r \in Readers |-> 1]
    /\ view = [r \in Readers |-> Empty]

\* A write, seen at once by the reader r through which it was made.
Write(r, k, c) ==
    /\ r \in running
    /\ at[r] = Len(history)
    /\ history' = Append(history, [history[Len(history)] EXCEPT ![k] = c])
    /\ at' = [at EXCEPT ![r] = @ + 1]
    /\ view' = [view EXCEPT ![r] = [@ EXCEPT ![k] = c]]
    /\ UNCHANGED running

Put(r, k, c) == c \in Stored /\ Write(r, k, c)
Delete(r, k) == Write(r, k, Absent)

Shows(r, i) ==
    /\ at' = [at EXCEPT ![r] = i]
    /\ view' = [view EXCEPT ![r] = history[i]]
    /\ UNCHANGED history

Advance(r) ==
    /\ r \in running
    /\ \E i \in at[r] + 1 .. Len(history) : Shows(r, i)
    /\ UNCHANGED running

End(r) ==
    /\ running' = running \ {r}
    /\ \E i \in 1 .. at[r] : Shows(r, i)

Start(r) ==
    /\ running' = running \cup {r}
    /\ UNCHANGED <<history, at, view>>

Next ==
    \E r \in Readers :
        \/ \E k \in Keys, c \in Stored : Put(r, k, c)
        \/ \E k \in Keys : Delete(r, k)
        \/ Advance(r)
        \/ End(r)
        \/ Start(r)

Spec == Init /\ [][Next]_vars
=============================================================================
