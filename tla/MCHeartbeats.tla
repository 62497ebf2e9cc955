---------------------------- MODULE MCHeartbeats ----------------------------
(* Two nodes; the agent of one has its heartbeats and another call share a breaker. *)
EXTENDS Heartbeats

CONSTANTS n1, n2, hb, sync
TwoNodes == {n1, n2}
TwoCalls == {hb, sync}
=============================================================================
