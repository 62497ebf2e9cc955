----------------------------- MODULE MCServices -----------------------------
(* Two services that select the same pod, a range of two ports. *)
EXTENDS Services

CONSTANTS s1, s2, p1, n1, c1, c2
TwoServices == {s1, s2}
OnePod == {p1}
OneNode == {n1}
TwoCallers == {c1, c2}
AnyOrFirst == {0, 1}
SelectAll == [s \in TwoServices |-> OnePod]
=============================================================================
