------------------------------- MODULE MCAgent -------------------------------
(* A process and two container pods whose containers have one name. *)
EXTENDS Agent

CONSTANTS p, c, d, name

AllKeys == {p, c, d}
TwoContainers == {c, d}
OneName == [k \in TwoContainers |-> name]
OnFailure == [k \in AllKeys |-> "onFailure"]
=============================================================================
