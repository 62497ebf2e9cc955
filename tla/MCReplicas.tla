----------------------------- MODULE MCReplicas -----------------------------
(* A bootstrap replica and a joiner, two keys, one plaintext. *)
EXTENDS Replicas, TLC

CONSTANTS r1, r2, k1, k2, v1
MCReplicas_ == {r1, r2}
MCKeys == {k1, k2}
MCValues == {v1}
MCSymmetry == Permutations(MCKeys)
=============================================================================
