---------------------------- MODULE MCKeyRotation ----------------------------
(* Two keys, two plaintexts, one writer, two rotations after the           *)
(* configured key.                                                         *)
EXTENDS KeyRotation, TLC

CONSTANTS k1, k2, v1, v2, w1

MCKeys == {k1, k2}
MCValues == {v1, v2}
MCOneWriter == {w1}
MCSymmetry == Permutations(MCKeys) \cup Permutations(MCValues)
=============================================================================
