----------------------------- MODULE MCApiServer -----------------------------
(***************************************************************************)
(* Two deployments, one of which may have storage and one of which is in   *)
(* the Git repository, on two nodes of one unit each.                      *)
(***************************************************************************)
EXTENDS ApiServer, TLC

CONSTANTS d1, d2, n1, n2, h1, h2

\* The image of the manifest is not in the signed registry.
MCManifests ==
    d2 :> [replicas |-> 1, managed |-> TRUE,
           t |-> [ver |-> 0, vols |-> {}, bad |-> "unsigned", seccomp |-> FALSE]]

MCTemplates ==
    {[ver |-> 0, vols |-> {d1}, bad |-> "none", seccomp |-> FALSE],
     [ver |-> 0, vols |-> {}, bad |-> "denied", seccomp |-> TRUE]}

Symm == Permutations(Nodes) \cup Permutations(Handlers)
=============================================================================
