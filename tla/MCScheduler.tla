----------------------------- MODULE MCScheduler -----------------------------
(***************************************************************************)
(* Up to three candidates, with free CPU in -1 .. 2: an over-committed     *)
(* node has less than nothing left.  MaxInt32 is small enough for          *)
(* estimates and computed counts to exceed it.                             *)
(***************************************************************************)
EXTENDS Scheduling, TLC

CONSTANT NodeNames

MCRequests == [cpu : {-1, 0, 1}, mem : {0, 1}, accelerators : [{"gpu"} -> {0, 1}], ports : SUBSET {80}]
MCCandidates ==
    [name : NodeNames, cpuCapacity : {0, 2}, memCapacity : {1}, cpuUsed : {0, 1},
     memUsed : {0}, accelCapacity : {[gpu |-> 1], << >>},
     accelUsed : {<< >>}, usedPorts : SUBSET {80}]
MCReplicaCounts == {-1, 0, 1, 3}
MCLoads == {0, 1, 3, 9}

NamesAreAlike == Permutations(NodeNames)
=============================================================================
