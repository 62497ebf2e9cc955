---------------------------- MODULE MCDeployments ----------------------------
(* Small instances of Deployments. *)
EXTENDS Deployments

CONSTANTS d1, d2, n1, n2, v1

OneDeployment == {d1}
TwoDeployments == {d1, d2}
OneNode == {n1}
TwoNodes == {n1, n2}
NoVolumes == {}
OneVolume == {v1}
MountsNothing == [d \in DeploymentNames |-> {}]
MountsShared == [d \in DeploymentNames |-> {v1}]
Roomy == [n \in Nodes |-> 4]
=============================================================================
