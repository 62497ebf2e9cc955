------------------------------ MODULE Admission ------------------------------
(***************************************************************************)
(* The admission chain (internal/admission): what a pod template must be   *)
(* like, and what it may ask for, before the API server stores it.  A      *)
(* template is [ver, vols, bad, seccomp]: its version, the volumes it      *)
(* mounts, what one of its containers has that a policy objects to         *)
(* ("none" if nothing) and whether a seccomp profile is set.  Each pod     *)
(* requests one unit of the resource the quota limits.                     *)
(***************************************************************************)
EXTENDS Integers

CONSTANTS
    Volumes,
    Quota,       \* units a namespace may request, 0 for no limit
    None

ASSUME QuotaAssumption == Quota \in Nat

Objections == {"none", "privileged", "escalation", "capability", "unsigned", "denied"}
Template == [ver : {0, 1}, vols : SUBSET Volumes, bad : Objections, seccomp : BOOLEAN]

SecurityContextPolicy(t) == t.bad \notin {"privileged", "escalation", "capability"}

\* What the same policy changes in the template, which the caller then stores.
Defaulted(t) == [t EXCEPT !.seccomp = TRUE]

ImageSignaturePolicy(t) == t.bad # "unsigned"

\* The CEL expressions of the stored policies, over PodView.
PolicyValidator(t) == t.bad # "denied"

\* Mutant: one pod is asked for.
QuotaPolicy_OnePod(used, replicas) == Quota = 0 \/ used + 1 <= Quota

QuotaPolicy(used, replicas) == Quota = 0 \/ used + replicas <= Quota

VolumeReplicasPolicy(t, replicas) == t.vols = {} \/ replicas <= 1

\* Mutant: any owner will do.
VolumeOwnershipPolicy_Skipped(name, t, volumes, unread) == TRUE

\* A volume that cannot be read passes, whatever the reason: absent or, as those
\* of `unread', because the Get failed.  name is None for a pod, which skips the check.
VolumeOwnershipPolicy(name, t, volumes, unread) ==
    \A v \in t.vols \ unread :
        volumes[v] # None /\ volumes[v].owner # None /\ name # None => volumes[v].owner = name

AtLeastOne(replicas) == IF replicas <= 0 THEN 1 ELSE replicas

\* Chain.Admit
Admitted(name, t, replicas, used, volumes, unread) ==
    /\ SecurityContextPolicy(t)
    /\ ImageSignaturePolicy(t)
    /\ QuotaPolicy(used, AtLeastOne(replicas))
    /\ PolicyValidator(t)
    /\ VolumeReplicasPolicy(t, AtLeastOne(replicas))
    /\ VolumeOwnershipPolicy(name, t, volumes, unread)
=============================================================================
