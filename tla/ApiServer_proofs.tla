--------------------------- MODULE ApiServer_proofs ---------------------------
(***************************************************************************)
(* What clients see of their workloads, for any namespace, any number of   *)
(* requests served at the same time and any manifests: the anomalies the   *)
(* handlers, controllers, agents and the GitOps reconciler can produce     *)
(* together have only the explanations the properties of ApiServer name.   *)
(***************************************************************************)
EXTENDS ApiServer, FiniteSetTheorems, TLAPS

CallFields == {"op", "at", "d", "replicas", "t", "node", "edit", "managed", "left"}
PassFields == {"at", "d", "copy", "owned", "usage", "taken", "left"}
FlagFields == {"blind", "stale", "moved", "unowned", "crowded", "torn"}

\* A request, at any of its steps.
Call(c) ==
    /\ DOMAIN c = CallFields
    /\ c.op \in {"none", "deploy", "pod", "volume", "delete", "report"}
    /\ c.at \in {"idle", "lookup", "volume", "provision", "record", "deprovision", "unrecord",
                 "admit", "put", "remove", "restart", "deleting", "report"}
    /\ c.d \in Names \cup {None}
    /\ c.left \in SUBSET PodNames
    /\ c.node \in Nodes \cup {None}
    /\ c.at # "idle" => c.op # "none"
    /\ c.op = "deploy" => /\ c.d \in Names /\ c.t \in Template
                          /\ c.replicas \in 0 .. MaxReplicas /\ c.managed \in BOOLEAN
                          /\ c.at \notin {"remove", "report"}
    /\ c.op = "pod" => /\ c.d = None /\ c.t \in Template /\ c.replicas = 1 /\ c.at \in {"admit", "put"}
                       /\ \E id \in PodNames : c.left = {id}
    /\ c.op = "volume" => c.at \in {"provision", "record", "deprovision", "unrecord"}
    /\ c.op = "delete" => c.d \in Names /\ c.at \in {"remove", "restart", "deleting"}
    /\ c.op = "report" => c.t \in Template /\ c.at = "report"
    /\ c.at \in {"volume", "provision", "record", "deprovision", "unrecord"} => c.d \in Volumes
    /\ c.at = "lookup" /\ c.t.vols # {} => c.d \in Volumes
    /\ c.op # "report" => \A id \in c.left : id[1] = c.d

\* The deployment controller's pass.
RcOK ==
    /\ DOMAIN rc = PassFields
    /\ rc.at \in {"idle", "size", "list", "place", "claim", "claiming", "status"}
    /\ rc.at = "idle" => rc.d = None
    /\ rc.at # "idle" => rc.d \in Names /\ rc.copy \in Deployment
    /\ rc.taken \subseteq Nodes
    /\ rc.at \notin {"place", "claim", "claiming"} => rc.owned = << >>
    /\ DOMAIN rc.owned \subseteq PodNames
    /\ \A id \in DOMAIN rc.owned : rc.owned[id] \in Pod /\ id[1] = rc.d
    /\ rc.at = "place" => rc.usage \in [Nodes -> Nat]
    /\ rc.at = "claiming" => rc.left # {}
    /\ rc.left # {} => /\ rc.at \in {"claim", "claiming"} /\ rc.left \subseteq rc.copy.t.vols
                       /\ \E id \in DOMAIN rc.owned : rc.owned[id].node # None

\* The pod controller's pass.
PrOK ==
    /\ DOMAIN pr = PassFields
    /\ pr.at \in {"idle", "place"}
    /\ pr.taken \subseteq Nodes
    /\ DOMAIN pr.owned \subseteq PodNames
    /\ \A id \in DOMAIN pr.owned : pr.owned[id] \in Pod /\ id[1] = None
    /\ pr.at = "place" => DOMAIN pr.owned # {} /\ pr.usage \in [Nodes -> Nat]
    /\ pr.at = "idle" => DOMAIN pr.owned = {}

(***************************************************************************)
(* The type invariant of everything the proofs look at.                    *)
(***************************************************************************)
TypeOK ==
    /\ deployments \in [Names -> Deployment \cup {None}]
    /\ pods \in [PodNames -> Pod \cup {None}]
    /\ volumes \in [Volumes -> Volume \cup {None}]
    /\ dirs \in SUBSET Volumes
    /\ DOMAIN call = Handlers
    /\ \A h \in Handlers : Call(call[h])
    /\ RcOK
    /\ PrOK
    /\ DOMAIN flags = FlagFields

-----------------------------------------------------------------------------
(* The strengthenings, one per property.                                   *)

CleanTemplate(t) == t.bad = "none" /\ t.seccomp
FromGit(d, t) == d \in DOMAIN Manifests /\ t = Manifests[d].t

\* Whatever is stored, or in hand and may yet be stored, passed admission or is from Git.
AdmissionInv ==
    /\ AdmissionBypassIsGitOps
    /\ rc.at # "idle" => CleanTemplate(rc.copy.t) \/ (rc.copy.managed /\ FromGit(rc.d, rc.copy.t))
    /\ \A id \in DOMAIN rc.owned : CleanTemplate(rc.owned[id].t) \/ FromGit(rc.d, rc.owned[id].t)
    /\ \A id \in DOMAIN pr.owned : CleanTemplate(pr.owned[id].t) \/ FromGit(None, pr.owned[id].t)
    /\ \A h \in Handlers : call[h].at = "put" =>
          CleanTemplate(call[h].t) \/ (call[h].op = "deploy" /\ call[h].managed /\ FromGit(call[h].d, call[h].t))
    /\ \A h \in Handlers : call[h].at = "report" =>
          \A id \in call[h].left : CleanTemplate(call[h].t) \/ FromGit(id[1], call[h].t)

\* Between the driver and the registry: alone, and the driver has done its part.
Halfway(h, v) == call[h].d = v /\ call[h].at \in {"record", "unrecord"}
DirectoryInv ==
    \A v \in Volumes : v \notin flags.torn =>
        /\ \A h, g \in Handlers : Halfway(h, v) /\ Halfway(g, v) => h = g
        /\ \A h \in Handlers : Halfway(h, v) => (v \in dirs <=> call[h].at = "record")
        /\ (\A h \in Handlers : ~Halfway(h, v)) => (volumes[v] # None <=> v \in dirs)

\* A volume that nobody was let in on unseen has one deployment, and no other owner.
SharingInv ==
    \A v \in Volumes : v \notin flags.unowned =>
        \A d \in Names : Mounts(d, v) =>
            /\ \A e \in Names : Mounts(e, v) => d = e
            /\ volumes[v] # None /\ volumes[v].owner # None => volumes[v].owner = d

\* A pod, or a copy of it, is current or about to be deleted by a restart.
Restarting(d, id) ==
    \E h \in Handlers : /\ call[h].op = "deploy" /\ call[h].d = d
                        /\ call[h].at = "restart" \/ (call[h].at = "deleting" /\ id \in call[h].left)
Current(d, id, t) == t.ver = deployments[d].t.ver \/ Restarting(d, id)
StaleInv ==
    \A d \in Names : d \notin flags.stale /\ deployments[d] # None =>
        /\ \A id \in PodsOf(d) : Current(d, id, pods[id].t)
        /\ rc.d = d => /\ rc.copy.t.ver = deployments[d].t.ver
                       /\ \A id \in DOMAIN rc.owned : Current(d, id, rc.owned[id].t)

\* A pass knows the load of the nodes nothing else was put on since it listed the pods.
LoadInv ==
    /\ OvercommitIsExplained
    /\ rc.at = "place" => \A n \in Nodes : n \notin rc.taken \cup flags.crowded => Usage(n) <= rc.usage[n]
    /\ pr.at = "place" => \A n \in Nodes : n \notin pr.taken \cup flags.crowded => Usage(n) <= pr.usage[n]
    /\ \A id \in DOMAIN pr.owned : pr.owned[id].node = None

-----------------------------------------------------------------------------
(* Types of the requests.                                                  *)

CallsOK == DOMAIN call = Handlers /\ \A h \in Handlers : Call(call[h])

LEMMA CallChanges ==
    ASSUME CallsOK, NEW h \in Handlers, NEW c, Call(c), call' = [call EXCEPT ![h] = c]
    PROVE  CallsOK' /\ call'[h] = c /\ \A g \in Handlers \ {h} : call'[g] = call[g]
  BY DEF CallsOK, Call

\* A request moves on, is over, or has lost a pod of its list.
LEMMA CallGoes ==
    ASSUME CallsOK, NEW h \in Handlers, NEW where, Goes(h, where), Call([call[h] EXCEPT !.at = where])
    PROVE  /\ CallsOK' /\ call'[h] = [call[h] EXCEPT !.at = where]
           /\ \A g \in Handlers \ {h} : call'[g] = call[g]
  <1>1. call' = [call EXCEPT ![h] = [call[h] EXCEPT !.at = where]]
    BY DEF Goes
  <1> QED
    BY <1>1, CallChanges

LEMMA IdleCall == Call(NoCall) /\ NoCall.at = "idle" /\ NoCall.d = None
  BY DEF Call, NoCall, CallFields

LEMMA CallReturns ==
    ASSUME CallsOK, NEW h \in Handlers, Returns(h)
    PROVE  /\ CallsOK' /\ call'[h] = NoCall
           /\ \A g \in Handlers \ {h} : call'[g] = call[g]
  BY IdleCall, CallChanges DEF Returns

LEMMA CallDeleted ==
    ASSUME CallsOK, NEW h \in Handlers, NEW id \in PodNames, Deleted(h, id), call[h].at = "deleting"
    PROVE  /\ CallsOK'
           /\ \/ call'[h] = NoCall /\ call[h].left = {id}
              \/ call'[h] = [call[h] EXCEPT !.left = @ \ {id}]
           /\ \A g \in Handlers \ {h} : call'[g] = call[g]
  <1>1. CASE call[h].left = {id}
    BY <1>1, CallReturns DEF Deleted
  <1>2. CASE call[h].left # {id}
    <2> DEFINE c == [call[h] EXCEPT !.left = @ \ {id}]
    <2>1. Call(call[h])
      BY DEF CallsOK
    <2>2. Call(c)
      BY <2>1 DEF Call, CallFields
    <2>3. call' = [call EXCEPT ![h] = c]
      BY <1>2 DEF Deleted
    <2> QED
      BY <2>2, <2>3, CallChanges
  <1> QED
    BY <1>1, <1>2

\* What a request may be when it arrives.
Arrival(c) == Call(c) /\ c.at \in {"lookup", "provision", "deprovision", "admit", "remove"}

Arrives(h) ==
    \/ \E d \in Names, r \in 1 .. MaxReplicas, p \in BOOLEAN : handleCreateDeployment(h, d, r, p)
    \/ \E d \in Names, r \in 0 .. MaxReplicas : handleScaleDeployment(h, d, r)
    \/ \E d \in Names, r \in 1 .. MaxReplicas, t \in Templates : CreateDeployment(h, d, r, t)
    \/ \E id \in PodNames, t \in Templates, n \in Nodes \cup {None} : CreatePod(h, id, t, n)
    \/ \E d \in Names : DeleteDeployment(h, d)
    \/ \E v \in Volumes : CreateVolume(h, v) \/ DeleteVolume(h, v)

LEMMA Arrivals ==
    ASSUME TypeOK, NEW h \in Handlers, Arrives(h)
    PROVE  \E c : Arrival(c) /\ Serves(h, c)
  <1>1. ASSUME NEW d \in Names, NEW r \in 1 .. MaxReplicas, NEW p \in BOOLEAN, handleCreateDeployment(h, d, r, p)
        PROVE  \E c : Arrival(c) /\ Serves(h, c)
    <2> DEFINE vols == IF p THEN {d} ELSE {}
               t == [ver |-> 1, vols |-> vols, bad |-> "none", seccomp |-> FALSE]
               c == [NoCall EXCEPT !.op = "deploy", !.at = "lookup", !.d = d, !.replicas = r, !.t = t]
    <2>1. p => d \in Volumes
      BY <1>1 DEF handleCreateDeployment
    <2>2. vols \in SUBSET Volumes /\ (vols # {} => d \in Volumes)
      BY <2>1
    <2>3. t \in Template /\ t.vols = vols
      BY <2>2 DEF Template, Objections
    <2>5. Serves(h, c)
      BY <1>1 DEF handleCreateDeployment
    <2> HIDE DEF t, vols
    <2>4. Arrival(c)
      BY <2>2, <2>3 DEF Arrival, Call, CallFields, NoCall
    <2> QED
      BY <2>4, <2>5
  <1>2. ASSUME NEW d \in Names, NEW r \in 0 .. MaxReplicas, handleScaleDeployment(h, d, r)
        PROVE  \E c : Arrival(c) /\ Serves(h, c)
    <2> DEFINE c == [NoCall EXCEPT !.op = "deploy", !.at = "admit", !.d = d, !.replicas = r,
                     !.t = deployments[d].t, !.managed = deployments[d].managed]
    <2>1. deployments[d].t \in Template /\ deployments[d].managed \in BOOLEAN
      BY <1>2 DEF handleScaleDeployment, TypeOK, Deployment
    <2>2. Arrival(c)
      BY <2>1 DEF Arrival, Call, CallFields, NoCall
    <2> QED
      BY <1>2, <2>2 DEF handleScaleDeployment
  <1>3. ASSUME NEW d \in Names, NEW r \in 1 .. MaxReplicas, NEW t \in Templates, CreateDeployment(h, d, r, t)
        PROVE  \E c : Arrival(c) /\ Serves(h, c)
    <2> DEFINE c == [NoCall EXCEPT !.op = "deploy", !.at = "admit", !.d = d, !.replicas = r, !.t = t]
    <2>1. Arrival(c)
      BY TemplatesAssumption DEF Arrival, Call, CallFields, NoCall
    <2> QED
      BY <1>3, <2>1 DEF CreateDeployment
  <1>4. ASSUME NEW id \in PodNames, NEW t \in Templates, NEW n \in Nodes \cup {None}, CreatePod(h, id, t, n)
        PROVE  \E c : Arrival(c) /\ Serves(h, c)
    <2> DEFINE c == [NoCall EXCEPT !.op = "pod", !.at = "admit", !.replicas = 1, !.t = t, !.node = n,
                     !.left = {id}]
    <2>1. id[1] = None
      BY <1>4 DEF CreatePod
    <2>2. Arrival(c)
      BY <2>1, TemplatesAssumption DEF Arrival, Call, CallFields, NoCall
    <2> QED
      BY <1>4, <2>2 DEF CreatePod
  <1>5. ASSUME NEW v \in Volumes, CreateVolume(h, v) \/ DeleteVolume(h, v)
        PROVE  \E c : Arrival(c) /\ Serves(h, c)
    <2> DEFINE c == [NoCall EXCEPT !.op = "volume", !.at = "provision", !.d = v]
               e == [NoCall EXCEPT !.op = "volume", !.at = "deprovision", !.d = v]
    <2>1. Arrival(c) /\ Arrival(e)
      BY VolumesAssumption DEF Arrival, Call, CallFields, NoCall
    <2> QED
      BY <1>5, <2>1 DEF CreateVolume, DeleteVolume
  <1>6. ASSUME NEW d \in Names, DeleteDeployment(h, d)
        PROVE  \E c : Arrival(c) /\ Serves(h, c)
    <2> DEFINE c == [NoCall EXCEPT !.op = "delete", !.at = "remove", !.d = d]
    <2>1. Arrival(c)
      BY DEF Arrival, Call, CallFields, NoCall
    <2> QED
      BY <1>6, <2>1 DEF DeleteDeployment
  <1> QED
    BY <1>1, <1>2, <1>3, <1>4, <1>5, <1>6 DEF Arrives

\* The requests other than h are where they were.
OnlyCall(h) == CallsOK' /\ \A g \in Handlers \ {h} : call'[g] = call[g]

LEMMA ArrivesCall ==
    ASSUME TypeOK, NEW h \in Handlers, Arrives(h)
    PROVE  /\ OnlyCall(h) /\ call[h].at = "idle"
           /\ call'[h].at \in {"lookup", "provision", "deprovision", "admit", "remove"}
           /\ UNCHANGED <<objects, storage, controllers, flags>>
  <1>1. PICK c : Arrival(c) /\ Serves(h, c)
    BY Arrivals
  <1>2. CallsOK
    BY DEF TypeOK, CallsOK
  <1>3. OnlyCall(h) /\ call'[h] = c
    BY <1>1, <1>2, CallChanges DEF Serves, Arrival, OnlyCall
  <1> QED
    BY <1>1, <1>3 DEF Serves, Arrival, At

\* The two requests that have read something: a report, and the autoscaler.
LEMMA ReportArrives ==
    ASSUME TypeOK, NEW h \in Handlers, NEW id \in PodNames, UpdatePodStatus(h, id)
    PROVE  /\ OnlyCall(h) /\ call[h].at = "idle" /\ pods[id] # None
           /\ call'[h].at = "report" /\ call'[h].t = pods[id].t /\ call'[h].left = {id} /\ call'[h].d = None
           /\ UNCHANGED <<objects, storage, controllers, flags>>
  <1> DEFINE c == [NoCall EXCEPT !.op = "report", !.at = "report", !.t = pods[id].t,
                     !.node = pods[id].node, !.left = {id}]
  <1>1. pods[id] # None /\ Serves(h, c)
    BY DEF UpdatePodStatus
  <1>2. pods[id].t \in Template /\ pods[id].node \in Nodes \cup {None}
    BY <1>1 DEF TypeOK, Pod
  <1>3. /\ Call(c) /\ c.at = "report" /\ c.t = pods[id].t /\ c.left = {id} /\ c.d = None
    BY <1>2 DEF Call, CallFields, NoCall
  <1> HIDE DEF c
  <1>4. CallsOK
    BY DEF TypeOK, CallsOK
  <1>5. OnlyCall(h) /\ call'[h] = c
    BY <1>1, <1>3, <1>4, CallChanges DEF Serves, OnlyCall
  <1> QED
    BY <1>1, <1>3, <1>5 DEF Serves, At

LEMMA AutoscaleCall ==
    ASSUME TypeOK, NEW h \in Handlers, NEW d \in Names, NEW r \in 1 .. MaxReplicas, Autoscale(h, d, r)
    PROVE  /\ OnlyCall(h) /\ call[h].at = "idle" /\ deployments[d] # None
           /\ call'[h].at = "put" /\ call'[h].op = "deploy" /\ call'[h].d = d /\ call'[h].replicas = r
           /\ call'[h].t = deployments[d].t /\ call'[h].managed = deployments[d].managed
           /\ flags' = [flags EXCEPT !.blind = @ \/ r > Promised(d)]
           /\ UNCHANGED <<objects, storage, controllers>>
  <1> DEFINE c == [NoCall EXCEPT !.op = "deploy", !.at = "put", !.d = d, !.replicas = r,
                     !.t = deployments[d].t, !.managed = deployments[d].managed]
  <1>1. /\ deployments[d] # None /\ call[h].at = "idle" /\ call' = [call EXCEPT ![h] = c]
        /\ flags' = [flags EXCEPT !.blind = @ \/ r > Promised(d)]
        /\ UNCHANGED <<objects, storage, controllers>>
    BY DEF Autoscale, At
  <1>2. deployments[d].t \in Template /\ deployments[d].managed \in BOOLEAN
    BY <1>1 DEF TypeOK, Deployment
  <1>3. /\ Call(c) /\ c.at = "put" /\ c.op = "deploy" /\ c.d = d /\ c.replicas = r
        /\ c.t = deployments[d].t /\ c.managed = deployments[d].managed
    BY <1>2 DEF Call, CallFields, NoCall
  <1> HIDE DEF c
  <1>4. CallsOK
    BY DEF TypeOK, CallsOK
  <1>5. OnlyCall(h) /\ call'[h] = c
    BY <1>1, <1>3, <1>4, CallChanges DEF OnlyCall
  <1> QED
    BY <1>1, <1>3, <1>5

LEMMA LookUpCall ==
    ASSUME TypeOK, NEW h \in Handlers, NEW readable \in BOOLEAN, LookUp(h, readable)
    PROVE  /\ OnlyCall(h) /\ call[h].at = "lookup" /\ call'[h].at \in {"volume", "admit"}
           /\ UNCHANGED <<objects, storage, controllers, flags>>
  <1> DEFINE c == call[h]
             edit == readable /\ deployments[c.d] # None
             vols == IF c.t.vols = {} /\ edit THEN deployments[c.d].t.vols ELSE c.t.vols
             to == IF c.t.vols # {} THEN "volume" ELSE "admit"
             t == [c.t EXCEPT !.vols = vols]
             new == [c EXCEPT !.edit = edit, !.at = to, !.t = t]
  <1>1. CallsOK /\ Call(c) /\ c.at = "lookup" /\ UNCHANGED <<objects, storage, controllers, flags>>
    BY DEF TypeOK, CallsOK, LookUp, At
  <1>2. c.op = "deploy" /\ c.d \in Names /\ c.t \in Template
    BY <1>1 DEF Call
  <1>3. call' = [call EXCEPT ![h] = new]
    BY <1>1, <1>2 DEF LookUp, CallsOK, Call, CallFields, Template
  <1>4. vols \in SUBSET Volumes
    BY <1>2 DEF TypeOK, Deployment, Template
  <1>5. t \in Template
    BY <1>2, <1>4 DEF Template
  <1>6. to \in {"volume", "admit"} /\ (to = "volume" => c.d \in Volumes)
    BY <1>1 DEF Call
  <1> HIDE DEF edit, vols, t, to
  <1>7. /\ new.at = to /\ new.t = t /\ new.d = c.d /\ new.op = c.op /\ new.left = c.left /\ new.node = c.node
        /\ new.replicas = c.replicas /\ new.managed = c.managed /\ DOMAIN new = CallFields
    BY <1>1 DEF Call, CallFields
  <1> HIDE DEF new
  <1>8. Call(new)
    BY <1>1, <1>2, <1>5, <1>6, <1>7 DEF Call
  <1>9. OnlyCall(h) /\ call'[h] = new
    BY <1>1, <1>3, <1>8, CallChanges DEF OnlyCall
  <1> QED
    BY <1>1, <1>6, <1>7, <1>9

GetsVolume(h) == \E readable \in BOOLEAN : GetVolume(h, readable)
VolumeStep(h) == GetsVolume(h) \/ Provision(h) \/ PutVolume(h) \/ Deprovision(h) \/ UnrecordVolume(h)

LEMMA VolumeStepCall ==
    ASSUME TypeOK, NEW h \in Handlers, VolumeStep(h)
    PROVE  /\ OnlyCall(h) /\ call[h].d \in Volumes
           /\ call[h].at \in {"volume", "provision", "record", "deprovision", "unrecord"}
           /\ GetsVolume(h) => call[h].at = "volume" /\ call'[h].at \in {"provision", "admit"}
           /\ Provision(h) => call'[h].at = "record" /\ call'[h].d = call[h].d
           /\ Deprovision(h) => call'[h].at = "unrecord" /\ call'[h].d = call[h].d
           /\ PutVolume(h) \/ UnrecordVolume(h) => call'[h].at \in {"idle", "admit"}
  <1>1. CallsOK /\ Call(call[h])
    BY DEF TypeOK, CallsOK
  <1>2. CASE GetsVolume(h)
    <2>1. PICK readable \in BOOLEAN : GetVolume(h, readable)
      BY <1>2 DEF GetsVolume
    <2> DEFINE w == IF readable /\ volumes[call[h].d] # None THEN "admit" ELSE "provision"
    <2>2. Goes(h, w) /\ call[h].at = "volume" /\ w \in {"provision", "admit"}
      BY <2>1 DEF GetVolume, At
    <2> HIDE DEF w
    <2>3. Call([call[h] EXCEPT !.at = w])
      BY <1>1, <2>2, NoneAssumption, VolumesAssumption DEF Call, CallFields
    <2>4. OnlyCall(h) /\ call'[h] = [call[h] EXCEPT !.at = w]
      BY <1>1, <2>2, <2>3, CallGoes DEF OnlyCall
    <2>5. call'[h].at = w
      BY <1>1, <2>4 DEF Call, CallFields
    <2> QED
      BY <1>1, <2>2, <2>4, <2>5 DEF Provision, Deprovision, PutVolume, UnrecordVolume, At, Call
  <1>3. CASE Provision(h)
    <2>1. Call([call[h] EXCEPT !.at = "record"]) /\ call[h].at = "provision"
      BY <1>1, <1>3 DEF Provision, At, Call, CallFields
    <2>2. OnlyCall(h) /\ call'[h] = [call[h] EXCEPT !.at = "record"]
      BY <1>1, <1>3, <2>1, CallGoes DEF OnlyCall, Provision
    <2> QED
      BY <1>1, <2>1, <2>2 DEF GetsVolume, GetVolume, Deprovision, PutVolume, UnrecordVolume, At, Call, CallFields
  <1>4. CASE Deprovision(h)
    <2>1. Call([call[h] EXCEPT !.at = "unrecord"]) /\ call[h].at = "deprovision"
      BY <1>1, <1>4 DEF Deprovision, At, Call, CallFields
    <2>2. OnlyCall(h) /\ call'[h] = [call[h] EXCEPT !.at = "unrecord"]
      BY <1>1, <1>4, <2>1, CallGoes DEF OnlyCall, Deprovision
    <2> QED
      BY <1>1, <2>1, <2>2 DEF GetsVolume, GetVolume, Provision, PutVolume, UnrecordVolume, At, Call, CallFields
  <1>5. CASE PutVolume(h)
    <2>0. call[h].at = "record"
      BY <1>5 DEF PutVolume, At
    <2>1. CASE call[h].op = "deploy"
      <3>1. Call([call[h] EXCEPT !.at = "admit"])
        BY <1>1, <2>0, <2>1 DEF Call, CallFields
      <3>2. OnlyCall(h) /\ call'[h] = [call[h] EXCEPT !.at = "admit"]
        BY <1>1, <1>5, <2>1, <3>1, CallGoes DEF OnlyCall, PutVolume
      <3> QED
        BY <1>1, <2>0, <3>2 DEF GetsVolume, GetVolume, Provision, Deprovision, UnrecordVolume, At, Call, CallFields
    <2>2. CASE call[h].op # "deploy"
      <3>1. OnlyCall(h) /\ call'[h] = NoCall
        BY <1>1, <1>5, <2>2, CallReturns DEF OnlyCall, PutVolume
      <3> QED
        BY <1>1, <2>0, <3>1, IdleCall DEF GetsVolume, GetVolume, Provision, Deprovision, UnrecordVolume, At, Call
    <2> QED
      BY <2>1, <2>2
  <1>6. CASE UnrecordVolume(h)
    <2>1. OnlyCall(h) /\ call'[h] = NoCall /\ call[h].at = "unrecord"
      BY <1>1, <1>6, CallReturns DEF OnlyCall, UnrecordVolume, At
    <2> QED
      BY <1>1, <2>1, IdleCall DEF GetsVolume, GetVolume, Provision, Deprovision, PutVolume, At, Call
  <1> QED
    BY <1>2, <1>3, <1>4, <1>5, <1>6 DEF VolumeStep

\* Admission: the request is over, or goes on with the template the policies changed.
LEMMA AdmitCall ==
    ASSUME TypeOK, NEW h \in Handlers, NEW unread, Admit(h, unread)
    PROVE  /\ OnlyCall(h) /\ call[h].at = "admit"
           /\ \/ call'[h].at = "idle" /\ flags' = flags
              \/ /\ call'[h].at = "put"
                 /\ call'[h].d = call[h].d /\ call[h].op \in {"deploy", "pod"} /\ call'[h].op = call[h].op
                 /\ call'[h].replicas = call[h].replicas /\ call'[h].left = call[h].left
                 /\ call[h].t \in Template /\ call'[h].t = Defaulted(call[h].t)
                 /\ Admitted(call[h].d, call[h].t, call[h].replicas, Cardinality(Stored), volumes, unread)
                 /\ flags' = [Raise("unowned", Unowned(h, unread)) EXCEPT !.blind = @ \/ Unseen(h)]
           /\ UNCHANGED <<objects, storage, controllers>>
  <1> DEFINE ok == Admitted(call[h].d, call[h].t, call[h].replicas, Cardinality(Stored), volumes, unread)
  <1>1. CallsOK /\ Call(call[h]) /\ call[h].at = "admit"
    BY DEF TypeOK, CallsOK, Admit, At
  <1>2. CASE ok
    <2> DEFINE c == [call[h] EXCEPT !.at = "put", !.t = Defaulted(@)]
    <2>1. call' = [call EXCEPT ![h] = c]
      BY <1>1, <1>2 DEF Admit, TypeOK
    <2>2. call[h].op \in {"deploy", "pod"} /\ call[h].t \in Template
      BY <1>1 DEF Call
    <2>3. Defaulted(call[h].t) \in Template
      BY <2>2 DEF Defaulted, Template
    <2>4. /\ c.at = "put" /\ c.t = Defaulted(call[h].t) /\ c.d = call[h].d /\ c.op = call[h].op
          /\ c.left = call[h].left /\ c.replicas = call[h].replicas /\ c.managed = call[h].managed
          /\ c.node = call[h].node /\ DOMAIN c = CallFields
      BY <1>1 DEF Call, CallFields
    <2> HIDE DEF c
    <2>5. Call(c)
      BY <1>1, <2>2, <2>3, <2>4 DEF Call
    <2>6. OnlyCall(h) /\ call'[h] = c
      BY <1>1, <2>1, <2>5, CallChanges DEF OnlyCall
    <2> QED
      BY <1>1, <1>2, <2>2, <2>4, <2>6 DEF Admit
  <1>3. CASE ~ok
    <2>1. OnlyCall(h) /\ call'[h] = NoCall
      BY <1>1, <1>3, CallReturns DEF OnlyCall, Admit
    <2> QED
      BY <1>1, <1>3, <2>1, IdleCall DEF Admit
  <1> QED
    BY <1>2, <1>3

LEMMA PutCall ==
    ASSUME TypeOK, NEW h \in Handlers, PutDeployment(h) \/ PutPod(h)
    PROVE  /\ OnlyCall(h) /\ call[h].at = "put" /\ call[h].t \in Template
           /\ PutDeployment(h) => call[h].op = "deploy" /\ call[h].d \in Names
           /\ \/ call'[h].at = "idle"
              \/ PutDeployment(h) /\ call[h].edit /\ call'[h].at = "restart" /\ call'[h].d = call[h].d
           /\ PutDeployment(h) /\ call[h].edit => call'[h].at = "restart" /\ call'[h].op = "deploy"
  <1>1. CallsOK /\ Call(call[h]) /\ call[h].at = "put" /\ call[h].op \in {"deploy", "pod"}
    BY DEF TypeOK, CallsOK, PutDeployment, PutPod, At
  <1>2. CASE PutDeployment(h) /\ call[h].edit
    <2>1. Call([call[h] EXCEPT !.at = "restart"])
      BY <1>1, <1>2 DEF PutDeployment, Call, CallFields
    <2>2. OnlyCall(h) /\ call'[h] = [call[h] EXCEPT !.at = "restart"]
      BY <1>1, <1>2, <2>1, CallGoes DEF OnlyCall, PutDeployment
    <2> QED
      BY <1>1, <1>2, <2>2 DEF PutDeployment, Call, CallFields
  <1>3. CASE ~(PutDeployment(h) /\ call[h].edit)
    <2>1. Returns(h)
      BY <1>3 DEF PutDeployment, PutPod
    <2>2. OnlyCall(h) /\ call'[h] = NoCall
      BY <1>1, <2>1, CallReturns DEF OnlyCall
    <2> QED
      BY <1>1, <1>3, <2>2, IdleCall DEF PutDeployment, Call
  <1> QED
    BY <1>2, <1>3

LEMMA ReportPutCall ==
    ASSUME TypeOK, NEW h \in Handlers, ReportPut(h)
    PROVE  OnlyCall(h) /\ call[h].at = "report" /\ call[h].op = "report" /\ call[h].t \in Template
           /\ call'[h].at = "idle"
  <1>1. CallsOK /\ Call(call[h]) /\ call[h].at = "report" /\ Returns(h)
    BY DEF TypeOK, CallsOK, ReportPut, At
  <1>2. OnlyCall(h) /\ call'[h] = NoCall
    BY <1>1, CallReturns DEF OnlyCall
  <1> QED
    BY <1>1, <1>2, IdleCall DEF Call

LEMMA RemoveCall ==
    ASSUME TypeOK, NEW h \in Handlers, Remove(h)
    PROVE  /\ OnlyCall(h) /\ call[h].at = "remove" /\ call[h].op = "delete" /\ call[h].d \in Names
           /\ call'[h].at = "restart" /\ call'[h].op = "delete" /\ call'[h].d = call[h].d
  <1>1. CallsOK /\ Call(call[h]) /\ call[h].at = "remove" /\ Goes(h, "restart")
    BY DEF TypeOK, CallsOK, Remove, At
  <1>2. call[h].op = "delete"
    BY <1>1 DEF Call
  <1>3. Call([call[h] EXCEPT !.at = "restart"])
    BY <1>1, <1>2 DEF Call, CallFields
  <1>4. OnlyCall(h) /\ call'[h] = [call[h] EXCEPT !.at = "restart"]
    BY <1>1, <1>3, CallGoes DEF OnlyCall
  <1> QED
    BY <1>1, <1>2, <1>4 DEF Call, CallFields

LEMMA RestartListCall ==
    ASSUME TypeOK, NEW h \in Handlers, RestartList(h)
    PROVE  /\ OnlyCall(h) /\ call[h].at = "restart" /\ call[h].d \in Names
           /\ \/ call'[h].at = "idle" /\ PodsOf(call[h].d) = {}
              \/ /\ call'[h].at = "deleting" /\ call'[h].d = call[h].d /\ call'[h].op = call[h].op
                 /\ call'[h].left = PodsOf(call[h].d)
  <1>1. CallsOK /\ Call(call[h]) /\ call[h].at = "restart"
    BY DEF TypeOK, CallsOK, RestartList, At
  <1>2. CASE PodsOf(call[h].d) = {}
    <2>1. OnlyCall(h) /\ call'[h] = NoCall
      BY <1>1, <1>2, CallReturns DEF OnlyCall, RestartList
    <2> QED
      BY <1>1, <1>2, <2>1, IdleCall DEF Call
  <1>3. CASE PodsOf(call[h].d) # {}
    <2> DEFINE c == [call[h] EXCEPT !.at = "deleting", !.left = PodsOf(call[h].d)]
    <2>1. call' = [call EXCEPT ![h] = c]
      BY <1>1, <1>3 DEF RestartList, TypeOK
    <2>2. Call(c)
      BY <1>1 DEF Call, CallFields, PodsOf
    <2>3. OnlyCall(h) /\ call'[h] = c
      BY <1>1, <2>1, <2>2, CallChanges DEF OnlyCall
    <2> QED
      BY <1>1, <2>3 DEF Call, CallFields
  <1> QED
    BY <1>2, <1>3

LEMMA RestartDeleteCall ==
    ASSUME TypeOK, NEW h \in Handlers, NEW id \in PodNames, RestartDelete(h, id)
    PROVE  /\ OnlyCall(h) /\ call[h].at = "deleting" /\ call[h].d \in Names /\ id[1] = call[h].d
           /\ \/ call'[h].at = "idle" /\ call[h].left = {id}
              \/ /\ call'[h].at = "deleting" /\ call'[h].d = call[h].d /\ call'[h].op = call[h].op
                 /\ call'[h].left = call[h].left \ {id}
  <1>1. CallsOK /\ Call(call[h]) /\ call[h].at = "deleting" /\ id \in call[h].left
    BY DEF TypeOK, CallsOK, RestartDelete, At
  <1>2. /\ OnlyCall(h)
        /\ \/ call'[h] = NoCall /\ call[h].left = {id}
           \/ call'[h] = [call[h] EXCEPT !.left = @ \ {id}]
    BY <1>1, CallDeleted DEF RestartDelete, OnlyCall
  <1> QED
    BY <1>1, <1>2, IdleCall DEF Call, CallFields

\* A failure only ends a request or drops a pod from its list.
LEMMA CallFailsCall ==
    ASSUME TypeOK, NEW h \in Handlers, CallFails(h)
    PROVE  /\ OnlyCall(h)
           /\ \/ call'[h].at = "idle"
              \/ /\ call[h].at = "deleting" /\ call[h].op = "deploy"
                 /\ call'[h].at = "deleting" /\ call'[h].d = call[h].d
  <1>1. CallsOK /\ Call(call[h])
    BY DEF TypeOK, CallsOK
  <1>2. CASE Returns(h)
    BY <1>1, <1>2, CallReturns, IdleCall DEF OnlyCall
  <1>3. CASE ~Returns(h)
    <2>1. PICK id \in call[h].left : Deleted(h, id)
      BY <1>3 DEF CallFails
    <2>2. id \in PodNames /\ call[h].at = "deleting" /\ call[h].op = "deploy"
      BY <1>1, <1>3 DEF Call, CallFails, At
    <2>3. /\ OnlyCall(h)
          /\ \/ call'[h] = NoCall
             \/ call'[h] = [call[h] EXCEPT !.left = @ \ {id}]
      BY <1>1, <2>1, <2>2, CallDeleted DEF OnlyCall
    <2> QED
      BY <1>1, <2>2, <2>3, IdleCall DEF Call, CallFields
  <1> QED
    BY <1>2, <1>3

-----------------------------------------------------------------------------
(* The controllers.                                                        *)

\* Sets of pods have a first one.
LEMMA FirstIsIn ==
    ASSUME NEW S \in SUBSET PodNames, S # {}
    PROVE  First(S) \in S
  <1> DEFINE T == {id[2] : id \in S}
             R == OpToRel(<, Nat)
  <1>1. T \subseteq Nat /\ T # {}
    BY SizesAssumption DEF PodNames
  <1>2. IsWellFoundedOn(R, Nat)
    BY NatLessThanWellFounded
  <1>3. \A m, n \in Nat : <<m, n>> \in R <=> m < n
    BY DEF OpToRel
  <1> HIDE DEF T, R
  <1>4. PICK m \in T : \A n \in T : ~(<<n, m>> \in R)
    BY <1>1, <1>2, WFMin
  <1>5. ASSUME NEW n \in T PROVE m <= n
    <2>1. m \in Nat /\ n \in Nat
      BY <1>1
    <2>2. ~(n < m)
      BY <1>3, <1>4, <2>1
    <2> QED
      BY <2>1, <2>2
  <1>6. PICK id \in S : id[2] = m
    BY DEF T
  <1>7. \A other \in S : id[2] <= other[2]
    BY <1>5, <1>6 DEF T
  <1> QED
    BY <1>7 DEF First

LEMMA FinitePods == IsFiniteSet(PodNames)
  <1>1. IsFiniteSet(0 .. MaxReplicas - 1)
    BY FS_Interval, SizesAssumption
  <1>2. IsFiniteSet(Names \cup {None})
    BY FS_AddElement, NamesAssumption
  <1> QED
    BY <1>1, <1>2, FS_Product DEF PodNames

LEMMA UsageIsNat == \A n : Usage(n) \in Nat
  <1>1. SUFFICES ASSUME NEW n PROVE Usage(n) \in Nat
    OBVIOUS
  <1>2. {id \in Stored : pods[id].node = n} \in SUBSET PodNames
    BY DEF Stored
  <1> QED
    BY <1>2, FinitePods, FS_Subset, FS_CardinalityType DEF Usage

LEMMA NoPassIs ==
    /\ NoPass.at = "idle" /\ NoPass.d = None /\ NoPass.owned = << >> /\ NoPass.taken = {} /\ NoPass.left = {}
    /\ DOMAIN NoPass = PassFields /\ DOMAIN << >> = {}
  BY DEF NoPass, PassFields

LEMMA FetchPass ==
    ASSUME TypeOK, NEW d \in Names, Fetch(d)
    PROVE  /\ RcOK' /\ rc'.at = "size" /\ rc'.d = d /\ rc'.copy = deployments[d] /\ rc'.owned = << >>
           /\ UNCHANGED <<objects, storage, call, pr, flags>> /\ rc.at = "idle" /\ deployments[d] # None
  <1>1. /\ rc'.at = "size" /\ rc'.d = d /\ rc'.copy = deployments[d] /\ rc'.owned = << >> /\ rc'.taken = {}
        /\ rc'.left = {} /\ DOMAIN rc' = PassFields
    BY DEF Fetch, NoPass, PassFields
  <1>2. UNCHANGED <<objects, storage, call, pr, flags>> /\ rc.at = "idle" /\ deployments[d] # None
    BY DEF Fetch
  <1>3. RcOK'
    BY <1>1, <1>2, NoPassIs DEF TypeOK, RcOK, objects
  <1> QED
    BY <1>1, <1>2, <1>3

\* What a pass may go on with once it has looked at the pods.
SamePass == rc'.d = rc.d /\ rc'.copy = rc.copy /\ rc'.owned = rc.owned

LEMMA PinnedToNode ==
    ASSUME TypeOK, NEW vols \in SUBSET Volumes
    PROVE  PinnedTo(vols) \in Nodes \cup {None}
  BY DEF PinnedTo, Claimed, TypeOK, Volume

\* Size only removes pods and creates ones of the copy in hand.
SizesTo(pin, id) ==
    \/ pods'[id] = pods[id]
    \/ pods'[id] = None
    \/ id[1] = rc.d /\ pods'[id] = [t |-> rc.copy.t, node |-> pin]

LEMMA SizePass ==
    ASSUME TypeOK, Size
    PROVE  /\ RcOK' /\ SamePass /\ rc'.at = "list" /\ rc.at = "size"
           /\ pods' \in [PodNames -> Pod \cup {None}]
           /\ UNCHANGED <<deployments, volumes, storage, call, pr>>
           /\ \E pin \in Nodes \cup {None} :
                 /\ \A id \in PodNames : SizesTo(pin, id)
                 /\ flags'.crowded = flags.crowded \cup {pin} \/ pin = None \/ \A id \in PodNames : pods'[id] \in {pods[id], None}
           /\ DOMAIN flags' = FlagFields
           /\ flags'.stale = flags.stale /\ flags'.torn = flags.torn /\ flags'.unowned = flags.unowned
           /\ flags.crowded \subseteq flags'.crowded
  <1> DEFINE d == rc.d
             want == Want(rc.copy)
             have == Cardinality(PodsOf(d))
             pin == PinnedTo(rc.copy.t.vols)
             free == {<<d, i>> : i \in 0 .. MaxReplicas - 1} \ PodsOf(d)
             new == {id \in free : Cardinality({o \in free : o[2] < id[2]}) < want - have}
             old == {id \in PodsOf(d) : Cardinality({o \in PodsOf(d) : o[2] > id[2]}) < have - want}
  <1>1. /\ rc.at = "size" /\ rc' = [rc EXCEPT !.at = "list"]
        /\ UNCHANGED <<deployments, volumes, storage, call, pr>>
        /\ pods' = CASE have < want -> [id \in PodNames |-> IF id \in new THEN [t |-> rc.copy.t, node |-> pin]
                                                            ELSE pods[id]]
                     [] have > want -> [id \in PodNames |-> IF id \in old THEN None ELSE pods[id]]
                     [] OTHER -> pods
        /\ flags' = [flags EXCEPT
                !.crowded = IF have < want /\ pin # None THEN @ \cup {pin} ELSE @,
                !.moved = @ \cup IF have < want THEN Scattered(rc.copy.t.vols)
                                ELSE UNION {Unclaimed(id) : id \in old}]
    BY DEF Size
  <1>2. rc.copy \in Deployment /\ d \in Names
    BY <1>1 DEF TypeOK, RcOK
  <1>3. pin \in Nodes \cup {None}
    BY <1>2, PinnedToNode DEF Deployment, Template
  <1>4. \A id \in new : id[1] = d
    OBVIOUS
  <1>5. have \in Nat /\ want \in Int
    <2>1. have \in Nat
      <3>1. PodsOf(d) \in SUBSET PodNames
        BY DEF PodsOf
      <3> QED
        BY <3>1, FinitePods, FS_Subset, FS_CardinalityType
    <2> QED
      BY <1>2, <2>1 DEF Want, Deployment
  <1>6. [t |-> rc.copy.t, node |-> pin] \in Pod
    BY <1>2, <1>3 DEF Pod, Deployment
  <1> HIDE DEF have, want, pin, new, old, d
  <1>7. SamePass /\ rc'.at = "list" /\ RcOK'
    BY <1>1, NoPassIs DEF TypeOK, RcOK, SamePass, PassFields
  <1>8. /\ DOMAIN flags' = FlagFields
        /\ flags'.stale = flags.stale /\ flags'.torn = flags.torn /\ flags'.unowned = flags.unowned
        /\ flags'.crowded = IF have < want /\ pin # None THEN flags.crowded \cup {pin} ELSE flags.crowded
    BY <1>1 DEF TypeOK, FlagFields
  <1>9. CASE have < want
    <2>1. pods' = [id \in PodNames |-> IF id \in new THEN [t |-> rc.copy.t, node |-> pin] ELSE pods[id]]
      BY <1>1, <1>5, <1>9
    <2>2. pods' \in [PodNames -> Pod \cup {None}]
      BY <1>6, <2>1 DEF TypeOK
    <2>3. \A id \in PodNames : SizesTo(pin, id)
      BY <1>4, <2>1 DEF SizesTo, d
    <2>4. flags'.crowded = flags.crowded \cup {pin} \/ pin = None
      BY <1>8, <1>9
    <2> QED
      BY <1>1, <1>3, <1>7, <1>8, <2>2, <2>3, <2>4
  <1>10. CASE ~(have < want)
    <2>1. \A id \in PodNames : pods'[id] \in {pods[id], None}
      <3>1. CASE have > want
        <4>1. pods' = [id \in PodNames |-> IF id \in old THEN None ELSE pods[id]]
          BY <1>1, <1>5, <1>10, <3>1
        <4> QED
          BY <4>1
      <3>2. CASE ~(have > want)
        BY <1>1, <1>5, <1>10, <3>2
      <3> QED
        BY <3>1, <3>2
    <2>2. pods' \in [PodNames -> Pod \cup {None}]
      <3>1. CASE have > want
        <4>1. pods' = [id \in PodNames |-> IF id \in old THEN None ELSE pods[id]]
          BY <1>1, <1>5, <1>10, <3>1
        <4> QED
          BY <4>1 DEF TypeOK
      <3>2. CASE ~(have > want)
        BY <1>1, <1>5, <1>10, <3>2 DEF TypeOK
      <3> QED
        BY <3>1, <3>2
    <2>3. \A id \in PodNames : SizesTo(pin, id)
      BY <2>1 DEF SizesTo
    <2> QED
      BY <1>1, <1>3, <1>7, <1>8, <2>1, <2>2, <2>3
  <1> QED
    BY <1>9, <1>10

LEMMA ListOwnedPass ==
    ASSUME TypeOK, ListOwned
    PROVE  /\ RcOK' /\ rc.at = "list" /\ rc'.at = "place" /\ rc'.d = rc.d /\ rc'.copy = rc.copy
           /\ DOMAIN rc'.owned = PodsOf(rc.d) /\ \A id \in PodsOf(rc.d) : rc'.owned[id] = pods[id]
           /\ \A n \in Nodes : rc'.usage[n] = Usage(n)
           /\ UNCHANGED <<objects, storage, call, pr, flags>>
  <1>1. /\ rc'.at = "place" /\ rc'.d = rc.d /\ rc'.copy = rc.copy /\ rc'.taken = rc.taken
        /\ rc'.owned = [id \in PodsOf(rc.d) |-> pods[id]] /\ rc'.usage = Usages
        /\ rc'.left = rc.left /\ DOMAIN rc' = PassFields
    BY DEF ListOwned, TypeOK, RcOK, PassFields
  <1>2. UNCHANGED <<objects, storage, call, pr, flags>> /\ rc.at = "list"
    BY DEF ListOwned
  <1>3. Usages \in [Nodes -> Nat] /\ \A n \in Nodes : Usages[n] = Usage(n)
    BY UsageIsNat DEF Usages
  <1>4. \A id \in PodsOf(rc.d) : id \in PodNames /\ id[1] = rc.d /\ pods[id] \in Pod
    BY DEF PodsOf, TypeOK
  <1>5. RcOK'
    BY <1>1, <1>2, <1>3, <1>4 DEF TypeOK, RcOK, objects
  <1> QED
    BY <1>1, <1>2, <1>3, <1>5

\* The end of the scheduling.
LEMMA ToClaimIs ==
    ASSUME TypeOK, rc.at = "place", NEW owned, DOMAIN owned = DOMAIN rc.owned,
           \A id \in DOMAIN owned : owned[id] \in Pod, rc' = ToClaim(owned)
    PROVE  /\ RcOK' /\ rc'.at = "claim" /\ rc'.d = rc.d /\ rc'.copy = rc.copy /\ rc'.owned = owned
           /\ rc'.taken = {}
  <1> DEFINE left == IF \E id \in DOMAIN owned : owned[id].node # None THEN rc.copy.t.vols ELSE {}
  <1>1. rc' = [rc EXCEPT !.at = "claim", !.owned = owned, !.usage = << >>, !.taken = {}, !.left = left]
    BY DEF ToClaim
  <1>2. left # {} => left \subseteq rc.copy.t.vols /\ \E id \in DOMAIN owned : owned[id].node # None
    OBVIOUS
  <1> HIDE DEF left
  <1>3. /\ rc'.at = "claim" /\ rc'.d = rc.d /\ rc'.copy = rc.copy /\ rc'.owned = owned /\ rc'.taken = {}
        /\ rc'.left = left /\ DOMAIN rc' = PassFields
    BY <1>1 DEF TypeOK, RcOK, PassFields
  <1>4. RcOK'
    BY <1>2, <1>3 DEF TypeOK, RcOK
  <1> QED
    BY <1>3, <1>4

LEMMA PlacePass ==
    ASSUME TypeOK, NEW n \in Nodes, Place(n) \/ PlaceFails(n)
    PROVE  \E id \in DOMAIN rc.owned :
              /\ RcOK' /\ rc.at = "place" /\ rc'.d = rc.d /\ rc'.copy = rc.copy
              /\ DOMAIN rc'.owned = DOMAIN rc.owned
              /\ \A o \in DOMAIN rc.owned : rc'.owned[o].t = rc.owned[o].t
              /\ rc.usage[n] < Capacity
              /\ UNCHANGED <<deployments, volumes, storage, call, pr>>
              /\ Place(n) =>
                    /\ pods' = [pods EXCEPT ![id] = [rc.owned[id] EXCEPT !.node = n]]
                    /\ [rc.owned[id] EXCEPT !.node = n] \in Pod
                    /\ rc'.at = "place" /\ rc'.usage = rc.usage /\ rc'.taken = rc.taken \cup {n}
                    /\ flags' = Raise("crowded", IF n \in rc.taken \/ pr.at # "idle" THEN {n} ELSE {})
              /\ PlaceFails(n) => /\ UNCHANGED pods /\ rc'.at = "claim"
                                  /\ flags' = Raise("moved", rc.copy.t.vols)
  <1> DEFINE id == First(Unplaced)
             p == [rc.owned[id] EXCEPT !.node = n]
  <1>1. rc.at = "place" /\ Unplaced # {} /\ rc.usage[n] < Capacity
        /\ UNCHANGED <<deployments, volumes, storage, call, pr>>
    BY DEF Place, PlaceFails, HasRoom, objects
  <1>2. id \in Unplaced
    BY <1>1, FirstIsIn DEF Unplaced, TypeOK, RcOK
  <1>3. id \in DOMAIN rc.owned /\ rc.owned[id] \in Pod /\ id[1] = rc.d
    BY <1>2 DEF Unplaced, TypeOK, RcOK
  <1> HIDE DEF id
  <1>4. p \in Pod /\ p.t = rc.owned[id].t
    BY <1>3 DEF Pod
  <1>5. CASE Place(n)
    <2>1. /\ pods' = [pods EXCEPT ![id] = p]
          /\ rc' = [rc EXCEPT !.owned[id].node = n, !.taken = @ \cup {n}]
          /\ flags' = Raise("crowded", IF n \in rc.taken \/ pr.at # "idle" THEN {n} ELSE {})
      BY <1>5 DEF Place, id
    <2>2. /\ rc'.owned = [rc.owned EXCEPT ![id] = p] /\ rc'.at = rc.at /\ rc'.d = rc.d /\ rc'.copy = rc.copy
          /\ rc'.usage = rc.usage /\ rc'.taken = rc.taken \cup {n} /\ rc'.left = rc.left /\ DOMAIN rc' = PassFields
      BY <2>1 DEF TypeOK, RcOK, PassFields
    <2> HIDE DEF p
    <2>3. /\ DOMAIN rc'.owned = DOMAIN rc.owned /\ rc'.owned[id] = p
          /\ \A o \in DOMAIN rc.owned \ {id} : rc'.owned[o] = rc.owned[o]
      BY <1>3, <2>2
    <2>4. RcOK'
      BY <1>1, <1>3, <1>4, <2>2, <2>3 DEF TypeOK, RcOK
    <2>5. ~PlaceFails(n)
      BY <1>1, <2>2 DEF PlaceFails, ToClaim, TypeOK, RcOK, PassFields
    <2> QED
      BY <1>1, <1>3, <1>4, <2>1, <2>2, <2>3, <2>4, <2>5 DEF p
  <1>6. CASE PlaceFails(n)
    <2> DEFINE owned == [rc.owned EXCEPT ![id] = p]
    <2>1. /\ rc' = ToClaim(owned)
          /\ flags' = Raise("moved", rc.copy.t.vols)
          /\ UNCHANGED pods
      <3>1. owned = [rc.owned EXCEPT ![id].node = n]
        BY <1>3
      <3> QED
        BY <1>6, <3>1 DEF PlaceFails, id, objects
    <2> HIDE DEF p
    <2>2. /\ DOMAIN owned = DOMAIN rc.owned /\ owned[id] = p
          /\ \A o \in DOMAIN rc.owned \ {id} : owned[o] = rc.owned[o]
      BY <1>3
    <2>3. \A o \in DOMAIN owned : owned[o] \in Pod /\ owned[o].t = rc.owned[o].t
      BY <1>4, <2>2 DEF TypeOK, RcOK
    <2> HIDE DEF owned
    <2>4. RcOK' /\ rc'.at = "claim" /\ rc'.d = rc.d /\ rc'.copy = rc.copy /\ rc'.owned = owned
      BY <1>1, <2>1, <2>2, <2>3, ToClaimIs
    <2>5. ~Place(n)
      BY <1>1, <2>4 DEF Place, TypeOK, RcOK, PassFields
    <2> QED
      BY <1>1, <1>3, <2>1, <2>2, <2>3, <2>4, <2>5
  <1> QED
    BY <1>5, <1>6

LEMMA PlaceEndsPass ==
    ASSUME TypeOK, PlaceEnds
    PROVE  /\ RcOK' /\ SamePass /\ rc.at = "place" /\ rc'.at = "claim"
           /\ pods' \in [PodNames -> Pod \cup {None}]
           /\ \A id \in PodNames : \/ pods'[id] = pods[id]
                                   \/ id \in DOMAIN rc.owned /\ pods'[id] = rc.owned[id] /\ rc.owned[id].node = None
           /\ UNCHANGED <<deployments, volumes, storage, call, pr, flags>>
  <1>2. UNCHANGED <<deployments, volumes, storage, call, pr, flags>> /\ rc.at = "place" /\ rc' = ToClaim(rc.owned)
    BY DEF PlaceEnds
  <1>1. \A id \in DOMAIN rc.owned : rc.owned[id] \in Pod
    BY DEF TypeOK, RcOK
  <1>3. RcOK' /\ SamePass /\ rc'.at = "claim"
    BY <1>1, <1>2, ToClaimIs DEF SamePass
  <1>4. /\ pods' \in [PodNames -> Pod \cup {None}]
        /\ \A id \in PodNames : \/ pods'[id] = pods[id]
                                \/ id \in DOMAIN rc.owned /\ pods'[id] = rc.owned[id] /\ rc.owned[id].node = None
    <2>0. pods \in [PodNames -> Pod \cup {None}] /\ \A id \in DOMAIN rc.owned : rc.owned[id] \in Pod
      BY DEF TypeOK, RcOK
    <2>1. CASE UNCHANGED pods
      BY <2>0, <2>1
    <2>2. CASE pods' = [id \in PodNames |-> IF id \in Unplaced THEN rc.owned[id] ELSE pods[id]]
      BY <2>0, <2>2 DEF Unplaced
    <2> QED
      BY <2>1, <2>2 DEF PlaceEnds
  <1> QED
    BY <1>1, <1>2, <1>3, <1>4

\* A volume is claimed, or the pass only goes on.
LEMMA ClaimPass ==
    ASSUME TypeOK, ClaimGet \/ ClaimPut \/ ClaimFails
    PROVE  /\ RcOK' /\ SamePass /\ rc.at \in {"claim", "claiming"} /\ rc'.at \in {"claim", "claiming"}
           /\ volumes' \in [Volumes -> Volume \cup {None}]
           /\ \/ /\ UNCHANGED <<volumes, flags>>
                 /\ rc'.at = "claiming" => ~Claimed(NextVolume) /\ rc'.left = rc.left
              \/ /\ rc.at = "claiming" /\ rc'.at = "claim"
                 /\ \E v \in rc.copy.t.vols :
                       /\ v = NextVolume /\ v \in Volumes
                       /\ volumes'[v] # None /\ volumes'[v].owner = rc.d
                       /\ \A u \in Volumes \ {v} : volumes'[u] = volumes[u]
                       /\ flags' = Raise("torn", IF volumes[v] = None THEN {v} ELSE {})
           /\ UNCHANGED <<deployments, pods, storage, call, pr>>
  <1> DEFINE v == NextVolume
  <1>1. ASSUME rc.left # {}
        PROVE  /\ v \in rc.left /\ v \in rc.copy.t.vols /\ v \in Volumes /\ rc.at \in {"claim", "claiming"}
               /\ rc.copy \in Deployment /\ rc.d \in Names
    <2>1. v \in rc.left
      BY <1>1 DEF NextVolume
    <2>2. rc.left \subseteq rc.copy.t.vols /\ rc.copy \in Deployment /\ rc.at \in {"claim", "claiming"} /\ rc.d \in Names
      BY <1>1 DEF TypeOK, RcOK
    <2> QED
      BY <2>1, <2>2 DEF Deployment, Template
  <1>2. CASE ClaimGet
    <2>1. rc.at = "claim" /\ rc.left # {} /\ UNCHANGED <<objects, storage, call, pr, flags>>
      BY <1>2 DEF ClaimGet
    <2>2. CASE volumes[v] # None /\ volumes[v].node = None
      <3>1. rc' = [rc EXCEPT !.at = "claiming"]
        BY <1>2, <2>2 DEF ClaimGet
      <3>2. /\ rc'.at = "claiming" /\ SamePass /\ rc'.left = rc.left /\ rc'.taken = rc.taken /\ DOMAIN rc' = PassFields
        BY <3>1 DEF TypeOK, RcOK, PassFields, SamePass
      <3>3. RcOK'
        BY <2>1, <3>2 DEF TypeOK, RcOK, SamePass
      <3> QED
        BY <2>1, <2>2, <3>2, <3>3 DEF Claimed, TypeOK, objects
    <2>3. CASE ~(volumes[v] # None /\ volumes[v].node = None)
      <3>1. rc' = [rc EXCEPT !.left = @ \ {v}]
        BY <1>2, <2>3 DEF ClaimGet
      <3>2. /\ rc'.at = "claim" /\ SamePass /\ rc'.left = rc.left \ {v} /\ rc'.taken = rc.taken /\ DOMAIN rc' = PassFields
        BY <2>1, <3>1 DEF TypeOK, RcOK, PassFields, SamePass
      <3>3. RcOK'
        BY <2>1, <3>2 DEF TypeOK, RcOK, SamePass
      <3> QED
        BY <2>1, <3>2, <3>3 DEF TypeOK, objects
    <2> QED
      BY <2>2, <2>3
  <1>3. CASE ClaimPut
    <2> DEFINE placed == DOMAIN rc.owned \ Unplaced
               new == [node |-> rc.owned[First(placed)].node, owner |-> rc.d]
    <2>1. /\ rc.at = "claiming" /\ volumes' = [volumes EXCEPT ![v] = new]
          /\ rc' = [rc EXCEPT !.at = "claim", !.left = @ \ {v}]
          /\ flags' = Raise("torn", IF volumes[v] = None THEN {v} ELSE {})
          /\ UNCHANGED <<deployments, pods, storage, call, pr>>
      BY <1>3 DEF ClaimPut
    <2>2. rc.left # {} /\ rc.d \in Names
      BY <2>1 DEF TypeOK, RcOK
    <2>3. /\ rc'.at = "claim" /\ SamePass /\ rc'.left = rc.left \ {v} /\ rc'.taken = rc.taken /\ DOMAIN rc' = PassFields
      BY <2>1 DEF TypeOK, RcOK, PassFields, SamePass
    <2>4. RcOK'
      BY <2>1, <2>2, <2>3 DEF TypeOK, RcOK, SamePass
    <2>5. placed # {} /\ placed \in SUBSET PodNames
      BY <2>2 DEF TypeOK, RcOK, Unplaced
    <2>6. First(placed) \in placed
      BY <2>5, FirstIsIn
    <2>7. new \in Volume /\ new.owner = rc.d /\ new # None
      <3>1. rc.owned[First(placed)].node \in Nodes \cup {None}
        BY <2>6 DEF TypeOK, RcOK, Pod
      <3>2. new \in Volume
        BY <2>2, <3>1 DEF Volume
      <3> QED
        BY <3>2, NoneAssumption
    <2> HIDE DEF new, placed, v
    <2>8. /\ volumes' \in [Volumes -> Volume \cup {None}] /\ volumes'[v] = new
          /\ \A u \in Volumes \ {v} : volumes'[u] = volumes[u]
      BY <1>1, <2>1, <2>2, <2>7 DEF TypeOK
    <2> QED
      BY <1>1, <2>1, <2>2, <2>3, <2>4, <2>7, <2>8 DEF v
  <1>4. CASE ClaimFails
    <2>1. /\ rc.left # {} /\ rc' = [rc EXCEPT !.at = "claim", !.left = {}]
          /\ UNCHANGED <<objects, storage, call, pr, flags>>
      BY <1>4 DEF ClaimFails
    <2>2. /\ rc'.at = "claim" /\ SamePass /\ rc'.left = {} /\ rc'.taken = rc.taken /\ DOMAIN rc' = PassFields
      BY <2>1 DEF TypeOK, RcOK, PassFields, SamePass
    <2>3. RcOK'
      BY <1>1, <2>1, <2>2 DEF TypeOK, RcOK, SamePass
    <2> QED
      BY <1>1, <2>1, <2>2, <2>3 DEF TypeOK, objects
  <1> QED
    BY <1>2, <1>3, <1>4

\* The end of a pass: the status is refetched, put, or the pass is given up.
RcStops ==
    /\ rc.at # "idle" /\ rc' = NoPass
    /\ UNCHANGED <<objects, storage, call, pr, flags>>
PrStops ==
    /\ pr.at # "idle" /\ pr' = NoPass
    /\ UNCHANGED <<objects, storage, call, rc, flags>>
Refetches ==
    /\ rc'.at = "status" /\ rc'.d = rc.d /\ rc'.copy = deployments[rc.d] /\ rc'.owned = << >>
    /\ deployments[rc.d] # None
    /\ UNCHANGED <<deployments, flags>>
GivesUp == rc' = NoPass /\ UNCHANGED <<deployments, flags>>
PutsStatus ==
    /\ rc' = NoPass /\ deployments' = [deployments EXCEPT ![rc.d] = rc.copy]
    /\ flags' = Raise("stale", Outdates(rc.d, rc.copy.t, FALSE))

LEMMA StatusPass ==
    ASSUME TypeOK, Refetch \/ PutStatus \/ RcStops
    PROVE  /\ RcOK' /\ rc.at # "idle" /\ rc.d \in Names /\ rc.copy \in Deployment
           /\ deployments' \in [Names -> Deployment \cup {None}]
           /\ UNCHANGED <<pods, volumes, storage, call, pr>>
           /\ Refetches \/ PutsStatus \/ GivesUp
  <1>0. rc.at # "idle" /\ rc.d \in Names /\ rc.copy \in Deployment
    BY DEF Refetch, PutStatus, RcStops, TypeOK, RcOK
  <1>2. ASSUME rc' = NoPass
        PROVE  RcOK'
    BY <1>2, NoPassIs DEF TypeOK, RcOK
  <1>1. CASE Refetch
    <2>0. UNCHANGED <<objects, storage, call, pr, flags>>
      BY <1>1 DEF Refetch
    <2>1. CASE deployments[rc.d] = None
      <3>1. rc' = NoPass
        BY <1>1, <2>1 DEF Refetch
      <3> QED
        BY <1>0, <1>2, <2>0, <3>1 DEF TypeOK, objects, GivesUp
    <2>2. CASE deployments[rc.d] # None
      <3>1. rc' = [NoPass EXCEPT !.at = "status", !.d = rc.d, !.copy = deployments[rc.d]]
        BY <1>1, <2>2 DEF Refetch
      <3>2. /\ rc'.at = "status" /\ rc'.d = rc.d /\ rc'.copy = deployments[rc.d] /\ rc'.owned = << >>
            /\ rc'.taken = {} /\ rc'.left = {} /\ DOMAIN rc' = PassFields
        BY <3>1 DEF NoPass, PassFields
      <3>3. deployments[rc.d] \in Deployment
        BY <1>0, <2>2 DEF TypeOK
      <3>4. RcOK'
        BY <1>0, <3>2, <3>3, NoPassIs DEF RcOK
      <3> QED
        BY <1>0, <2>0, <2>2, <3>2, <3>4 DEF TypeOK, objects, Refetches
    <2> QED
      BY <2>1, <2>2
  <1>3. CASE PutStatus
    <2>2. PutsStatus /\ UNCHANGED <<pods, volumes, storage, call, pr>>
      BY <1>3 DEF PutStatus, PutsStatus
    <2>3. RcOK' /\ deployments' \in [Names -> Deployment \cup {None}]
      BY <1>0, <1>2, <2>2 DEF PutsStatus, TypeOK
    <2> QED
      BY <1>0, <2>2, <2>3
  <1>4. CASE RcStops
    <2>1. GivesUp /\ UNCHANGED <<pods, volumes, storage, call, pr>>
      BY <1>4 DEF RcStops, GivesUp, objects
    <2>2. RcOK' /\ deployments' \in [Names -> Deployment \cup {None}]
      BY <1>2, <2>1 DEF GivesUp, TypeOK
    <2> QED
      BY <1>0, <2>1, <2>2
  <1> QED
    BY <1>1, <1>3, <1>4

\* The pod controller: it lists pods, puts one of them, goes on without, or is given up.
PrFetches ==
    /\ UNCHANGED <<pods, flags>> /\ pr'.at = "place" /\ pr.at = "idle"
    /\ \A id \in DOMAIN pr'.owned : id \in PodNames /\ pods[id] # None /\ id[1] = None
                                    /\ pods[id].node = None /\ pr'.owned[id] = pods[id]
    /\ \A n \in Nodes : pr'.usage[n] = Usage(n)
PrGoesOn(id) ==
    /\ id \in DOMAIN pr.owned /\ pr.at = "place"
    /\ DOMAIN pr'.owned = DOMAIN pr.owned \ {id}
    /\ \A i \in DOMAIN pr'.owned : pr'.owned[i] = pr.owned[i]
    /\ pr'.at = "place" => pr'.usage = pr.usage
PrPlaces(id, n) ==
    /\ PrGoesOn(id) /\ pr.usage[n] < Capacity
    /\ pods' = [pods EXCEPT ![id] = [pr.owned[id] EXCEPT !.node = n]]
    /\ [pr.owned[id] EXCEPT !.node = n] \in Pod
    /\ pr'.at = "place" => pr'.taken = pr.taken \cup {n}
    /\ flags' = Raise("crowded", IF n \in pr.taken \/ rc.at = "place" THEN {n} ELSE {})
PrWaits(id) ==
    /\ PrGoesOn(id) /\ UNCHANGED flags
    /\ pr'.at = "place" => pr'.taken = pr.taken
    /\ pods' = pods \/ pods' = [pods EXCEPT ![id] = pr.owned[id]]
PrGivesUp == pr'.at = "idle" /\ UNCHANGED <<pods, flags>>

LEMMA PodGoesOn ==
    ASSUME TypeOK, NEW id \in DOMAIN pr.owned, NEW nodes \in SUBSET Nodes, pr.at = "place", PodDone(id, nodes)
    PROVE  PrOK' /\ PrGoesOn(id) /\ (pr'.at = "place" => pr'.taken = pr.taken \cup nodes)
  <1>1. CASE DOMAIN pr.owned = {id}
    <2>1. pr' = NoPass
      BY <1>1 DEF PodDone
    <2> QED
      BY <1>1, <2>1, NoPassIs DEF PrOK, PrGoesOn
  <1>2. CASE DOMAIN pr.owned # {id}
    <2> DEFINE owned == [i \in DOMAIN pr.owned \ {id} |-> pr.owned[i]]
    <2>1. pr' = [pr EXCEPT !.owned = owned, !.taken = @ \cup nodes]
      BY <1>2 DEF PodDone
    <2>2. DOMAIN owned = DOMAIN pr.owned \ {id} /\ \A i \in DOMAIN owned : owned[i] = pr.owned[i]
      OBVIOUS
    <2>3. DOMAIN owned # {}
      BY <1>2, <2>2
    <2> HIDE DEF owned
    <2>4. pr'.owned = owned /\ pr'.taken = pr.taken \cup nodes /\ pr'.at = pr.at /\ pr'.usage = pr.usage /\ DOMAIN pr' = PassFields
      BY <2>1 DEF TypeOK, PrOK, PassFields
    <2>5. PrOK'
      BY <2>2, <2>3, <2>4 DEF TypeOK, PrOK
    <2> QED
      BY <2>2, <2>4, <2>5 DEF PrGoesOn
  <1> QED
    BY <1>1, <1>2

LEMMA PodPass ==
    ASSUME TypeOK, PodFetch \/ (\E n \in Nodes : PodPlace(n)) \/ PodWaits \/ PodPlaceFails \/ PrStops
    PROVE  /\ PrOK' /\ pods' \in [PodNames -> Pod \cup {None}]
           /\ UNCHANGED <<deployments, volumes, storage, call, rc>>
           /\ \A id \in PodNames : id[1] # None => pods'[id] = pods[id]
           /\ \/ PrFetches
              \/ \E id \in PodNames, n \in Nodes : id[1] = None /\ PrPlaces(id, n)
              \/ \E id \in PodNames : id[1] = None /\ PrWaits(id)
              \/ PrGivesUp
  <1>1. CASE PodFetch
    <2> DEFINE pending == {id \in Stored : id[1] = None /\ pods[id].node = None}
               owned == [id \in pending |-> pods[id]]
    <2>1. pr' = [NoPass EXCEPT !.at = "place", !.owned = owned, !.usage = Usages]
      BY <1>1 DEF PodFetch
    <2>2. UNCHANGED <<objects, storage, call, rc, flags>> /\ pending # {} /\ pr.at = "idle"
      BY <1>1 DEF PodFetch
    <2>3. /\ DOMAIN owned = pending
          /\ \A id \in pending : owned[id] = pods[id] /\ id \in PodNames /\ id[1] = None
                                 /\ pods[id] # None /\ pods[id].node = None /\ pods[id] \in Pod
      BY DEF Stored, TypeOK
    <2>4. Usages \in [Nodes -> Nat] /\ \A n \in Nodes : Usages[n] = Usage(n)
      BY UsageIsNat DEF Usages
    <2> HIDE DEF owned, pending
    <2>5. pr'.at = "place" /\ pr'.owned = owned /\ pr'.usage = Usages /\ pr'.taken = {} /\ DOMAIN pr' = PassFields
      BY <2>1 DEF NoPass, PassFields
    <2>6. PrOK'
      BY <2>2, <2>3, <2>4, <2>5 DEF PrOK
    <2>7. PrFetches
      BY <2>2, <2>3, <2>4, <2>5 DEF PrFetches, objects
    <2> QED
      BY <2>2, <2>6, <2>7 DEF TypeOK, objects
  <1>2. ASSUME pr.at = "place"
        PROVE  /\ First(DOMAIN pr.owned) \in DOMAIN pr.owned /\ First(DOMAIN pr.owned) \in PodNames
               /\ First(DOMAIN pr.owned)[1] = None /\ pr.owned[First(DOMAIN pr.owned)] \in Pod
    BY <1>2, FirstIsIn DEF TypeOK, PrOK
  <1>3. ASSUME NEW n \in Nodes, PodPlace(n)
        PROVE  /\ PrOK' /\ pods' \in [PodNames -> Pod \cup {None}]
               /\ \A id \in PodNames : id[1] # None => pods'[id] = pods[id]
               /\ UNCHANGED <<deployments, volumes, storage, call, rc>>
               /\ \E id \in PodNames : id[1] = None /\ PrPlaces(id, n)
    <2> DEFINE id == First(DOMAIN pr.owned)
               p == [pr.owned[id] EXCEPT !.node = n]
    <2>1. /\ pr.at = "place" /\ pr.usage[n] < Capacity
          /\ pods' = [pods EXCEPT ![id] = p] /\ PodDone(id, {n})
          /\ UNCHANGED <<deployments, volumes, storage, call, rc>>
          /\ flags' = Raise("crowded", IF n \in pr.taken \/ rc.at = "place" THEN {n} ELSE {})
      BY <1>3 DEF PodPlace, HasRoom
    <2>2. id \in DOMAIN pr.owned /\ id \in PodNames /\ id[1] = None /\ pr.owned[id] \in Pod
      BY <1>2, <2>1
    <2> HIDE DEF id
    <2>3. p \in Pod
      BY <2>2 DEF Pod
    <2>4. PrOK' /\ PrGoesOn(id) /\ (pr'.at = "place" => pr'.taken = pr.taken \cup {n})
      BY <2>1, <2>2, PodGoesOn
    <2>5. PrPlaces(id, n)
      BY <2>1, <2>3, <2>4 DEF PrPlaces
    <2> HIDE DEF p
    <2>6. pods' \in [PodNames -> Pod \cup {None}] /\ \A o \in PodNames \ {id} : pods'[o] = pods[o]
      BY <2>1, <2>2, <2>3 DEF TypeOK
    <2> QED
      BY <2>1, <2>2, <2>4, <2>5, <2>6
  <1>4. CASE PodWaits \/ PodPlaceFails
    <2> DEFINE id == First(DOMAIN pr.owned)
    <2>1. /\ pr.at = "place" /\ PodDone(id, {})
          /\ pods' = pods \/ pods' = [pods EXCEPT ![id] = pr.owned[id]]
          /\ UNCHANGED <<deployments, volumes, storage, call, rc, flags>>
      BY <1>4 DEF PodWaits, PodPlaceFails, objects
    <2>2. id \in DOMAIN pr.owned /\ id \in PodNames /\ id[1] = None /\ pr.owned[id] \in Pod
      BY <1>2, <2>1
    <2> HIDE DEF id
    <2>3. PrOK' /\ PrGoesOn(id) /\ (pr'.at = "place" => pr'.taken = pr.taken)
      <3>1. PrOK' /\ PrGoesOn(id) /\ (pr'.at = "place" => pr'.taken = pr.taken \cup {})
        BY <2>1, <2>2, {} \in SUBSET Nodes, PodGoesOn
      <3> QED
        BY <3>1
    <2>4. PrWaits(id)
      BY <2>1, <2>3 DEF PrWaits
    <2>5. pods' \in [PodNames -> Pod \cup {None}] /\ \A o \in PodNames \ {id} : pods'[o] = pods[o]
      BY <2>1, <2>2 DEF TypeOK
    <2> QED
      BY <2>1, <2>2, <2>3, <2>4, <2>5
  <1>5. CASE PrStops
    BY <1>5, NoPassIs DEF PrStops, PrOK, PrGivesUp, TypeOK, objects
  <1> QED
    BY <1>1, <1>3, <1>4, <1>5

-----------------------------------------------------------------------------
(* What the steps record, and what they do to the registry.                *)

\* What a step adds to the histories the proofs look at.
Flagged(stale, unowned, crowded, torn) ==
    /\ DOMAIN flags' = FlagFields
    /\ flags'.stale = flags.stale \cup stale
    /\ flags'.unowned = flags.unowned \cup unowned
    /\ flags'.crowded = flags.crowded \cup crowded
    /\ flags'.torn = flags.torn \cup torn

LEMMA FlagsRaised ==
    ASSUME TypeOK
    PROVE  /\ flags' = flags => Flagged({}, {}, {}, {})
           /\ \A x : flags' = Raise("moved", x) => Flagged({}, {}, {}, {})
           /\ \A x : flags' = Raise("stale", x) => Flagged(x, {}, {}, {})
           /\ \A x : flags' = Raise("crowded", x) => Flagged({}, {}, x, {})
           /\ \A x : flags' = Raise("torn", x) => Flagged({}, {}, {}, x)
  BY DEF TypeOK, FlagFields, Flagged, Raise

LEMMA AdmitFlags ==
    ASSUME TypeOK, NEW h, NEW unread,
           flags' = [Raise("unowned", Unowned(h, unread)) EXCEPT !.blind = @ \/ Unseen(h)]
    PROVE  Flagged({}, Unowned(h, unread), {}, {})
  <1> DEFINE x == Unowned(h, unread)
             b == Unseen(h)
             y == flags.blind \/ b
  <1>1. flags' = [flags EXCEPT !.unowned = @ \cup x, !.blind = y]
    BY DEF Raise, TypeOK, FlagFields
  <1> HIDE DEF x, b, y
  <1>2. Flagged({}, x, {}, {})
    BY <1>1 DEF TypeOK, FlagFields, Flagged
  <1> QED
    BY <1>2 DEF x

LEMMA BlindFlags ==
    ASSUME TypeOK, NEW y, flags' = [flags EXCEPT !.blind = y]
    PROVE  Flagged({}, {}, {}, {})
  BY DEF TypeOK, FlagFields, Flagged

LEMMA DeleteFlags ==
    ASSUME TypeOK, NEW h, NEW id,
           flags' = [Raise("stale", {call[h].d} \cap {rc.d})
                        EXCEPT !.moved = IF pods[id] # None THEN @ \cup Unclaimed(id) ELSE @]
    PROVE  Flagged({call[h].d} \cap {rc.d}, {}, {}, {})
  BY DEF Raise, TypeOK, FlagFields, Flagged

LEMMA FailFlags ==
    ASSUME TypeOK, NEW h, CallFails(h)
    PROVE  Flagged(IF call[h].op = "deploy" /\ call[h].at \in {"restart", "deleting"} THEN {call[h].d} ELSE {}, {}, {},
                   IF call[h].at \in {"provision", "record", "unrecord"} THEN {call[h].d} ELSE {})
  BY DEF CallFails, TypeOK, FlagFields, Flagged

\* What a report undoes.
Copy(h) == [t |-> call[h].t, node |-> call[h].node]
Undone(h) == {id \in call[h].left : pods[id] # Copy(h)}

LEMMA ReportFlags ==
    ASSUME TypeOK, NEW h, ReportPut(h)
    PROVE  /\ Flagged({id[1] : id \in Undone(h)} \ {None}, UNION {call[h].t.vols : id \in Undone(h)},
                      {call[h].node : id \in Undone(h)} \ {None}, {})
           /\ flags'.moved = flags.moved \cup UNION {call[h].t.vols \cup IF pods[id] = None THEN {} ELSE pods[id].t.vols : id \in Undone(h)}
  <1> DEFINE a == \E id \in Undone(h) : pods[id] = None
             y == flags.blind \/ a
             s == {id[1] : id \in Undone(h)} \ {None}
             u == UNION {call[h].t.vols : id \in Undone(h)}
             m == UNION {call[h].t.vols \cup IF pods[id] = None THEN {} ELSE pods[id].t.vols : id \in Undone(h)}
             c == {call[h].node : id \in Undone(h)} \ {None}
  <1>1. flags' = [flags EXCEPT !.blind = y, !.stale = @ \cup s, !.unowned = @ \cup u, !.moved = @ \cup m, !.crowded = @ \cup c]
    BY DEF ReportPut, Copy, Undone
  <1> HIDE DEF a, y, s, u, m, c
  <1>2. Flagged(s, u, c, {}) /\ flags'.moved = flags.moved \cup m
    BY <1>1 DEF TypeOK, FlagFields, Flagged
  <1> QED
    BY <1>2 DEF s, u, m, c

LEMMA StatusFlags ==
    ASSUME TypeOK, PutsStatus
    PROVE  Flagged(Outdates(rc.d, rc.copy.t, FALSE), {}, {}, {})
  BY FlagsRaised DEF PutsStatus

LEMMA SyncFlags ==
    ASSUME TypeOK, NEW d, GitSync(d)
    PROVE  Flagged(Outdates(d, Manifests[d].t, FALSE), Manifests[d].t.vols, {}, {})
  <1> DEFINE x == Outdates(d, Manifests[d].t, FALSE)
             u == Manifests[d].t.vols
             y == flags.blind \/ Promised(d) < Want(Manifests[d]) \/ rc.d = d
  <1>1. flags' = [flags EXCEPT !.stale = @ \cup x, !.blind = y, !.unowned = @ \cup u]
    BY DEF GitSync, Raise, TypeOK, FlagFields
  <1> HIDE DEF x, u, y
  <1>2. Flagged(x, u, {}, {})
    BY <1>1 DEF TypeOK, FlagFields, Flagged
  <1> QED
    BY <1>2 DEF x, u

-----------------------------------------------------------------------------
(* Type correctness.                                                       *)

\* The steps of a request that only read, before it is admitted.
Begins(h) == Arrives(h) \/ \E readable \in BOOLEAN : LookUp(h, readable)

LEMMA BeginsCall ==
    ASSUME TypeOK, NEW h \in Handlers, Begins(h)
    PROVE  /\ OnlyCall(h) /\ call[h].at \in {"idle", "lookup"}
           /\ call'[h].at \in {"lookup", "volume", "provision", "deprovision", "admit", "remove"}
           /\ UNCHANGED <<objects, storage, controllers, flags>>
  BY ArrivesCall, LookUpCall DEF Begins

Reports(h) == \E id \in PodNames : UpdatePodStatus(h, id)
Autoscales(h) == \E d \in Names, r \in 1 .. MaxReplicas : Autoscale(h, d, r)
Admits(h) == \E unread \in SUBSET Volumes : Admit(h, unread)
Restarts(h) == RestartList(h) \/ \E id \in PodNames : RestartDelete(h, id)
HandlerStep(h) ==
    \/ Begins(h) \/ Reports(h) \/ Autoscales(h) \/ VolumeStep(h) \/ Admits(h) \/ PutDeployment(h) \/ PutPod(h)
    \/ ReportPut(h) \/ Remove(h) \/ Restarts(h) \/ CallFails(h)
PassStep ==
    \/ \E d \in Names : Fetch(d)
    \/ \E n \in Nodes : Place(n) \/ PlaceFails(n)
    \/ Size \/ ListOwned \/ PlaceEnds \/ (ClaimGet \/ ClaimPut \/ ClaimFails) \/ (Refetch \/ PutStatus \/ RcStops)
PodStep == PodFetch \/ (\E n \in Nodes : PodPlace(n)) \/ PodWaits \/ PodPlaceFails \/ PrStops

LEMMA Steps ==
    ASSUME Next
    PROVE  \/ \E h \in Handlers : HandlerStep(h)
           \/ PassStep
           \/ PodStep
           \/ \E id \in PodNames : DeletePod(id) \/ MountVolumes(id)
           \/ \E d \in DOMAIN Manifests : GitSync(d)
  <1>1. ControllerStops => RcStops \/ PrStops
    BY DEF ControllerStops, RcStops, PrStops
  <1> QED
    BY <1>1 DEF Next, HandlerStep, Begins, Reports, Autoscales, Admits, Arrives, VolumeStep, GetsVolume, Restarts,
                PassStep, PodStep

LEMMA PassesStay ==
    ASSUME TypeOK, UNCHANGED controllers
    PROVE  RcOK' /\ PrOK'
  BY DEF TypeOK, RcOK, PrOK, controllers

LEMMA PodsChange ==
    ASSUME TypeOK, NEW id \in PodNames, NEW p, p \in Pod \cup {None}, pods' = [pods EXCEPT ![id] = p]
    PROVE  /\ pods' \in [PodNames -> Pod \cup {None}] /\ pods'[id] = p
           /\ \A o \in PodNames \ {id} : pods'[o] = pods[o]
  BY DEF TypeOK

LEMMA DeploymentsChange ==
    ASSUME TypeOK, NEW d \in Names, NEW dep, dep \in Deployment \cup {None}, deployments' = [deployments EXCEPT ![d] = dep]
    PROVE  /\ deployments' \in [Names -> Deployment \cup {None}] /\ deployments'[d] = dep
           /\ \A e \in Names \ {d} : deployments'[e] = deployments[e]
  BY DEF TypeOK

LEMMA PodNotNone == \A p \in Pod : p # None => p.t \in Template /\ p.node \in Nodes \cup {None}
  BY DEF Pod

\* What a put stores.
LEMMA PutDeploymentStep ==
    ASSUME TypeOK, NEW h \in Handlers, PutDeployment(h)
    PROVE  LET d == call[h].d
           IN  /\ d \in Names /\ deployments' \in [Names -> Deployment \cup {None}]
               /\ deployments'[d] # None /\ deployments'[d].t = call[h].t
               /\ deployments'[d].managed = call[h].managed /\ deployments'[d].replicas = call[h].replicas
               /\ \A e \in Names \ {d} : deployments'[e] = deployments[e]
               /\ Flagged(Outdates(d, call[h].t, call[h].edit), {}, {}, {})
               /\ UNCHANGED <<pods, volumes, storage, controllers>>
               /\ RcOK' /\ PrOK'
  <1> DEFINE c == call[h]
             dep == [replicas |-> c.replicas, t |-> c.t, managed |-> c.managed]
  <1>1. Call(c) /\ c.op = "deploy"
    BY DEF TypeOK, PutDeployment
  <1>2. c.d \in Names /\ dep \in Deployment
    BY <1>1 DEF Call, Deployment
  <1>3. dep.t = c.t /\ dep.managed = c.managed /\ dep.replicas = c.replicas /\ dep # None
    BY <1>2, NoneAssumption
  <1>4. /\ deployments' = [deployments EXCEPT ![c.d] = dep]
        /\ flags' = Raise("stale", Outdates(c.d, c.t, c.edit))
        /\ UNCHANGED <<pods, volumes, storage, controllers>>
    BY DEF PutDeployment
  <1> HIDE DEF dep, c
  <1>5. /\ deployments' \in [Names -> Deployment \cup {None}] /\ deployments'[c.d] = dep
        /\ \A e \in Names \ {c.d} : deployments'[e] = deployments[e]
    BY <1>2, <1>4, DeploymentsChange
  <1>6. RcOK' /\ PrOK'
    BY <1>4, PassesStay
  <1> QED
    BY <1>2, <1>3, <1>4, <1>5, <1>6, FlagsRaised DEF c

LEMMA RemoveStep ==
    ASSUME TypeOK, NEW h \in Handlers, Remove(h)
    PROVE  /\ deployments' \in [Names -> Deployment \cup {None}] /\ deployments'[call[h].d] = None
           /\ \A e \in Names \ {call[h].d} : deployments'[e] = deployments[e]
           /\ UNCHANGED <<pods, volumes, storage, controllers, flags>>
           /\ RcOK' /\ PrOK'
  <1>1. deployments' = [deployments EXCEPT ![call[h].d] = None] /\ UNCHANGED <<pods, volumes, storage, controllers, flags>>
    BY DEF Remove
  <1> QED
    BY <1>1, RemoveCall, DeploymentsChange, PassesStay

LEMMA SyncStep ==
    ASSUME TypeOK, NEW d \in DOMAIN Manifests, GitSync(d)
    PROVE  /\ d \in Names /\ deployments' \in [Names -> Deployment \cup {None}]
           /\ deployments'[d] = Manifests[d] /\ Manifests[d] # None /\ Manifests[d].t \in Template
           /\ \A e \in Names \ {d} : deployments'[e] = deployments[e]
           /\ Flagged(Outdates(d, Manifests[d].t, FALSE), Manifests[d].t.vols, {}, {})
           /\ UNCHANGED <<pods, volumes, storage, call, controllers>>
           /\ RcOK' /\ PrOK'
  <1>1. d \in Names /\ Manifests[d] \in Deployment
    BY ManifestsAssumption
  <1>2. deployments' = [deployments EXCEPT ![d] = Manifests[d]] /\ UNCHANGED <<pods, volumes, storage, call, controllers>>
    BY DEF GitSync
  <1>3. RcOK' /\ PrOK'
    BY <1>2, PassesStay
  <1>4. Manifests[d].t \in Template
    BY <1>1 DEF Deployment
  <1> QED
    BY <1>1, <1>2, <1>3, <1>4, DeploymentsChange, SyncFlags, NoneAssumption

\* What the other steps put in the pods' place.
LEMMA PutPodStep ==
    ASSUME TypeOK, NEW h \in Handlers, PutPod(h)
    PROVE  /\ call[h].d = None /\ call[h].t \in Template /\ call[h].op = "pod"
           /\ Copy(h) \in Pod
           /\ pods' \in [PodNames -> Pod \cup {None}]
           /\ \A id \in PodNames : pods'[id] = IF id \in call[h].left THEN Copy(h) ELSE pods[id]
           /\ \A id \in call[h].left : id[1] = None
           /\ Flagged({}, {}, {call[h].node} \ {None}, {})
           /\ flags'.moved = flags.moved \cup call[h].t.vols
           /\ UNCHANGED <<deployments, volumes, storage, controllers>>
  <1>1. /\ call[h].d = None /\ call[h].t \in Template /\ call[h].op = "pod" /\ call[h].node \in Nodes \cup {None}
        /\ \A id \in call[h].left : id[1] = None
    BY DEF TypeOK, PutPod, Call
  <1>2. Copy(h) \in Pod
    BY <1>1 DEF Pod, Copy
  <1>3. /\ pods' = [id \in PodNames |-> IF id \in call[h].left THEN Copy(h) ELSE pods[id]]
        /\ flags' = [Raise("moved", call[h].t.vols) EXCEPT !.crowded = @ \cup ({call[h].node} \ {None})]
        /\ UNCHANGED <<deployments, volumes, storage, controllers>>
    BY DEF PutPod, Copy
  <1>4. Flagged({}, {}, {call[h].node} \ {None}, {}) /\ flags'.moved = flags.moved \cup call[h].t.vols
    BY <1>3 DEF Raise, Flagged, TypeOK, FlagFields
  <1>5. pods' \in [PodNames -> Pod \cup {None}]
    BY <1>2, <1>3 DEF TypeOK
  <1> QED
    BY <1>1, <1>2, <1>3, <1>4, <1>5

LEMMA ReportPutStep ==
    ASSUME TypeOK, NEW h \in Handlers, ReportPut(h)
    PROVE  /\ Copy(h) \in Pod /\ Copy(h).t = call[h].t /\ Copy(h).node = call[h].node
           /\ pods' \in [PodNames -> Pod \cup {None}]
           /\ \A id \in PodNames : pods'[id] = IF id \in Undone(h) THEN Copy(h) ELSE pods[id]
           /\ UNCHANGED <<deployments, volumes, storage, controllers>>
  <1>1. call[h].t \in Template /\ call[h].node \in Nodes \cup {None}
    BY ReportPutCall DEF TypeOK, Call
  <1>2. Copy(h) \in Pod /\ Copy(h).t = call[h].t /\ Copy(h).node = call[h].node
    BY <1>1 DEF Pod, Copy
  <1>3. /\ pods' = [id \in PodNames |-> IF id \in call[h].left THEN Copy(h) ELSE pods[id]]
        /\ UNCHANGED <<deployments, volumes, storage, controllers>>
    BY DEF ReportPut, Copy
  <1>4. \A id \in PodNames : pods'[id] = IF id \in Undone(h) THEN Copy(h) ELSE pods[id]
    BY <1>3 DEF Undone
  <1>5. pods' \in [PodNames -> Pod \cup {None}]
    BY <1>2, <1>3 DEF TypeOK
  <1> QED
    BY <1>2, <1>3, <1>4, <1>5

LEMMA RestartDeleteStep ==
    ASSUME TypeOK, NEW h \in Handlers, NEW id \in PodNames, RestartDelete(h, id)
    PROVE  /\ pods' \in [PodNames -> Pod \cup {None}] /\ pods'[id] = None
           /\ \A o \in PodNames \ {id} : pods'[o] = pods[o]
           /\ Flagged({call[h].d} \cap {rc.d}, {}, {}, {})
           /\ UNCHANGED <<deployments, volumes, storage, controllers>>
  BY PodsChange, DeleteFlags DEF RestartDelete

LEMMA DeletePodStep ==
    ASSUME TypeOK, NEW id \in PodNames, DeletePod(id)
    PROVE  /\ pods' \in [PodNames -> Pod \cup {None}] /\ pods'[id] = None
           /\ \A o \in PodNames \ {id} : pods'[o] = pods[o]
           /\ Flagged({}, {}, {}, {})
           /\ UNCHANGED <<deployments, volumes, storage, call, controllers>>
  BY PodsChange, FlagsRaised DEF DeletePod

LEMMA VolumeStepEffect ==
    ASSUME TypeOK, NEW h \in Handlers, VolumeStep(h)
    PROVE  /\ volumes' \in [Volumes -> Volume \cup {None}] /\ dirs' \in SUBSET Volumes
           /\ \A v \in Volumes \ {call[h].d} : volumes'[v] = volumes[v] /\ (v \in dirs' <=> v \in dirs)
           /\ UNCHANGED <<deployments, pods, data, controllers>>
           /\ GetsVolume(h) => UNCHANGED <<volumes, dirs>> /\ Flagged({}, {}, {}, {})
           /\ Provision(h) => UNCHANGED volumes /\ dirs' = dirs \cup {call[h].d} /\ Flagged({}, {}, {}, Overlaps(h))
           /\ Deprovision(h) => UNCHANGED volumes /\ dirs' = dirs \ {call[h].d} /\ Flagged({}, {}, {}, Overlaps(h))
           /\ PutVolume(h) => /\ UNCHANGED dirs /\ Flagged({}, {}, {}, {})
                              /\ volumes'[call[h].d] # None /\ volumes'[call[h].d].owner = None
                              /\ volumes'[call[h].d].node = None
           /\ UnrecordVolume(h) => UNCHANGED dirs /\ volumes'[call[h].d] = None /\ Flagged({}, {}, {}, {})
           /\ DOMAIN flags' = FlagFields
  <1> DEFINE v == call[h].d
             blank == [node |-> None, owner |-> None]
  <1>1. v \in Volumes /\ volumes \in [Volumes -> Volume \cup {None}] /\ dirs \in SUBSET Volumes
    BY VolumeStepCall DEF TypeOK
  <1>2. blank \in Volume /\ blank # None /\ blank.owner = None /\ blank.node = None
    <2>1. blank \in Volume
      BY DEF Volume
    <2> QED
      BY <2>1, NoneAssumption
  <1>3. /\ GetsVolume(h) => UNCHANGED <<volumes, dirs, flags>>
        /\ Provision(h) => UNCHANGED volumes /\ dirs' = dirs \cup {v} /\ flags' = Raise("torn", Overlaps(h))
        /\ Deprovision(h) => UNCHANGED volumes /\ dirs' = dirs \ {v} /\ flags' = Raise("torn", Overlaps(h))
        /\ PutVolume(h) => /\ UNCHANGED dirs /\ volumes' = [volumes EXCEPT ![v] = blank]
                           /\ flags' = Raise("moved", IF Claimed(v) THEN {v} ELSE {})
        /\ UnrecordVolume(h) => /\ UNCHANGED dirs /\ volumes' = [volumes EXCEPT ![v] = None]
                                /\ flags' = Raise("moved", IF Claimed(v) THEN {v} ELSE {})
        /\ UNCHANGED <<deployments, pods, data, controllers>>
    BY DEF VolumeStep, GetsVolume, GetVolume, Provision, Deprovision, PutVolume, UnrecordVolume, objects, storage
  <1> HIDE DEF v, blank
  <1>4. /\ GetsVolume(h) => Flagged({}, {}, {}, {})
        /\ Provision(h) => Flagged({}, {}, {}, Overlaps(h))
        /\ Deprovision(h) => Flagged({}, {}, {}, Overlaps(h))
        /\ PutVolume(h) => Flagged({}, {}, {}, {})
        /\ UnrecordVolume(h) => Flagged({}, {}, {}, {})
    BY <1>3, FlagsRaised
  <1>5. DOMAIN flags' = FlagFields
    BY <1>4 DEF Flagged, VolumeStep
  <1>6. /\ volumes' \in [Volumes -> Volume \cup {None}] /\ dirs' \in SUBSET Volumes
        /\ \A u \in Volumes \ {v} : volumes'[u] = volumes[u] /\ (u \in dirs' <=> u \in dirs)
        /\ PutVolume(h) => volumes'[v] = blank
        /\ UnrecordVolume(h) => volumes'[v] = None
    BY <1>1, <1>2, <1>3 DEF VolumeStep
  <1> QED
    BY <1>1, <1>2, <1>3, <1>4, <1>5, <1>6 DEF v

\* A failure leaves the registry alone; the driver may have got halfway.
LEMMA CallFailsStep ==
    ASSUME TypeOK, NEW h \in Handlers, CallFails(h)
    PROVE  /\ UNCHANGED <<objects, data, controllers>> /\ dirs' \in SUBSET Volumes
           /\ dirs' = dirs \/ (call[h].at = "provision" /\ dirs' = dirs \cup {call[h].d})
  <1>1. UNCHANGED <<objects, data, controllers>>
    BY DEF CallFails
  <1>2. dirs' = dirs \/ (call[h].at = "provision" /\ dirs' = dirs \cup {call[h].d})
    BY DEF CallFails, At
  <1>3. call[h].at = "provision" => call[h].d \in Volumes
    BY DEF TypeOK, Call
  <1> QED
    BY <1>1, <1>2, <1>3 DEF TypeOK

LEMMA TypeInit ==
    ASSUME Init
    PROVE  TypeOK
  <1>1. CallsOK
    BY IdleCall DEF Init, CallsOK
  <1>2. RcOK /\ PrOK /\ DOMAIN flags = FlagFields
    BY NoPassIs DEF Init, RcOK, PrOK, FlagFields
  <1>3. /\ deployments \in [Names -> Deployment \cup {None}]
        /\ pods \in [PodNames -> Pod \cup {None}]
        /\ volumes \in [Volumes -> Volume \cup {None}]
        /\ dirs \in SUBSET Volumes
    <2>1. CASE Empty
      BY <2>1 DEF Empty, NoPods
    <2>2. CASE Placed
      <3>1. PICK v \in Volumes, n \in Nodes :
              LET t == [Clean EXCEPT !.vols = {v}]
              IN  /\ deployments = [d \in Names |-> IF d = v THEN [replicas |-> 1, t |-> t, managed |-> FALSE]
                                              ELSE None]
                  /\ pods = [NoPods EXCEPT ![<<v, 0>>] = [t |-> t, node |-> n]]
                  /\ volumes = [u \in Volumes |-> IF u = v THEN [node |-> n, owner |-> v] ELSE None]
                  /\ dirs = {v}
        BY <2>2 DEF Placed
      <3> DEFINE t == [Clean EXCEPT !.vols = {v}]
      <3>2. t \in Template
        BY DEF Template, Clean, Objections
      <3> HIDE DEF t
      <3>3. [replicas |-> 1, t |-> t, managed |-> FALSE] \in Deployment
        BY <3>2, SizesAssumption DEF Deployment
      <3>4. [t |-> t, node |-> n] \in Pod
        BY <3>2 DEF Pod
      <3>5. [node |-> n, owner |-> v] \in Volume
        BY VolumesAssumption DEF Volume
      <3> QED
        BY <3>1, <3>3, <3>4, <3>5 DEF NoPods, t
    <2> QED
      BY <2>1, <2>2 DEF Init
  <1> QED
    BY <1>1, <1>2, <1>3 DEF TypeOK, CallsOK

LEMMA TypeHandlers ==
    ASSUME TypeOK, NEW h \in Handlers, HandlerStep(h)
    PROVE  TypeOK'
  <1>1. CASE Begins(h)
    BY <1>1, BeginsCall, PassesStay DEF TypeOK, OnlyCall, CallsOK, objects, storage
  <1>2. CASE VolumeStep(h)
    BY <1>2, VolumeStepCall, VolumeStepEffect, PassesStay DEF TypeOK, OnlyCall, CallsOK
  <1>3. ASSUME NEW unread \in SUBSET Volumes, Admit(h, unread)
        PROVE  TypeOK'
    <2>1. Flagged({}, {}, {}, {}) \/ Flagged({}, Unowned(h, unread), {}, {})
      BY <1>3, AdmitCall, AdmitFlags, FlagsRaised
    <2> QED
      BY <1>3, <2>1, AdmitCall, PassesStay DEF TypeOK, OnlyCall, CallsOK, objects, storage, Flagged
  <1>4. CASE PutDeployment(h)
    BY <1>4, PutCall, PutDeploymentStep DEF TypeOK, OnlyCall, CallsOK, storage, Flagged
  <1>5. CASE PutPod(h)
    BY <1>5, PutCall, PutPodStep, PassesStay DEF TypeOK, OnlyCall, CallsOK, storage, Flagged
  <1>6. CASE RestartList(h)
    <2>1. Flagged({call[h].d} \cap {rc.d}, {}, {}, {}) /\ UNCHANGED <<objects, storage, controllers>>
      BY <1>6, FlagsRaised DEF RestartList
    <2> QED
      BY <1>6, <2>1, RestartListCall, PassesStay DEF TypeOK, OnlyCall, CallsOK, objects, storage, Flagged
  <1>7. ASSUME NEW id \in PodNames, RestartDelete(h, id)
        PROVE  TypeOK'
    BY <1>7, RestartDeleteCall, RestartDeleteStep, PassesStay DEF TypeOK, OnlyCall, CallsOK, storage, Flagged
  <1>8. CASE CallFails(h)
    <2>1. DOMAIN flags' = FlagFields
      BY <1>8, FailFlags DEF Flagged
    <2> QED
      BY <1>8, <2>1, CallFailsStep, CallFailsCall, PassesStay DEF TypeOK, OnlyCall, CallsOK, objects
  <1>9. ASSUME NEW id \in PodNames, UpdatePodStatus(h, id)
        PROVE  TypeOK'
    BY <1>9, ReportArrives, PassesStay DEF TypeOK, OnlyCall, CallsOK, objects, storage
  <1>10. ASSUME NEW d \in Names, NEW r \in 1 .. MaxReplicas, Autoscale(h, d, r)
        PROVE  TypeOK'
    <2>1. DOMAIN flags' = FlagFields
      BY <1>10, AutoscaleCall DEF TypeOK
    <2> QED
      BY <1>10, <2>1, AutoscaleCall, PassesStay DEF TypeOK, OnlyCall, CallsOK, objects, storage
  <1>11. CASE ReportPut(h)
    BY <1>11, ReportPutCall, ReportPutStep, ReportFlags, PassesStay DEF TypeOK, OnlyCall, CallsOK, storage, Flagged
  <1>12. CASE Remove(h)
    BY <1>12, RemoveCall, RemoveStep DEF TypeOK, OnlyCall, CallsOK, storage
  <1> QED
    BY <1>1, <1>2, <1>3, <1>4, <1>5, <1>6, <1>7, <1>8, <1>9, <1>10, <1>11, <1>12
       DEF HandlerStep, Restarts, Reports, Autoscales, Admits

LEMMA TypePasses ==
    ASSUME TypeOK, PassStep
    PROVE  TypeOK'
  <1>0. ASSUME UNCHANGED <<call, pr>>
        PROVE  PrOK' /\ DOMAIN call' = Handlers /\ \A h \in Handlers : Call(call[h])'
    BY <1>0 DEF TypeOK, PrOK
  <1>1. ASSUME NEW d \in Names, Fetch(d)
        PROVE  TypeOK'
    BY <1>0, <1>1, FetchPass DEF TypeOK, objects, storage
  <1>2. ASSUME NEW n \in Nodes, Place(n) \/ PlaceFails(n)
        PROVE  TypeOK'
    <2>1. PICK id \in DOMAIN rc.owned :
              /\ RcOK' /\ UNCHANGED <<deployments, volumes, storage, call, pr>>
              /\ Place(n) =>
                    /\ pods' = [pods EXCEPT ![id] = [rc.owned[id] EXCEPT !.node = n]]
                    /\ [rc.owned[id] EXCEPT !.node = n] \in Pod
                    /\ flags' = Raise("crowded", IF n \in rc.taken \/ pr.at # "idle" THEN {n} ELSE {})
              /\ PlaceFails(n) => UNCHANGED pods /\ flags' = Raise("moved", rc.copy.t.vols)
      BY <1>2, PlacePass
    <2>2. id \in PodNames
      BY DEF TypeOK, RcOK
    <2>3. pods' \in [PodNames -> Pod \cup {None}]
      BY <1>2, <2>1, <2>2, PodsChange DEF TypeOK
    <2>4. DOMAIN flags' = FlagFields
      BY <1>2, <2>1, FlagsRaised DEF Flagged
    <2> QED
      BY <1>0, <2>1, <2>3, <2>4 DEF TypeOK, storage
  <1>3. CASE Size
    BY <1>0, <1>3, SizePass DEF TypeOK, storage
  <1>4. CASE ListOwned
    BY <1>0, <1>4, ListOwnedPass DEF TypeOK, objects, storage
  <1>5. CASE PlaceEnds
    BY <1>0, <1>5, PlaceEndsPass DEF TypeOK, storage
  <1>6. CASE ClaimGet \/ ClaimPut \/ ClaimFails
    <2>1. flags' = flags \/ \E x : flags' = Raise("torn", x)
      BY <1>6, ClaimPass
    <2>2. DOMAIN flags' = FlagFields
      BY <2>1, FlagsRaised DEF Flagged
    <2> QED
      BY <1>0, <1>6, <2>2, ClaimPass DEF TypeOK, storage
  <1>7. CASE Refetch \/ PutStatus \/ RcStops
    <2>1. DOMAIN flags' = FlagFields
      <3>1. Refetches \/ PutsStatus \/ GivesUp
        BY <1>7, StatusPass
      <3> QED
        BY <3>1, StatusFlags DEF Refetches, GivesUp, Flagged, TypeOK
    <2> QED
      BY <1>0, <1>7, <2>1, StatusPass DEF TypeOK, storage
  <1> QED
    BY <1>1, <1>2, <1>3, <1>4, <1>5, <1>6, <1>7 DEF PassStep

LEMMA PodFlags ==
    ASSUME TypeOK, PodStep
    PROVE  \/ flags' = flags
           \/ \E n \in Nodes : flags' = Raise("crowded", IF n \in pr.taken \/ rc.at = "place" THEN {n} ELSE {})
  BY PodPass DEF PodStep, PrFetches, PrPlaces, PrWaits, PrGivesUp

LEMMA TypeStep ==
    ASSUME TypeOK, [Next]_vars
    PROVE  TypeOK'
  <1>1. CASE PodStep
    <2>1. DOMAIN flags' = FlagFields
      BY <1>1, PodFlags, FlagsRaised DEF Flagged
    <2>2. /\ PrOK' /\ pods' \in [PodNames -> Pod \cup {None}]
          /\ UNCHANGED <<deployments, volumes, storage, call, rc>>
      BY <1>1, PodPass DEF PodStep
    <2>3. RcOK'
      BY <2>2 DEF TypeOK, RcOK
    <2> QED
      BY <2>1, <2>2, <2>3 DEF TypeOK, storage
  <1>2. ASSUME NEW id \in PodNames, DeletePod(id)
        PROVE  TypeOK'
    BY <1>2, DeletePodStep, PassesStay DEF TypeOK, storage, Flagged
  <1>3. ASSUME NEW id \in PodNames, MountVolumes(id)
        PROVE  TypeOK'
    BY <1>3, PassesStay DEF TypeOK, MountVolumes, objects
  <1>4. ASSUME NEW d \in DOMAIN Manifests, GitSync(d)
        PROVE  TypeOK'
    BY <1>4, SyncStep DEF TypeOK, storage, Flagged
  <1>5. CASE UNCHANGED vars
    BY <1>5 DEF TypeOK, vars, RcOK, PrOK
  <1> QED
    BY <1>1, <1>2, <1>3, <1>4, <1>5, TypeHandlers, TypePasses, Steps

-----------------------------------------------------------------------------
(* The driver's directories and the records of the volumes.                *)

\* A step that leaves volume v alone: its record, its directory and who is halfway.
LeavesVolume(v) ==
    /\ flags.torn \subseteq flags'.torn
    /\ v \in dirs' <=> v \in dirs
    /\ volumes'[v] = None <=> volumes[v] = None
    /\ \A h \in Handlers : Halfway(h, v)' <=> Halfway(h, v)
    /\ \A h \in Handlers : Halfway(h, v) => call'[h].at = call[h].at

DirectoryOf(v) ==
    /\ \A h, g \in Handlers : Halfway(h, v) /\ Halfway(g, v) => h = g
    /\ \A h \in Handlers : Halfway(h, v) => (v \in dirs <=> call[h].at = "record")
    /\ (\A h \in Handlers : ~Halfway(h, v)) => (volumes[v] # None <=> v \in dirs)

LEMMA VolumeLeft ==
    ASSUME NEW v, v \notin flags.torn => DirectoryOf(v), LeavesVolume(v)
    PROVE  (v \notin flags.torn => DirectoryOf(v))'
  BY DEF LeavesVolume, DirectoryOf

LEMMA QuietCall ==
    ASSUME NEW h \in Handlers, NEW v,
           \A g \in Handlers \ {h} : call'[g] = call[g],
           ~Halfway(h, v), ~Halfway(h, v)'
    PROVE  /\ \A g \in Handlers : Halfway(g, v)' <=> Halfway(g, v)
           /\ \A g \in Handlers : Halfway(g, v) => call'[g].at = call[g].at
  BY DEF Halfway

LEMMA DirectoryInit ==
    ASSUME Init
    PROVE  DirectoryInv
  <1>1. \A h \in Handlers, v \in Volumes : ~Halfway(h, v)
    BY IdleCall DEF Init, Halfway
  <1>2. \A v \in Volumes : volumes[v] # None <=> v \in dirs
    <2>1. CASE Empty
      BY <2>1 DEF Empty
    <2>2. CASE Placed
      <3>1. PICK v \in Volumes, n \in Nodes :
              volumes = [u \in Volumes |-> IF u = v THEN [node |-> n, owner |-> v] ELSE None] /\ dirs = {v}
        BY <2>2 DEF Placed
      <3>2. [node |-> n, owner |-> v] # None
        <4>1. [node |-> n, owner |-> v] \in Volume
          BY VolumesAssumption DEF Volume
        <4> QED
          BY <4>1, NoneAssumption
      <3> QED
        BY <3>1, <3>2
    <2> QED
      BY <2>1, <2>2 DEF Init
  <1> QED
    BY <1>1, <1>2 DEF DirectoryInv

LEMMA DirectoryHandlers ==
    ASSUME TypeOK, NEW h \in Handlers, HandlerStep(h), NEW v \in Volumes,
           v \notin flags.torn => DirectoryOf(v)
    PROVE  (v \notin flags.torn => DirectoryOf(v))'
  <1>0. call[h].d \in Names \cup {None} /\ DOMAIN flags = FlagFields
    BY DEF TypeOK, Call
  <1>1. CASE Begins(h)
    <2>1. ~Halfway(h, v) /\ ~Halfway(h, v)'
      BY <1>1, BeginsCall DEF Halfway
    <2>2. LeavesVolume(v)
      BY <1>1, <2>1, BeginsCall, QuietCall DEF LeavesVolume, OnlyCall, objects, storage
    <2> QED
      BY <2>2, VolumeLeft
  <1>2. CASE VolumeStep(h)
    <2>0. /\ \A g \in Handlers \ {h} : call'[g] = call[g]
          /\ flags.torn \subseteq flags'.torn
      BY <1>2, VolumeStepCall, VolumeStepEffect DEF OnlyCall, VolumeStep, Flagged
    <2>1. CASE call[h].d # v
      <3>1. ~Halfway(h, v) /\ ~Halfway(h, v)'
        BY <1>2, <2>1, VolumeStepCall DEF Halfway, VolumeStep
      <3>2. LeavesVolume(v)
        BY <1>2, <2>0, <2>1, <3>1, VolumeStepEffect, QuietCall DEF LeavesVolume
      <3> QED
        BY <3>2, VolumeLeft
    <2>2. CASE call[h].d = v /\ GetsVolume(h)
      <3>1. ~Halfway(h, v) /\ ~Halfway(h, v)'
        BY <1>2, <2>2, VolumeStepCall DEF Halfway
      <3>2. LeavesVolume(v)
        BY <1>2, <2>0, <2>2, <3>1, VolumeStepEffect, QuietCall DEF LeavesVolume
      <3> QED
        BY <3>2, VolumeLeft
    <2>3. CASE call[h].d = v /\ (Provision(h) \/ Deprovision(h))
      <3>1. v \in flags'.torn \/ \A g \in Handlers \ {h} : ~Halfway(g, v)
        BY <1>2, <2>3, VolumeStepEffect DEF Flagged, Overlaps, Halfway
      <3>2. \A g \in Handlers \ {h} : Halfway(g, v)' <=> Halfway(g, v)
        BY <2>0 DEF Halfway
      <3>3. /\ Provision(h) => Halfway(h, v)' /\ call'[h].at = "record" /\ v \in dirs'
            /\ Deprovision(h) => Halfway(h, v)' /\ call'[h].at = "unrecord" /\ v \notin dirs'
        BY <1>2, <2>3, VolumeStepCall, VolumeStepEffect DEF Halfway
      <3> QED
        BY <2>3, <3>1, <3>2, <3>3 DEF DirectoryOf
    <2>4. CASE call[h].d = v /\ (PutVolume(h) \/ UnrecordVolume(h))
      <3>1. Halfway(h, v) /\ ~Halfway(h, v)' /\ flags'.torn = flags.torn
        BY <1>2, <2>4, VolumeStepCall, VolumeStepEffect DEF Halfway, PutVolume, UnrecordVolume, At, Flagged
      <3>2. \A g \in Handlers \ {h} : Halfway(g, v)' <=> Halfway(g, v)
        BY <2>0 DEF Halfway
      <3>3. /\ PutVolume(h) => call[h].at = "record" /\ volumes'[v] # None /\ dirs' = dirs
            /\ UnrecordVolume(h) => call[h].at = "unrecord" /\ volumes'[v] = None /\ dirs' = dirs
        BY <1>2, <2>4, VolumeStepEffect DEF PutVolume, UnrecordVolume, At
      <3> QED
        BY <2>4, <3>1, <3>2, <3>3 DEF DirectoryOf
    <2> QED
      BY <1>2, <2>1, <2>2, <2>3, <2>4 DEF VolumeStep
  <1>3. ASSUME NEW unread \in SUBSET Volumes, Admit(h, unread)
        PROVE  (v \notin flags.torn => DirectoryOf(v))'
    <2>1. ~Halfway(h, v) /\ ~Halfway(h, v)'
      BY <1>3, AdmitCall DEF Halfway
    <2>2. flags.torn \subseteq flags'.torn
      BY <1>3, AdmitCall, AdmitFlags DEF Flagged
    <2>3. LeavesVolume(v)
      BY <1>3, <2>1, <2>2, AdmitCall, QuietCall DEF LeavesVolume, OnlyCall, objects, storage
    <2> QED
      BY <2>3, VolumeLeft
  <1>4. CASE PutDeployment(h) \/ PutPod(h)
    <2>1. ~Halfway(h, v) /\ ~Halfway(h, v)'
      BY <1>4, PutCall DEF Halfway
    <2>2. flags.torn \subseteq flags'.torn /\ UNCHANGED <<volumes, storage>>
      BY <1>4, PutDeploymentStep, PutPodStep DEF Flagged
    <2>3. LeavesVolume(v)
      BY <1>4, <2>1, <2>2, PutCall, QuietCall DEF LeavesVolume, OnlyCall, storage
    <2> QED
      BY <2>3, VolumeLeft
  <1>5. CASE RestartList(h)
    <2>1. ~Halfway(h, v) /\ ~Halfway(h, v)'
      BY <1>5, RestartListCall DEF Halfway
    <2>2. flags.torn \subseteq flags'.torn /\ UNCHANGED <<objects, storage>>
      BY <1>5, FlagsRaised DEF Flagged, RestartList
    <2>3. LeavesVolume(v)
      BY <1>5, <2>1, <2>2, RestartListCall, QuietCall DEF LeavesVolume, OnlyCall, storage, objects
    <2> QED
      BY <2>3, VolumeLeft
  <1>6. ASSUME NEW id \in PodNames, RestartDelete(h, id)
        PROVE  (v \notin flags.torn => DirectoryOf(v))'
    <2>1. ~Halfway(h, v) /\ ~Halfway(h, v)'
      BY <1>6, RestartDeleteCall DEF Halfway
    <2>2. flags.torn \subseteq flags'.torn /\ UNCHANGED <<volumes, storage>>
      BY <1>6, RestartDeleteStep DEF Flagged
    <2>3. LeavesVolume(v)
      BY <1>6, <2>1, <2>2, RestartDeleteCall, QuietCall DEF LeavesVolume, OnlyCall, storage
    <2> QED
      BY <2>3, VolumeLeft
  <1>7. CASE CallFails(h)
    <2>1. flags.torn \subseteq flags'.torn /\ (call[h].at \in {"provision", "record", "unrecord"} => call[h].d \in flags'.torn)
      BY <1>7, FailFlags DEF Flagged
    <2>2. ~Halfway(h, v)'
      BY <1>7, CallFailsCall DEF Halfway
    <2>3. ASSUME v \notin flags'.torn
          PROVE  LeavesVolume(v)
      <3>1. ~Halfway(h, v) /\ (v \in dirs' <=> v \in dirs) /\ UNCHANGED volumes
        BY <1>7, <2>1, <2>3, CallFailsStep DEF Halfway, objects
      <3> QED
        BY <1>7, <2>1, <2>2, <3>1, CallFailsCall, QuietCall DEF LeavesVolume, OnlyCall
    <2> QED
      BY <2>3, VolumeLeft
  <1>8. CASE Reports(h)
    <2>1. ~Halfway(h, v) /\ ~Halfway(h, v)' /\ OnlyCall(h) /\ UNCHANGED <<objects, storage, flags>>
      BY <1>8, ReportArrives DEF Halfway, Reports
    <2>2. LeavesVolume(v)
      BY <2>1, QuietCall DEF LeavesVolume, OnlyCall, storage, objects
    <2> QED
      BY <2>2, VolumeLeft
  <1>9. CASE Autoscales(h)
    <2>0. PICK d \in Names, r \in 1 .. MaxReplicas : Autoscale(h, d, r)
      BY <1>9 DEF Autoscales
    <2>1. ~Halfway(h, v) /\ ~Halfway(h, v)' /\ OnlyCall(h) /\ UNCHANGED <<objects, storage>>
      BY <2>0, AutoscaleCall DEF Halfway
    <2>2. flags.torn \subseteq flags'.torn
      BY <2>0, AutoscaleCall, BlindFlags DEF Flagged
    <2>3. LeavesVolume(v)
      BY <2>1, <2>2, QuietCall DEF LeavesVolume, OnlyCall, storage, objects
    <2> QED
      BY <2>3, VolumeLeft
  <1>10. CASE ReportPut(h) \/ Remove(h)
    <2>1. ~Halfway(h, v) /\ ~Halfway(h, v)' /\ OnlyCall(h) /\ UNCHANGED <<volumes, storage>>
      BY <1>10, ReportPutCall, ReportPutStep, RemoveCall, RemoveStep DEF Halfway
    <2>2. flags.torn \subseteq flags'.torn
      BY <1>10, ReportFlags, RemoveStep DEF Flagged
    <2>3. LeavesVolume(v)
      BY <2>1, <2>2, QuietCall DEF LeavesVolume, OnlyCall, storage
    <2> QED
      BY <2>3, VolumeLeft
  <1> QED
    BY <1>1, <1>2, <1>3, <1>4, <1>5, <1>6, <1>7, <1>8, <1>9, <1>10 DEF HandlerStep, Restarts, Admits

LEMMA DirectoryStep ==
    ASSUME TypeOK, DirectoryInv, [Next]_vars
    PROVE  DirectoryInv'
  <1> SUFFICES ASSUME NEW v \in Volumes
               PROVE  (v \notin flags.torn => DirectoryOf(v))'
    BY DEF DirectoryInv, DirectoryOf
  <1>0. v \notin flags.torn => DirectoryOf(v)
    BY DEF DirectoryInv, DirectoryOf
  <1>1. ASSUME flags.torn \subseteq flags'.torn, UNCHANGED <<storage, call>>,
               volumes'[v] = None <=> volumes[v] = None
        PROVE  (v \notin flags.torn => DirectoryOf(v))'
    BY <1>0, <1>1, VolumeLeft DEF LeavesVolume, Halfway, storage
  <1>2. CASE PassStep
    <2>1. ASSUME NEW d \in Names, Fetch(d)
          PROVE  (v \notin flags.torn => DirectoryOf(v))'
      BY <1>1, <2>1, FetchPass DEF objects
    <2>2. ASSUME NEW n \in Nodes, Place(n) \/ PlaceFails(n)
          PROVE  (v \notin flags.torn => DirectoryOf(v))'
      <3>1. /\ UNCHANGED <<volumes, storage, call>>
            /\ \/ flags' = Raise("crowded", IF n \in rc.taken \/ pr.at # "idle" THEN {n} ELSE {})
               \/ flags' = Raise("moved", rc.copy.t.vols)
        BY <2>2, PlacePass
      <3>2. flags.torn \subseteq flags'.torn
        BY <3>1, FlagsRaised DEF Flagged
      <3> QED
        BY <1>1, <3>1, <3>2
    <2>3. CASE Size
      BY <1>1, <2>3, SizePass
    <2>4. CASE ListOwned
      BY <1>1, <2>4, ListOwnedPass DEF objects
    <2>5. CASE PlaceEnds
      BY <1>1, <2>5, PlaceEndsPass
    <2>6. CASE ClaimGet \/ ClaimPut \/ ClaimFails
      <3>1. UNCHANGED <<storage, call>>
        BY <2>6, ClaimPass
      <3>2. CASE UNCHANGED <<volumes, flags>>
        BY <1>1, <3>1, <3>2
      <3>3. CASE ~UNCHANGED <<volumes, flags>>
        <4>1. PICK u \in Volumes : /\ volumes'[u] # None
                                   /\ \A w \in Volumes \ {u} : volumes'[w] = volumes[w]
                                   /\ flags' = Raise("torn", IF volumes[u] = None THEN {u} ELSE {})
          BY <2>6, <3>3, ClaimPass
        <4>2. flags'.torn = flags.torn \cup (IF volumes[u] = None THEN {u} ELSE {})
          BY <4>1, FlagsRaised DEF Flagged
        <4>3. CASE v \in flags'.torn
          BY <4>3
        <4>4. CASE v \notin flags'.torn
          <5>1. volumes'[v] = None <=> volumes[v] = None
            BY <4>1, <4>2, <4>4
          <5> QED
            BY <1>1, <3>1, <4>2, <5>1
        <4> QED
          BY <4>3, <4>4
      <3> QED
        BY <3>2, <3>3
    <2>7. CASE Refetch \/ PutStatus \/ RcStops
      <3>1. flags.torn \subseteq flags'.torn
        BY <2>7, StatusPass, StatusFlags DEF Refetches, GivesUp, Flagged
      <3> QED
        BY <1>1, <2>7, <3>1, StatusPass
    <2> QED
      BY <1>2, <2>1, <2>2, <2>3, <2>4, <2>5, <2>6, <2>7 DEF PassStep
  <1>3. CASE PodStep
    <2>2. flags.torn \subseteq flags'.torn
      BY <1>3, PodFlags, FlagsRaised DEF Flagged
    <2> QED
      BY <1>1, <1>3, <2>2, PodPass DEF PodStep
  <1>4. ASSUME NEW id \in PodNames, DeletePod(id) \/ MountVolumes(id)
        PROVE  (v \notin flags.torn => DirectoryOf(v))'
    <2>1. CASE DeletePod(id)
      BY <1>1, <2>1, DeletePodStep DEF Flagged
    <2>2. CASE MountVolumes(id)
      BY <1>0, <2>2, VolumeLeft DEF MountVolumes, LeavesVolume, Halfway, objects
    <2> QED
      BY <1>4, <2>1, <2>2
  <1>5. ASSUME NEW d \in DOMAIN Manifests, GitSync(d)
        PROVE  (v \notin flags.torn => DirectoryOf(v))'
    BY <1>1, <1>5, SyncStep DEF Flagged
  <1>6. CASE UNCHANGED vars
    BY <1>1, <1>6 DEF vars, storage
  <1> QED
    BY <1>0, <1>2, <1>3, <1>4, <1>5, <1>6, DirectoryHandlers, Steps

-----------------------------------------------------------------------------
(* The load of the nodes.                                                  *)

On(n) == {id \in PodNames : pods[id] # None /\ pods[id].node = n}

LEMMA UsageIsOn == \A n : Usage(n) = Cardinality(On(n)) /\ IsFiniteSet(On(n)) /\ Usage(n) \in Nat
  <1> SUFFICES ASSUME NEW n
               PROVE  Usage(n) = Cardinality(On(n)) /\ IsFiniteSet(On(n)) /\ Usage(n) \in Nat
    OBVIOUS
  <1>1. {id \in Stored : pods[id].node = n} = On(n)
    BY DEF On, Stored
  <1>2. IsFiniteSet(On(n))
    BY FinitePods, FS_Subset DEF On
  <1> QED
    BY <1>1, <1>2, UsageIsNat DEF Usage

LEMMA UsageInNextState ==
    \A n : Usage(n)' = Cardinality(On(n)') /\ IsFiniteSet(On(n)') /\ Usage(n)' \in Nat
  <1> SUFFICES ASSUME NEW n
               PROVE  Usage(n)' = Cardinality(On(n)') /\ IsFiniteSet(On(n)') /\ Usage(n)' \in Nat
    OBVIOUS
  <1>1. {id \in Stored : pods[id].node = n}' = On(n)'
    BY DEF On, Stored
  <1>2. IsFiniteSet(On(n)')
    BY FinitePods, FS_Subset DEF On
  <1>3. Usage(n)' = Cardinality(On(n)')
    BY <1>1 DEF Usage
  <1> QED
    BY <1>2, <1>3, FS_CardinalityType

\* A node gets no pod.
Lighter(n) ==
    \A id \in PodNames : pods'[id] # None /\ pods'[id].node = n => pods[id] # None /\ pods[id].node = n

LEMMA NoMoreLoad ==
    ASSUME NEW n, Lighter(n)
    PROVE  Usage(n)' <= Usage(n)
  <1>1. On(n)' \subseteq On(n)
    BY DEF Lighter, On
  <1> QED
    BY <1>1, UsageIsOn, UsageInNextState, FS_Subset

\* It gets one at most.
LEMMA OneMorePod ==
    ASSUME NEW n, NEW p \in PodNames,
           \A id \in PodNames \ {p} : pods'[id] # None /\ pods'[id].node = n => pods[id] # None /\ pods[id].node = n
    PROVE  Usage(n)' <= Usage(n) + 1
  <1>1. On(n)' \subseteq On(n) \cup {p}
    BY DEF On
  <1>2. IsFiniteSet(On(n) \cup {p}) /\ Cardinality(On(n) \cup {p}) <= Cardinality(On(n)) + 1
    BY UsageIsOn, FS_AddElement
  <1>3. Cardinality(On(n)') <= Cardinality(On(n) \cup {p})
    BY <1>1, <1>2, FS_Subset
  <1>4. Cardinality(On(n) \cup {p}) \in Nat
    BY <1>2, FS_CardinalityType
  <1> QED
    BY <1>2, <1>3, <1>4, UsageIsOn, UsageInNextState

LoadAt(n) ==
    n \notin flags.crowded =>
        /\ Usage(n) <= Capacity
        /\ rc.at = "place" /\ n \notin rc.taken => Usage(n) <= rc.usage[n]
        /\ pr.at = "place" /\ n \notin pr.taken => Usage(n) <= pr.usage[n]
BlankCopy == \A id \in DOMAIN pr.owned : pr.owned[id].node = None

LEMMA LoadParts ==
    /\ LoadInv <=> BlankCopy /\ \A n \in Nodes : LoadAt(n)
    /\ LoadInv' <=> BlankCopy' /\ \A n \in Nodes : LoadAt(n)'
  <1>1. \A n : Usage(n) > Capacity <=> ~(Usage(n) <= Capacity)
    BY UsageIsOn, SizesAssumption
  <1>2. \A n : Usage(n)' > Capacity <=> ~(Usage(n)' <= Capacity)
    BY UsageInNextState, SizesAssumption
  <1>3. LoadInv <=> BlankCopy /\ \A n \in Nodes : LoadAt(n)
    BY <1>1 DEF LoadInv, LoadAt, BlankCopy, OvercommitIsExplained
  <1>4. LoadInv' <=> BlankCopy' /\ \A n \in Nodes : LoadAt(n)'
    BY <1>2 DEF LoadInv, LoadAt, BlankCopy, OvercommitIsExplained
  <1> QED
    BY <1>3, <1>4

\* Passes that go on counting go on with the same counts.
LEMMA LoadKept ==
    ASSUME TypeOK, NEW n \in Nodes, LoadAt(n), Lighter(n), flags.crowded \subseteq flags'.crowded,
           rc'.at = "place" => rc.at = "place" /\ rc'.usage = rc.usage /\ rc.taken \subseteq rc'.taken,
           pr'.at = "place" => pr.at = "place" /\ pr'.usage = pr.usage /\ pr.taken \subseteq pr'.taken
    PROVE  LoadAt(n)'
  <1>1. Usage(n)' <= Usage(n) /\ Usage(n) \in Nat /\ Usage(n)' \in Nat /\ Capacity \in Nat
    BY NoMoreLoad, UsageIsOn, UsageInNextState, SizesAssumption
  <1>2. rc.at = "place" => rc.usage[n] \in Nat
    BY DEF TypeOK, RcOK
  <1>3. pr.at = "place" => pr.usage[n] \in Nat
    BY DEF TypeOK, PrOK
  <1> HIDE DEF Usage
  <1> QED
    BY <1>1, <1>2, <1>3 DEF LoadAt

LEMMA LoadInit ==
    ASSUME Init
    PROVE  LoadInv
  <1>1. pr.at = "idle" /\ rc.at = "idle" /\ DOMAIN pr.owned = {}
    BY NoPassIs DEF Init
  <1>2. ASSUME NEW n \in Nodes PROVE Usage(n) <= 1
    <2>1. CASE Empty
      <3>1. On(n) = {}
        BY <2>1 DEF On, Empty, NoPods
      <3> QED
        BY <3>1, UsageIsOn, FS_EmptySet
    <2>2. CASE Placed
      <3>1. PICK v \in Volumes, m \in Nodes :
               pods = [NoPods EXCEPT ![<<v, 0>>] = [t |-> [Clean EXCEPT !.vols = {v}], node |-> m]]
        BY <2>2 DEF Placed
      <3>2. On(n) \subseteq {<<v, 0>>}
        BY <3>1 DEF On, NoPods
      <3>3. IsFiniteSet({<<v, 0>>}) /\ Cardinality({<<v, 0>>}) = 1
        BY FS_Singleton
      <3> QED
        BY <3>2, <3>3, UsageIsOn, FS_Subset
    <2> QED
      BY <2>1, <2>2 DEF Init
  <1>3. \A n \in Nodes : LoadAt(n)
    BY <1>1, <1>2, UsageIsOn, SizesAssumption DEF LoadAt
  <1>4. BlankCopy
    BY <1>1 DEF BlankCopy
  <1> QED
    BY <1>3, <1>4, LoadParts

\* The pods of a set become the copy a request has in hand.
Gets(h, ids) == \A id \in PodNames : pods'[id] = IF id \in ids THEN Copy(h) ELSE pods[id]

LEMMA LoadHandlers ==
    ASSUME TypeOK, LoadInv, \/ \E h \in Handlers : HandlerStep(h)
                            \/ \E id \in PodNames : DeletePod(id) \/ MountVolumes(id)
                            \/ \E d \in DOMAIN Manifests : GitSync(d)
                            \/ UNCHANGED vars
    PROVE  LoadInv'
  <1>0. \A n \in Nodes : n # None
    BY NoneAssumption
  <1>1. ASSUME UNCHANGED controllers, \A n \in Nodes : Lighter(n), flags.crowded \subseteq flags'.crowded
        PROVE  LoadInv'
    <2>1. \A n \in Nodes : LoadAt(n)'
      BY <1>1, LoadParts, LoadKept DEF controllers
    <2>2. BlankCopy'
      BY <1>1, LoadParts DEF BlankCopy, controllers
    <2> QED
      BY <2>1, <2>2, LoadParts
  <1>2. ASSUME UNCHANGED <<pods, controllers>>, flags.crowded \subseteq flags'.crowded
        PROVE  LoadInv'
    BY <1>1, <1>2 DEF Lighter
  <1>3. ASSUME NEW id \in PodNames, pods'[id] = None, \A o \in PodNames \ {id} : pods'[o] = pods[o],
               UNCHANGED controllers, flags.crowded \subseteq flags'.crowded
        PROVE  LoadInv'
    <2>1. \A n \in Nodes : Lighter(n)
      BY <1>3 DEF Lighter
    <2> QED
      BY <1>1, <1>3, <2>1
  <1>8. ASSUME NEW h, NEW ids, Gets(h, ids), UNCHANGED controllers,
               flags'.crowded = flags.crowded \cup ({call[h].node} \ {None})
        PROVE  LoadInv'
    <2>1. ASSUME NEW n \in Nodes PROVE LoadAt(n)'
      <3>1. CASE n \in flags'.crowded
        BY <3>1 DEF LoadAt
      <3>2. CASE n \notin flags'.crowded
        <4>1. Copy(h).node # n
          BY <1>0, <1>8, <3>2 DEF Copy
        <4>2. Lighter(n)
          BY <1>8, <4>1 DEF Lighter, Gets
        <4> QED
          BY <1>8, <4>2, LoadParts, LoadKept DEF controllers
      <3> QED
        BY <3>1, <3>2
    <2>2. BlankCopy'
      BY <1>8, LoadParts DEF BlankCopy, controllers
    <2> QED
      BY <2>1, <2>2, LoadParts
  <1>4. ASSUME NEW h \in Handlers, HandlerStep(h)
        PROVE  LoadInv'
    <2>1. CASE Begins(h)
      BY <1>2, <2>1, BeginsCall DEF objects
    <2>2. CASE VolumeStep(h)
      <3>1. flags.crowded \subseteq flags'.crowded
        BY <2>2, VolumeStepEffect DEF VolumeStep, Flagged
      <3> QED
        BY <1>2, <2>2, <3>1, VolumeStepEffect
    <2>3. ASSUME NEW unread \in SUBSET Volumes, Admit(h, unread)
          PROVE  LoadInv'
      <3>1. flags.crowded \subseteq flags'.crowded
        BY <2>3, AdmitCall, AdmitFlags DEF Flagged
      <3> QED
        BY <1>2, <2>3, <3>1, AdmitCall DEF objects
    <2>4. CASE PutDeployment(h)
      BY <1>2, <2>4, PutDeploymentStep DEF Flagged
    <2>5. CASE PutPod(h)
      <3>1. Gets(h, call[h].left)
        BY <2>5, PutPodStep DEF Gets, Copy
      <3>2. UNCHANGED controllers /\ flags'.crowded = flags.crowded \cup ({call[h].node} \ {None})
        BY <2>5, PutPodStep DEF Flagged
      <3> QED
        BY <1>0, <1>8, <3>1, <3>2
    <2>6. CASE RestartList(h)
      <3>1. flags.crowded \subseteq flags'.crowded /\ UNCHANGED <<objects, controllers>>
        BY <2>6, FlagsRaised DEF Flagged, RestartList
      <3> QED
        BY <1>2, <3>1 DEF objects
    <2>7. ASSUME NEW id \in PodNames, RestartDelete(h, id)
          PROVE  LoadInv'
      BY <1>3, <2>7, RestartDeleteStep DEF Flagged
    <2>8. CASE CallFails(h)
      <3>1. flags.crowded \subseteq flags'.crowded
        BY <2>8, FailFlags DEF Flagged
      <3> QED
        BY <1>2, <2>8, <3>1, CallFailsStep DEF objects
    <2>9. CASE Reports(h)
      BY <1>2, <2>9, ReportArrives DEF objects, Reports
    <2>10. CASE Autoscales(h)
      <3>1. PICK d \in Names, r \in 1 .. MaxReplicas : Autoscale(h, d, r)
        BY <2>10 DEF Autoscales
      <3>2. flags.crowded \subseteq flags'.crowded /\ UNCHANGED <<pods, controllers>>
        BY <3>1, AutoscaleCall, BlindFlags DEF Flagged, objects
      <3> QED
        BY <1>2, <3>2
    <2>11. CASE ReportPut(h)
      <3>1. Gets(h, Undone(h))
        BY <2>11, ReportPutStep DEF Gets
      <3>2. UNCHANGED controllers /\ flags'.crowded = flags.crowded \cup ({call[h].node : id \in Undone(h)} \ {None})
        BY <2>11, ReportPutStep, ReportFlags DEF Flagged
      <3>3. Undone(h) # {} => flags'.crowded = flags.crowded \cup ({call[h].node} \ {None})
        BY <3>2
      <3>4. CASE Undone(h) = {}
        <4>1. \A n \in Nodes : Lighter(n)
          BY <3>1, <3>4 DEF Gets, Lighter
        <4> QED
          BY <1>1, <3>2, <4>1
      <3> QED
        BY <1>0, <1>8, <3>1, <3>2, <3>3, <3>4
    <2>12. CASE Remove(h)
      BY <1>2, <2>12, RemoveStep
    <2> QED
      BY <1>4, <2>1, <2>2, <2>3, <2>4, <2>5, <2>6, <2>7, <2>8, <2>9, <2>10, <2>11, <2>12
         DEF HandlerStep, Restarts, Admits
  <1>5. ASSUME NEW id \in PodNames, DeletePod(id) \/ MountVolumes(id)
        PROVE  LoadInv'
    <2>1. CASE DeletePod(id)
      BY <1>3, <2>1, DeletePodStep DEF Flagged
    <2>2. CASE MountVolumes(id)
      BY <1>2, <2>2 DEF MountVolumes, objects
    <2> QED
      BY <1>5, <2>1, <2>2
  <1>6. ASSUME NEW d \in DOMAIN Manifests, GitSync(d)
        PROVE  LoadInv'
    BY <1>2, <1>6, SyncStep DEF Flagged
  <1>7. CASE UNCHANGED vars
    BY <1>2, <1>7 DEF vars, controllers
  <1> QED
    BY <1>4, <1>5, <1>6, <1>7

LEMMA LoadPasses ==
    ASSUME TypeOK, LoadInv, PassStep
    PROVE  LoadInv'
  <1>0. /\ \A n \in Nodes : n # None /\ LoadAt(n)
        /\ BlankCopy
    BY NoneAssumption, LoadParts
  <1>1. ASSUME UNCHANGED pr, \A n \in Nodes : Lighter(n), flags.crowded \subseteq flags'.crowded, rc'.at # "place"
        PROVE  LoadInv'
    <2>1. \A n \in Nodes : LoadAt(n)'
      BY <1>0, <1>1, LoadKept
    <2>2. BlankCopy'
      BY <1>0, <1>1 DEF BlankCopy
    <2> QED
      BY <2>1, <2>2, LoadParts
  <1>2. ASSUME NEW d \in Names, Fetch(d)
        PROVE  LoadInv'
    BY <1>1, <1>2, FetchPass DEF objects, Lighter
  <1>3. ASSUME NEW n \in Nodes, Place(n)
        PROVE  LoadInv'
    <2>1. PICK id \in DOMAIN rc.owned :
              /\ rc.at = "place" /\ rc.usage[n] < Capacity
              /\ UNCHANGED pr
              /\ pods' = [pods EXCEPT ![id] = [rc.owned[id] EXCEPT !.node = n]]
              /\ [rc.owned[id] EXCEPT !.node = n] \in Pod
              /\ rc'.at = "place" /\ rc'.usage = rc.usage /\ rc'.taken = rc.taken \cup {n}
              /\ flags' = Raise("crowded", IF n \in rc.taken \/ pr.at # "idle" THEN {n} ELSE {})
      BY <1>3, PlacePass
    <2> DEFINE p == [rc.owned[id] EXCEPT !.node = n]
    <2>2. id \in PodNames /\ p.node = n
      BY DEF TypeOK, RcOK, Pod
    <2>3. /\ pods'[id] = p
          /\ \A o \in PodNames \ {id} : pods'[o] = pods[o]
      BY <2>1, <2>2, PodsChange
    <2> HIDE DEF p
    <2>4. Flagged({}, {}, IF n \in rc.taken \/ pr.at # "idle" THEN {n} ELSE {}, {})
      BY <2>1, FlagsRaised
    <2>5. ASSUME NEW m \in Nodes, m # n PROVE LoadAt(m)'
      <3>1. Lighter(m)
        BY <2>2, <2>3, <2>5 DEF Lighter
      <3> QED
        BY <1>0, <2>1, <2>4, <3>1, LoadKept DEF Flagged
    <2>6. LoadAt(n)'
      <3>1. Usage(n)' <= Usage(n) + 1 /\ Usage(n) \in Nat /\ Usage(n)' \in Nat
        BY <2>2, <2>3, OneMorePod, UsageIsOn, UsageInNextState
      <3>2. rc.usage[n] \in Nat /\ Capacity \in Nat
        BY <2>1, SizesAssumption DEF TypeOK, RcOK
      <3>3. n \notin flags'.crowded => n \notin flags.crowded /\ n \notin rc.taken /\ pr.at = "idle"
        BY <2>4 DEF Flagged
      <3>4. n \in rc'.taken
        BY <2>1
      <3> HIDE DEF Usage
      <3> QED
        BY <1>0, <2>1, <3>1, <3>2, <3>3, <3>4 DEF LoadAt
    <2>7. BlankCopy'
      BY <1>0, <2>1 DEF BlankCopy
    <2> QED
      BY <2>5, <2>6, <2>7, LoadParts
  <1>4. ASSUME NEW n \in Nodes, PlaceFails(n)
        PROVE  LoadInv'
    <2>1. UNCHANGED <<pods, pr>> /\ rc'.at = "claim" /\ flags' = Raise("moved", rc.copy.t.vols)
      BY <1>4, PlacePass
    <2> QED
      BY <1>1, <2>1, FlagsRaised DEF Lighter, Flagged
  <1>5. CASE Size
    <2>1. PICK pin \in Nodes \cup {None} :
             /\ \A id \in PodNames : SizesTo(pin, id)
             /\ flags'.crowded = flags.crowded \cup {pin} \/ pin = None \/ \A id \in PodNames : pods'[id] \in {pods[id], None}
      BY <1>5, SizePass
    <2>2. UNCHANGED pr /\ flags.crowded \subseteq flags'.crowded /\ rc'.at = "list"
      BY <1>5, SizePass
    <2>3. ASSUME NEW n \in Nodes PROVE LoadAt(n)'
      <3>1. CASE n \in flags'.crowded
        BY <3>1 DEF LoadAt
      <3>2. CASE n \notin flags'.crowded
        <4>1. Lighter(n)
          BY <1>0, <2>1, <3>2 DEF Lighter, SizesTo
        <4> QED
          BY <1>0, <2>2, <4>1, LoadKept
      <3> QED
        BY <3>1, <3>2
    <2>4. BlankCopy'
      BY <1>0, <2>2 DEF BlankCopy
    <2> QED
      BY <2>3, <2>4, LoadParts
  <1>6. CASE ListOwned
    <2>1. /\ rc'.at = "place" /\ \A n \in Nodes : rc'.usage[n] = Usage(n)
          /\ UNCHANGED <<pods, pr, flags>>
      BY <1>6, ListOwnedPass DEF objects
    <2>2. \A n : Usage(n)' = Usage(n)
      BY <2>1 DEF Usage, Stored
    <2>3. \A n \in Nodes : LoadAt(n)'
      <3> HIDE DEF Usage
      <3> QED
        BY <1>0, <2>1, <2>2, UsageIsOn DEF LoadAt
    <2>4. BlankCopy'
      BY <1>0, <2>1 DEF BlankCopy
    <2> QED
      BY <2>3, <2>4, LoadParts
  <1>7. CASE PlaceEnds
    <2>1. \A n \in Nodes : Lighter(n)
      BY <1>0, <1>7, PlaceEndsPass DEF Lighter
    <2> QED
      BY <1>1, <1>7, <2>1, PlaceEndsPass
  <1>8. CASE ClaimGet \/ ClaimPut \/ ClaimFails
    <2>1. flags' = flags \/ \E x : flags' = Raise("torn", x)
      BY <1>8, ClaimPass
    <2>2. flags.crowded \subseteq flags'.crowded
      BY <2>1, FlagsRaised DEF Flagged
    <2> QED
      BY <1>1, <1>8, <2>2, ClaimPass DEF Lighter
  <1>9. CASE Refetch \/ PutStatus \/ RcStops
    <2>1. flags.crowded \subseteq flags'.crowded /\ rc'.at # "place"
      BY <1>9, StatusPass, StatusFlags, NoPassIs DEF Refetches, PutsStatus, GivesUp, Flagged
    <2> QED
      BY <1>1, <1>9, <2>1, StatusPass DEF Lighter
  <1> QED
    BY <1>2, <1>3, <1>4, <1>5, <1>6, <1>7, <1>8, <1>9 DEF PassStep

LEMMA LoadPods ==
    ASSUME TypeOK, LoadInv, PodStep
    PROVE  LoadInv'
  <1>0. /\ \A n \in Nodes : n # None /\ LoadAt(n)
        /\ BlankCopy
    BY NoneAssumption, LoadParts
  <1>1. UNCHANGED rc
    BY PodPass DEF PodStep
  <1>2. CASE PrFetches
    <2>1. \A n : Usage(n)' = Usage(n)
      BY <1>2 DEF Usage, Stored, PrFetches
    <2>2. \A n \in Nodes : LoadAt(n)'
      <3> HIDE DEF Usage
      <3> QED
        BY <1>0, <1>1, <1>2, <2>1, UsageIsOn DEF LoadAt, PrFetches
    <2>3. BlankCopy'
      BY <1>2 DEF BlankCopy, PrFetches
    <2> QED
      BY <2>2, <2>3, LoadParts
  <1>3. ASSUME NEW id \in PodNames, NEW n \in Nodes, PrPlaces(id, n)
        PROVE  LoadInv'
    <2> DEFINE p == [pr.owned[id] EXCEPT !.node = n]
    <2>1. /\ PrGoesOn(id) /\ pr.usage[n] < Capacity /\ pods' = [pods EXCEPT ![id] = p] /\ p \in Pod
          /\ pr'.at = "place" => pr'.taken = pr.taken \cup {n}
          /\ flags' = Raise("crowded", IF n \in pr.taken \/ rc.at = "place" THEN {n} ELSE {})
      BY <1>3 DEF PrPlaces
    <2>2. id \in DOMAIN pr.owned /\ pr.at = "place" /\ (pr'.at = "place" => pr'.usage = pr.usage)
      BY <2>1 DEF PrGoesOn
    <2>3. p.node = n
      BY <2>2 DEF TypeOK, PrOK, Pod
    <2> HIDE DEF p
    <2>4. pods'[id] = p /\ \A o \in PodNames \ {id} : pods'[o] = pods[o]
      BY <2>1, PodsChange
    <2>5. Flagged({}, {}, IF n \in pr.taken \/ rc.at = "place" THEN {n} ELSE {}, {})
      BY <2>1, FlagsRaised
    <2>6. ASSUME NEW m \in Nodes, m # n PROVE LoadAt(m)'
      <3>1. Lighter(m)
        BY <2>3, <2>4, <2>6 DEF Lighter
      <3> QED
        BY <1>0, <1>1, <2>1, <2>2, <2>5, <3>1, LoadKept DEF Flagged
    <2>7. LoadAt(n)'
      <3>1. Usage(n)' <= Usage(n) + 1 /\ Usage(n) \in Nat /\ Usage(n)' \in Nat
        BY <2>4, OneMorePod, UsageIsOn, UsageInNextState
      <3>2. pr.usage[n] \in Nat /\ Capacity \in Nat
        BY <2>2, SizesAssumption DEF TypeOK, PrOK
      <3>3. n \notin flags'.crowded => n \notin flags.crowded /\ n \notin pr.taken /\ rc.at # "place"
        BY <2>5 DEF Flagged
      <3>4. pr'.at = "place" => n \in pr'.taken
        BY <2>1
      <3> HIDE DEF Usage
      <3> QED
        BY <1>0, <1>1, <2>1, <2>2, <3>1, <3>2, <3>3, <3>4 DEF LoadAt
    <2>8. BlankCopy'
      BY <1>0, <2>1 DEF BlankCopy, PrGoesOn
    <2> QED
      BY <2>6, <2>7, <2>8, LoadParts
  <1>4. ASSUME NEW id \in PodNames, PrWaits(id)
        PROVE  LoadInv'
    <2>1. /\ PrGoesOn(id) /\ UNCHANGED flags /\ (pr'.at = "place" => pr'.taken = pr.taken)
          /\ pods' = pods \/ pods' = [pods EXCEPT ![id] = pr.owned[id]]
      BY <1>4 DEF PrWaits
    <2>2. /\ id \in DOMAIN pr.owned /\ pr.owned[id].node = None /\ pr.at = "place" /\ pr.owned[id] \in Pod
          /\ pr'.at = "place" => pr'.usage = pr.usage
      BY <1>0, <2>1 DEF PrGoesOn, BlankCopy, TypeOK, PrOK
    <2>3. \A n \in Nodes : Lighter(n)
      <3>1. CASE pods' = pods
        BY <3>1 DEF Lighter
      <3>2. CASE pods' = [pods EXCEPT ![id] = pr.owned[id]]
        <4>1. pods'[id] = pr.owned[id] /\ \A o \in PodNames \ {id} : pods'[o] = pods[o]
          BY <2>2, <3>2, PodsChange
        <4> QED
          BY <1>0, <2>2, <4>1 DEF Lighter
      <3> QED
        BY <2>1, <3>1, <3>2
    <2>4. \A n \in Nodes : LoadAt(n)'
      BY <1>0, <1>1, <2>1, <2>2, <2>3, LoadKept
    <2>5. BlankCopy'
      BY <1>0, <2>1 DEF BlankCopy, PrGoesOn
    <2> QED
      BY <2>4, <2>5, LoadParts
  <1>5. CASE PrGivesUp
    <2>1. pr'.at = "idle" /\ UNCHANGED <<pods, flags>>
      BY <1>5 DEF PrGivesUp
    <2>2. \A n \in Nodes : LoadAt(n)'
      BY <1>0, <1>1, <2>1, LoadKept DEF Lighter
    <2>3. BlankCopy'
      <3>1. PrOK'
        BY PodPass DEF PodStep
      <3> QED
        BY <2>1, <3>1 DEF BlankCopy, PrOK
    <2> QED
      BY <2>2, <2>3, LoadParts
  <1> QED
    BY <1>2, <1>3, <1>4, <1>5, PodPass DEF PodStep

LEMMA LoadStep ==
    ASSUME TypeOK, LoadInv, [Next]_vars
    PROVE  LoadInv'
  BY LoadHandlers, LoadPasses, LoadPods, Steps

-----------------------------------------------------------------------------
(* What passed admission.                                                  *)

VettedDep(d, dep) == CleanTemplate(dep.t) \/ (dep.managed /\ FromGit(d, dep.t))
VettedPod(d, t) == CleanTemplate(t) \/ FromGit(d, t)

VettedDeployments == \A d \in Names : deployments[d] # None => VettedDep(d, deployments[d])
VettedPods == \A id \in PodNames : pods[id] # None => VettedPod(id[1], pods[id].t)
VettedPass ==
    /\ rc.at # "idle" => VettedDep(rc.d, rc.copy)
    /\ \A id \in DOMAIN rc.owned : VettedPod(rc.d, rc.owned[id].t)
VettedCopy == \A id \in DOMAIN pr.owned : VettedPod(None, pr.owned[id].t)
VettedCall(h) ==
    /\ call[h].at = "put" =>
          CleanTemplate(call[h].t) \/ (call[h].op = "deploy" /\ call[h].managed /\ FromGit(call[h].d, call[h].t))
    /\ call[h].at = "report" => \A id \in call[h].left : VettedPod(id[1], call[h].t)
VettedCalls == \A h \in Handlers : VettedCall(h)

LEMMA AdmissionParts ==
    /\ AdmissionInv <=> VettedDeployments /\ VettedPods /\ VettedPass /\ VettedCopy /\ VettedCalls
    /\ AdmissionInv' <=> VettedDeployments' /\ VettedPods' /\ VettedPass' /\ VettedCopy' /\ VettedCalls'
  BY DEF AdmissionInv, AdmissionBypassIsGitOps, Stored, VettedDeployments, VettedPods, VettedPass, VettedCopy,
         VettedCalls, VettedCall, VettedDep, VettedPod, CleanTemplate, FromGit

\* Chain.Admit lets nothing through that a policy objects to.
LEMMA AdmittedIsClean ==
    ASSUME NEW name, NEW t \in Template, NEW r, NEW used, NEW vols, NEW unread, Admitted(name, t, r, used, vols, unread)
    PROVE  CleanTemplate(Defaulted(t)) /\ Defaulted(t).vols = t.vols /\ Defaulted(t).ver = t.ver
  <1>1. t.bad = "none"
    BY DEF Admitted, Template, Objections, SecurityContextPolicy, ImageSignaturePolicy, PolicyValidator
  <1>2. Defaulted(t).bad = "none" /\ Defaulted(t).seccomp /\ Defaulted(t).vols = t.vols /\ Defaulted(t).ver = t.ver
    BY <1>1 DEF Defaulted, Template
  <1> QED
    BY <1>2 DEF CleanTemplate

LEMMA AdmissionInit ==
    ASSUME Init
    PROVE  AdmissionInv
  <1>1. VettedPass /\ VettedCopy
    BY NoPassIs DEF Init, VettedPass, VettedCopy
  <1>2. VettedCalls
    BY IdleCall DEF Init, VettedCalls, VettedCall
  <1>3. VettedDeployments /\ VettedPods
    <2>1. CASE Empty
      BY <2>1 DEF Empty, NoPods, VettedDeployments, VettedPods
    <2>2. CASE Placed
      <3>1. PICK v \in Volumes, n \in Nodes :
              LET t == [Clean EXCEPT !.vols = {v}]
              IN  /\ deployments = [d \in Names |-> IF d = v THEN [replicas |-> 1, t |-> t, managed |-> FALSE]
                                              ELSE None]
                  /\ pods = [NoPods EXCEPT ![<<v, 0>>] = [t |-> t, node |-> n]]
        BY <2>2 DEF Placed
      <3> DEFINE t == [Clean EXCEPT !.vols = {v}]
      <3>2. t.bad = "none" /\ t.seccomp
        BY DEF Clean
      <3>3. CleanTemplate(t)
        BY <3>2 DEF CleanTemplate
      <3>4. /\ \A d \in Names : deployments[d] # None => deployments[d].t = t
            /\ \A id \in PodNames : pods[id] # None => pods[id].t = t
        <4> HIDE DEF t
        <4> QED
          BY <3>1 DEF NoPods, t
      <3> QED
        BY <3>3, <3>4 DEF VettedDeployments, VettedPods, VettedDep, VettedPod
    <2> QED
      BY <2>1, <2>2 DEF Init
  <1> QED
    BY <1>1, <1>2, <1>3, AdmissionParts

LEMMA AdmissionHandlers ==
    ASSUME TypeOK, AdmissionInv, NEW h \in Handlers, HandlerStep(h)
    PROVE  AdmissionInv'
  <1>0. VettedDeployments /\ VettedPods /\ VettedPass /\ VettedCopy /\ VettedCalls
    BY AdmissionParts
  <1>1. ASSUME OnlyCall(h), VettedCall(h)' PROVE VettedCalls'
    BY <1>0, <1>1 DEF VettedCalls, VettedCall, OnlyCall
  <1>2. ASSUME OnlyCall(h), VettedCall(h)', UNCHANGED controllers,
               VettedDeployments', VettedPods'
        PROVE  AdmissionInv'
    <2>1. VettedPass' /\ VettedCopy'
      BY <1>0, <1>2 DEF controllers, VettedPass, VettedCopy
    <2> QED
      BY <1>1, <1>2, <2>1, AdmissionParts
  <1>3. UNCHANGED deployments => VettedDeployments'
    BY <1>0 DEF VettedDeployments
  <1>4. UNCHANGED pods => VettedPods'
    BY <1>0 DEF VettedPods
  <1>5. CASE Begins(h)
    BY <1>2, <1>3, <1>4, <1>5, BeginsCall DEF objects, VettedCall
  <1>6. CASE VolumeStep(h)
    <2>1. call'[h].at \notin {"put", "report"}
      BY <1>6, VolumeStepCall DEF VolumeStep
    <2> QED
      BY <1>2, <1>3, <1>4, <1>6, <2>1, VolumeStepCall, VolumeStepEffect DEF VettedCall
  <1>7. ASSUME NEW unread \in SUBSET Volumes, Admit(h, unread)
        PROVE  AdmissionInv'
    <2>1. VettedCall(h)'
      BY <1>7, AdmitCall, AdmittedIsClean DEF VettedCall
    <2> QED
      BY <1>2, <1>3, <1>4, <1>7, <2>1, AdmitCall DEF objects
  <1>8. CASE PutDeployment(h)
    <2>1. CleanTemplate(call[h].t) \/ (call[h].managed /\ FromGit(call[h].d, call[h].t))
      BY <1>0, <1>8 DEF VettedCalls, VettedCall, PutDeployment, At
    <2>2. VettedDeployments'
      BY <1>0, <1>8, <2>1, PutDeploymentStep DEF VettedDeployments, VettedDep
    <2>3. VettedCall(h)'
      BY <1>8, PutCall DEF VettedCall
    <2> QED
      BY <1>2, <1>4, <1>8, <2>2, <2>3, PutCall, PutDeploymentStep
  <1>9. CASE PutPod(h)
    <2>1. CleanTemplate(call[h].t)
      BY <1>0, <1>9 DEF VettedCalls, VettedCall, PutPod, At
    <2>2. Copy(h).t = call[h].t
      BY DEF Copy
    <2>4. VettedPods'
      BY <1>0, <1>9, <2>1, <2>2, PutPodStep DEF VettedPods, VettedPod
    <2>5. VettedCall(h)'
      BY <1>9, PutCall DEF VettedCall
    <2> QED
      BY <1>2, <1>3, <1>9, <2>4, <2>5, PutCall, PutPodStep
  <1>13. ASSUME NEW id \in PodNames, UpdatePodStatus(h, id)
         PROVE  AdmissionInv'
    <2>1. VettedPod(id[1], pods[id].t)
      BY <1>0, <1>13, ReportArrives DEF VettedPods
    <2>2. VettedCall(h)'
      BY <1>13, <2>1, ReportArrives DEF VettedCall
    <2> QED
      BY <1>2, <1>3, <1>4, <1>13, <2>2, ReportArrives DEF objects
  <1>14. ASSUME NEW d \in Names, NEW r \in 1 .. MaxReplicas, Autoscale(h, d, r)
         PROVE  AdmissionInv'
    <2>1. VettedDep(d, deployments[d])
      BY <1>0, <1>14, AutoscaleCall DEF VettedDeployments
    <2>2. VettedCall(h)'
      BY <1>14, <2>1, AutoscaleCall DEF VettedCall, VettedDep
    <2> QED
      BY <1>2, <1>3, <1>4, <1>14, <2>2, AutoscaleCall DEF objects
  <1>15. CASE ReportPut(h)
    <2>1. \A id \in Undone(h) : VettedPod(id[1], call[h].t)
      BY <1>0, <1>15, ReportPutCall DEF VettedCalls, VettedCall, Undone
    <2>2. VettedPods'
      BY <1>0, <1>15, <2>1, ReportPutStep DEF VettedPods
    <2>3. VettedCall(h)'
      BY <1>15, ReportPutCall DEF VettedCall
    <2> QED
      BY <1>2, <1>3, <1>15, <2>2, <2>3, ReportPutCall, ReportPutStep
  <1>16. CASE Remove(h)
    <2>1. VettedDeployments'
      BY <1>0, <1>16, RemoveStep DEF VettedDeployments
    <2> QED
      BY <1>2, <1>4, <1>16, <2>1, RemoveStep, RemoveCall DEF VettedCall
  <1>10. CASE RestartList(h)
    <2>1. UNCHANGED <<objects, controllers>>
      BY <1>10 DEF RestartList
    <2> QED
      BY <1>2, <1>3, <1>4, <1>10, <2>1, RestartListCall DEF objects, VettedCall
  <1>11. ASSUME NEW id \in PodNames, RestartDelete(h, id)
         PROVE  AdmissionInv'
    <2>1. VettedPods'
      BY <1>0, <1>11, RestartDeleteStep DEF VettedPods
    <2> QED
      BY <1>2, <1>3, <1>11, <2>1, RestartDeleteCall, RestartDeleteStep DEF VettedCall
  <1>12. CASE CallFails(h)
    <2>1. UNCHANGED <<objects, controllers>>
      BY <1>12, CallFailsStep
    <2> QED
      BY <1>2, <1>3, <1>4, <1>12, <2>1, CallFailsCall DEF objects, VettedCall
  <1> QED
    BY <1>5, <1>6, <1>7, <1>8, <1>9, <1>10, <1>11, <1>12, <1>13, <1>14, <1>15, <1>16
       DEF HandlerStep, Restarts, Admits, Reports, Autoscales

LEMMA AdmissionPasses ==
    ASSUME TypeOK, AdmissionInv, PassStep
    PROVE  AdmissionInv'
  <1>0. VettedDeployments /\ VettedPods /\ VettedPass /\ VettedCopy /\ VettedCalls
    BY AdmissionParts
  <1>1. ASSUME UNCHANGED <<call, pr>>, VettedDeployments', VettedPods', VettedPass'
        PROVE  AdmissionInv'
    <2>1. VettedCalls' /\ VettedCopy'
      BY <1>0, <1>1 DEF VettedCalls, VettedCall, VettedCopy
    <2> QED
      BY <1>1, <2>1, AdmissionParts
  <1>2. UNCHANGED deployments => VettedDeployments'
    BY <1>0 DEF VettedDeployments
  <1>3. UNCHANGED pods => VettedPods'
    BY <1>0 DEF VettedPods
  <1>4. \A d \in Names : deployments[d] # None => VettedDep(d, deployments[d])
    BY <1>0 DEF VettedDeployments
  <1>5. ASSUME NEW d \in Names, Fetch(d)
        PROVE  AdmissionInv'
    <2>1. VettedPass'
      BY <1>4, <1>5, FetchPass, NoPassIs DEF VettedPass
    <2> QED
      BY <1>1, <1>2, <1>3, <1>5, <2>1, FetchPass DEF objects
  <1>6. ASSUME NEW n \in Nodes, Place(n) \/ PlaceFails(n)
        PROVE  AdmissionInv'
    <2>1. PICK id \in DOMAIN rc.owned :
              /\ rc.at = "place" /\ rc'.d = rc.d /\ rc'.copy = rc.copy
              /\ DOMAIN rc'.owned = DOMAIN rc.owned
              /\ \A o \in DOMAIN rc.owned : rc'.owned[o].t = rc.owned[o].t
              /\ UNCHANGED <<deployments, call, pr>>
              /\ Place(n) => /\ pods' = [pods EXCEPT ![id] = [rc.owned[id] EXCEPT !.node = n]]
                             /\ [rc.owned[id] EXCEPT !.node = n] \in Pod
              /\ PlaceFails(n) => UNCHANGED pods
      BY <1>6, PlacePass
    <2>2. VettedPass'
      BY <1>0, <2>1 DEF VettedPass
    <2>3. CASE PlaceFails(n)
      BY <1>1, <1>2, <1>3, <2>1, <2>2, <2>3
    <2>4. CASE Place(n)
      <3> DEFINE p == [rc.owned[id] EXCEPT !.node = n]
      <3>1. id \in PodNames /\ id[1] = rc.d /\ p.t = rc.owned[id].t
        BY DEF TypeOK, RcOK, Pod
      <3>2. pods'[id] = p /\ \A o \in PodNames \ {id} : pods'[o] = pods[o]
        BY <2>1, <2>4, <3>1, PodsChange
      <3> HIDE DEF p
      <3>3. VettedPods'
        BY <1>0, <3>1, <3>2 DEF VettedPods, VettedPass
      <3> QED
        BY <1>1, <1>2, <2>1, <2>2, <3>3
    <2> QED
      BY <1>6, <2>3, <2>4
  <1>7. CASE Size
    <2>1. PICK pin \in Nodes \cup {None} : \A id \in PodNames : SizesTo(pin, id)
      BY <1>7, SizePass
    <2>2. SamePass /\ rc.at = "size" /\ UNCHANGED <<deployments, call, pr>>
      BY <1>7, SizePass
    <2>3. VettedPass' /\ VettedPod(rc.d, rc.copy.t)
      BY <1>0, <2>2 DEF VettedPass, SamePass, VettedDep, VettedPod
    <2>4. VettedPods'
      BY <1>0, <2>1, <2>3 DEF VettedPods, SizesTo
    <2> QED
      BY <1>1, <1>2, <2>2, <2>3, <2>4
  <1>8. CASE ListOwned
    <2>1. \A id \in PodsOf(rc.d) : VettedPod(rc.d, pods[id].t)
      BY <1>0 DEF PodsOf, VettedPods
    <2>2. VettedPass'
      BY <1>0, <1>8, <2>1, ListOwnedPass DEF VettedPass
    <2> QED
      BY <1>1, <1>2, <1>3, <1>8, <2>2, ListOwnedPass DEF objects
  <1>9. CASE PlaceEnds
    <2>1. VettedPass'
      BY <1>0, <1>9, PlaceEndsPass DEF VettedPass, SamePass
    <2>2. \A id \in DOMAIN rc.owned : id[1] = rc.d
      BY DEF TypeOK, RcOK
    <2>3. VettedPods'
      BY <1>0, <1>9, <2>2, PlaceEndsPass DEF VettedPods, VettedPass
    <2> QED
      BY <1>1, <1>2, <1>9, <2>1, <2>3, PlaceEndsPass
  <1>10. CASE ClaimGet \/ ClaimPut \/ ClaimFails
    <2>1. VettedPass'
      BY <1>0, <1>10, ClaimPass DEF VettedPass, SamePass
    <2> QED
      BY <1>1, <1>2, <1>3, <1>10, <2>1, ClaimPass
  <1>11. CASE Refetch \/ PutStatus \/ RcStops
    <2>1. rc.at # "idle" /\ rc.d \in Names /\ rc.copy \in Deployment
      BY <1>11, StatusPass
    <2>2. VettedPass' /\ VettedDeployments'
      <3>1. CASE Refetches
        BY <1>2, <1>4, <2>1, <3>1, NoPassIs DEF Refetches, VettedPass
      <3>2. CASE GivesUp
        BY <1>2, <3>2, NoPassIs DEF GivesUp, VettedPass
      <3>3. CASE PutsStatus
        <4>1. VettedPass'
          BY <3>3, NoPassIs DEF PutsStatus, VettedPass
        <4>2. deployments'[rc.d] = rc.copy /\ \A e \in Names \ {rc.d} : deployments'[e] = deployments[e]
          BY <2>1, <3>3, DeploymentsChange DEF PutsStatus
        <4>3. VettedDeployments'
          BY <1>0, <1>4, <2>1, <4>2 DEF VettedDeployments, VettedPass
        <4> QED
          BY <4>1, <4>3
      <3> QED
        BY <1>11, <3>1, <3>2, <3>3, StatusPass
    <2> QED
      BY <1>1, <1>3, <1>11, <2>2, StatusPass
  <1> QED
    BY <1>5, <1>6, <1>7, <1>8, <1>9, <1>10, <1>11 DEF PassStep

LEMMA AdmissionStep ==
    ASSUME TypeOK, AdmissionInv, [Next]_vars
    PROVE  AdmissionInv'
  <1>0. VettedDeployments /\ VettedPods /\ VettedPass /\ VettedCopy /\ VettedCalls
    BY AdmissionParts
  <1>1. UNCHANGED call => VettedCalls'
    BY <1>0 DEF VettedCalls, VettedCall
  <1>2. UNCHANGED rc => VettedPass'
    BY <1>0 DEF VettedPass
  <1>3. UNCHANGED pr => VettedCopy'
    BY <1>0 DEF VettedCopy
  <1>4. UNCHANGED deployments => VettedDeployments'
    BY <1>0 DEF VettedDeployments
  <1>5. UNCHANGED pods => VettedPods'
    BY <1>0 DEF VettedPods
  <1>6. CASE PodStep
    <2>1. UNCHANGED <<deployments, call, rc>> /\ PrOK'
      BY <1>6, PodPass DEF PodStep
    <2>2. ASSUME PrFetches PROVE VettedCopy' /\ VettedPods'
      BY <1>0, <1>5, <2>2 DEF PrFetches, VettedCopy, VettedPods
    <2>3. ASSUME NEW id \in PodNames, id[1] = None, NEW p, p.t = pr.owned[id].t, PrGoesOn(id), p \in Pod,
                 pods' = pods \/ pods' = [pods EXCEPT ![id] = p]
          PROVE  VettedCopy' /\ VettedPods'
      <3>1. VettedCopy' /\ VettedPod(None, pr.owned[id].t)
        BY <1>0, <2>3 DEF PrGoesOn, VettedCopy
      <3>2. \A o \in PodNames : pods'[o] = pods[o] \/ (o = id /\ pods'[o] = p)
        BY <2>3, PodsChange
      <3>3. VettedPods'
        BY <1>0, <2>3, <3>1, <3>2 DEF VettedPods
      <3> QED
        BY <3>1, <3>3
    <2>4. ASSUME NEW id \in PodNames, id[1] = None, NEW n \in Nodes, PrPlaces(id, n)
          PROVE  VettedCopy' /\ VettedPods'
      <3> DEFINE p == [pr.owned[id] EXCEPT !.node = n]
      <3>1. PrGoesOn(id) /\ p \in Pod /\ pods' = [pods EXCEPT ![id] = p]
        BY <2>4 DEF PrPlaces
      <3>2. p.t = pr.owned[id].t
        BY <3>1 DEF PrGoesOn, TypeOK, PrOK, Pod
      <3> HIDE DEF p
      <3> QED
        BY <2>3, <2>4, <3>1, <3>2
    <2>5. ASSUME NEW id \in PodNames, id[1] = None, PrWaits(id)
          PROVE  VettedCopy' /\ VettedPods'
      <3>1. PrGoesOn(id) /\ (pods' = pods \/ pods' = [pods EXCEPT ![id] = pr.owned[id]])
        BY <2>5 DEF PrWaits
      <3>2. pr.owned[id] \in Pod
        BY <3>1 DEF PrGoesOn, TypeOK, PrOK
      <3> QED
        BY <2>3, <2>5, <3>1, <3>2
    <2>6. ASSUME PrGivesUp PROVE VettedCopy' /\ VettedPods'
      BY <1>5, <2>1, <2>6 DEF PrGivesUp, PrOK, VettedCopy
    <2>7. VettedCopy' /\ VettedPods'
      BY <1>6, <2>2, <2>4, <2>5, <2>6, PodPass DEF PodStep
    <2> QED
      BY <1>1, <1>2, <1>4, <2>1, <2>7, AdmissionParts
  <1>7. ASSUME NEW id \in PodNames, DeletePod(id) \/ MountVolumes(id)
        PROVE  AdmissionInv'
    <2>1. CASE DeletePod(id)
      <3>1. VettedPods'
        BY <1>0, <2>1, DeletePodStep DEF VettedPods
      <3> QED
        BY <1>1, <1>2, <1>3, <1>4, <2>1, <3>1, AdmissionParts, DeletePodStep DEF controllers
    <2>2. CASE MountVolumes(id)
      BY <1>1, <1>2, <1>3, <1>4, <1>5, <2>2, AdmissionParts DEF MountVolumes, controllers, objects
    <2> QED
      BY <1>7, <2>1, <2>2
  <1>8. ASSUME NEW d \in DOMAIN Manifests, GitSync(d)
        PROVE  AdmissionInv'
    <2>1. Manifests[d].managed
      BY ManifestsAssumption
    <2>2. VettedDep(d, Manifests[d])
      BY <2>1 DEF VettedDep, FromGit
    <2>3. VettedDeployments'
      BY <1>0, <1>8, <2>2, SyncStep DEF VettedDeployments
    <2> QED
      BY <1>1, <1>2, <1>3, <1>5, <1>8, <2>3, SyncStep, AdmissionParts DEF controllers
  <1>9. CASE UNCHANGED vars
    BY <1>1, <1>2, <1>3, <1>4, <1>5, <1>9, AdmissionParts DEF vars
  <1> QED
    BY <1>6, <1>7, <1>8, <1>9, AdmissionHandlers, AdmissionPasses, Steps

-----------------------------------------------------------------------------
(* Who mounts a volume.                                                    *)

DepMounts(d, v) == deployments[d] # None /\ v \in deployments[d].t.vols
PodMounts(d, v) == \E id \in PodNames : id[1] = d /\ pods[id] # None /\ v \in pods[id].t.vols
CallMounts(h, d, v) == call[h].at = "put" /\ call[h].d = d /\ v \in call[h].t.vols
PassMounts(d, v) ==
    rc.d = d /\ (v \in rc.copy.t.vols \/ \E id \in DOMAIN rc.owned : v \in rc.owned[id].t.vols)

LEMMA MountsParts ==
    ASSUME NEW d, NEW v
    PROVE  /\ Mounts(d, v) <=> \/ DepMounts(d, v) \/ PodMounts(d, v) \/ PassMounts(d, v)
                               \/ \E h \in Handlers : CallMounts(h, d, v)
           /\ Mounts(d, v)' <=> \/ DepMounts(d, v)' \/ PodMounts(d, v)' \/ PassMounts(d, v)'
                                \/ \E h \in Handlers : CallMounts(h, d, v)'
  BY DEF Mounts, DepMounts, PodMounts, CallMounts, PassMounts, PodsOf, At

\* The owner of a volume is as before, gone, or a deployment that mounts it.
OwnerKept(v) ==
    volumes'[v] # None /\ volumes'[v].owner # None =>
        \/ volumes[v] # None /\ volumes[v].owner = volumes'[v].owner
        \/ volumes'[v].owner \in Names /\ Mounts(volumes'[v].owner, v)

LEMMA SharingKept ==
    ASSUME SharingInv, flags.unowned \subseteq flags'.unowned,
           \A v \in Volumes, d \in Names : v \in flags'.unowned \/ ~Mounts(d, v)' \/ Mounts(d, v),
           \A v \in Volumes : OwnerKept(v)
    PROVE  SharingInv'
  <1> SUFFICES ASSUME NEW v \in Volumes, v \notin flags'.unowned, NEW d \in Names, Mounts(d, v)'
               PROVE  /\ \A e \in Names : Mounts(e, v)' => d = e
                      /\ volumes'[v] # None /\ volumes'[v].owner # None => volumes'[v].owner = d
    BY DEF SharingInv
  <1>1. Mounts(d, v) /\ v \notin flags.unowned
    OBVIOUS
  <1>2. /\ \A e \in Names : Mounts(e, v) => d = e
        /\ volumes[v] # None /\ volumes[v].owner # None => volumes[v].owner = d
    BY <1>1 DEF SharingInv
  <1>3. \A e \in Names : Mounts(e, v)' => Mounts(e, v)
    OBVIOUS
  <1> HIDE DEF Mounts
  <1> QED
    BY <1>2, <1>3 DEF OwnerKept

\* The usual step: nobody mounts more than before.
LEMMA SharingQuiet ==
    ASSUME SharingInv, flags.unowned \subseteq flags'.unowned, UNCHANGED volumes,
           \A v \in Volumes, d \in Names : Mounts(d, v)' => Mounts(d, v)
    PROVE  SharingInv'
  <1>1. \A v \in Volumes : OwnerKept(v)
    BY DEF OwnerKept
  <1> QED
    BY <1>1, SharingKept

LEMMA SharingInit ==
    ASSUME Init
    PROVE  SharingInv
  <1>0. rc.d = None /\ \A d \in Names : d # None
    BY NoPassIs, NoneAssumption DEF Init
  <1>1. \A d \in Names, v \in Volumes : Mounts(d, v) => DepMounts(d, v) \/ PodMounts(d, v)
    <2>1. \A h \in Handlers, d \in Names, v \in Volumes : ~CallMounts(h, d, v)
      BY IdleCall DEF Init, CallMounts
    <2>2. \A d \in Names, v \in Volumes : ~PassMounts(d, v)
      BY <1>0 DEF PassMounts
    <2> QED
      BY <2>1, <2>2, MountsParts
  <1>2. CASE Empty
    <2>1. \A d \in Names, v \in Volumes : ~DepMounts(d, v) /\ ~PodMounts(d, v)
      BY <1>2 DEF Empty, NoPods, DepMounts, PodMounts
    <2> QED
      BY <1>1, <2>1 DEF SharingInv
  <1>3. CASE Placed
    <2>1. PICK v \in Volumes, n \in Nodes :
              LET t == [Clean EXCEPT !.vols = {v}]
              IN  /\ deployments = [d \in Names |-> IF d = v THEN [replicas |-> 1, t |-> t, managed |-> FALSE]
                                              ELSE None]
                  /\ pods = [NoPods EXCEPT ![<<v, 0>>] = [t |-> t, node |-> n]]
                  /\ volumes = [u \in Volumes |-> IF u = v THEN [node |-> n, owner |-> v] ELSE None]
      BY <1>3 DEF Placed
    <2> DEFINE t == [Clean EXCEPT !.vols = {v}]
    <2>2. t.vols = {v}
      BY DEF Clean
    <2>3. /\ \A d \in Names : deployments[d] # None => d = v /\ deployments[d].t = t
          /\ \A id \in PodNames : pods[id] # None => id = <<v, 0>> /\ pods[id].t = t
          /\ volumes[v].owner = v
      <3> HIDE DEF t
      <3> QED
        BY <2>1 DEF NoPods, t
    <2>4. \A d \in Names, u \in Volumes : Mounts(d, u) => d = v /\ u = v
      <3>1. \A d \in Names, u \in Volumes : DepMounts(d, u) => d = v /\ u = v
        <4> HIDE DEF t
        <4> QED
          BY <2>2, <2>3 DEF DepMounts
      <3>2. \A d \in Names, u \in Volumes : PodMounts(d, u) => d = v /\ u = v
        <4>1. <<v, 0>>[1] = v
          OBVIOUS
        <4> HIDE DEF t
        <4> QED
          BY <2>2, <2>3, <4>1 DEF PodMounts
      <3> QED
        BY <1>1, <3>1, <3>2
    <2> QED
      BY <2>3, <2>4 DEF SharingInv
  <1> QED
    BY <1>2, <1>3 DEF Init

\* A handler's request that is not about to be put mounts nothing.
LEMMA SharingCall ==
    ASSUME NEW h \in Handlers, NEW d, NEW v,
           \A g \in Handlers \ {h} : call'[g] = call[g], call'[h].at # "put",
           UNCHANGED rc, DepMounts(d, v)' => Mounts(d, v), PodMounts(d, v)' => Mounts(d, v),
           Mounts(d, v)'
    PROVE  Mounts(d, v)
  <1>1. ~CallMounts(h, d, v)'
    BY DEF CallMounts
  <1>2. \A g \in Handlers \ {h} : CallMounts(g, d, v)' => CallMounts(g, d, v)
    BY DEF CallMounts
  <1>3. PassMounts(d, v)' => PassMounts(d, v)
    BY DEF PassMounts
  <1> QED
    BY <1>1, <1>2, <1>3, MountsParts

LEMMA SamePodsMount ==
    ASSUME NEW d, NEW v, \A id \in PodNames : id[1] = d => pods'[id] \in {pods[id], None}
    PROVE  PodMounts(d, v)' => Mounts(d, v)
  <1>1. PodMounts(d, v)' => PodMounts(d, v)
    BY DEF PodMounts
  <1> QED
    BY <1>1, MountsParts

LEMMA SameDepsMount ==
    ASSUME NEW d, NEW v, deployments'[d] = deployments[d]
    PROVE  DepMounts(d, v)' => Mounts(d, v)
  <1>1. DepMounts(d, v)' => DepMounts(d, v)
    BY DEF DepMounts
  <1> QED
    BY <1>1, MountsParts

LEMMA SharingAdmit ==
    ASSUME TypeOK, SharingInv, NEW h \in Handlers, NEW unread, Admit(h, unread)
    PROVE  SharingInv'
  <1> DEFINE c == call[h]
  <1>0. OnlyCall(h) /\ UNCHANGED <<deployments, pods, volumes, rc>>
    BY AdmitCall DEF objects, controllers
  <1>1. CASE call'[h].at = "idle" /\ flags' = flags
    <2>1. \A v \in Volumes, d \in Names : Mounts(d, v)' => Mounts(d, v)
      BY <1>0, <1>1, SharingCall, SamePodsMount, SameDepsMount DEF OnlyCall
    <2> QED
      BY <1>0, <1>1, <2>1, SharingQuiet
  <1>2. CASE /\ call'[h].at = "put"
             /\ call'[h].d = call[h].d /\ call[h].t \in Template /\ call'[h].t = Defaulted(call[h].t)
             /\ Admitted(call[h].d, call[h].t, call[h].replicas, Cardinality(Stored), volumes, unread)
             /\ flags' = [Raise("unowned", Unowned(h, unread)) EXCEPT !.blind = @ \/ Unseen(h)]
    <2>1. flags'.unowned = flags.unowned \cup Unowned(h, unread)
      BY <1>2, AdmitFlags DEF Flagged
    <2>2. call'[h].t.vols = c.t.vols
      BY <1>2, AdmittedIsClean
    <2>3. ASSUME NEW v \in Volumes, NEW d \in Names, Mounts(d, v)'
          PROVE  Mounts(d, v) \/ (c.d = d /\ v \in c.t.vols)
      <3>1. \A g \in Handlers \ {h} : CallMounts(g, d, v)' => CallMounts(g, d, v)
        BY <1>0 DEF CallMounts, OnlyCall
      <3>2. CallMounts(h, d, v)' => c.d = d /\ v \in c.t.vols
        BY <1>2, <2>2 DEF CallMounts
      <3>3. /\ DepMounts(d, v)' => DepMounts(d, v)
            /\ PodMounts(d, v)' => PodMounts(d, v)
            /\ PassMounts(d, v)' => PassMounts(d, v)
        BY <1>0 DEF DepMounts, PodMounts, PassMounts
      <3> QED
        BY <2>3, <3>1, <3>2, <3>3, MountsParts
    <2>4. ASSUME NEW v \in Volumes, v \notin flags'.unowned, NEW d \in Names, Mounts(d, v)'
          PROVE  /\ \A e \in Names : Mounts(e, v)' => d = e
                 /\ volumes'[v] # None /\ volumes'[v].owner # None => volumes'[v].owner = d
      <3>1. v \notin Unowned(h, unread) /\ v \notin flags.unowned
        BY <2>1, <2>4
      <3>2. \A e \in Names : Mounts(e, v) => /\ \A f \in Names : Mounts(f, v) => e = f
                                             /\ volumes[v] # None /\ volumes[v].owner # None => volumes[v].owner = e
        BY <3>1 DEF SharingInv
      <3>3. \A e \in Names : Mounts(e, v)' => Mounts(e, v) \/ (c.d = e /\ v \in c.t.vols)
        BY <2>3
      <3>4. v \in c.t.vols /\ c.d \in Names =>
              \/ volumes[v] # None /\ volumes[v].owner = c.d
              \/ (volumes[v] = None \/ volumes[v].owner = None) /\ \A e \in Names \ {c.d} : ~Mounts(e, v)
        <4>1. v \in c.t.vols /\ c.d \in Names /\ volumes[v] # None /\ volumes[v].owner # None => volumes[v].owner = c.d
          BY <1>2, <3>1, NoneAssumption DEF Admitted, VolumeOwnershipPolicy, Unowned
        <4>2. v \in c.t.vols /\ (volumes[v] = None \/ volumes[v].owner = None) => \A e \in Names \ {c.d} : ~Mounts(e, v)
          BY <3>1 DEF Unowned
        <4> QED
          BY <4>1, <4>2
      <3>5. c.d \in Names => c.d # None
        BY NoneAssumption
      <3> HIDE DEF c
      <3> QED
        BY <1>0, <2>4, <3>2, <3>3, <3>4, <3>5
    <2> QED
      BY <2>4 DEF SharingInv
  <1> QED
    BY <1>1, <1>2, AdmitCall

LEMMA SharingHandlers ==
    ASSUME TypeOK, SharingInv, NEW h \in Handlers, HandlerStep(h)
    PROVE  SharingInv'
  <1>0. \A d \in Names : d # None
    BY NoneAssumption
  <1>1. ASSUME OnlyCall(h), call'[h].at # "put", UNCHANGED <<deployments, rc, volumes>>,
               flags.unowned \subseteq flags'.unowned,
               \A d \in Names : \A id \in PodNames : id[1] = d => pods'[id] \in {pods[id], None}
        PROVE  SharingInv'
    <2>1. ASSUME NEW v \in Volumes, NEW d \in Names, Mounts(d, v)' PROVE Mounts(d, v)
      BY <1>1, <2>1, SharingCall, SamePodsMount, SameDepsMount DEF OnlyCall
    <2> QED
      BY <1>1, <2>1, SharingQuiet
  <1>2. CASE Begins(h)
    BY <1>1, <1>2, BeginsCall DEF objects, controllers
  <1>3. CASE VolumeStep(h)
    <2>1. call'[h].at # "put" /\ OnlyCall(h) /\ flags.unowned \subseteq flags'.unowned
      BY <1>3, VolumeStepCall, VolumeStepEffect DEF VolumeStep, Flagged
    <2>2. UNCHANGED <<deployments, pods, rc>>
      BY <1>3, VolumeStepEffect DEF controllers
    <2>3. ASSUME NEW v \in Volumes, NEW d \in Names, Mounts(d, v)' PROVE Mounts(d, v)
      BY <2>1, <2>2, <2>3, SharingCall, SamePodsMount, SameDepsMount DEF OnlyCall
    <2>4. ASSUME NEW v \in Volumes PROVE OwnerKept(v)
      BY <1>3, VolumeStepEffect DEF VolumeStep, OwnerKept
    <2> QED
      BY <2>1, <2>3, <2>4, SharingKept
  <1>4. ASSUME NEW unread \in SUBSET Volumes, Admit(h, unread)
        PROVE  SharingInv'
    BY <1>4, SharingAdmit
  <1>5. CASE PutDeployment(h)
    <2>1. OnlyCall(h) /\ call'[h].at # "put" /\ call[h].at = "put"
      BY <1>5, PutCall
    <2>2. UNCHANGED <<pods, volumes, rc>> /\ flags.unowned \subseteq flags'.unowned
      BY <1>5, PutDeploymentStep DEF Flagged, controllers
    <2>3. ASSUME NEW v \in Volumes, NEW d \in Names
          PROVE  DepMounts(d, v)' => Mounts(d, v)
      <3>1. CASE d = call[h].d
        <4>1. DepMounts(d, v)' => CallMounts(h, d, v)
          BY <1>5, <2>1, <3>1, PutDeploymentStep DEF DepMounts, CallMounts
        <4> QED
          BY <4>1, MountsParts
      <3>2. CASE d # call[h].d
        BY <1>5, <3>2, PutDeploymentStep, SameDepsMount
      <3> QED
        BY <3>1, <3>2
    <2>4. ASSUME NEW v \in Volumes, NEW d \in Names, Mounts(d, v)' PROVE Mounts(d, v)
      BY <2>1, <2>2, <2>3, <2>4, SharingCall, SamePodsMount DEF OnlyCall
    <2> QED
      BY <2>2, <2>4, SharingQuiet
  <1>6. CASE PutPod(h)
    <2>1. \A d \in Names : \A id \in PodNames : id[1] = d => pods'[id] = pods[id]
      BY <1>0, <1>6, PutPodStep
    <2>2. OnlyCall(h) /\ call'[h].at # "put"
      BY <1>6, PutCall DEF PutPod, PutDeployment
    <2>3. UNCHANGED <<deployments, volumes, rc>> /\ flags.unowned \subseteq flags'.unowned
      BY <1>6, PutPodStep DEF Flagged, controllers
    <2> QED
      BY <1>1, <2>1, <2>2, <2>3
  <1>7. CASE RestartList(h)
    <2>1. UNCHANGED <<objects, controllers>> /\ flags.unowned \subseteq flags'.unowned
      BY <1>7, FlagsRaised DEF RestartList, Flagged
    <2> QED
      BY <1>1, <1>7, <2>1, RestartListCall DEF objects, controllers
  <1>8. ASSUME NEW id \in PodNames, RestartDelete(h, id)
        PROVE  SharingInv'
    <2>1. UNCHANGED <<deployments, volumes, rc>> /\ flags.unowned \subseteq flags'.unowned
      BY <1>8, RestartDeleteStep DEF Flagged, controllers
    <2>2. \A o \in PodNames : pods'[o] \in {pods[o], None}
      BY <1>8, RestartDeleteStep
    <2> QED
      BY <1>1, <1>8, <2>1, <2>2, RestartDeleteCall
  <1>9. CASE CallFails(h)
    <2>1. UNCHANGED <<objects, controllers>> /\ flags.unowned \subseteq flags'.unowned
      BY <1>9, FailFlags, CallFailsStep DEF Flagged
    <2> QED
      BY <1>1, <1>9, <2>1, CallFailsCall DEF objects, controllers
  <1>10. CASE Reports(h)
    BY <1>1, <1>10, ReportArrives DEF objects, controllers, Reports
  <1>11. ASSUME NEW d \in Names, NEW r \in 1 .. MaxReplicas, Autoscale(h, d, r)
         PROVE  SharingInv'
    <2>1. /\ OnlyCall(h) /\ call'[h].d = d /\ call'[h].t = deployments[d].t /\ deployments[d] # None
          /\ UNCHANGED <<deployments, pods, volumes, rc>>
      BY <1>11, AutoscaleCall DEF objects, controllers
    <2>2. flags.unowned \subseteq flags'.unowned
      BY <1>11, AutoscaleCall, BlindFlags DEF Flagged
    <2>3. ASSUME NEW v \in Volumes, NEW e \in Names, Mounts(e, v)' PROVE Mounts(e, v)
      <3>1. \A g \in Handlers \ {h} : CallMounts(g, e, v)' => CallMounts(g, e, v)
        BY <2>1 DEF CallMounts, OnlyCall
      <3>2. CallMounts(h, e, v)' => DepMounts(e, v)
        BY <2>1 DEF CallMounts, DepMounts
      <3>3. /\ DepMounts(e, v)' => DepMounts(e, v)
            /\ PodMounts(e, v)' => PodMounts(e, v)
            /\ PassMounts(e, v)' => PassMounts(e, v)
        BY <2>1 DEF DepMounts, PodMounts, PassMounts
      <3> QED
        BY <2>3, <3>1, <3>2, <3>3, MountsParts
    <2> QED
      BY <2>1, <2>2, <2>3, SharingQuiet
  <1>12. CASE ReportPut(h)
    <2>1. /\ OnlyCall(h) /\ call'[h].at # "put" /\ UNCHANGED <<deployments, volumes, rc>>
      BY <1>12, ReportPutCall, ReportPutStep DEF controllers
    <2>2. flags'.unowned = flags.unowned \cup UNION {call[h].t.vols : id \in Undone(h)}
      BY <1>12, ReportFlags DEF Flagged
    <2>3. ASSUME NEW v \in Volumes, v \notin flags'.unowned, NEW d \in Names, Mounts(d, v)' PROVE Mounts(d, v)
      <3>1. PodMounts(d, v)' => PodMounts(d, v)
        <4>1. \A id \in Undone(h) : v \notin Copy(h).t.vols
          BY <1>12, <2>2, <2>3, ReportPutStep
        <4> QED
          BY <1>12, <4>1, ReportPutStep DEF PodMounts
      <3> QED
        BY <2>1, <2>3, <3>1, SharingCall, SameDepsMount, MountsParts DEF OnlyCall
    <2>4. \A v \in Volumes : OwnerKept(v)
      BY <2>1 DEF OwnerKept
    <2> QED
      BY <2>2, <2>3, <2>4, SharingKept
  <1>13. CASE Remove(h)
    <2>1. /\ OnlyCall(h) /\ call'[h].at # "put" /\ UNCHANGED <<pods, volumes, rc, flags>>
          /\ \A d \in Names : deployments'[d] \in {deployments[d], None}
      BY <1>13, RemoveCall, RemoveStep DEF controllers
    <2>2. ASSUME NEW v \in Volumes, NEW d \in Names, Mounts(d, v)' PROVE Mounts(d, v)
      <3>1. DepMounts(d, v)' => DepMounts(d, v)
        BY <2>1 DEF DepMounts
      <3> QED
        BY <2>1, <2>2, <3>1, SharingCall, SamePodsMount, MountsParts DEF OnlyCall
    <2> QED
      BY <2>1, <2>2, SharingQuiet
  <1> QED
    BY <1>2, <1>3, <1>4, <1>5, <1>6, <1>7, <1>8, <1>9, <1>10, <1>11, <1>12, <1>13
       DEF HandlerStep, Restarts, Admits, Autoscales

LEMMA SharingPasses ==
    ASSUME TypeOK, SharingInv, PassStep
    PROVE  SharingInv'
  <1>0. \A d \in Names : d # None
    BY NoneAssumption
  <1>1. ASSUME UNCHANGED call, NEW d, NEW v, DepMounts(d, v)' => Mounts(d, v), PodMounts(d, v)' => Mounts(d, v),
               PassMounts(d, v)' => Mounts(d, v), Mounts(d, v)'
        PROVE  Mounts(d, v)
    <2>1. \A h \in Handlers : CallMounts(h, d, v)' => CallMounts(h, d, v)
      BY <1>1 DEF CallMounts
    <2> QED
      BY <1>1, <2>1, MountsParts
  <1>2. ASSUME NEW d \in Names, Fetch(d)
        PROVE  SharingInv'
    <2>1. /\ rc'.d = d /\ rc'.copy = deployments[d] /\ rc'.owned = << >> /\ deployments[d] # None
          /\ UNCHANGED <<deployments, pods, volumes, call, flags>>
      BY <1>2, FetchPass DEF objects
    <2>2. ASSUME NEW e \in Names, NEW v \in Volumes, Mounts(e, v)' PROVE Mounts(e, v)
      <3>1. PassMounts(e, v)' => DepMounts(e, v)
        BY <2>1, NoPassIs DEF PassMounts, DepMounts
      <3> QED
        BY <1>1, <2>1, <2>2, <3>1, MountsParts, SamePodsMount, SameDepsMount
    <2> QED
      BY <2>1, <2>2, SharingQuiet
  <1>3. ASSUME NEW n \in Nodes, Place(n) \/ PlaceFails(n)
        PROVE  SharingInv'
    <2>1. PICK id \in DOMAIN rc.owned :
              /\ rc'.d = rc.d /\ rc'.copy = rc.copy
              /\ DOMAIN rc'.owned = DOMAIN rc.owned
              /\ \A o \in DOMAIN rc.owned : rc'.owned[o].t = rc.owned[o].t
              /\ UNCHANGED <<deployments, volumes, call>>
              /\ Place(n) =>
                    /\ pods' = [pods EXCEPT ![id] = [rc.owned[id] EXCEPT !.node = n]]
                    /\ [rc.owned[id] EXCEPT !.node = n] \in Pod
                    /\ flags' = Raise("crowded", IF n \in rc.taken \/ pr.at # "idle" THEN {n} ELSE {})
              /\ PlaceFails(n) => UNCHANGED pods /\ flags' = Raise("moved", rc.copy.t.vols)
      BY <1>3, PlacePass
    <2>2. flags.unowned \subseteq flags'.unowned
      BY <1>3, <2>1, FlagsRaised DEF Flagged
    <2> DEFINE p == [rc.owned[id] EXCEPT !.node = n]
    <2>3. id \in PodNames /\ id[1] = rc.d /\ p.t = rc.owned[id].t
      BY DEF TypeOK, RcOK, Pod
    <2>4. \A o \in PodNames : pods'[o] = pods[o] \/ (o = id /\ pods'[o] = p)
      BY <1>3, <2>1, <2>3, PodsChange
    <2> HIDE DEF p
    <2>5. ASSUME NEW e \in Names, NEW v \in Volumes, Mounts(e, v)' PROVE Mounts(e, v)
      <3>1. PassMounts(e, v)' => PassMounts(e, v)
        BY <2>1 DEF PassMounts
      <3>2. PodMounts(e, v)' => PodMounts(e, v) \/ PassMounts(e, v)
        BY <2>1, <2>3, <2>4 DEF PodMounts, PassMounts
      <3> QED
        BY <1>1, <2>1, <2>5, <3>1, <3>2, MountsParts, SameDepsMount
    <2> QED
      BY <2>1, <2>2, <2>5, SharingQuiet
  <1>4. CASE Size
    <2>1. PICK pin \in Nodes \cup {None} : \A id \in PodNames : SizesTo(pin, id)
      BY <1>4, SizePass
    <2>2. SamePass /\ UNCHANGED <<deployments, volumes, call>> /\ flags'.unowned = flags.unowned
      BY <1>4, SizePass
    <2> DEFINE p == [t |-> rc.copy.t, node |-> pin]
    <2>3. p.t = rc.copy.t
      OBVIOUS
    <2>4. \A id \in PodNames : pods'[id] \in {pods[id], None} \/ (id[1] = rc.d /\ pods'[id] = p)
      BY <2>1 DEF SizesTo
    <2> HIDE DEF p
    <2>5. ASSUME NEW e \in Names, NEW v \in Volumes, Mounts(e, v)' PROVE Mounts(e, v)
      <3>1. PassMounts(e, v)' => PassMounts(e, v)
        BY <2>2 DEF PassMounts, SamePass
      <3>2. PodMounts(e, v)' => PodMounts(e, v) \/ PassMounts(e, v)
        BY <2>3, <2>4 DEF PodMounts, PassMounts
      <3> QED
        BY <1>1, <2>2, <2>5, <3>1, <3>2, MountsParts, SameDepsMount
    <2> QED
      BY <2>2, <2>5, SharingQuiet
  <1>5. CASE ListOwned
    <2>1. /\ rc'.d = rc.d /\ rc'.copy = rc.copy
          /\ DOMAIN rc'.owned = PodsOf(rc.d) /\ \A id \in PodsOf(rc.d) : rc'.owned[id] = pods[id]
          /\ UNCHANGED <<deployments, pods, volumes, call, flags>>
      BY <1>5, ListOwnedPass DEF objects
    <2>2. ASSUME NEW e \in Names, NEW v \in Volumes, Mounts(e, v)' PROVE Mounts(e, v)
      <3>1. PassMounts(e, v)' => PassMounts(e, v) \/ PodMounts(e, v)
        BY <2>1 DEF PassMounts, PodMounts, PodsOf
      <3> QED
        BY <1>1, <2>1, <2>2, <3>1, MountsParts, SamePodsMount, SameDepsMount
    <2> QED
      BY <2>1, <2>2, SharingQuiet
  <1>6. CASE PlaceEnds
    <2>1. /\ SamePass /\ UNCHANGED <<deployments, volumes, call, flags>>
          /\ \A id \in PodNames : pods'[id] = pods[id] \/ (id \in DOMAIN rc.owned /\ pods'[id] = rc.owned[id])
          /\ \A id \in DOMAIN rc.owned : id[1] = rc.d
      BY <1>6, PlaceEndsPass DEF TypeOK, RcOK
    <2>2. ASSUME NEW e \in Names, NEW v \in Volumes, Mounts(e, v)' PROVE Mounts(e, v)
      <3>1. PassMounts(e, v)' => PassMounts(e, v)
        BY <2>1 DEF PassMounts, SamePass
      <3>2. PodMounts(e, v)' => PodMounts(e, v) \/ PassMounts(e, v)
        BY <2>1 DEF PodMounts, PassMounts
      <3> QED
        BY <1>1, <2>1, <2>2, <3>1, <3>2, MountsParts, SameDepsMount
    <2> QED
      BY <2>1, <2>2, SharingQuiet
  <1>7. CASE ClaimGet \/ ClaimPut \/ ClaimFails
    <2>1. SamePass /\ rc.d \in Names /\ UNCHANGED <<deployments, pods, call>>
      BY <1>7, ClaimPass DEF TypeOK, RcOK
    <2>2. flags' = flags \/ \E x : flags' = Raise("torn", x)
      BY <1>7, ClaimPass
    <2>3. flags.unowned \subseteq flags'.unowned
      BY <2>2, FlagsRaised DEF Flagged
    <2>4. ASSUME NEW e \in Names, NEW v \in Volumes, Mounts(e, v)' PROVE Mounts(e, v)
      <3>1. PassMounts(e, v)' => PassMounts(e, v)
        BY <2>1 DEF PassMounts, SamePass
      <3> QED
        BY <1>1, <2>1, <2>4, <3>1, MountsParts, SamePodsMount, SameDepsMount
    <2>5. ASSUME NEW v \in Volumes PROVE OwnerKept(v)
      <3>1. v \in rc.copy.t.vols => Mounts(rc.d, v)
        BY MountsParts DEF PassMounts
      <3>2. volumes'[v] = volumes[v] \/ (v \in rc.copy.t.vols /\ volumes'[v].owner = rc.d)
        BY <1>7, ClaimPass
      <3> QED
        BY <2>1, <3>1, <3>2 DEF OwnerKept
    <2> QED
      BY <2>3, <2>4, <2>5, SharingKept
  <1>8. CASE Refetch \/ PutStatus \/ RcStops
    <2>1. rc.d \in Names /\ rc.copy \in Deployment /\ UNCHANGED <<pods, volumes, call>>
      BY <1>8, StatusPass
    <2>2. flags.unowned \subseteq flags'.unowned
      BY <1>8, StatusPass, StatusFlags DEF Refetches, GivesUp, Flagged
    <2>3. ASSUME NEW e \in Names, NEW v \in Volumes, Mounts(e, v)' PROVE Mounts(e, v)
      <3>1. CASE Refetches
        <4>1. PassMounts(e, v)' => DepMounts(e, v)
          BY <2>1, <3>1, NoPassIs DEF PassMounts, DepMounts, Refetches
        <4> QED
          BY <1>1, <2>1, <2>3, <3>1, <4>1, MountsParts, SamePodsMount, SameDepsMount DEF Refetches
      <3>2. CASE GivesUp
        <4>1. ~PassMounts(e, v)'
          BY <1>0, <3>2, NoPassIs DEF PassMounts, GivesUp
        <4> QED
          BY <1>1, <2>1, <2>3, <3>2, <4>1, SamePodsMount, SameDepsMount DEF GivesUp
      <3>3. CASE PutsStatus
        <4>1. ~PassMounts(e, v)'
          BY <1>0, <3>3, NoPassIs DEF PassMounts, PutsStatus
        <4>2. deployments'[rc.d] = rc.copy /\ \A f \in Names \ {rc.d} : deployments'[f] = deployments[f]
          BY <2>1, <3>3, DeploymentsChange DEF PutsStatus
        <4>3. DepMounts(e, v)' => DepMounts(e, v) \/ PassMounts(e, v)
          BY <4>2 DEF DepMounts, PassMounts
        <4> QED
          BY <1>1, <2>1, <2>3, <4>1, <4>3, MountsParts, SamePodsMount
      <3> QED
        BY <1>8, <3>1, <3>2, <3>3, StatusPass
    <2> QED
      BY <2>1, <2>2, <2>3, SharingQuiet
  <1> QED
    BY <1>2, <1>3, <1>4, <1>5, <1>6, <1>7, <1>8 DEF PassStep

LEMMA SharingStep ==
    ASSUME TypeOK, SharingInv, [Next]_vars
    PROVE  SharingInv'
  <1>0. \A d \in Names : d # None
    BY NoneAssumption
  <1>1. ASSUME UNCHANGED <<call, rc>>, NEW d, NEW v, DepMounts(d, v)' => Mounts(d, v),
               PodMounts(d, v)' => Mounts(d, v), Mounts(d, v)'
        PROVE  Mounts(d, v)
    <2>1. \A h \in Handlers : CallMounts(h, d, v)' => CallMounts(h, d, v)
      BY <1>1 DEF CallMounts
    <2>2. PassMounts(d, v)' => PassMounts(d, v)
      BY <1>1 DEF PassMounts
    <2> QED
      BY <1>1, <2>1, <2>2, MountsParts
  <1>2. ASSUME UNCHANGED <<call, rc, deployments, volumes>>, flags.unowned \subseteq flags'.unowned,
               \A d \in Names : \A id \in PodNames : id[1] = d => pods'[id] \in {pods[id], None}
        PROVE  SharingInv'
    <2>1. ASSUME NEW v \in Volumes, NEW d \in Names, Mounts(d, v)' PROVE Mounts(d, v)
      BY <1>1, <1>2, <2>1, SamePodsMount, SameDepsMount
    <2> QED
      BY <1>2, <2>1, SharingQuiet
  <1>3. CASE PodStep
    <2>2. flags.unowned \subseteq flags'.unowned
      BY <1>3, PodFlags, FlagsRaised DEF Flagged
    <2>3. \A d \in Names : \A id \in PodNames : id[1] = d => pods'[id] = pods[id]
      BY <1>0, <1>3, PodPass DEF PodStep
    <2>4. UNCHANGED <<call, rc, deployments, volumes>>
      BY <1>3, PodPass DEF PodStep
    <2> QED
      BY <1>2, <2>2, <2>3, <2>4
  <1>4. ASSUME NEW id \in PodNames, DeletePod(id) \/ MountVolumes(id)
        PROVE  SharingInv'
    <2>1. CASE DeletePod(id)
      <3>1. \A o \in PodNames : pods'[o] \in {pods[o], None}
        BY <2>1, DeletePodStep
      <3> QED
        BY <1>2, <2>1, <3>1, DeletePodStep DEF Flagged, controllers
    <2>2. CASE MountVolumes(id)
      BY <1>2, <2>2 DEF MountVolumes, controllers, objects
    <2> QED
      BY <1>4, <2>1, <2>2
  <1>5. ASSUME NEW d \in DOMAIN Manifests, GitSync(d)
        PROVE  SharingInv'
    <2>1. /\ d \in Names /\ deployments'[d] = Manifests[d]
          /\ \A e \in Names \ {d} : deployments'[e] = deployments[e]
          /\ flags'.unowned = flags.unowned \cup Manifests[d].t.vols
          /\ UNCHANGED <<pods, volumes, call, rc>>
      BY <1>5, SyncStep DEF Flagged, controllers
    <2>2. ASSUME NEW v \in Volumes, v \notin flags'.unowned, NEW e \in Names, Mounts(e, v)' PROVE Mounts(e, v)
      <3>1. DepMounts(e, v)' => DepMounts(e, v)
        BY <2>1, <2>2 DEF DepMounts
      <3> QED
        BY <1>1, <2>1, <2>2, <3>1, SamePodsMount, MountsParts
    <2>3. \A v \in Volumes : OwnerKept(v)
      BY <2>1 DEF OwnerKept
    <2> QED
      BY <2>1, <2>2, <2>3, SharingKept
  <1>6. CASE UNCHANGED vars
    BY <1>2, <1>6 DEF vars
  <1> QED
    BY <1>3, <1>4, <1>5, <1>6, SharingHandlers, SharingPasses, Steps

LEMMA SharingImplies ==
    ASSUME TypeOK, SharingInv
    PROVE  SharedVolumeIsExplained
  <1> SUFFICES ASSUME NEW v \in Volumes,
                      NEW a \in Stored, a[1] # None, v \in pods[a].t.vols,
                      NEW b \in Stored, b[1] # None, v \in pods[b].t.vols,
                      a[1] # b[1], v \notin flags.unowned
               PROVE  FALSE
    BY DEF SharedVolumeIsExplained
  <1>1. a[1] \in Names /\ b[1] \in Names
    BY DEF Stored, PodNames
  <1>2. Mounts(a[1], v) /\ Mounts(b[1], v)
    BY MountsParts DEF PodMounts, Stored
  <1> QED
    BY <1>1, <1>2 DEF SharingInv

-----------------------------------------------------------------------------
(* Pods of an old template.                                                *)

PodsCurrent(d) == \A id \in PodsOf(d) : Current(d, id, pods[id].t)
PassCurrent(d) ==
    rc.d = d => /\ rc.copy.t.ver = deployments[d].t.ver
                /\ \A id \in DOMAIN rc.owned : Current(d, id, rc.owned[id].t)
StaleAt(d) == d \notin flags.stale /\ deployments[d] # None => PodsCurrent(d) /\ PassCurrent(d)
RestartsBy(h, d, id) ==
    call[h].op = "deploy" /\ call[h].d = d /\ (call[h].at = "restart" \/ (call[h].at = "deleting" /\ id \in call[h].left))

LEMMA StaleParts ==
    /\ StaleInv <=> \A d \in Names : StaleAt(d)
    /\ StaleInv' <=> \A d \in Names : StaleAt(d)'
  BY DEF StaleInv, StaleAt, PodsCurrent, PassCurrent

LEMMA RestartsKept ==
    ASSUME NEW h \in Handlers, OnlyCall(h), NEW d, NEW id, RestartsBy(h, d, id) => RestartsBy(h, d, id)'
    PROVE  Restarting(d, id) => Restarting(d, id)'
  <1>1. \A g \in Handlers \ {h} : RestartsBy(g, d, id) => RestartsBy(g, d, id)'
    BY DEF RestartsBy, OnlyCall
  <1>2. Restarting(d, id) <=> \E g \in Handlers : RestartsBy(g, d, id)
    BY DEF Restarting, RestartsBy
  <1>3. Restarting(d, id)' <=> \E g \in Handlers : RestartsBy(g, d, id)'
    BY DEF Restarting, RestartsBy
  <1> QED
    BY <1>1, <1>2, <1>3

\* The deployment is there and keeps its version, and what had to be restarted still has.
Steady(d) ==
    /\ deployments[d] # None /\ deployments'[d].t.ver = deployments[d].t.ver
    /\ \A id \in PodNames : id[1] = d /\ pods'[id] # None /\ Restarting(d, id) => Restarting(d, id)'
PodsFrom(d) ==
    \A id \in PodNames : id[1] = d =>
        \/ pods'[id] \in {pods[id], None}
        \/ deployments[d] # None /\ Current(d, id, pods'[id].t)
PassFrom(d) ==
    rc'.d = d =>
        /\ deployments[d] # None /\ rc'.copy.t.ver = deployments[d].t.ver
        /\ \A id \in DOMAIN rc'.owned : Current(d, id, rc'.owned[id].t)
        /\ \A id \in DOMAIN rc'.owned : Restarting(d, id) => Restarting(d, id)'

LEMMA StaleKept ==
    ASSUME NEW d \in Names, flags.stale \subseteq flags'.stale,
           d \notin flags'.stale /\ deployments'[d] # None => PodsCurrent(d) /\ Steady(d) /\ PodsFrom(d) /\ PassFrom(d)
    PROVE  StaleAt(d)'
  <1> SUFFICES ASSUME d \notin flags'.stale, deployments'[d] # None PROVE (PodsCurrent(d) /\ PassCurrent(d))'
    BY DEF StaleAt
  <1>1. PodsCurrent(d)'
    <2> SUFFICES ASSUME NEW id \in PodNames, id[1] = d, pods'[id] # None
                 PROVE  Current(d, id, pods[id].t)'
      BY DEF PodsCurrent, PodsOf
    <2>1. Current(d, id, pods'[id].t)
      BY DEF PodsCurrent, PodsOf, PodsFrom
    <2>2. Restarting(d, id) => Restarting(d, id)'
      BY DEF Steady
    <2> QED
      BY <2>1, <2>2 DEF Steady, Current
  <1>2. PassCurrent(d)'
    BY DEF PassCurrent, PassFrom, Steady, Current
  <1> QED
    BY <1>1, <1>2

\* A pass that is left alone stays current.
LEMMA PassStays ==
    ASSUME TypeOK, NEW d \in Names, PassCurrent(d), UNCHANGED rc, deployments[d] # None,
           \A id \in PodNames : Restarting(d, id) => Restarting(d, id)'
    PROVE  PassFrom(d)
  <1>2. DOMAIN rc.owned \subseteq PodNames
    BY DEF TypeOK, RcOK
  <1> QED
    BY <1>2 DEF PassCurrent, PassFrom

LEMMA StaleInit ==
    ASSUME Init
    PROVE  StaleInv
  <1> SUFFICES ASSUME NEW d \in Names
               PROVE  PodsCurrent(d) /\ PassCurrent(d)
    BY StaleParts DEF StaleAt
  <1>1. rc.d # d
    BY NoPassIs, NoneAssumption DEF Init
  <1>2. PodsCurrent(d)
    <2>1. CASE Empty
      BY <2>1 DEF Empty, NoPods, PodsCurrent, PodsOf
    <2>2. CASE Placed
      <3>1. PICK v \in Volumes, n \in Nodes :
              LET t == [Clean EXCEPT !.vols = {v}]
              IN  /\ deployments = [e \in Names |-> IF e = v THEN [replicas |-> 1, t |-> t, managed |-> FALSE]
                                              ELSE None]
                  /\ pods = [NoPods EXCEPT ![<<v, 0>>] = [t |-> t, node |-> n]]
        BY <2>2 DEF Placed
      <3> DEFINE t == [Clean EXCEPT !.vols = {v}]
                 dep == [replicas |-> 1, t |-> t, managed |-> FALSE]
      <3>2. dep # None
        <4>1. t \in Template
          BY DEF Template, Clean, Objections
        <4> HIDE DEF t
        <4>2. dep \in Deployment
          BY <4>1, SizesAssumption DEF Deployment
        <4> QED
          BY <4>2, NoneAssumption
      <3>3. dep.t = t
        OBVIOUS
      <3> HIDE DEF t
      <3>4. \A id \in PodNames : pods[id] # None => id = <<v, 0>> /\ pods[id].t = t
        BY <3>1 DEF NoPods, t
      <3>5. v \in Names /\ deployments[v] = dep
        BY <3>1, VolumesAssumption DEF t
      <3>6. <<v, 0>>[1] = v
        OBVIOUS
      <3> HIDE DEF dep
      <3> QED
        BY <3>2, <3>3, <3>4, <3>5, <3>6 DEF PodsCurrent, PodsOf, Current
    <2> QED
      BY <2>1, <2>2 DEF Init
  <1> QED
    BY <1>1, <1>2 DEF PassCurrent

LEMMA StaleHandlers ==
    ASSUME TypeOK, NEW h \in Handlers, HandlerStep(h), NEW d \in Names, StaleAt(d)
    PROVE  StaleAt(d)'
  <1>0. d # None
    BY NoneAssumption
  \* The steps that restart nothing and change no deployment.
  <1>1. ASSUME OnlyCall(h), UNCHANGED rc, deployments'[d] = deployments[d], flags.stale \subseteq flags'.stale,
               \/ call[h].at \notin {"restart", "deleting"} \/ call[h].op # "deploy" \/ d \in flags'.stale
               \/ call[h].d # d,
               d \in flags'.stale \/ \A id \in PodNames : id[1] = d => pods'[id] \in {pods[id], None}
        PROVE  StaleAt(d)'
    <2> SUFFICES ASSUME d \notin flags'.stale, deployments'[d] # None
                 PROVE  PodsCurrent(d) /\ Steady(d) /\ PodsFrom(d) /\ PassFrom(d)
      BY <1>1, StaleKept
    <2>1. PodsCurrent(d) /\ PassCurrent(d)
      BY <1>1 DEF StaleAt
    <2>2. ASSUME NEW id PROVE Restarting(d, id) => Restarting(d, id)'
      <3>1. ~RestartsBy(h, d, id)
        BY <1>1 DEF RestartsBy
      <3> QED
        BY <1>1, <3>1, RestartsKept
    <2>3. Steady(d) /\ PodsFrom(d)
      BY <1>1, <2>2 DEF Steady, PodsFrom
    <2>4. PassFrom(d)
      BY <1>1, <2>1, <2>2, PassStays
    <2> QED
      BY <2>1, <2>3, <2>4
  <1>2. CASE Begins(h)
    BY <1>1, <1>2, BeginsCall DEF objects, controllers
  <1>3. CASE VolumeStep(h)
    <2>1. flags.stale \subseteq flags'.stale
      BY <1>3, VolumeStepEffect DEF VolumeStep, Flagged
    <2> QED
      BY <1>1, <1>3, <2>1, VolumeStepCall, VolumeStepEffect DEF controllers
  <1>4. ASSUME NEW unread \in SUBSET Volumes, Admit(h, unread)
        PROVE  StaleAt(d)'
    <2>1. flags.stale \subseteq flags'.stale
      BY <1>4, AdmitCall, AdmitFlags DEF Flagged
    <2> QED
      BY <1>1, <1>4, <2>1, AdmitCall DEF objects, controllers
  <1>5. CASE PutDeployment(h)
    <2>1. OnlyCall(h) /\ call[h].at = "put" /\ call[h].t \in Template
      BY <1>5, PutCall
    <2>2. /\ call[h].d \in Names /\ deployments'[call[h].d] # None /\ deployments'[call[h].d].t = call[h].t
          /\ \A e \in Names \ {call[h].d} : deployments'[e] = deployments[e]
          /\ flags'.stale = flags.stale \cup Outdates(call[h].d, call[h].t, call[h].edit)
          /\ UNCHANGED <<pods, rc>>
      BY <1>5, PutDeploymentStep DEF Flagged, controllers
    <2> SUFFICES ASSUME d \notin flags'.stale, deployments'[d] # None
                 PROVE  StaleAt(d)'
      BY DEF StaleAt
    <2>4. ASSUME NEW id PROVE Restarting(d, id) => Restarting(d, id)'
      <3>1. ~RestartsBy(h, d, id)
        BY <2>1 DEF RestartsBy
      <3> QED
        BY <2>1, <3>1, RestartsKept
    <2>5. CASE deployments[d] # None /\ (call[h].d # d \/ deployments[d].t.ver = call[h].t.ver)
      <3>0. PodsCurrent(d) /\ PassCurrent(d)
        BY <2>2, <2>5 DEF StaleAt
      <3>1. Steady(d) /\ PodsFrom(d)
        BY <2>2, <2>4, <2>5 DEF Steady, PodsFrom
      <3>2. PassFrom(d)
        BY <2>2, <2>4, <2>5, <3>0, PassStays
      <3> QED
        BY <2>2, <3>0, <3>1, <3>2, StaleKept
    <2>6. CASE call[h].d = d /\ (deployments[d] = None \/ deployments[d].t.ver # call[h].t.ver)
      <3>1. rc.d # d /\ (call[h].edit \/ \A id \in PodsOf(d) : pods[id].t.ver = call[h].t.ver)
        BY <2>2, <2>6 DEF Outdates
      <3>2. call[h].edit => call'[h].at = "restart" /\ call'[h].d = d /\ call'[h].op = "deploy"
        BY <1>5, <2>6, PutCall
      <3>3. call[h].edit => \A id : Restarting(d, id)'
        BY <3>2 DEF Restarting
      <3>4. PodsCurrent(d)'
        BY <2>2, <2>6, <3>1, <3>3 DEF PodsCurrent, Current, PodsOf
      <3>5. PassCurrent(d)'
        BY <2>2, <3>1 DEF PassCurrent
      <3> QED
        BY <3>4, <3>5 DEF StaleAt
    <2> QED
      BY <2>2, <2>5, <2>6
  <1>6. CASE PutPod(h)
    <2>1. \A id \in PodNames : id[1] = d => pods'[id] = pods[id]
      BY <1>0, <1>6, PutPodStep
    <2>2. OnlyCall(h) /\ call[h].at = "put"
      BY <1>6, PutCall
    <2>3. UNCHANGED <<deployments, rc>> /\ flags.stale \subseteq flags'.stale
      BY <1>6, PutPodStep DEF Flagged, controllers
    <2> QED
      BY <1>1, <2>1, <2>2, <2>3
  \* A restart that goes on for d, with no pass on d.
  <1>7. ASSUME OnlyCall(h), UNCHANGED <<deployments, rc>>,
               flags'.stale = flags.stale \cup ({call[h].d} \cap {rc.d}), call[h].d = d,
               \A id \in PodNames : id[1] = d => pods'[id] \in {pods[id], None},
               \A id \in PodNames : id[1] = d /\ pods'[id] # None /\ RestartsBy(h, d, id) => RestartsBy(h, d, id)'
        PROVE  StaleAt(d)'
    <2> SUFFICES ASSUME d \notin flags'.stale, deployments'[d] # None
                 PROVE  PodsCurrent(d) /\ Steady(d) /\ PodsFrom(d) /\ PassFrom(d)
      BY <1>7, StaleKept
    <2>1. PodsCurrent(d) /\ rc.d # d
      BY <1>7 DEF StaleAt
    <2>2. Steady(d)
      BY <1>7, RestartsKept DEF Steady
    <2> QED
      BY <1>7, <2>1, <2>2 DEF PodsFrom, PassFrom
  <1>8. CASE RestartList(h)
    <2>1. flags'.stale = flags.stale \cup ({call[h].d} \cap {rc.d}) /\ UNCHANGED <<deployments, pods, rc>>
      BY <1>8, FlagsRaised DEF Flagged, RestartList, objects, controllers
    <2>2. CASE call[h].d # d
      BY <1>1, <1>8, <2>1, <2>2, RestartListCall
    <2>3. CASE call[h].d = d
      <3>1. ASSUME NEW id \in PodNames, id[1] = d, pods'[id] # None, RestartsBy(h, d, id) PROVE RestartsBy(h, d, id)'
        BY <1>8, <2>1, <2>3, <3>1, RestartListCall DEF RestartsBy, PodsOf
      <3> QED
        BY <1>7, <1>8, <2>1, <2>3, <3>1, RestartListCall
    <2> QED
      BY <2>2, <2>3
  <1>9. ASSUME NEW gone \in PodNames, RestartDelete(h, gone)
        PROVE  StaleAt(d)'
    <2>1. /\ flags'.stale = flags.stale \cup ({call[h].d} \cap {rc.d}) /\ UNCHANGED <<deployments, rc>>
          /\ pods'[gone] = None /\ \A id \in PodNames \ {gone} : pods'[id] = pods[id]
      BY <1>9, RestartDeleteStep DEF Flagged, controllers
    <2>2. CASE call[h].d # d
      BY <1>1, <1>9, <2>1, <2>2, RestartDeleteCall
    <2>3. CASE call[h].d = d
      <3>1. ASSUME NEW id \in PodNames, pods'[id] # None, RestartsBy(h, d, id) PROVE RestartsBy(h, d, id)'
        BY <1>9, <2>1, <2>3, <3>1, RestartDeleteCall DEF RestartsBy
      <3> QED
        BY <1>7, <1>9, <2>1, <2>3, <3>1, RestartDeleteCall
    <2> QED
      BY <2>2, <2>3
  <1>10. CASE CallFails(h)
    <2>1. /\ flags'.stale = flags.stale \cup
                IF call[h].op = "deploy" /\ call[h].at \in {"restart", "deleting"} THEN {call[h].d} ELSE {}
          /\ UNCHANGED <<deployments, pods, rc>>
      BY <1>10, FailFlags, CallFailsStep DEF Flagged, objects, controllers
    <2> QED
      BY <1>1, <1>10, <2>1, CallFailsCall
  <1>11. CASE Reports(h)
    BY <1>1, <1>11, ReportArrives DEF objects, controllers, Reports
  <1>12. ASSUME NEW e \in Names, NEW r \in 1 .. MaxReplicas, Autoscale(h, e, r)
         PROVE  StaleAt(d)'
    <2>1. flags.stale \subseteq flags'.stale
      BY <1>12, AutoscaleCall, BlindFlags DEF Flagged
    <2> QED
      BY <1>1, <1>12, <2>1, AutoscaleCall DEF objects, controllers
  <1>13. CASE ReportPut(h)
    <2>1. flags'.stale = flags.stale \cup ({id[1] : id \in Undone(h)} \ {None})
      BY <1>13, ReportFlags DEF Flagged
    <2>2. d \in flags'.stale \/ \A id \in PodNames : id[1] = d => pods'[id] = pods[id]
      BY <1>0, <1>13, <2>1, ReportPutStep
    <2> QED
      BY <1>1, <1>13, <2>1, <2>2, ReportPutCall, ReportPutStep DEF controllers
  <1>14. CASE Remove(h)
    <2>1. CASE call[h].d = d
      BY <1>14, <2>1, RemoveStep DEF StaleAt
    <2>2. CASE call[h].d # d
      BY <1>1, <1>14, <2>2, RemoveCall, RemoveStep DEF controllers
    <2> QED
      BY <2>1, <2>2
  <1> QED
    BY <1>2, <1>3, <1>4, <1>5, <1>6, <1>8, <1>9, <1>10, <1>11, <1>12, <1>13, <1>14
       DEF HandlerStep, Restarts, Admits, Autoscales

LEMMA StalePasses ==
    ASSUME TypeOK, PassStep, NEW d \in Names, StaleAt(d)
    PROVE  StaleAt(d)'
  <1>0. d # None /\ (rc.d = d => rc.at # "idle" /\ rc.copy \in Deployment)
    BY NoneAssumption DEF TypeOK, RcOK
  <1>1. ASSUME UNCHANGED call PROVE \A id : Restarting(d, id) => Restarting(d, id)'
    BY <1>1 DEF Restarting
  \* The steps that leave the deployments alone.
  <1>2. ASSUME UNCHANGED <<deployments, call>>, flags.stale \subseteq flags'.stale,
               deployments[d] # None /\ PodsCurrent(d) /\ PassCurrent(d) => PodsFrom(d),
               deployments[d] # None /\ PodsCurrent(d) /\ PassCurrent(d) /\ rc'.d = d =>
                   /\ rc'.copy.t.ver = deployments[d].t.ver
                   /\ \A id \in DOMAIN rc'.owned : Current(d, id, rc'.owned[id].t)
        PROVE  StaleAt(d)'
    <2> SUFFICES ASSUME d \notin flags'.stale, deployments'[d] # None
                 PROVE  PodsCurrent(d) /\ Steady(d) /\ PodsFrom(d) /\ PassFrom(d)
      BY <1>2, StaleKept
    <2>1. PodsCurrent(d) /\ PassCurrent(d)
      BY <1>2 DEF StaleAt
    <2>2. Steady(d)
      BY <1>1, <1>2 DEF Steady
    <2>3. PassFrom(d)
      BY <1>1, <1>2, <2>1 DEF PassFrom
    <2> QED
      BY <1>2, <2>1, <2>2, <2>3
  <1>3. ASSUME UNCHANGED pods PROVE PodsFrom(d)
    BY <1>3 DEF PodsFrom
  <1>4. ASSUME NEW e \in Names, Fetch(e)
        PROVE  StaleAt(d)'
    <2>1. /\ rc'.d = e /\ rc'.copy = deployments[e] /\ DOMAIN rc'.owned = {} /\ deployments[e] # None
          /\ UNCHANGED <<deployments, pods, call, flags>>
      BY <1>4, FetchPass, NoPassIs DEF objects
    <2> QED
      BY <1>2, <1>3, <2>1
  <1>5. ASSUME NEW n \in Nodes, Place(n) \/ PlaceFails(n)
        PROVE  StaleAt(d)'
    <2>1. PICK id \in DOMAIN rc.owned :
              /\ rc'.d = rc.d /\ rc'.copy = rc.copy
              /\ DOMAIN rc'.owned = DOMAIN rc.owned
              /\ \A o \in DOMAIN rc.owned : rc'.owned[o].t = rc.owned[o].t
              /\ UNCHANGED <<deployments, call>>
              /\ Place(n) =>
                    /\ pods' = [pods EXCEPT ![id] = [rc.owned[id] EXCEPT !.node = n]]
                    /\ [rc.owned[id] EXCEPT !.node = n] \in Pod
                    /\ flags' = Raise("crowded", IF n \in rc.taken \/ pr.at # "idle" THEN {n} ELSE {})
              /\ PlaceFails(n) => UNCHANGED pods /\ flags' = Raise("moved", rc.copy.t.vols)
      BY <1>5, PlacePass
    <2>2. flags.stale \subseteq flags'.stale
      BY <1>5, <2>1, FlagsRaised DEF Flagged
    <2> DEFINE p == [rc.owned[id] EXCEPT !.node = n]
    <2>3. id \in PodNames /\ id[1] = rc.d /\ p.t = rc.owned[id].t
      BY DEF TypeOK, RcOK, Pod
    <2>4. \A o \in PodNames : pods'[o] = pods[o] \/ (o = id /\ pods'[o] = p)
      BY <1>5, <2>1, <2>3, PodsChange
    <2> HIDE DEF p
    <2>5. deployments[d] # None /\ PodsCurrent(d) /\ PassCurrent(d) => PodsFrom(d)
      BY <1>0, <2>3, <2>4 DEF PodsFrom, PassCurrent
    <2>6. deployments[d] # None /\ PassCurrent(d) /\ rc'.d = d =>
             /\ rc'.copy.t.ver = deployments[d].t.ver
             /\ \A o \in DOMAIN rc'.owned : Current(d, o, rc'.owned[o].t)
      BY <1>0, <2>1 DEF PassCurrent
    <2> QED
      BY <1>2, <2>1, <2>2, <2>5, <2>6
  <1>6. CASE Size
    <2>1. PICK pin \in Nodes \cup {None} : \A id \in PodNames : SizesTo(pin, id)
      BY <1>6, SizePass
    <2>2. SamePass /\ UNCHANGED <<deployments, call>> /\ flags'.stale = flags.stale
      BY <1>6, SizePass
    <2> DEFINE p == [t |-> rc.copy.t, node |-> pin]
    <2>3. p.t = rc.copy.t
      OBVIOUS
    <2>4. \A id \in PodNames : pods'[id] \in {pods[id], None} \/ (id[1] = rc.d /\ pods'[id] = p)
      BY <2>1 DEF SizesTo
    <2> HIDE DEF p
    <2>5. deployments[d] # None /\ PassCurrent(d) => PodsFrom(d)
      BY <1>0, <2>3, <2>4 DEF PodsFrom, PassCurrent, Current
    <2>6. deployments[d] # None /\ PassCurrent(d) /\ rc'.d = d =>
             /\ rc'.copy.t.ver = deployments[d].t.ver
             /\ \A o \in DOMAIN rc'.owned : Current(d, o, rc'.owned[o].t)
      BY <1>0, <2>2 DEF PassCurrent, SamePass
    <2> QED
      BY <1>2, <2>2, <2>5, <2>6
  <1>7. CASE ListOwned
    <2>1. /\ rc'.d = rc.d /\ rc'.copy = rc.copy
          /\ DOMAIN rc'.owned = PodsOf(rc.d) /\ \A id \in PodsOf(rc.d) : rc'.owned[id] = pods[id]
          /\ UNCHANGED <<deployments, pods, call, flags>>
      BY <1>7, ListOwnedPass DEF objects
    <2>2. deployments[d] # None /\ PodsCurrent(d) /\ PassCurrent(d) /\ rc'.d = d =>
             /\ rc'.copy.t.ver = deployments[d].t.ver
             /\ \A o \in DOMAIN rc'.owned : Current(d, o, rc'.owned[o].t)
      BY <1>0, <2>1 DEF PodsCurrent, PassCurrent
    <2> QED
      BY <1>2, <1>3, <2>1, <2>2
  <1>8. CASE PlaceEnds
    <2>1. /\ SamePass /\ UNCHANGED <<deployments, call, flags>>
          /\ \A id \in PodNames : pods'[id] = pods[id] \/ (id \in DOMAIN rc.owned /\ pods'[id] = rc.owned[id])
          /\ \A id \in DOMAIN rc.owned : id[1] = rc.d
      BY <1>8, PlaceEndsPass DEF TypeOK, RcOK
    <2>2. deployments[d] # None /\ PassCurrent(d) => PodsFrom(d)
      BY <1>0, <2>1 DEF PodsFrom, PassCurrent
    <2>3. deployments[d] # None /\ PassCurrent(d) /\ rc'.d = d =>
             /\ rc'.copy.t.ver = deployments[d].t.ver
             /\ \A o \in DOMAIN rc'.owned : Current(d, o, rc'.owned[o].t)
      BY <1>0, <2>1 DEF PassCurrent, SamePass
    <2> QED
      BY <1>2, <2>1, <2>2, <2>3
  <1>9. CASE ClaimGet \/ ClaimPut \/ ClaimFails
    <2>0. flags' = flags \/ \E x : flags' = Raise("torn", x)
      BY <1>9, ClaimPass
    <2>3. flags.stale \subseteq flags'.stale
      BY <2>0, FlagsRaised DEF Flagged
    <2>1. SamePass /\ UNCHANGED <<deployments, pods, call>>
      BY <1>9, ClaimPass
    <2>2. deployments[d] # None /\ PassCurrent(d) /\ rc'.d = d =>
             /\ rc'.copy.t.ver = deployments[d].t.ver
             /\ \A o \in DOMAIN rc'.owned : Current(d, o, rc'.owned[o].t)
      BY <1>0, <2>1 DEF PassCurrent, SamePass
    <2> QED
      BY <1>2, <1>3, <2>1, <2>2, <2>3
  <1>10. CASE Refetch \/ PutStatus \/ RcStops
    <2>1. rc.d \in Names /\ rc.copy \in Deployment /\ UNCHANGED <<pods, call>>
      BY <1>10, StatusPass
    <2>2. CASE Refetches
      <3>1. /\ rc'.d = rc.d /\ rc'.copy = deployments[rc.d] /\ DOMAIN rc'.owned = {}
            /\ UNCHANGED <<deployments, flags>>
        BY <2>2, NoPassIs DEF Refetches
      <3> QED
        BY <1>2, <1>3, <2>1, <3>1
    <2>3. CASE GivesUp
      BY <1>0, <1>2, <1>3, <2>1, <2>3, NoPassIs DEF GivesUp
    <2>4. CASE PutsStatus
      <3>1. deployments'[rc.d] = rc.copy /\ \A e \in Names \ {rc.d} : deployments'[e] = deployments[e]
        BY <2>1, <2>4, DeploymentsChange DEF PutsStatus
      <3>2. flags'.stale = flags.stale \cup Outdates(rc.d, rc.copy.t, FALSE) /\ rc'.d = None
        BY <2>4, StatusFlags, NoPassIs DEF Flagged, PutsStatus
      <3> SUFFICES ASSUME d \notin flags'.stale, deployments'[d] # None
                   PROVE  PodsCurrent(d) /\ Steady(d) /\ PodsFrom(d) /\ PassFrom(d)
        BY <3>2, StaleKept
      <3>3. rc.d = d => deployments[d] # None /\ deployments[d].t.ver = rc.copy.t.ver /\ rc.copy # None
        BY <2>1, <3>2, NoneAssumption DEF Outdates
      <3>4. Steady(d)
        BY <1>1, <2>1, <3>1, <3>3 DEF Steady
      <3>5. PodsCurrent(d)
        BY <3>1, <3>2, <3>3 DEF StaleAt
      <3> QED
        BY <1>0, <1>3, <2>1, <3>2, <3>4, <3>5 DEF PassFrom
    <2> QED
      BY <1>10, <2>2, <2>3, <2>4, StatusPass
  <1> QED
    BY <1>4, <1>5, <1>6, <1>7, <1>8, <1>9, <1>10 DEF PassStep

LEMMA StaleStep ==
    ASSUME TypeOK, StaleInv, [Next]_vars
    PROVE  StaleInv'
  <1> SUFFICES ASSUME NEW d \in Names
               PROVE  StaleAt(d)'
    BY StaleParts
  <1>0. d # None /\ StaleAt(d)
    BY NoneAssumption, StaleParts
  <1>1. ASSUME UNCHANGED call PROVE \A id : Restarting(d, id) => Restarting(d, id)'
    BY <1>1 DEF Restarting
  <1>2. ASSUME UNCHANGED <<call, rc>>, flags.stale \subseteq flags'.stale,
               d \notin flags'.stale /\ deployments'[d] # None =>
                   \/ deployments[d] # None /\ deployments'[d].t.ver = deployments[d].t.ver
                   \/ PodsCurrent(d)' /\ rc.d # d,
               \A id \in PodNames : id[1] = d => pods'[id] \in {pods[id], None}
        PROVE  StaleAt(d)'
    <2>0. CASE PodsCurrent(d)' /\ rc.d # d
      BY <1>2, <2>0 DEF StaleAt, PassCurrent
    <2> SUFFICES ASSUME d \notin flags'.stale, deployments'[d] # None,
                        deployments[d] # None /\ deployments'[d].t.ver = deployments[d].t.ver
                 PROVE  PodsCurrent(d) /\ Steady(d) /\ PodsFrom(d) /\ PassFrom(d)
      BY <1>2, <2>0, StaleKept
    <2>1. PodsCurrent(d) /\ PassCurrent(d)
      BY <1>0, <1>2 DEF StaleAt
    <2>2. Steady(d) /\ PodsFrom(d)
      BY <1>1, <1>2 DEF Steady, PodsFrom
    <2>3. PassFrom(d)
      BY <1>1, <1>2, <2>1, PassStays
    <2> QED
      BY <2>1, <2>2, <2>3
  <1>3. CASE PodStep
    <2>2. flags.stale \subseteq flags'.stale
      BY <1>3, PodFlags, FlagsRaised DEF Flagged
    <2>3. \A id \in PodNames : id[1] = d => pods'[id] = pods[id]
      BY <1>0, <1>3, PodPass DEF PodStep
    <2>4. UNCHANGED <<call, rc, deployments>>
      BY <1>3, PodPass DEF PodStep
    <2> QED
      BY <1>2, <2>2, <2>3, <2>4
  <1>4. ASSUME NEW id \in PodNames, DeletePod(id) \/ MountVolumes(id)
        PROVE  StaleAt(d)'
    <2>1. CASE DeletePod(id)
      <3>1. \A o \in PodNames : pods'[o] \in {pods[o], None}
        BY <2>1, DeletePodStep
      <3> QED
        BY <1>2, <2>1, <3>1, DeletePodStep DEF Flagged, controllers
    <2>2. CASE MountVolumes(id)
      BY <1>2, <2>2 DEF MountVolumes, controllers, objects
    <2> QED
      BY <1>4, <2>1, <2>2
  <1>5. ASSUME NEW e \in DOMAIN Manifests, GitSync(e)
        PROVE  StaleAt(d)'
    <2>1. /\ deployments'[e] = Manifests[e] /\ Manifests[e] # None
          /\ \A f \in Names \ {e} : deployments'[f] = deployments[f]
          /\ flags'.stale = flags.stale \cup Outdates(e, Manifests[e].t, FALSE)
          /\ UNCHANGED <<pods, call, rc>>
      BY <1>5, SyncStep DEF Flagged, controllers
    <2>2. ASSUME d \notin flags'.stale, deployments'[d] # None
          PROVE  \/ deployments[d] # None /\ deployments'[d].t.ver = deployments[d].t.ver
                 \/ PodsCurrent(d)' /\ rc.d # d
      <3>1. CASE d # e
        BY <2>1, <2>2, <3>1
      <3>2. CASE d = e
        <4>1. \/ deployments[d] # None /\ deployments[d].t.ver = Manifests[d].t.ver
              \/ (rc.d # d /\ \A id \in PodsOf(d) : pods[id].t.ver = Manifests[d].t.ver)
          BY <2>1, <2>2, <3>2 DEF Outdates
        <4>2. deployments'[d] = Manifests[d]
          BY <2>1, <3>2
        <4> QED
          BY <2>1, <4>1, <4>2 DEF PodsCurrent, PodsOf, Current
      <3> QED
        BY <3>1, <3>2
    <2> QED
      BY <1>2, <2>1, <2>2
  <1>6. CASE UNCHANGED vars
    BY <1>2, <1>6 DEF vars
  <1> QED
    BY <1>0, <1>3, <1>4, <1>5, <1>6, StaleHandlers, StalePasses, Steps

LEMMA StaleImplies ==
    ASSUME StaleInv
    PROVE  StalePodIsExplained
  BY DEF StaleInv, StalePodIsExplained, Current, Restarting

-----------------------------------------------------------------------------
(* The quota.                                                              *)

Known(d) == PodsOf(d) \cup (IF rc.d = d THEN DOMAIN rc.owned ELSE {})
KnownSlot(d, k) == k < Cardinality(Known(d))
DepSlot(d, k) == deployments[d] # None /\ k < Want(deployments[d])
PassSlot(d, k) == rc.d = d /\ k < Want(rc.copy)
CallSlot(h, d, k) == call[h].at = "put" /\ call[h].op = "deploy" /\ call[h].d = d /\ k < call[h].replicas
OwnCall(h, id) == call[h].at = "put" /\ call[h].op = "pod" /\ id \in call[h].left
OwnSlot(id) == pods[id] # None \/ id \in DOMAIN pr.owned \/ \E h \in Handlers : OwnCall(h, id)
Slot(d, k) ==
    KnownSlot(d, k) \/ DepSlot(d, k) \/ PassSlot(d, k) \/ \E h \in Handlers : CallSlot(h, d, k)

\* As many names as there are pods now and may be before anyone asks for more.
Slots == {id \in PodNames : IF id[1] = None THEN OwnSlot(id) ELSE Slot(id[1], id[2])}
QuotaInv == Quota > 0 /\ ~flags.blind => Cardinality(Slots) <= Quota

LEMMA PodsOfFinite ==
    \A d : IsFiniteSet(PodsOf(d)) /\ Cardinality(PodsOf(d)) \in Nat
  <1> SUFFICES ASSUME NEW d PROVE IsFiniteSet(PodsOf(d)) /\ Cardinality(PodsOf(d)) \in Nat
    OBVIOUS
  <1>1. PodsOf(d) \in SUBSET PodNames
    BY DEF PodsOf
  <1> QED
    BY <1>1, FinitePods, FS_Subset, FS_CardinalityType

\* The pods of a deployment have as many ordinals as there are pods.
LEMMA PodsOfFew ==
    ASSUME NEW d \in Names
    PROVE  Cardinality(PodsOf(d)) <= MaxReplicas
  <1> DEFINE I == 0 .. MaxReplicas - 1
             f == [id \in PodsOf(d) |-> id[2]]
  <1>1. d # None /\ \A id \in PodsOf(d) : id[2] \in I /\ id = <<d, id[2]>>
    <2>1. d # None
      BY NoneAssumption
    <2> QED
      BY <2>1 DEF PodsOf, PodNames
  <1>2. f \in [PodsOf(d) -> I] /\ \A a, b \in PodsOf(d) : f[a] = f[b] => a = b
    BY <1>1
  <1>3. f \in Injection(PodsOf(d), I)
    <2> HIDE DEF f, I
    <2> QED
      BY <1>2 DEF Injection, IsInjective
  <1>4. IsFiniteSet(I) /\ Cardinality(I) = MaxReplicas
    BY FS_Interval, SizesAssumption
  <1> HIDE DEF f, I
  <1> QED
    BY <1>3, <1>4, FS_Injection

\* The stored pods, numbered within their deployments.
Ranks ==
    {id \in PodNames : IF id[1] = None THEN pods[id] # None ELSE id[2] < Cardinality(PodsOf(id[1]))}

LEMMA OwnedIsNamed == \A id \in PodNames : id[1] # None => id[1] \in Names
  BY DEF PodNames

LEMMA StoredIsRanked ==
    /\ IsFiniteSet(Stored) /\ IsFiniteSet(Ranks)
    /\ Cardinality(Ranks) = Cardinality(Stored) /\ Cardinality(Stored) \in Nat
  <1> DEFINE n(d) == Cardinality(PodsOf(d))
             B == [d \in Names |-> CHOOSE b : b \in Bijection(PodsOf(d), 1 .. n(d))]
             f == [id \in Stored |-> IF id[1] = None THEN id ELSE <<id[1], B[id[1]][id] - 1>>]
  <1>1. IsFiniteSet(Stored)
    BY FinitePods, FS_Subset DEF Stored
  <1>2. ASSUME NEW d \in Names
        PROVE  /\ B[d] \in [PodsOf(d) -> 1 .. n(d)]
               /\ \A a, b \in PodsOf(d) : B[d][a] = B[d][b] => a = b
               /\ \A k \in 1 .. n(d) : \E a \in PodsOf(d) : B[d][a] = k
               /\ n(d) \in Nat /\ n(d) <= MaxReplicas
    <2>1. IsFiniteSet(PodsOf(d)) /\ n(d) \in Nat /\ n(d) <= MaxReplicas
      BY PodsOfFinite, PodsOfFew
    <2>2. IsFiniteSet(1 .. n(d)) /\ Cardinality(1 .. n(d)) = n(d)
      <3> HIDE DEF n
      <3>1. n(d) \in Int /\ (IF 1 > n(d) THEN 0 ELSE n(d) - 1 + 1) = n(d)
        BY <2>1
      <3>2. 1 \in Int
        OBVIOUS
      <3> QED
        BY <3>1, <3>2, FS_Interval
    <2>3. Bijection(PodsOf(d), 1 .. n(d)) # {}
      BY <2>1, <2>2, FS_SameCardinalityBij DEF ExistsBijection
    <2>4. B[d] \in Bijection(PodsOf(d), 1 .. n(d))
      BY <2>3
    <2> HIDE DEF B, n
    <2> QED
      BY <2>1, <2>4 DEF Bijection, Injection, Surjection, IsInjective
  <1> HIDE DEF B
  <1>3. \A id \in Stored : id \in PodNames /\ (id[1] # None => id[1] \in Names /\ id \in PodsOf(id[1]))
    BY OwnedIsNamed DEF Stored, PodsOf
  <1>4. ASSUME NEW id \in Stored
        PROVE  f[id] \in Ranks
    <2>1. CASE id[1] = None
      BY <1>3, <2>1 DEF Ranks, Stored
    <2>2. CASE id[1] # None
      <3>1. id[1] \in Names /\ id \in PodsOf(id[1])
        BY <1>3, <2>2
      <3> DEFINE d == id[1]
                 k == B[d][id] - 1
      <3>2. k \in 0 .. MaxReplicas - 1 /\ k < n(d)
        <4>1. B[d][id] \in 1 .. n(d) /\ n(d) \in Nat /\ n(d) <= MaxReplicas
          BY <1>2, <3>1
        <4> HIDE DEF n
        <4> QED
          BY <4>1, SizesAssumption
      <3>3. f[id] = <<d, k>>
        BY <2>2
      <3> HIDE DEF k, f
      <3>4. <<d, k>> \in PodNames /\ <<d, k>>[1] = d /\ <<d, k>>[2] = k
        BY <3>1, <3>2 DEF PodNames
      <3> QED
        BY <2>2, <3>2, <3>3, <3>4 DEF Ranks
    <2> QED
      BY <2>1, <2>2
  <1>5. ASSUME NEW a \in Stored, NEW b \in Stored, f[a] = f[b]
        PROVE  a = b
    <2>1. \A id \in Stored : f[id][1] = id[1]
      OBVIOUS
    <2>2. a[1] = b[1]
      BY <1>5, <2>1
    <2>3. CASE a[1] = None
      BY <1>5, <2>2, <2>3
    <2>4. CASE a[1] # None
      <3>1. f[a] = <<a[1], B[a[1]][a] - 1>> /\ f[b] = <<a[1], B[a[1]][b] - 1>>
        BY <2>2, <2>4
      <3>2. a[1] \in Names /\ a \in PodsOf(a[1]) /\ b \in PodsOf(a[1])
        BY <1>3, <2>2, <2>4
      <3>3. B[a[1]][a] \in Int /\ B[a[1]][b] \in Int
        BY <1>2, <3>2
      <3>4. B[a[1]][a] = B[a[1]][b]
        <4>1. f[a][2] = B[a[1]][a] - 1 /\ f[b][2] = B[a[1]][b] - 1
          BY <3>1
        <4>2. f[a][2] = f[b][2]
          BY <1>5
        <4> HIDE DEF f
        <4> QED
          BY <3>3, <4>1, <4>2
      <3> QED
        BY <1>2, <3>2, <3>4
    <2> QED
      BY <2>3, <2>4
  <1>6. ASSUME NEW x \in Ranks
        PROVE  \E id \in Stored : f[id] = x
    <2>1. CASE x[1] = None
      BY <2>1 DEF Ranks, Stored
    <2>2. CASE x[1] # None
      <3>1. x[1] \in Names /\ x = <<x[1], x[2]>> /\ x[2] \in Nat /\ x[2] < n(x[1])
        BY <2>2, SizesAssumption DEF Ranks, PodNames
      <3> DEFINE d == x[1]
      <3>2. x[2] + 1 \in 1 .. n(d)
        <4>1. n(d) \in Nat
          BY <1>2, <3>1
        <4> HIDE DEF n
        <4> QED
          BY <3>1, <4>1
      <3>3. PICK id \in PodsOf(d) : B[d][id] = x[2] + 1
        BY <1>2, <3>1, <3>2
      <3>4. id \in Stored /\ id[1] = d
        BY DEF PodsOf, Stored
      <3>5. f[id] = <<d, B[d][id] - 1>>
        BY <2>2, <3>4
      <3>6. B[d][id] - 1 = x[2]
        BY <3>1, <3>3
      <3> QED
        BY <3>1, <3>4, <3>5, <3>6
    <2> QED
      BY <2>1, <2>2
  <1>7. f \in [Stored -> Ranks]
    BY <1>4
  <1> HIDE DEF f
  <1>8. ExistsBijection(Stored, Ranks)
    <2>1. f \in Injection(Stored, Ranks)
      BY <1>5, <1>7 DEF Injection, IsInjective
    <2>2. f \in Surjection(Stored, Ranks)
      BY <1>6, <1>7 DEF Surjection
    <2> QED
      BY <2>1, <2>2 DEF ExistsBijection, Bijection
  <1> QED
    BY <1>1, <1>8, FS_Bijection, FS_CardinalityType


\* What a slot of a deployment rests on, and that these are numbers.
LEMMA SlotTypes ==
    ASSUME TypeOK, NEW d \in Names
    PROVE  /\ IsFiniteSet(Known(d)) /\ Cardinality(Known(d)) \in Nat
           /\ Cardinality(PodsOf(d)) <= Cardinality(Known(d))
           /\ deployments[d] # None => Want(deployments[d]) \in Nat
           /\ rc.d = d => Want(rc.copy) \in Nat
  <1>1. Known(d) \in SUBSET PodNames /\ PodsOf(d) \in SUBSET Known(d)
    BY DEF Known, PodsOf, TypeOK, RcOK
  <1>2. IsFiniteSet(Known(d)) /\ Cardinality(Known(d)) \in Nat
    BY <1>1, FinitePods, FS_Subset, FS_CardinalityType
  <1>3. Cardinality(PodsOf(d)) <= Cardinality(Known(d))
    BY <1>1, <1>2, FS_Subset
  <1>4. \A dep \in Deployment : Want(dep) \in Nat
    BY SizesAssumption DEF Deployment, Want
  <1>5. rc.d = d => rc.copy \in Deployment
    BY NoneAssumption DEF TypeOK, RcOK
  <1> QED
    BY <1>2, <1>3, <1>4, <1>5 DEF TypeOK

LEMMA SlotsAre ==
    /\ IsFiniteSet(Slots) /\ IsFiniteSet(Slots')
    /\ Cardinality(Slots) \in Nat /\ Cardinality(Slots') \in Nat
  <1>1. Slots \in SUBSET PodNames /\ Slots' \in SUBSET PodNames
    BY DEF Slots
  <1> QED
    BY <1>1, FinitePods, FS_Subset, FS_CardinalityType

\* The stored pods all have a slot.
LEMMA RanksHaveSlots ==
    ASSUME TypeOK
    PROVE  Ranks \subseteq Slots
  <1> SUFFICES ASSUME NEW id \in Ranks PROVE id \in Slots
    OBVIOUS
  <1>1. id \in PodNames
    BY DEF Ranks
  <1>2. CASE id[1] = None
    BY <1>1, <1>2 DEF Ranks, Slots, OwnSlot
  <1>3. CASE id[1] # None
    <2> DEFINE d == id[1]
    <2>1. id[2] < Cardinality(PodsOf(d)) /\ id[2] \in Nat /\ d \in Names
      BY <1>3, SizesAssumption DEF Ranks, PodNames
    <2>2. Cardinality(PodsOf(d)) <= Cardinality(Known(d)) /\ Cardinality(Known(d)) \in Nat /\ Cardinality(PodsOf(d)) \in Nat
      BY <2>1, SlotTypes, PodsOfFinite
    <2>3. KnownSlot(d, id[2])
      BY <2>1, <2>2 DEF KnownSlot
    <2> QED
      BY <1>1, <1>3, <2>3 DEF Slots, Slot
  <1> QED
    BY <1>2, <1>3

LEMMA QuotaImplies ==
    ASSUME TypeOK, QuotaInv
    PROVE  QuotaOverrunIsExplained
  <1>1. Cardinality(Stored) <= Cardinality(Slots)
    BY RanksHaveSlots, StoredIsRanked, SlotsAre, FS_Subset
  <1>2. Quota \in Nat /\ Cardinality(Stored) \in Nat /\ Cardinality(Slots) \in Nat
    BY QuotaAssumption, StoredIsRanked, SlotsAre
  <1> QED
    BY <1>1, <1>2 DEF QuotaInv, QuotaOverrunIsExplained

\* The slots of a deployment are the first ones.
LEMMA SlotsDown ==
    ASSUME TypeOK, NEW d \in Names, NEW k \in Nat, NEW m \in Nat, m <= k, Slot(d, k)
    PROVE  Slot(d, m)
  <1>1. KnownSlot(d, k) => KnownSlot(d, m)
    BY SlotTypes DEF KnownSlot
  <1>2. DepSlot(d, k) => DepSlot(d, m)
    BY SlotTypes DEF DepSlot
  <1>3. PassSlot(d, k) => PassSlot(d, m)
    BY SlotTypes DEF PassSlot
  <1>4. ASSUME NEW h \in Handlers, CallSlot(h, d, k) PROVE CallSlot(h, d, m)
    <2>1. Call(call[h]) /\ call[h].op = "deploy"
      BY <1>4 DEF TypeOK, CallSlot
    <2>2. call[h].replicas \in Int
      BY <2>1 DEF Call
    <2> QED
      BY <1>4, <2>2 DEF CallSlot
  <1> QED
    BY <1>1, <1>2, <1>3, <1>4 DEF Slot

\* The usual step: nothing is asked for that was not before.
LEMMA QuotaKept ==
    ASSUME QuotaInv, ~flags'.blind => ~flags.blind,
           ~flags'.blind => \A id \in PodNames : id[1] = None => (OwnSlot(id)' => OwnSlot(id)),
           ~flags'.blind => \A d \in Names, k \in 0 .. MaxReplicas - 1 : Slot(d, k)' => Slot(d, k)
    PROVE  QuotaInv'
  <1> SUFFICES ASSUME Quota > 0, ~flags'.blind
               PROVE  Cardinality(Slots') <= Quota
    BY DEF QuotaInv
  <1>1. \A id \in PodNames : id[1] # None => id[1] \in Names /\ id[2] \in 0 .. MaxReplicas - 1
    BY DEF PodNames
  <1>2. Slots' \subseteq Slots
    <2> HIDE DEF Slot, OwnSlot
    <2> QED
      BY <1>1 DEF Slots
  <1>3. Cardinality(Slots') <= Cardinality(Slots)
    BY <1>2, SlotsAre, FS_Subset
  <1>4. Cardinality(Slots) <= Quota
    BY DEF QuotaInv
  <1> QED
    BY <1>3, <1>4, SlotsAre, QuotaAssumption

LEMMA KnownKept ==
    ASSUME TypeOK, TypeOK', NEW d \in Names, NEW k \in Int, Known(d)' \subseteq Known(d)
    PROVE  KnownSlot(d, k)' => KnownSlot(d, k)
  <1>1. IsFiniteSet(Known(d)) /\ Cardinality(Known(d)) \in Nat
    BY SlotTypes
  <1>2. Cardinality(Known(d)') <= Cardinality(Known(d)) /\ IsFiniteSet(Known(d)')
    BY <1>1, FS_Subset
  <1>3. Cardinality(Known(d)') \in Nat
    BY <1>2, FS_CardinalityType
  <1> QED
    BY <1>1, <1>2, <1>3 DEF KnownSlot

\* What a report and the autoscaler must not have done to leave the sight.
LEMMA ReportSight ==
    ASSUME TypeOK, NEW h, ReportPut(h), ~flags'.blind
    PROVE  ~flags.blind /\ \A id \in Undone(h) : pods[id] # None
  <1> DEFINE a == \E id \in Undone(h) : pods[id] = None
             y == flags.blind \/ a
             s == {id[1] : id \in Undone(h)} \ {None}
             u == UNION {call[h].t.vols : id \in Undone(h)}
             m == UNION {call[h].t.vols \cup IF pods[id] = None THEN {} ELSE pods[id].t.vols : id \in Undone(h)}
             w == {call[h].node : id \in Undone(h)} \ {None}
  <1>1. flags' = [flags EXCEPT !.blind = y, !.stale = @ \cup s, !.unowned = @ \cup u, !.moved = @ \cup m,
                     !.crowded = @ \cup w]
    BY DEF ReportPut, Undone, Copy
  <1> HIDE DEF a, y, s, u, m, w
  <1>2. flags'.blind = y
    BY <1>1 DEF TypeOK, FlagFields
  <1> QED
    BY <1>2 DEF y, a

LEMMA AutoscaleSight ==
    ASSUME TypeOK, NEW h \in Handlers, NEW d \in Names, NEW r \in 1 .. MaxReplicas, Autoscale(h, d, r), ~flags'.blind
    PROVE  ~flags.blind /\ ~(r > Promised(d))
  <1> DEFINE b == r > Promised(d)
             y == flags.blind \/ b
  <1>1. flags' = [flags EXCEPT !.blind = y]
    BY DEF Autoscale
  <1> HIDE DEF b, y
  <1>2. flags'.blind = y
    BY <1>1 DEF TypeOK, FlagFields
  <1> QED
    BY <1>2 DEF y, b

\* Only an admission, the autoscaler, a report and GitSync take away the sight.
LEMMA SightKept ==
    ASSUME TypeOK, [Next]_vars, ~flags'.blind
    PROVE  ~flags.blind
  <1>1. ASSUME NEW f \in FlagFields \ {"blind"}, NEW x, flags' = Raise(f, x) PROVE ~flags.blind
    BY <1>1 DEF TypeOK, FlagFields, Raise
  <1>2. CASE PassStep
    <2>1. CASE Size
      BY <2>1 DEF Size, TypeOK, FlagFields
    <2>2. CASE Refetch \/ PutStatus \/ RcStops
      BY <1>1, <2>2, StatusPass DEF Refetches, PutsStatus, GivesUp, FlagFields
    <2>3. ASSUME NEW n \in Nodes, Place(n) \/ PlaceFails(n) PROVE ~flags.blind
      BY <1>1, <2>3 DEF Place, PlaceFails, FlagFields
    <2>4. CASE ClaimGet \/ ClaimPut \/ ClaimFails
      BY <1>1, <2>4 DEF ClaimGet, ClaimPut, ClaimFails, FlagFields
    <2> QED
      BY <1>2, <2>1, <2>2, <2>3, <2>4 DEF PassStep, Fetch, ListOwned, PlaceEnds
  <1>3. CASE PodStep
    BY <1>1, <1>3, PodFlags DEF FlagFields
  <1>4. ASSUME NEW id \in PodNames, DeletePod(id) \/ MountVolumes(id) PROVE ~flags.blind
    BY <1>1, <1>4 DEF DeletePod, MountVolumes, FlagFields
  <1>5. ASSUME NEW d \in DOMAIN Manifests, GitSync(d) PROVE ~flags.blind
    <2> DEFINE x == Outdates(d, Manifests[d].t, FALSE)
               u == Manifests[d].t.vols
               y == flags.blind \/ Promised(d) < Want(Manifests[d]) \/ rc.d = d
    <2>1. flags' = [flags EXCEPT !.stale = @ \cup x, !.blind = y, !.unowned = @ \cup u]
      BY <1>5 DEF GitSync, Raise, TypeOK, FlagFields
    <2> HIDE DEF x, u, y
    <2>2. flags'.blind = y
      BY <2>1 DEF TypeOK, FlagFields
    <2> QED
      BY <2>2 DEF y
  <1>6. CASE UNCHANGED vars
    BY <1>6 DEF vars
  <1>7. ASSUME NEW h \in Handlers, HandlerStep(h) PROVE ~flags.blind
    <2>1. CASE Begins(h)
      BY <2>1, BeginsCall
    <2>2. CASE VolumeStep(h)
      BY <1>1, <2>2 DEF VolumeStep, GetsVolume, GetVolume, Provision, PutVolume, Deprovision, UnrecordVolume, FlagFields
    <2>3. ASSUME NEW unread \in SUBSET Volumes, Admit(h, unread) PROVE ~flags.blind
      <3>1. CASE flags' = flags
        BY <3>1
      <3>2. CASE flags' = [Raise("unowned", Unowned(h, unread)) EXCEPT !.blind = @ \/ Unseen(h)]
        <4> DEFINE x == Unowned(h, unread)
                   b == Unseen(h)
                   y == flags.blind \/ b
        <4>1. flags' = [flags EXCEPT !.unowned = @ \cup x, !.blind = y]
          BY <3>2 DEF Raise, TypeOK, FlagFields
        <4> HIDE DEF x, b, y
        <4>2. flags'.blind = y
          BY <4>1 DEF TypeOK, FlagFields
        <4> QED
          BY <4>2 DEF y
      <3> QED
        BY <2>3, <3>1, <3>2, AdmitCall
    <2>4. CASE PutDeployment(h) \/ RestartList(h)
      BY <1>1, <2>4 DEF PutDeployment, RestartList, FlagFields
    <2>5. ASSUME NEW id \in PodNames, RestartDelete(h, id) PROVE ~flags.blind
      BY <2>5 DEF RestartDelete, Raise, TypeOK, FlagFields
    <2>6. CASE CallFails(h)
      BY <2>6 DEF CallFails, TypeOK, FlagFields
    <2>7. CASE PutPod(h)
      BY <2>7 DEF PutPod, Raise, TypeOK, FlagFields
    <2>8. CASE ReportPut(h)
      BY <2>8, ReportSight
    <2>9. CASE Remove(h)
      BY <2>9, RemoveStep
    <2>10. ASSUME NEW id \in PodNames, UpdatePodStatus(h, id) PROVE ~flags.blind
      BY <2>10, ReportArrives
    <2>11. ASSUME NEW d \in Names, NEW r \in 1 .. MaxReplicas, Autoscale(h, d, r) PROVE ~flags.blind
      BY <2>11, AutoscaleSight
    <2> QED
      BY <1>7, <2>1, <2>2, <2>3, <2>4, <2>5, <2>6, <2>7, <2>8, <2>9, <2>10, <2>11
         DEF HandlerStep, Restarts, Reports, Autoscales, Admits
  <1> QED
    BY <1>2, <1>3, <1>4, <1>5, <1>6, <1>7, Steps

\* The m lowest of a deployment's pod names are at most m: a name is told by its rank.
LEMMA LowestAreFew ==
    ASSUME NEW d \in Names, NEW m \in Nat, NEW F \in SUBSET PodNames, \A id \in F : id[1] = d
    PROVE  LET T == {id \in F : Cardinality({o \in F : o[2] < id[2]}) < m}
           IN  IsFiniteSet(T) /\ Cardinality(T) <= m
  <1> DEFINE Below(i) == {o \in F : o[2] < i[2]}
             T == {i \in F : Cardinality(Below(i)) < m}
             f == [i \in T |-> Cardinality(Below(i))]
  <1>1. \A i \in F : i[2] \in Nat /\ i = <<d, i[2]>>
    BY NoneAssumption, SizesAssumption DEF PodNames
  <1>2. \A i \in F : IsFiniteSet(Below(i)) /\ Cardinality(Below(i)) \in Nat
    BY FinitePods, FS_Subset, FS_CardinalityType
  <1>3. f \in [T -> 0 .. m - 1]
    BY <1>2
  <1>4. ASSUME NEW i \in T, NEW k \in T, i[2] < k[2]
        PROVE  f[i] < f[k]
    <2>1. IsFiniteSet(Below(i) \cup {i}) /\ Cardinality(Below(i) \cup {i}) = Cardinality(Below(i)) + 1
      <3>1. i \notin Below(i)
        BY <1>1
      <3> QED
        BY <1>2, <3>1, FS_AddElement
    <2>2. Below(i) \cup {i} \in SUBSET Below(k)
      <3>1. \A j \in Below(i) : j \in F /\ j[2] < k[2]
        BY <1>1, <1>4
      <3> QED
        BY <1>4, <3>1
    <2>3. Cardinality(Below(i) \cup {i}) <= Cardinality(Below(k))
      <3> HIDE DEF Below
      <3> QED
        BY <1>2, <2>2, FS_Subset
    <2>4. f[i] = Cardinality(Below(i)) /\ f[k] = Cardinality(Below(k)) /\ i \in F /\ k \in F
      OBVIOUS
    <2> HIDE DEF Below, f
    <2> QED
      BY <1>2, <2>1, <2>3, <2>4
  <1>5. f \in Injection(T, 0 .. m - 1)
    <2>1. ASSUME NEW i \in T, NEW k \in T, f[i] = f[k], i # k
          PROVE  FALSE
      <3>1. i[2] \in Int /\ k[2] \in Int /\ i[2] # k[2] /\ f[i] \in Int /\ f[k] \in Int
        BY <1>1, <1>3, <2>1
      <3>2. i[2] < k[2] \/ k[2] < i[2]
        BY <3>1
      <3> HIDE DEF f, T
      <3> QED
        BY <1>4, <2>1, <3>1, <3>2
    <2> HIDE DEF f, T
    <2> QED
      BY <1>3, <2>1 DEF Injection, IsInjective
  <1>6. IsFiniteSet(0 .. m - 1) /\ Cardinality(0 .. m - 1) = m
    BY FS_Interval
  <1> HIDE DEF f, T
  <1>7. IsFiniteSet(T) /\ Cardinality(T) <= m
    BY <1>5, <1>6, FS_Injection
  <1> QED
    BY <1>7 DEF T

\* Size leaves a deployment with no more pods than it had or its copy wants.
LEMMA SizeCount ==
    ASSUME TypeOK, Size, NEW d, d = rc.d
    PROVE  /\ \/ PodsOf(d)' \subseteq PodsOf(d)
              \/ Cardinality(PodsOf(d)') <= Want(rc.copy) /\ Cardinality(PodsOf(d)') \in Nat
           /\ \A e \in Names \ {d} : PodsOf(e)' = PodsOf(e)
           /\ \A id \in PodNames : id[1] = None => pods'[id] = pods[id]
  <1> DEFINE want == Want(rc.copy)
             have == Cardinality(PodsOf(d))
             pin == PinnedTo(rc.copy.t.vols)
             pod == [t |-> rc.copy.t, node |-> pin]
             free == {<<d, i>> : i \in 0 .. MaxReplicas - 1} \ PodsOf(d)
             new == {id \in free : Cardinality({o \in free : o[2] < id[2]}) < want - have}
             old == {id \in PodsOf(d) : Cardinality({o \in PodsOf(d) : o[2] > id[2]}) < have - want}
  <1>1. /\ rc.at = "size"
        /\ pods' = CASE have < want -> [id \in PodNames |-> IF id \in new THEN pod ELSE pods[id]]
                     [] have > want -> [id \in PodNames |-> IF id \in old THEN None ELSE pods[id]]
                     [] OTHER -> pods
    BY DEF Size
  <1>2. d \in Names /\ d # None /\ want \in Nat /\ have \in Nat
    <2>1. d \in Names /\ d # None
      BY <1>1, NoneAssumption DEF TypeOK, RcOK
    <2> QED
      BY <2>1, SlotTypes, PodsOfFinite
  <1>3. free \in SUBSET PodNames /\ \A id \in free : id[1] = d
    BY <1>2 DEF PodNames
  <1>4. new \subseteq free /\ old \subseteq PodsOf(d) /\ \A id \in PodsOf(d) : id[1] = d
    BY DEF PodsOf
  <1>5. have < want => IsFiniteSet(new) /\ Cardinality(new) <= want - have
    <2> HIDE DEF free, have, want
    <2>1. have < want => want - have \in Nat
      BY <1>2
    <2> QED
      BY <1>2, <1>3, <2>1, LowestAreFew
  <1> HIDE DEF want, have, pod, free, new, old
  <1>7. ASSUME have < want
        PROVE  pods' = [id \in PodNames |-> IF id \in new THEN pod ELSE pods[id]]
    BY <1>1, <1>2, <1>7
  <1>8. ASSUME ~(have < want)
        PROVE  \A id \in PodNames : pods'[id] = pods[id] \/ (id \in old /\ pods'[id] = None)
    <2>1. CASE have > want
      <3>1. pods' = [id \in PodNames |-> IF id \in old THEN None ELSE pods[id]]
        BY <1>1, <1>2, <1>8, <2>1
      <3> QED
        BY <3>1
    <2>2. CASE ~(have > want)
      BY <1>1, <1>2, <1>8, <2>2
    <2> QED
      BY <2>1, <2>2
  <1>9. \A id \in PodNames : id[1] # d => pods'[id] = pods[id]
    BY <1>3, <1>4, <1>7, <1>8
  <1>10. \A e \in Names \ {d} : PodsOf(e)' = PodsOf(e)
    BY <1>9 DEF PodsOf
  <1>11. \A id \in PodNames : id[1] = None => pods'[id] = pods[id]
    BY <1>2, <1>9
  <1>12. CASE have < want
    <2>1. PodsOf(d)' \subseteq PodsOf(d) \cup new
      BY <1>7, <1>12 DEF PodsOf
    <2>2. IsFiniteSet(PodsOf(d)) /\ IsFiniteSet(new) /\ Cardinality(new) <= want - have
      BY <1>5, <1>12, PodsOfFinite
    <2> DEFINE U == PodsOf(d) \cup new
               I == PodsOf(d) \cap new
    <2>3. /\ IsFiniteSet(U)
          /\ Cardinality(U) = Cardinality(PodsOf(d)) + Cardinality(new) - Cardinality(I)
      BY <2>2, FS_Union
    <2>4. Cardinality(I) \in Nat /\ Cardinality(new) \in Nat /\ Cardinality(U) \in Nat
      <3>1. IsFiniteSet(I)
        BY <2>2, FS_Subset
      <3> QED
        BY <2>2, <2>3, <3>1, FS_CardinalityType
    <2>5. IsFiniteSet(PodsOf(d)') /\ Cardinality(PodsOf(d)') <= Cardinality(U)
      BY <2>1, <2>3, FS_Subset
    <2>6. Cardinality(PodsOf(d)') \in Nat
      BY <2>5, FS_CardinalityType
    <2>7. Cardinality(PodsOf(d)) = have
      BY DEF have
    <2> HIDE DEF U, I
    <2>8. Cardinality(PodsOf(d)') <= want
      BY <1>2, <2>2, <2>3, <2>4, <2>5, <2>6, <2>7
    <2> QED
      BY <1>10, <1>11, <2>6, <2>8 DEF want
  <1>13. CASE ~(have < want)
    <2>1. PodsOf(d)' \subseteq PodsOf(d)
      BY <1>8, <1>13 DEF PodsOf
    <2> QED
      BY <1>10, <1>11, <2>1
  <1> QED
    BY <1>12, <1>13

LEMMA QuotaInit ==
    ASSUME Init
    PROVE  QuotaInv
  <1> SUFFICES ASSUME Quota > 0
               PROVE  Cardinality(Slots) <= Quota
    BY DEF QuotaInv
  <1>0. TypeOK /\ rc.d = None /\ DOMAIN pr.owned = {} /\ \A d \in Names : d # None
    BY TypeInit, NoPassIs, NoneAssumption DEF Init
  <1>1. \A h \in Handlers : call[h].at = "idle"
    BY IdleCall DEF Init
  <1>2. ASSUME NEW d \in Names
        PROVE  Known(d) = PodsOf(d) /\ \A k : Slot(d, k) => KnownSlot(d, k) \/ DepSlot(d, k)
    BY <1>0, <1>1 DEF Known, Slot, PassSlot, CallSlot
  <1>3. \A id \in PodNames : OwnSlot(id) => pods[id] # None
    BY <1>0, <1>1 DEF OwnSlot, OwnCall
  <1>4. CASE Empty
    <2>1. /\ \A id \in PodNames : pods[id] = None
          /\ \A d \in Names : PodsOf(d) = {} /\ deployments[d] = None
      BY <1>4 DEF Empty, NoPods, PodsOf
    <2>2. \A id \in PodNames : id[1] # None => id[1] \in Names /\ id[2] \in Nat
      BY SizesAssumption DEF PodNames
    <2>3. Cardinality({}) = 0
      BY FS_EmptySet
    <2>4. \A d \in Names, k \in Nat : ~Slot(d, k)
      BY <1>2, <2>1, <2>3 DEF KnownSlot, DepSlot
    <2>5. Slots = {}
      BY <1>3, <2>1, <2>2, <2>4 DEF Slots
    <2> QED
      BY <2>3, <2>5, QuotaAssumption
  <1>5. CASE Placed
    <2>1. PICK v \in Volumes, n \in Nodes :
              LET t == [Clean EXCEPT !.vols = {v}]
              IN  /\ deployments = [e \in Names |-> IF e = v THEN [replicas |-> 1, t |-> t, managed |-> FALSE]
                                              ELSE None]
                  /\ pods = [NoPods EXCEPT ![<<v, 0>>] = [t |-> t, node |-> n]]
      BY <1>5 DEF Placed
    <2> DEFINE t == [Clean EXCEPT !.vols = {v}]
               dep == [replicas |-> 1, t |-> t, managed |-> FALSE]
    <2>2. v \in Names /\ v # None
      BY <1>0, VolumesAssumption
    <2>3. dep.replicas = 1
      OBVIOUS
    <2> HIDE DEF t
    <2>4. /\ deployments[v] = dep /\ \A e \in Names \ {v} : deployments[e] = None
          /\ \A id \in PodNames : pods[id] # None => id = <<v, 0>>
      BY <2>1, <2>2 DEF NoPods, t
    <2>5. Want(dep) = 1
      BY <2>3 DEF Want
    <2> HIDE DEF dep
    <2>6. \A id \in PodNames : id[1] = None => pods[id] = None
      BY <2>2, <2>4
    <2>7. Slots \subseteq {<<v, 0>>}
      <3> SUFFICES ASSUME NEW id \in Slots PROVE id = <<v, 0>>
        OBVIOUS
      <3>1. id[1] # None
        BY <1>3, <2>6 DEF Slots
      <3>2. id \in PodNames /\ id[1] \in Names /\ id[2] \in Nat /\ id = <<id[1], id[2]>> /\ Slot(id[1], id[2])
        BY <3>1, SizesAssumption DEF Slots, PodNames
      <3>3. Cardinality(PodsOf(id[1])) <= IF id[1] = v THEN 1 ELSE 0
        <4>1. PodsOf(id[1]) \subseteq IF id[1] = v THEN {<<v, 0>>} ELSE {}
          BY <2>4 DEF PodsOf
        <4>2. /\ IsFiniteSet({<<v, 0>>}) /\ Cardinality({<<v, 0>>}) = 1
              /\ IsFiniteSet({}) /\ Cardinality({}) = 0
          BY FS_Singleton, FS_EmptySet
        <4>3. CASE id[1] = v
          BY <4>1, <4>2, <4>3, FS_Subset
        <4>4. CASE id[1] # v
          BY <4>1, <4>2, <4>4, FS_Subset
        <4> QED
          BY <4>3, <4>4
      <3>4. Cardinality(PodsOf(id[1])) \in Nat
        BY PodsOfFinite
      <3>5. id[1] = v /\ id[2] < 1
        <4>1. CASE KnownSlot(id[1], id[2])
          BY <1>2, <3>2, <3>3, <3>4, <4>1 DEF KnownSlot
        <4>2. CASE DepSlot(id[1], id[2])
          BY <2>4, <2>5, <3>2, <4>2 DEF DepSlot
        <4> QED
          BY <1>2, <3>2, <4>1, <4>2
      <3>6. id[2] = 0
        BY <3>2, <3>5
      <3> QED
        BY <3>2, <3>5, <3>6
    <2>8. IsFiniteSet({<<v, 0>>}) /\ Cardinality({<<v, 0>>}) = 1
      BY FS_Singleton
    <2>9. Cardinality(Slots) <= 1
      BY <2>7, <2>8, FS_Subset
    <2> QED
      BY <2>9, SlotsAre, QuotaAssumption
  <1> QED
    BY <1>4, <1>5 DEF Init

LEMMA KnownShrinks ==
    ASSUME TypeOK, TypeOK', UNCHANGED rc, \A id \in PodNames : pods'[id] # None => pods[id] # None,
           NEW d \in Names, NEW k \in Int
    PROVE  (KnownSlot(d, k)' => KnownSlot(d, k)) /\ (PassSlot(d, k)' => PassSlot(d, k))
  <1>1. Known(d)' \subseteq Known(d)
    BY DEF Known, PodsOf
  <1> QED
    BY <1>1, KnownKept DEF PassSlot

\* Nothing is asked for: pods and deployments only go, and no request comes to its put.
Asks(g) == call'[g] # call[g] /\ call'[g].at = "put"
LEMMA QuotaQuiet ==
    ASSUME TypeOK, TypeOK', QuotaInv, [Next]_vars, UNCHANGED controllers,
           \A d \in Names : deployments'[d] = deployments[d] \/ deployments'[d] = None,
           ~flags'.blind => \A id \in PodNames : pods'[id] # None => pods[id] # None,
           \A g \in Handlers : ~Asks(g)
    PROVE  QuotaInv'
  <1>1. UNCHANGED <<rc, pr>>
    BY DEF controllers
  <1>2. ~flags'.blind => ~flags.blind
    BY SightKept
  <1>3. ASSUME ~flags'.blind, NEW id \in PodNames PROVE OwnSlot(id)' => OwnSlot(id)
    BY <1>1, <1>3 DEF OwnSlot, OwnCall, Asks
  <1>4. ASSUME ~flags'.blind, NEW d \in Names, NEW k \in 0 .. MaxReplicas - 1, Slot(d, k)'
        PROVE  Slot(d, k)
    <2>1. DepSlot(d, k)' => DepSlot(d, k)
      BY DEF DepSlot, Want
    <2>2. \A g \in Handlers : CallSlot(g, d, k)' => CallSlot(g, d, k)
      BY DEF CallSlot, Asks
    <2> QED
      BY <1>1, <1>4, <2>1, <2>2, KnownShrinks DEF Slot
  <1> QED
    BY <1>2, <1>3, <1>4, QuotaKept

\* A put asks for no more than the admission saw.
LEMMA QuotaPuts ==
    ASSUME TypeOK, TypeOK', QuotaInv, [Next]_vars, NEW h \in Handlers, PutDeployment(h) \/ PutPod(h)
    PROVE  QuotaInv'
  <1>1. OnlyCall(h) /\ call'[h].at # "put" /\ call[h].at = "put"
    BY PutCall
  <1>2. ~flags'.blind => ~flags.blind
    BY SightKept
  <1>3. Handlers = (Handlers \ {h}) \cup {h}
    OBVIOUS
  <1>4. CASE PutDeployment(h)
    <2> DEFINE e == call[h].d
               dep == deployments'[e]
    <2>1. Call(call[h]) /\ call[h].op = "deploy"
      BY <1>4 DEF TypeOK, PutDeployment
    <2>2. /\ e \in Names /\ dep \in Deployment /\ dep.replicas = call[h].replicas
          /\ \A d \in Names \ {e} : deployments'[d] = deployments[d]
          /\ UNCHANGED <<pods, controllers>>
      BY <1>4, PutDeploymentStep
    <2>3. Want(dep) <= call[h].replicas /\ Want(dep) \in Nat /\ call[h].replicas \in Nat
      <3>1. dep.replicas \in Nat
        BY <2>2 DEF Deployment
      <3> HIDE DEF dep
      <3> QED
        BY <2>2, <3>1 DEF Want
    <2> HIDE DEF dep, e
    <2>4. deployments'[e] = dep /\ \A d \in Names \ {e} : deployments'[d] = deployments[d]
      BY <2>2 DEF dep
    <2>5. UNCHANGED <<pods, rc, pr>>
      BY <2>2 DEF controllers
    <2>6. ASSUME NEW id \in PodNames PROVE OwnSlot(id)' => OwnSlot(id)
      BY <1>1, <1>3, <2>5 DEF OwnSlot, OwnCall, OnlyCall
    <2>7. ASSUME NEW d \in Names, NEW k \in 0 .. MaxReplicas - 1, Slot(d, k)'
          PROVE  Slot(d, k)
      <3>1. \A g \in Handlers : CallSlot(g, d, k)' => CallSlot(g, d, k)
        BY <1>1, <1>3 DEF CallSlot, OnlyCall
      <3>2. CASE DepSlot(d, k)'
        <4>1. CASE d = e
          <5>1. k < Want(dep)
            BY <2>4, <3>2, <4>1 DEF DepSlot, Want
          <5>2. k < call[h].replicas
            BY <2>2, <2>3, <5>1
          <5>3. CallSlot(h, d, k)
            BY <1>1, <2>1, <4>1, <5>2 DEF CallSlot, e
          <5> QED
            BY <5>3 DEF Slot
        <4>2. CASE d # e
          BY <2>4, <3>2, <4>2 DEF DepSlot, Want, Slot
        <4> QED
          BY <4>1, <4>2
      <3>3. CASE KnownSlot(d, k)' \/ PassSlot(d, k)'
        BY <2>5, <3>3, KnownShrinks DEF Slot
      <3> QED
        BY <2>7, <3>1, <3>2, <3>3 DEF Slot
    <2> QED
      BY <1>2, <2>6, <2>7, QuotaKept
  <1>5. CASE PutPod(h)
    <2>1. /\ \A id \in PodNames : id \notin call[h].left => pods'[id] = pods[id]
          /\ \A id \in call[h].left : id[1] = None
          /\ call[h].op = "pod" /\ UNCHANGED <<deployments, controllers>>
      BY <1>5, PutPodStep
    <2>2. UNCHANGED <<deployments, rc, pr>>
      BY <2>1 DEF controllers
    <2>3. ASSUME NEW id \in PodNames PROVE OwnSlot(id)' => OwnSlot(id)
      <3>1. CASE id \in call[h].left
        BY <1>1, <2>1, <3>1 DEF OwnSlot, OwnCall
      <3>2. CASE id \notin call[h].left
        BY <1>1, <1>3, <2>1, <2>2, <3>2 DEF OwnSlot, OwnCall, OnlyCall
      <3> QED
        BY <3>1, <3>2
    <2>4. ASSUME NEW d \in Names, NEW k \in 0 .. MaxReplicas - 1, Slot(d, k)'
          PROVE  Slot(d, k)
      <3>1. \A g \in Handlers : CallSlot(g, d, k)' => CallSlot(g, d, k)
        BY <1>1, <1>3 DEF CallSlot, OnlyCall
      <3>2. DepSlot(d, k)' => DepSlot(d, k)
        BY <2>2 DEF DepSlot, Want
      <3>3. PodsOf(d)' = PodsOf(d)
        BY <2>1, NoneAssumption DEF PodsOf
      <3>4. Known(d)' \subseteq Known(d)
        BY <2>2, <3>3 DEF Known
      <3>5. KnownSlot(d, k)' => KnownSlot(d, k)
        BY <3>4, KnownKept
      <3>6. PassSlot(d, k)' => PassSlot(d, k)
        BY <2>2 DEF PassSlot
      <3> QED
        BY <2>4, <3>1, <3>2, <3>5, <3>6 DEF Slot
    <2> QED
      BY <1>2, <2>3, <2>4, QuotaKept
  <1> QED
    BY <1>4, <1>5

\* The autoscaler asks for what the deployment was promised, or is seen to ask for more.
LEMMA QuotaAutoscale ==
    ASSUME TypeOK, TypeOK', QuotaInv, [Next]_vars, NEW h \in Handlers, NEW e \in Names,
           NEW r \in 1 .. MaxReplicas, Autoscale(h, e, r)
    PROVE  QuotaInv'
  <1>1. /\ OnlyCall(h) /\ deployments[e] # None /\ call'[h].op = "deploy" /\ call'[h].d = e /\ call'[h].replicas = r
        /\ UNCHANGED <<objects, controllers>>
    BY AutoscaleCall
  <1>2. UNCHANGED <<deployments, pods, rc, pr>>
    BY <1>1 DEF objects, controllers
  <1>3. ASSUME NEW id \in PodNames PROVE OwnSlot(id)' => OwnSlot(id)
    BY <1>1, <1>2 DEF OwnSlot, OwnCall, OnlyCall
  <1>4. ASSUME ~flags'.blind, NEW d \in Names, NEW k \in 0 .. MaxReplicas - 1, Slot(d, k)' PROVE Slot(d, k)
    <2>1. Want(deployments[e]) \in Nat /\ ~(r > Want(deployments[e]))
      BY <1>1, <1>4, AutoscaleSight, SlotTypes DEF Promised
    <2>2. ASSUME NEW g \in Handlers, CallSlot(g, d, k)' PROVE Slot(d, k)
      <3>1. CASE g = h
        <4>1. d = e /\ k < r
          BY <1>1, <2>2, <3>1 DEF CallSlot
        <4>2. k < Want(deployments[e])
          BY <2>1, <4>1
        <4> QED
          BY <1>1, <4>1, <4>2 DEF DepSlot, Slot
      <3>2. CASE g # h
        BY <1>1, <2>2, <3>2 DEF OnlyCall, CallSlot, Slot
      <3> QED
        BY <3>1, <3>2
    <2>3. DepSlot(d, k)' => DepSlot(d, k)
      BY <1>2 DEF DepSlot, Want
    <2>4. CASE KnownSlot(d, k)' \/ PassSlot(d, k)'
      BY <1>2, <2>4, KnownShrinks DEF Slot
    <2> QED
      BY <1>4, <2>2, <2>3, <2>4 DEF Slot
  <1>5. ~flags'.blind => ~flags.blind
    BY SightKept
  <1> QED
    BY <1>3, <1>4, <1>5, QuotaKept

\* An admission that saw everything: beside its own, the slots are the stored pods.
LEMMA Sighted ==
    ASSUME TypeOK, NEW h \in Handlers, NEW unread \in SUBSET Volumes, Admit(h, unread), ~flags'.blind,
           call'[h].at = "put"
    PROVE  /\ ~flags.blind /\ ~Unseen(h)
           /\ rc.d = None /\ rc.owned = << >> /\ DOMAIN pr.owned = {}
  <1>1. call'[h].at # "idle"
    OBVIOUS
  <1>2. flags' = [Raise("unowned", Unowned(h, unread)) EXCEPT !.blind = @ \/ Unseen(h)]
    BY <1>1, AdmitCall
  <1> DEFINE x == Unowned(h, unread)
             b == Unseen(h)
             y == flags.blind \/ b
  <1>3. flags' = [flags EXCEPT !.unowned = @ \cup x, !.blind = y]
    BY <1>2 DEF Raise, TypeOK, FlagFields
  <1> HIDE DEF x, b, y
  <1>4. flags'.blind = y
    BY <1>3 DEF TypeOK, FlagFields
  <1>5. ~flags.blind /\ ~Unseen(h)
    BY <1>4 DEF y, b
  <1>6. rc.at = "idle" /\ pr.at = "idle"
    BY <1>5 DEF Unseen
  <1> QED
    BY <1>5, <1>6 DEF TypeOK, RcOK, PrOK

\* What the slots are then: those of the stored pods, and the ones asked for.
Asked(h) == IF call[h].op = "pod" THEN call[h].left ELSE {<<call[h].d, k>> : k \in 0 .. call[h].replicas - 1}

LEMMA SlotsSeen ==
    ASSUME TypeOK, TypeOK', NEW h \in Handlers, NEW unread \in SUBSET Volumes, Admit(h, unread),
           ~flags'.blind, call'[h].at = "put", NEW id \in Slots'
    PROVE  id \in Ranks \cup Asked(h) \/ (id[1] = call[h].d /\ call[h].op = "deploy" /\ id \in Slots)
  <1>1. ~Unseen(h) /\ rc.d = None /\ rc.owned = << >> /\ DOMAIN pr.owned = {}
    BY Sighted
  <1>2. /\ OnlyCall(h) /\ call'[h].d = call[h].d /\ call'[h].op = call[h].op /\ call[h].op \in {"deploy", "pod"}
        /\ call'[h].replicas = call[h].replicas /\ call'[h].left = call[h].left
        /\ UNCHANGED <<objects, controllers>>
    BY AdmitCall
  <1>3. UNCHANGED <<deployments, pods, rc, pr>>
    BY <1>2 DEF objects, controllers
  <1>4. \A g \in Handlers : g # h => call'[g].at # "put"
    BY <1>1, <1>2 DEF Unseen, At, OnlyCall
  <1>5. id \in PodNames /\ (id[1] = None => OwnSlot(id)') /\ (id[1] # None => Slot(id[1], id[2])')
    BY DEF Slots
  <1>6. CASE id[1] = None
    <2>1. pods[id] # None \/ (call[h].op = "pod" /\ id \in call[h].left)
      BY <1>1, <1>2, <1>3, <1>4, <1>5, <1>6 DEF OwnSlot, OwnCall
    <2> QED
      BY <1>5, <1>6, <2>1 DEF Ranks, Asked
  <1>7. CASE id[1] # None
    <2>0. PICK d, k : d = id[1] /\ k = id[2]
      OBVIOUS
    <2>1. d \in Names /\ k \in 0 .. MaxReplicas - 1 /\ id = <<d, k>> /\ Slot(d, k)'
      BY <1>5, <1>7, <2>0 DEF PodNames
    <2>2. Known(d)' = PodsOf(d) /\ Known(d) = PodsOf(d)
      BY <1>1, <1>3, <2>1, NoneAssumption DEF Known, PodsOf
    <2>3. CASE KnownSlot(d, k)'
      BY <1>5, <1>7, <2>0, <2>2, <2>3 DEF KnownSlot, Ranks
    <2>4. CASE DepSlot(d, k)'
      <3>1. DepSlot(d, k)
        BY <1>3, <2>4 DEF DepSlot, Want
      <3>2. CASE d # call[h].d
        <4>1. ~Short(d)
          BY <1>1, <2>1, <3>2 DEF Unseen
        <4>2. Want(deployments[d]) <= Cardinality(PodsOf(d))
          <5>1. Want(deployments[d]) \in Nat /\ Cardinality(PodsOf(d)) \in Nat
            BY <2>1, <3>1, SlotTypes, PodsOfFinite DEF DepSlot
          <5> QED
            BY <3>1, <4>1, <5>1 DEF Short, Promised, DepSlot
        <4>3. k < Cardinality(PodsOf(d))
          <5>1. Want(deployments[d]) \in Nat /\ Cardinality(PodsOf(d)) \in Nat /\ k \in Int
            BY <2>1, <3>1, SlotTypes, PodsOfFinite DEF DepSlot
          <5> QED
            BY <3>1, <4>2, <5>1 DEF DepSlot
        <4> QED
          BY <1>5, <1>7, <2>0, <4>3 DEF Ranks
      <3>3. CASE d = call[h].d
        <4>1. Call(call[h])
          BY DEF TypeOK
        <4>2. call[h].op = "deploy"
          BY <1>2, <2>1, <3>3, <4>1, NoneAssumption DEF Call
        <4>3. id \in Slots
          BY <1>5, <1>7, <2>0, <3>1 DEF Slots, Slot
        <4> QED
          BY <2>0, <3>3, <4>2, <4>3
      <3> QED
        BY <3>2, <3>3
    <2>5. CASE PassSlot(d, k)'
      BY <1>1, <1>3, <2>1, <2>5, NoneAssumption DEF PassSlot
    <2>6. ASSUME NEW g \in Handlers, CallSlot(g, d, k)'
          PROVE  id \in Asked(h)
      <3>1. g = h
        BY <1>4, <2>6 DEF CallSlot
      <3>2. call[h].op = "deploy" /\ call[h].d = d /\ k < call[h].replicas /\ call[h].replicas \in Int
        <4>1. Call(call[h])
          BY DEF TypeOK
        <4> QED
          BY <1>2, <2>6, <3>1, <4>1 DEF CallSlot, Call
      <3>3. k \in 0 .. call[h].replicas - 1
        BY <2>1, <3>2
      <3> QED
        BY <2>1, <3>2, <3>3 DEF Asked
    <2> QED
      BY <2>1, <2>3, <2>4, <2>5, <2>6 DEF Slot
  <1> QED
    BY <1>6, <1>7

\* No more names are asked for than the quota policy was told of.
LEMMA AskedAreFew ==
    ASSUME TypeOK, NEW h \in Handlers, call[h].op \in {"deploy", "pod"}
    PROVE  /\ IsFiniteSet(Asked(h)) /\ Cardinality(Asked(h)) \in Nat
           /\ Cardinality(Asked(h)) <= AtLeastOne(call[h].replicas) /\ AtLeastOne(call[h].replicas) \in Nat
  <1>1. Call(call[h])
    BY DEF TypeOK
  <1>2. CASE call[h].op = "pod"
    <2>0. PICK id \in PodNames : call[h].left = {id}
      BY <1>1, <1>2 DEF Call
    <2>1. call[h].replicas = 1 /\ Asked(h) = {id}
      BY <1>1, <1>2, <2>0 DEF Call, Asked
    <2>2. IsFiniteSet({id}) /\ Cardinality({id}) = 1
      BY FS_Singleton
    <2> QED
      BY <2>1, <2>2 DEF AtLeastOne
  <1>3. CASE call[h].op = "deploy"
    <2> DEFINE r == call[h].replicas
               I == 0 .. r - 1
               d == call[h].d
               f == [k \in I |-> <<d, k>>]
    <2>1. r \in Nat /\ Asked(h) = {<<d, k>> : k \in I}
      BY <1>1, <1>3, SizesAssumption DEF Call, Asked
    <2> HIDE DEF r, d
    <2>2. IsFiniteSet(I) /\ Cardinality(I) = r
      <3>1. r - 1 \in Int /\ r - 1 - 0 + 1 = r /\ (0 > r - 1 => r = 0)
        BY <2>1
      <3> QED
        BY <3>1, FS_Interval
    <2>3. f \in Surjection(I, Asked(h))
      <3>1. f \in [I -> Asked(h)] /\ \A t \in Asked(h) : \E s \in I : f[s] = t
        BY <2>1
      <3> HIDE DEF f, I
      <3> QED
        BY <3>1 DEF Surjection
    <2> HIDE DEF f, I
    <2>4. IsFiniteSet(Asked(h)) /\ Cardinality(Asked(h)) <= r
      BY <2>2, <2>3, FS_Surjection
    <2>5. Cardinality(Asked(h)) \in Nat
      BY <2>4, FS_CardinalityType
    <2>6. r <= AtLeastOne(r) /\ AtLeastOne(r) \in Nat
      BY <2>1 DEF AtLeastOne
    <2>7. Cardinality(Asked(h)) <= AtLeastOne(r)
      BY <2>1, <2>4, <2>5, <2>6
    <2> QED
      BY <2>4, <2>5, <2>6, <2>7 DEF r
  <1> QED
    BY <1>2, <1>3

LEMMA QuotaAdmit ==
    ASSUME TypeOK, TypeOK', QuotaInv, [Next]_vars, NEW h \in Handlers, NEW unread \in SUBSET Volumes, Admit(h, unread)
    PROVE  QuotaInv'
  <1>1. OnlyCall(h) /\ UNCHANGED <<objects, controllers>>
    BY AdmitCall
  <1>2. CASE call'[h].at # "put"
    <2>1. UNCHANGED <<deployments, pods, controllers>>
      BY <1>1 DEF objects
    <2>2. \A g \in Handlers : ~Asks(g)
      BY <1>1, <1>2 DEF OnlyCall, Asks
    <2> QED
      BY <2>1, <2>2, QuotaQuiet
  <1>3. CASE call'[h].at = "put"
    <2> SUFFICES ASSUME Quota > 0, ~flags'.blind
                 PROVE  Cardinality(Slots') <= Quota
      BY DEF QuotaInv
    <2>1. call[h].op \in {"deploy", "pod"} /\ QuotaPolicy(Cardinality(Stored), AtLeastOne(call[h].replicas))
      BY <1>3, AdmitCall DEF Admitted
    <2>2. Cardinality(Stored) + AtLeastOne(call[h].replicas) <= Quota
      BY <2>1, QuotaAssumption DEF QuotaPolicy
    <2>3. Cardinality(Slots) <= Quota
      BY <1>3, Sighted DEF QuotaInv
    <2>4. CASE Asked(h) \subseteq Slots /\ call[h].op = "deploy"
      <3>1. Slots' \subseteq Slots
        <4> SUFFICES ASSUME NEW id \in Slots' PROVE id \in Slots
          OBVIOUS
        <4>1. id \in Ranks => id \in Slots
          BY RanksHaveSlots
        <4> QED
          BY <1>3, <2>4, <4>1, SlotsSeen
      <3> QED
        BY <2>3, <3>1, SlotsAre, FS_Subset, QuotaAssumption
    <2>5. CASE call[h].op = "pod" \/ ~(Asked(h) \subseteq Slots)
      <3>1. Slots' \subseteq Ranks \cup Asked(h)
        <4> SUFFICES ASSUME NEW id \in Slots', id[1] = call[h].d, call[h].op = "deploy", id \in Slots
                     PROVE  id \in Asked(h)
          BY <1>3, SlotsSeen
        <4>1. PICK a \in Asked(h) : a \notin Slots
          BY <2>5
        <4>2. Call(call[h])
          BY DEF TypeOK
        <4> DEFINE d == call[h].d
                   r == call[h].replicas
        <4>3. d \in Names /\ d # None /\ r \in 0 .. MaxReplicas
          BY <4>2, NoneAssumption DEF Call
        <4>4. PICK m \in 0 .. r - 1 : a = <<d, m>>
          BY <4>1 DEF Asked
        <4> HIDE DEF d, r
        <4>5. PICK k \in 0 .. MaxReplicas - 1 : id = <<d, k>>
          BY <4>3 DEF Slots, PodNames, d
        <4>6. a \in PodNames
          BY <4>3, <4>4, SizesAssumption DEF PodNames
        <4>7. ~Slot(d, m) /\ Slot(d, k)
          BY <4>1, <4>3, <4>4, <4>5, <4>6 DEF Slots
        <4>8. k < m
          BY <4>3, <4>4, <4>5, <4>7, SlotsDown, SizesAssumption
        <4>9. k \in 0 .. r - 1
          BY <4>3, <4>4, <4>5, <4>8, SizesAssumption
        <4> QED
          BY <4>5, <4>9 DEF Asked, d, r
      <3>2. IsFiniteSet(Ranks) /\ Cardinality(Ranks) = Cardinality(Stored) /\ Cardinality(Stored) \in Nat
        BY StoredIsRanked
      <3>3. /\ IsFiniteSet(Asked(h)) /\ Cardinality(Asked(h)) <= AtLeastOne(call[h].replicas)
            /\ Cardinality(Asked(h)) \in Nat /\ AtLeastOne(call[h].replicas) \in Nat
        BY <2>1, AskedAreFew
      <3> DEFINE U == Ranks \cup Asked(h)
                 I == Ranks \cap Asked(h)
      <3>4. IsFiniteSet(U) /\ Cardinality(U) = Cardinality(Ranks) + Cardinality(Asked(h)) - Cardinality(I)
        BY <3>2, <3>3, FS_Union
      <3>5. IsFiniteSet(I)
        BY <3>2, FS_Subset
      <3>6. Cardinality(I) \in Nat /\ Cardinality(U) \in Nat
        BY <3>4, <3>5, FS_CardinalityType
      <3>7. Cardinality(Slots') <= Cardinality(U)
        BY <3>1, <3>4, FS_Subset
      <3> HIDE DEF U, I
      <3>8. Cardinality(U) <= Quota
        BY <2>2, <3>2, <3>3, <3>4, <3>6, QuotaAssumption
      <3> QED
        BY <3>6, <3>7, <3>8, SlotsAre, QuotaAssumption
    <2> QED
      BY <2>1, <2>4, <2>5
  <1> QED
    BY <1>2, <1>3

\* A pass works on a deployment's copy, and puts back copies of pods it has listed.
LEMMA QuotaPasses ==
    ASSUME TypeOK, TypeOK', QuotaInv, [Next]_vars, PassStep
    PROVE  QuotaInv'
  <1> DEFINE Fewer == \A d \in Names, k \in 0 .. MaxReplicas - 1 : Slot(d, k)' => Slot(d, k)
             OwnKept == \A id \in PodNames : id[1] = None => (OwnSlot(id)' => OwnSlot(id))
             Goal == OwnKept /\ Fewer
             Puts == \A id \in PodNames : pods'[id] # None => pods[id] # None \/ (rc.d # None /\ id \in Known(rc.d))
             Lists == \A id \in DOMAIN rc'.owned : id \in Known(rc.d)
  <1>0. \A d \in Names : d # None
    BY NoneAssumption
  <1>1. ASSUME \A id \in PodNames : id[1] = None => pods'[id] = pods[id], UNCHANGED <<pr, call>>
        PROVE  /\ OwnKept
               /\ \A d \in Names, k \in 0 .. MaxReplicas - 1, h \in Handlers : CallSlot(h, d, k)' => CallSlot(h, d, k)
    BY <1>1 DEF OwnSlot, OwnCall, CallSlot
  <1>2. ASSUME NEW d \in Names, NEW k \in 0 .. MaxReplicas - 1, UNCHANGED deployments
        PROVE  DepSlot(d, k)' => DepSlot(d, k)
    BY <1>2 DEF DepSlot, Want
  <1>3. ASSUME NEW e \in Names, Fetch(e) PROVE Goal
    <2>1. /\ rc'.d = e /\ rc'.copy = deployments[e] /\ rc'.owned = << >>
          /\ UNCHANGED <<objects, call, pr>> /\ rc.at = "idle" /\ deployments[e] # None
      BY <1>3, FetchPass
    <2>2. UNCHANGED <<deployments, pods>>
      BY <2>1 DEF objects
    <2>3. ASSUME NEW d \in Names, NEW k \in 0 .. MaxReplicas - 1, Slot(d, k)' PROVE Slot(d, k)
      <3>1. Known(d)' \subseteq Known(d)
        BY <2>1, <2>2, NoPassIs DEF Known, PodsOf
      <3>2. PassSlot(d, k)' => DepSlot(d, k)
        BY <2>1 DEF PassSlot, DepSlot, Want
      <3> QED
        BY <1>1, <1>2, <2>1, <2>2, <2>3, <3>1, <3>2, KnownKept DEF Slot
    <2> QED
      BY <1>1, <2>1, <2>2, <2>3
  <1>4. ASSUME Size PROVE Goal
    <2>0. PICK e : e = rc.d
      OBVIOUS
    <2>1. SamePass /\ rc.at = "size" /\ UNCHANGED <<deployments, call, pr>>
      BY <1>4, SizePass
    <2>2. /\ \/ PodsOf(e)' \subseteq PodsOf(e)
             \/ Cardinality(PodsOf(e)') <= Want(rc.copy) /\ Cardinality(PodsOf(e)') \in Nat
          /\ \A d \in Names \ {e} : PodsOf(d)' = PodsOf(d)
          /\ \A id \in PodNames : id[1] = None => pods'[id] = pods[id]
      BY <1>4, <2>0, SizeCount
    <2>3. rc'.d = rc.d /\ rc'.copy = rc.copy /\ rc'.owned = rc.owned /\ rc.owned = << >> /\ e \in Names
      BY <2>0, <2>1 DEF SamePass, TypeOK, RcOK
    <2>4. ASSUME NEW d \in Names, NEW k \in 0 .. MaxReplicas - 1, Slot(d, k)' PROVE Slot(d, k)
      <3>1. PassSlot(d, k)' => PassSlot(d, k)
        BY <2>3 DEF PassSlot, Want
      <3>2. Known(d)' = PodsOf(d)' /\ Known(d) = PodsOf(d)
        BY <2>3, NoPassIs DEF Known
      <3>3. CASE d = e /\ KnownSlot(d, k)'
        <4>1. CASE PodsOf(e)' \subseteq PodsOf(e)
          BY <3>2, <3>3, <4>1, KnownKept DEF Slot
        <4>2. CASE Cardinality(PodsOf(e)') <= Want(rc.copy) /\ Cardinality(PodsOf(e)') \in Nat
          <5>1. Want(rc.copy) \in Nat /\ k \in Int
            BY <2>0, <2>3, SlotTypes
          <5>2. k < Cardinality(PodsOf(e)')
            BY <3>2, <3>3 DEF KnownSlot
          <5>3. k < Want(rc.copy)
            BY <4>2, <5>1, <5>2
          <5> QED
            BY <2>0, <3>3, <5>3 DEF PassSlot, Slot
        <4> QED
          BY <2>2, <4>1, <4>2
      <3>4. CASE d # e /\ KnownSlot(d, k)'
        <4>1. Known(d)' \subseteq Known(d)
          BY <2>2, <3>2, <3>4
        <4> QED
          BY <3>4, <4>1, KnownKept DEF Slot
      <3> QED
        BY <1>1, <1>2, <2>1, <2>2, <2>4, <3>1, <3>3, <3>4 DEF Slot
    <2>5. OwnKept
      BY <1>1, <2>1, <2>2
    <2> QED
      BY <2>4, <2>5
  <1>5. ASSUME UNCHANGED <<deployments, call, pr>>, rc'.d = rc.d, rc'.copy = rc.copy, Puts, Lists
        PROVE  Goal
    <2>1. ASSUME NEW id \in PodNames, id[1] = None, pods'[id] # None PROVE pods[id] # None
      <3>1. rc.d # None => id \notin Known(rc.d)
        BY <2>1 DEF TypeOK, RcOK, Known, PodsOf
      <3> QED
        BY <1>5, <2>1, <3>1
    <2>2. ASSUME NEW d \in Names, NEW k \in 0 .. MaxReplicas - 1, Slot(d, k)' PROVE Slot(d, k)
      <3>1. Known(d)' \subseteq Known(d)
        <4> SUFFICES ASSUME NEW id \in Known(d)' PROVE id \in Known(d)
          OBVIOUS
        <4>1. CASE id \in PodsOf(d)'
          <5>1. id \in PodNames /\ id[1] = d /\ pods'[id] # None
            BY <4>1 DEF PodsOf
          <5>2. CASE pods[id] # None
            BY <5>1, <5>2 DEF Known, PodsOf
          <5>3. CASE rc.d # None /\ id \in Known(rc.d)
            <6>1. rc.d = d
              BY <5>1, <5>3 DEF TypeOK, RcOK, Known, PodsOf
            <6> QED
              BY <5>3, <6>1
          <5> QED
            BY <1>5, <5>1, <5>2, <5>3
        <4>2. CASE rc'.d = d /\ id \in DOMAIN rc'.owned
          BY <1>5, <4>2
        <4> QED
          BY <4>1, <4>2 DEF Known
      <3>2. PassSlot(d, k)' => PassSlot(d, k)
        BY <1>5 DEF PassSlot, Want
      <3>3. KnownSlot(d, k)' => KnownSlot(d, k)
        BY <3>1, KnownKept
      <3>4. \A h \in Handlers : CallSlot(h, d, k)' => CallSlot(h, d, k)
        BY <1>5 DEF CallSlot
      <3> QED
        BY <1>2, <1>5, <2>2, <3>2, <3>3, <3>4 DEF Slot
    <2>3. OwnKept
      BY <1>5, <2>1 DEF OwnSlot, OwnCall
    <2> QED
      BY <2>2, <2>3
  <1>6. ASSUME ListOwned PROVE Goal
    <2>1. /\ rc'.d = rc.d /\ rc'.copy = rc.copy /\ DOMAIN rc'.owned = PodsOf(rc.d)
          /\ UNCHANGED <<objects, call, pr>>
      BY <1>6, ListOwnedPass
    <2>2. UNCHANGED <<deployments, pods, call, pr>> /\ Lists
      BY <2>1 DEF objects, Known
    <2>3. Puts
      BY <2>2
    <2> HIDE DEF Puts, Lists, Goal
    <2> QED
      BY <1>5, <2>1, <2>2, <2>3
  <1>7. ASSUME NEW n \in Nodes, Place(n) \/ PlaceFails(n) PROVE Goal
    <2>1. PICK id \in DOMAIN rc.owned :
              /\ rc.at = "place" /\ rc'.d = rc.d /\ rc'.copy = rc.copy /\ DOMAIN rc'.owned = DOMAIN rc.owned
              /\ UNCHANGED <<deployments, call, pr>>
              /\ Place(n) => pods' = [pods EXCEPT ![id] = [rc.owned[id] EXCEPT !.node = n]]
              /\ PlaceFails(n) => UNCHANGED pods
      BY <1>7, PlacePass
    <2>2. rc.d \in Names /\ \A o \in DOMAIN rc.owned : o \in Known(rc.d)
      BY <2>1 DEF TypeOK, RcOK, Known
    <2>3. \A o \in PodNames : pods'[o] # None => pods[o] # None \/ o \in Known(rc.d)
      BY <1>7, <2>1, <2>2 DEF TypeOK
    <2>4. Puts /\ Lists
      BY <1>0, <2>1, <2>2, <2>3
    <2> HIDE DEF Puts, Lists, Goal
    <2> QED
      BY <1>5, <2>1, <2>4
  <1>8. ASSUME PlaceEnds PROVE Goal
    <2>1. /\ SamePass /\ rc.at = "place" /\ UNCHANGED <<deployments, call, pr>>
          /\ \A id \in PodNames : pods'[id] = pods[id] \/ id \in DOMAIN rc.owned
      BY <1>8, PlaceEndsPass
    <2>2. rc.d \in Names /\ \A o \in DOMAIN rc.owned : o \in Known(rc.d)
      BY <2>1 DEF TypeOK, RcOK, Known
    <2>3. rc'.d = rc.d /\ rc'.copy = rc.copy /\ rc'.owned = rc.owned
      BY <2>1 DEF SamePass
    <2>4. Puts
      BY <1>0, <2>1, <2>2
    <2>5. Lists
      BY <2>2, <2>3
    <2> HIDE DEF Puts, Lists, Goal
    <2> QED
      BY <1>5, <2>1, <2>3, <2>4, <2>5
  <1>9. ASSUME ClaimGet \/ ClaimPut \/ ClaimFails PROVE Goal
    <2>1. SamePass /\ rc.at \in {"claim", "claiming"} /\ UNCHANGED <<deployments, pods, call, pr>>
      BY <1>9, ClaimPass
    <2>2. rc'.d = rc.d /\ rc'.copy = rc.copy /\ rc'.owned = rc.owned /\ rc.d \in Names
      BY <2>1 DEF SamePass, TypeOK, RcOK
    <2>3. Puts
      BY <2>1
    <2>4. Lists
      BY <2>2 DEF Known
    <2> HIDE DEF Puts, Lists, Goal
    <2> QED
      BY <1>5, <2>1, <2>2, <2>3, <2>4
  <1>10. ASSUME Refetch \/ PutStatus \/ RcStops PROVE Goal
    <2>1. /\ rc.at # "idle" /\ UNCHANGED <<pods, call, pr>>
          /\ Refetches \/ PutsStatus \/ GivesUp
      BY <1>10, StatusPass
    <2>2. rc.d \in Names /\ rc.copy \in Deployment
      BY <2>1 DEF TypeOK, RcOK
    <2>3. DOMAIN rc'.owned = {}
      BY <2>1, NoPassIs DEF Refetches, PutsStatus, GivesUp
    <2>4. ASSUME NEW d \in Names, NEW k \in 0 .. MaxReplicas - 1, Slot(d, k)' PROVE Slot(d, k)
      <3>1. KnownSlot(d, k)' => KnownSlot(d, k)
        <4>1. Known(d)' \subseteq Known(d)
          BY <2>1, <2>3 DEF Known, PodsOf
        <4> QED
          BY <4>1, KnownKept
      <3>2. PassSlot(d, k)' => Slot(d, k)
        <4>1. CASE Refetches
          BY <2>2, <4>1 DEF Refetches, PassSlot, DepSlot, Want, Slot
        <4>2. CASE PutsStatus \/ GivesUp
          BY <1>0, <4>2, NoPassIs DEF PutsStatus, GivesUp, PassSlot
        <4> QED
          BY <2>1, <4>1, <4>2
      <3>3. DepSlot(d, k)' => Slot(d, k)
        <4>1. CASE Refetches \/ GivesUp
          BY <1>2, <4>1 DEF Refetches, GivesUp, Slot
        <4>2. CASE PutsStatus /\ d # rc.d
          BY <2>2, <4>2 DEF PutsStatus, DepSlot, Want, Slot, TypeOK
        <4>3. CASE PutsStatus /\ d = rc.d
          <5>1. deployments'[d] = rc.copy
            BY <2>2, <4>3, DeploymentsChange DEF PutsStatus
          <5>2. DepSlot(d, k)' => PassSlot(d, k)
            BY <4>3, <5>1 DEF DepSlot, PassSlot, Want
          <5> QED
            BY <5>2 DEF Slot
        <4> QED
          BY <2>1, <4>1, <4>2, <4>3
      <3>4. \A h \in Handlers : CallSlot(h, d, k)' => CallSlot(h, d, k)
        BY <2>1 DEF CallSlot
      <3> QED
        BY <2>4, <3>1, <3>2, <3>3, <3>4 DEF Slot
    <2>5. OwnKept
      BY <1>1, <2>1
    <2> QED
      BY <2>4, <2>5
  <1>11. Goal
    <2> HIDE DEF Goal
    <2> QED
      BY <1>3, <1>4, <1>6, <1>7, <1>8, <1>9, <1>10 DEF PassStep
  <1>12. ~flags'.blind => ~flags.blind
    BY SightKept
  <1> QED
    BY <1>11, <1>12, QuotaKept

\* The pod controller puts back the pod it works on.
LEMMA QuotaPods ==
    ASSUME TypeOK, TypeOK', QuotaInv, [Next]_vars, PodStep
    PROVE  QuotaInv'
  <1>0. /\ UNCHANGED <<deployments, call, rc>> /\ PrOK'
        /\ \A id \in PodNames : id[1] # None => pods'[id] = pods[id]
        /\ \/ PrFetches
           \/ \E id \in PodNames, n \in Nodes : id[1] = None /\ PrPlaces(id, n)
           \/ \E id \in PodNames : id[1] = None /\ PrWaits(id)
           \/ PrGivesUp
    BY PodPass DEF PodStep
  <1>1. UNCHANGED <<deployments, call, rc>>
    BY <1>0
  <1>2. ASSUME NEW id \in PodNames, id[1] = None PROVE OwnSlot(id)' => OwnSlot(id)
    <2>1. CASE PrFetches
      BY <1>1, <2>1 DEF PrFetches, OwnSlot, OwnCall
    <2>2. ASSUME NEW i \in PodNames, PrGoesOn(i), \A o \in PodNames \ {i} : pods'[o] = pods[o]
          PROVE  OwnSlot(id)' => OwnSlot(id)
      <3>1. i \in DOMAIN pr.owned /\ DOMAIN pr'.owned \subseteq DOMAIN pr.owned
        BY <2>2 DEF PrGoesOn
      <3> QED
        BY <1>1, <2>2, <3>1 DEF OwnSlot, OwnCall
    <2>3. ASSUME NEW i \in PodNames, NEW n \in Nodes, PrPlaces(i, n) PROVE OwnSlot(id)' => OwnSlot(id)
      BY <2>2, <2>3, PodsChange DEF PrPlaces
    <2>4. ASSUME NEW i \in PodNames, PrWaits(i) PROVE OwnSlot(id)' => OwnSlot(id)
      <3>1. pr.owned[i] \in Pod
        BY <2>4 DEF PrWaits, PrGoesOn, TypeOK, PrOK
      <3>2. \A o \in PodNames \ {i} : pods'[o] = pods[o]
        BY <2>4, <3>1, PodsChange DEF PrWaits
      <3> QED
        BY <2>2, <2>4, <3>2 DEF PrWaits
    <2>5. CASE PrGivesUp
      BY <1>0, <1>1, <2>5 DEF PrGivesUp, PrOK, OwnSlot, OwnCall
    <2> QED
      BY <1>0, <2>1, <2>3, <2>4, <2>5
  <1>4. ASSUME NEW d \in Names, NEW k \in 0 .. MaxReplicas - 1, Slot(d, k)' PROVE Slot(d, k)
    <2>1. PodsOf(d)' = PodsOf(d)
      BY <1>0, NoneAssumption DEF PodsOf
    <2>2. Known(d)' \subseteq Known(d)
      BY <1>1, <2>1 DEF Known
    <2>3. KnownSlot(d, k)' => KnownSlot(d, k)
      BY <2>2, KnownKept
    <2>4. PassSlot(d, k)' => PassSlot(d, k)
      BY <1>1 DEF PassSlot, Want
    <2>5. DepSlot(d, k)' => DepSlot(d, k)
      BY <1>1 DEF DepSlot, Want
    <2>6. \A h \in Handlers : CallSlot(h, d, k)' => CallSlot(h, d, k)
      BY <1>1 DEF CallSlot
    <2> QED
      BY <1>4, <2>3, <2>4, <2>5, <2>6 DEF Slot
  <1>5. ~flags'.blind => ~flags.blind
    BY SightKept
  <1> QED
    BY <1>2, <1>4, <1>5, QuotaKept

\* What Git asks for is seen unless it is less than what there is.
LEMMA QuotaSync ==
    ASSUME TypeOK, TypeOK', QuotaInv, [Next]_vars, NEW e \in DOMAIN Manifests, GitSync(e)
    PROVE  QuotaInv'
  <1> DEFINE x == Outdates(e, Manifests[e].t, FALSE)
             u == Manifests[e].t.vols
             asked == Promised(e)
             y == flags.blind \/ asked < Want(Manifests[e]) \/ rc.d = e
  <1>1. flags' = [flags EXCEPT !.stale = @ \cup x, !.blind = y, !.unowned = @ \cup u]
    BY DEF GitSync, Raise, TypeOK, FlagFields
  <1> HIDE DEF x, u, asked, y
  <1>2. flags'.blind = y
    BY <1>1 DEF TypeOK, FlagFields
  <1>3. /\ e \in Names /\ deployments'[e] = Manifests[e] /\ Manifests[e] # None
        /\ \A d \in Names \ {e} : deployments'[d] = deployments[d]
        /\ UNCHANGED <<pods, call, controllers>>
    BY SyncStep
  <1>4. UNCHANGED <<pods, call, rc, pr>>
    BY <1>3 DEF controllers
  <1>5. asked \in Nat /\ Want(Manifests[e]) \in Nat
    <2>1. \A dep \in Deployment : Want(dep) \in Nat
      BY SizesAssumption DEF Deployment, Want
    <2>2. Manifests[e] \in Deployment
      BY ManifestsAssumption
    <2> QED
      BY <1>3, <2>1, <2>2, SlotTypes DEF asked, Promised
  <1>6. ASSUME ~flags'.blind, NEW d \in Names, NEW k \in 0 .. MaxReplicas - 1, Slot(d, k)' PROVE Slot(d, k)
    <2>1. ~(asked < Want(Manifests[e]))
      BY <1>2, <1>6 DEF y
    <2>2. CASE DepSlot(d, k)'
      <3>1. CASE d = e
        <4>1. k < Want(Manifests[e])
          BY <1>3, <2>2, <3>1 DEF DepSlot, Want
        <4>2. k < asked /\ k >= 0
          BY <1>5, <2>1, <4>1
        <4>3. DepSlot(d, k)
          BY <3>1, <4>2 DEF DepSlot, asked, Promised
        <4> QED
          BY <4>3 DEF Slot
      <3>2. CASE d # e
        BY <1>3, <2>2, <3>2 DEF DepSlot, Want, Slot
      <3> QED
        BY <3>1, <3>2
    <2>3. CASE KnownSlot(d, k)' \/ PassSlot(d, k)'
      BY <1>4, <2>3, KnownShrinks DEF Slot
    <2>4. \A h \in Handlers : CallSlot(h, d, k)' => CallSlot(h, d, k)
      BY <1>4 DEF CallSlot
    <2> QED
      BY <1>6, <2>2, <2>3, <2>4 DEF Slot
  <1>7. ASSUME NEW id \in PodNames PROVE OwnSlot(id)' => OwnSlot(id)
    BY <1>4 DEF OwnSlot, OwnCall
  <1>8. ~flags'.blind => ~flags.blind
    BY SightKept
  <1> QED
    BY <1>6, <1>7, <1>8, QuotaKept

LEMMA QuotaStep ==
    ASSUME TypeOK, TypeOK', QuotaInv, [Next]_vars
    PROVE  QuotaInv'
  <1>1. ASSUME NEW h \in Handlers, HandlerStep(h) PROVE QuotaInv'
    <2>1. ASSUME NEW unread \in SUBSET Volumes, Admit(h, unread) PROVE QuotaInv'
      BY <2>1, QuotaAdmit
    <2>2. CASE PutDeployment(h) \/ PutPod(h)
      BY <2>2, QuotaPuts
    <2>3. CASE Begins(h)
      <3>1. OnlyCall(h) /\ call'[h].at # "put" /\ UNCHANGED <<objects, controllers>>
        BY <2>3, BeginsCall
      <3> QED
        BY <3>1, QuotaQuiet DEF OnlyCall, Asks, objects
    <2>8. ASSUME NEW id \in PodNames, UpdatePodStatus(h, id) PROVE QuotaInv'
      <3>1. OnlyCall(h) /\ call'[h].at # "put" /\ UNCHANGED <<objects, controllers>>
        BY <2>8, ReportArrives
      <3> QED
        BY <3>1, QuotaQuiet DEF OnlyCall, Asks, objects
    <2>9. CASE ReportPut(h)
      <3>1. OnlyCall(h) /\ call'[h].at # "put"
        BY <2>9, ReportPutCall
      <3>2. /\ \A id \in PodNames : id \notin Undone(h) => pods'[id] = pods[id]
            /\ UNCHANGED <<deployments, controllers>>
        BY <2>9, ReportPutStep
      <3>3. ~flags'.blind => \A id \in Undone(h) : pods[id] # None
        BY <2>9, ReportSight
      <3>4. ~flags'.blind => \A id \in PodNames : pods'[id] # None => pods[id] # None
        BY <3>2, <3>3
      <3> QED
        BY <3>1, <3>2, <3>4, QuotaQuiet DEF OnlyCall, Asks
    <2>10. CASE Remove(h)
      <3>1. OnlyCall(h) /\ call'[h].at # "put"
        BY <2>10, RemoveCall
      <3>2. /\ \A d \in Names : deployments'[d] = deployments[d] \/ deployments'[d] = None
            /\ UNCHANGED <<pods, controllers>>
        BY <2>10, RemoveStep
      <3> QED
        BY <3>1, <3>2, QuotaQuiet DEF OnlyCall, Asks
    <2>11. ASSUME NEW d \in Names, NEW r \in 1 .. MaxReplicas, Autoscale(h, d, r) PROVE QuotaInv'
      BY <2>11, QuotaAutoscale
    <2>4. CASE VolumeStep(h)
      <3>1. OnlyCall(h) /\ call'[h].at # "put"
        BY <2>4, VolumeStepCall DEF VolumeStep
      <3>2. UNCHANGED <<deployments, pods, controllers>>
        BY <2>4, VolumeStepEffect
      <3> QED
        BY <3>1, <3>2, QuotaQuiet DEF OnlyCall, Asks
    <2>5. CASE RestartList(h)
      <3>1. OnlyCall(h) /\ call'[h].at # "put"
        BY <2>5, RestartListCall
      <3>2. UNCHANGED <<deployments, pods, controllers>>
        BY <2>5 DEF RestartList, objects
      <3> QED
        BY <3>1, <3>2, QuotaQuiet DEF OnlyCall, Asks
    <2>6. ASSUME NEW id \in PodNames, RestartDelete(h, id) PROVE QuotaInv'
      <3>1. OnlyCall(h) /\ call'[h].at # "put"
        BY <2>6, RestartDeleteCall
      <3>2. /\ pods'[id] = None /\ \A o \in PodNames \ {id} : pods'[o] = pods[o]
            /\ UNCHANGED <<deployments, controllers>>
        BY <2>6, RestartDeleteStep
      <3> QED
        BY <3>1, <3>2, QuotaQuiet DEF OnlyCall, Asks
    <2>7. CASE CallFails(h)
      <3>1. OnlyCall(h) /\ call'[h].at # "put"
        BY <2>7, CallFailsCall
      <3>2. UNCHANGED <<deployments, pods, controllers>>
        BY <2>7 DEF CallFails, objects
      <3> QED
        BY <3>1, <3>2, QuotaQuiet DEF OnlyCall, Asks
    <2> QED
      BY <1>1, <2>1, <2>2, <2>3, <2>4, <2>5, <2>6, <2>7, <2>8, <2>9, <2>10, <2>11
         DEF HandlerStep, Restarts, Reports, Autoscales, Admits
  <1>2. ASSUME NEW id \in PodNames, DeletePod(id) \/ MountVolumes(id) PROVE QuotaInv'
    <2>1. CASE DeletePod(id)
      <3>1. /\ pods'[id] = None /\ \A o \in PodNames \ {id} : pods'[o] = pods[o]
            /\ UNCHANGED <<deployments, call, controllers>>
        BY <2>1, DeletePodStep
      <3> QED
        BY <3>1, QuotaQuiet DEF Asks
    <2>2. CASE MountVolumes(id)
      <3>1. UNCHANGED <<deployments, pods, call, controllers>>
        BY <2>2 DEF MountVolumes, objects
      <3> QED
        BY <3>1, QuotaQuiet DEF Asks
    <2> QED
      BY <1>2, <2>1, <2>2
  <1>3. CASE UNCHANGED vars
    <2>1. UNCHANGED <<deployments, pods, call, controllers>>
      BY <1>3 DEF vars, controllers
    <2> QED
      BY <2>1, QuotaQuiet DEF Asks
  <1> QED
    BY <1>1, <1>2, <1>3, Steps, QuotaPasses, QuotaPods, QuotaSync

-----------------------------------------------------------------------------
(* Where the data of a volume is.                                          *)

\* Of the pods of a deployment, the first mounts its volumes.
MountsAt(id, t) == id[1] # None /\ t.vols # {} => id[2] = 0
FirstMounts ==
    /\ \A id \in PodNames : pods[id] # None => MountsAt(id, pods[id].t)
    /\ \A id \in DOMAIN rc.owned : MountsAt(id, rc.owned[id].t)
    /\ \A h \in Handlers : call[h].at = "report" => \A id \in call[h].left : MountsAt(id, call[h].t)

\* A pod of its own is held to no claim.
OwnIsFlagged ==
    /\ \A id \in PodNames : id[1] = None /\ pods[id] # None => pods[id].t.vols \subseteq flags.moved
    /\ \A id \in DOMAIN pr.owned : pr.owned[id].t.vols \subseteq flags.moved

\* The pods of the deployment in hand are those listed.
ListAgrees ==
    rc.at = "place" => \A id \in PodNames : id[1] = rc.d /\ pods[id] # None =>
        (id \in DOMAIN rc.owned /\ pods[id] = rc.owned[id]) \/ pods[id].t.vols \subseteq flags.moved

\* Only the pass at hand claims.
Claims == rc.at = "claiming" => ~Claimed(NextVolume)

\* The data is where every pod that mounts the volume is, and is kept there by a claim or a pod.
Stays(v, p) == v \in p.t.vols => \A m \in Nodes : <<v, m>> \in data => p.node = m
Holds(v, id, m) == pods[id] # None /\ v \in pods[id].t.vols /\ pods[id].node = m
VolumeAt(v) ==
    /\ \A id \in PodNames : pods[id] # None => Stays(v, pods[id])
    /\ rc.at = "place" => \A id \in DOMAIN rc.owned : Stays(v, rc.owned[id])
    /\ \A m \in Nodes : <<v, m>> \in data =>
          (Claimed(v) /\ volumes[v].node = m) \/ \E id \in PodNames : Holds(v, id, m)
VolumesFollowed == \A v \in Volumes : v \notin flags.moved \cup flags.unowned => VolumeAt(v)

SplitInv == FirstMounts /\ OwnIsFlagged /\ ListAgrees /\ Claims /\ VolumesFollowed

\* What was explained stays so.
LEMMA MovedGrows ==
    ASSUME TypeOK, [Next]_vars
    PROVE  flags.moved \subseteq flags'.moved /\ flags.unowned \subseteq flags'.unowned
  <1> DEFINE Goal == flags.moved \subseteq flags'.moved /\ flags.unowned \subseteq flags'.unowned
  <1>1. ASSUME NEW f \in FlagFields \ {"blind"}, NEW x, flags' = Raise(f, x) PROVE Goal
    BY <1>1 DEF TypeOK, FlagFields, Raise
  <1>2. ASSUME NEW x, NEW y, NEW u, flags' = [flags EXCEPT !.stale = @ \cup x, !.blind = y, !.unowned = @ \cup u] PROVE Goal
    BY <1>2 DEF TypeOK, FlagFields
  <1>3. CASE PassStep
    <2>1. CASE Size
      <3> DEFINE d == rc.d
                 want == Want(rc.copy)
                 have == Cardinality(PodsOf(d))
                 pin == PinnedTo(rc.copy.t.vols)
                 old == {id \in PodsOf(d) : Cardinality({o \in PodsOf(d) : o[2] > id[2]}) < have - want}
                 x == IF have < want THEN Scattered(rc.copy.t.vols) ELSE UNION {Unclaimed(id) : id \in old}
                 y == IF have < want /\ pin # None THEN flags.crowded \cup {pin} ELSE flags.crowded
      <3>1. flags' = [flags EXCEPT !.crowded = y, !.moved = @ \cup x]
        BY <2>1 DEF Size
      <3> HIDE DEF x, y
      <3> QED
        BY <3>1 DEF TypeOK, FlagFields
    <2>2. CASE Refetch \/ PutStatus \/ RcStops
      BY <1>1, <2>2, StatusPass DEF Refetches, PutsStatus, GivesUp, FlagFields
    <2>3. ASSUME NEW n \in Nodes, Place(n) \/ PlaceFails(n) PROVE Goal
      BY <1>1, <2>3 DEF Place, PlaceFails, FlagFields
    <2>4. CASE ClaimGet \/ ClaimPut \/ ClaimFails
      BY <1>1, <2>4 DEF ClaimGet, ClaimPut, ClaimFails, FlagFields
    <2> QED
      BY <1>3, <2>1, <2>2, <2>3, <2>4 DEF PassStep, Fetch, ListOwned, PlaceEnds
  <1>4. CASE PodStep
    BY <1>1, <1>4, PodFlags DEF FlagFields
  <1>5. ASSUME NEW id \in PodNames, DeletePod(id) \/ MountVolumes(id) PROVE Goal
    BY <1>1, <1>5 DEF DeletePod, MountVolumes, FlagFields
  <1>6. ASSUME NEW d \in DOMAIN Manifests, GitSync(d) PROVE Goal
    <2> DEFINE x == Outdates(d, Manifests[d].t, FALSE)
               u == Manifests[d].t.vols
               y == flags.blind \/ Promised(d) < Want(Manifests[d]) \/ rc.d = d
    <2>1. flags' = [flags EXCEPT !.stale = @ \cup x, !.blind = y, !.unowned = @ \cup u]
      BY <1>6 DEF GitSync, Raise, TypeOK, FlagFields
    <2> HIDE DEF x, u, y
    <2> QED
      BY <1>2, <2>1
  <1>7. CASE UNCHANGED vars
    BY <1>7 DEF vars
  <1>8. ASSUME NEW h \in Handlers, HandlerStep(h) PROVE Goal
    <2>1. CASE Begins(h)
      BY <2>1, BeginsCall
    <2>2. CASE VolumeStep(h)
      BY <1>1, <2>2 DEF VolumeStep, GetsVolume, GetVolume, Provision, PutVolume, Deprovision, UnrecordVolume, FlagFields
    <2>3. ASSUME NEW unread \in SUBSET Volumes, Admit(h, unread) PROVE Goal
      <3>1. CASE flags' = flags
        BY <3>1
      <3>2. CASE flags' = [Raise("unowned", Unowned(h, unread)) EXCEPT !.blind = @ \/ Unseen(h)]
        <4> DEFINE x == Unowned(h, unread)
                   y == flags.blind \/ Unseen(h)
        <4>1. flags' = [flags EXCEPT !.unowned = @ \cup x, !.blind = y]
          BY <3>2 DEF Raise, TypeOK, FlagFields
        <4> HIDE DEF x, y
        <4> QED
          BY <4>1 DEF TypeOK, FlagFields
      <3> QED
        BY <2>3, <3>1, <3>2, AdmitCall
    <2>4. CASE PutDeployment(h) \/ RestartList(h)
      BY <1>1, <2>4 DEF PutDeployment, RestartList, FlagFields
    <2>5. ASSUME NEW id \in PodNames, RestartDelete(h, id) PROVE Goal
      BY <2>5 DEF RestartDelete, Raise, TypeOK, FlagFields
    <2>6. CASE CallFails(h)
      BY <2>6 DEF CallFails, TypeOK, FlagFields
    <2>7. CASE PutPod(h)
      BY <2>7, PutPodStep DEF Flagged
    <2>8. CASE ReportPut(h)
      BY <2>8, ReportFlags DEF Flagged
    <2>9. CASE Remove(h)
      BY <2>9, RemoveStep
    <2>10. ASSUME NEW id \in PodNames, UpdatePodStatus(h, id) PROVE Goal
      BY <2>10, ReportArrives
    <2>11. ASSUME NEW d \in Names, NEW r \in 1 .. MaxReplicas, Autoscale(h, d, r) PROVE Goal
      <3> DEFINE y == flags.blind \/ r > Promised(d)
      <3>1. flags' = [flags EXCEPT !.blind = y]
        BY <2>11 DEF Autoscale
      <3> HIDE DEF y
      <3> QED
        BY <3>1 DEF TypeOK, FlagFields
    <2> HIDE DEF Goal
    <2> QED
      BY <1>8, <2>1, <2>2, <2>3, <2>4, <2>5, <2>6, <2>7, <2>8, <2>9, <2>10, <2>11
         DEF HandlerStep, Restarts, Reports, Autoscales, Admits
  <1> QED
    BY <1>3, <1>4, <1>5, <1>6, <1>7, <1>8, Steps

\* A claim is kept where it was, unless the volume has an explanation.
ClaimsKept ==
    \A v \in Volumes : v \notin flags'.moved /\ Claimed(v) => Claimed(v)' /\ volumes'[v].node = volumes[v].node

\* A pod goes, and leaves a claim or an explanation; or is put where the data is.
Leaves(id) == pods'[id] = None /\ (pods[id] # None => Unclaimed(id) \subseteq flags'.moved)
Puts(id) ==
    /\ MountsAt(id, pods'[id].t)
    /\ id[1] = None => pods'[id].t.vols \subseteq flags'.moved
    /\ \A v \in Volumes : v \notin flags'.moved /\ v \notin flags'.unowned =>
          /\ Stays(v, pods'[id])
          /\ pods[id] # None => v \notin pods[id].t.vols \/ \A m \in Nodes : <<v, m>> \notin data
PodsKept == \A id \in PodNames : pods'[id] = pods[id] \/ Leaves(id) \/ Puts(id)

\* What a pass has listed was listed before, or is what is stored.
PassKept ==
    \A id \in DOMAIN rc'.owned :
        \/ /\ id \in DOMAIN rc.owned /\ rc'.owned[id].t = rc.owned[id].t
           /\ rc'.at = "place" => rc.at = "place" /\ rc'.owned[id] = rc.owned[id]
        \/ id \in PodNames /\ pods'[id] # None /\ rc'.owned[id] = pods'[id]
OwnPassKept == \A id \in DOMAIN pr'.owned : pr'.owned[id].t.vols \subseteq flags'.moved
ReportsKept ==
    \A g \in Handlers : call'[g].at = "report" =>
        \/ call'[g] = call[g]
        \/ \E id \in PodNames : call'[g].left = {id} /\ pods[id] # None /\ call'[g].t = pods[id].t

LEMMA SplitKept ==
    ASSUME SplitInv, flags.moved \subseteq flags'.moved, flags.unowned \subseteq flags'.unowned,
           ClaimsKept, PodsKept, PassKept, OwnPassKept, ReportsKept, ListAgrees', Claims', data' = data
    PROVE  SplitInv'
  <1>1. ASSUME NEW id \in PodNames, pods'[id] # None PROVE MountsAt(id, pods'[id].t)
    BY <1>1 DEF PodsKept, Leaves, Puts, SplitInv, FirstMounts
  <1>2. FirstMounts'
    <2>1. ASSUME NEW id \in DOMAIN rc'.owned PROVE MountsAt(id, rc'.owned[id].t)
      <3>1. CASE id \in DOMAIN rc.owned /\ rc'.owned[id].t = rc.owned[id].t
        BY <3>1 DEF SplitInv, FirstMounts
      <3>2. CASE id \in PodNames /\ pods'[id] # None /\ rc'.owned[id] = pods'[id]
        BY <1>1, <3>2
      <3> QED
        BY <3>1, <3>2 DEF PassKept
    <2>2. ASSUME NEW g \in Handlers, call'[g].at = "report", NEW id \in call'[g].left PROVE MountsAt(id, call'[g].t)
      <3>1. CASE call'[g] = call[g]
        BY <2>2, <3>1 DEF SplitInv, FirstMounts
      <3>2. ASSUME NEW o \in PodNames, call'[g].left = {o}, pods[o] # None, call'[g].t = pods[o].t
            PROVE  MountsAt(id, call'[g].t)
        BY <2>2, <3>2 DEF SplitInv, FirstMounts
      <3> QED
        BY <2>2, <3>1, <3>2 DEF ReportsKept
    <2> QED
      BY <1>1, <2>1, <2>2 DEF FirstMounts, MountsAt
  <1>3. OwnIsFlagged'
    <2>1. ASSUME NEW id \in PodNames, id[1] = None, pods'[id] # None PROVE pods'[id].t.vols \subseteq flags'.moved
      <3>1. CASE pods'[id] = pods[id]
        BY <2>1, <3>1 DEF SplitInv, OwnIsFlagged
      <3>2. CASE pods'[id] # pods[id]
        BY <2>1, <3>2 DEF PodsKept, Leaves, Puts
      <3> QED
        BY <3>1, <3>2
    <2> QED
      BY <2>1 DEF OwnIsFlagged, OwnPassKept
  <1>4. ASSUME NEW v \in Volumes, v \notin flags'.moved, v \notin flags'.unowned
        PROVE  VolumeAt(v)'
    <2>1. VolumeAt(v)
      BY <1>4 DEF SplitInv, VolumesFollowed
    <2>2. ASSUME NEW id \in PodNames, pods'[id] # None PROVE Stays(v, pods'[id])
      <3>1. CASE pods'[id] = pods[id]
        BY <2>1, <2>2, <3>1 DEF VolumeAt
      <3>2. CASE pods'[id] # pods[id]
        BY <1>4, <2>2, <3>2 DEF PodsKept, Leaves, Puts
      <3> QED
        BY <3>1, <3>2
    <2>3. ASSUME rc'.at = "place", NEW id \in DOMAIN rc'.owned PROVE Stays(v, rc'.owned[id])
      <3>1. CASE id \in DOMAIN rc.owned /\ rc.at = "place" /\ rc'.owned[id] = rc.owned[id]
        BY <2>1, <3>1 DEF VolumeAt
      <3>2. CASE id \in PodNames /\ pods'[id] # None /\ rc'.owned[id] = pods'[id]
        BY <2>2, <3>2
      <3> QED
        BY <2>3, <3>1, <3>2 DEF PassKept
    <2>4. ASSUME NEW m \in Nodes, <<v, m>> \in data'
          PROVE  (Claimed(v)' /\ volumes'[v].node = m) \/ \E id \in PodNames : Holds(v, id, m)'
      <3>1. CASE Claimed(v) /\ volumes[v].node = m
        BY <1>4, <3>1 DEF ClaimsKept
      <3>2. CASE ~(Claimed(v) /\ volumes[v].node = m)
        <4>1. PICK id \in PodNames : Holds(v, id, m)
          BY <2>1, <2>4, <3>2 DEF VolumeAt
        <4>2. CASE pods'[id] = pods[id]
          BY <4>1, <4>2 DEF Holds
        <4>3. CASE Leaves(id)
          <5>1. v \in Unclaimed(id) /\ pods[id] # None
            BY <3>2, <4>1, NoneAssumption DEF Unclaimed, Holds, Claimed
          <5> QED
            BY <1>4, <4>3, <5>1 DEF Leaves
        <4>4. CASE Puts(id)
          BY <1>4, <2>4, <4>1, <4>4 DEF Puts, Holds
        <4> QED
          BY <4>2, <4>3, <4>4 DEF PodsKept
      <3> QED
        BY <3>1, <3>2
    <2> QED
      BY <2>2, <2>3, <2>4 DEF VolumeAt, Stays
  <1> QED
    BY <1>2, <1>3, <1>4 DEF SplitInv, VolumesFollowed

\* Steps that leave the pass and its list alone.
LEMMA SplitQuiet ==
    ASSUME TypeOK, SplitInv, [Next]_vars, ClaimsKept, PodsKept, OwnPassKept, ReportsKept, data' = data, rc' = rc,
           \A id \in PodNames : pods'[id] # None /\ pods'[id] # pods[id] => pods'[id].t.vols \subseteq flags'.moved \/ id[1] # rc.d,
           \A v \in Volumes : Claimed(v)' => Claimed(v)
    PROVE  SplitInv'
  <1>1. flags.moved \subseteq flags'.moved /\ flags.unowned \subseteq flags'.unowned
    BY MovedGrows
  <1>2. PassKept
    BY DEF PassKept
  <1>3. ListAgrees'
    <2> SUFFICES ASSUME rc.at = "place", NEW id \in PodNames, id[1] = rc.d, pods'[id] # None
                 PROVE  (id \in DOMAIN rc.owned /\ pods'[id] = rc.owned[id]) \/ pods'[id].t.vols \subseteq flags'.moved
      BY DEF ListAgrees
    <2>1. CASE pods'[id] = pods[id]
      BY <1>1, <2>1 DEF SplitInv, ListAgrees
    <2>2. CASE pods'[id] # pods[id]
      BY <2>2
    <2> QED
      BY <2>1, <2>2
  <1>4. Claims'
    <2> SUFFICES ASSUME rc.at = "claiming" PROVE ~Claimed(NextVolume)'
      BY DEF Claims
    <2>1. NextVolume' = NextVolume
      BY DEF NextVolume
    <2>2. rc.left # {} /\ rc.left \subseteq rc.copy.t.vols /\ rc.copy \in Deployment
      BY DEF TypeOK, RcOK
    <2>3. NextVolume \in Volumes
      <3>1. NextVolume \in rc.left
        BY <2>2 DEF NextVolume
      <3> QED
        BY <2>2, <3>1 DEF Deployment, Template
    <2>4. ~Claimed(NextVolume)
      BY DEF SplitInv, Claims
    <2>5. PICK v \in Volumes : v = NextVolume
      BY <2>3
    <2>6. ~Claimed(v)'
      BY <2>4, <2>5
    <2> QED
      BY <2>1, <2>5, <2>6 DEF Claimed
  <1> QED
    BY <1>1, <1>2, <1>3, <1>4, SplitKept

\* The requests.
LEMMA SplitHandlers ==
    ASSUME TypeOK, SplitInv, [Next]_vars, NEW h \in Handlers, HandlerStep(h)
    PROVE  SplitInv'
  <1>1. flags.moved \subseteq flags'.moved /\ flags.unowned \subseteq flags'.unowned
    BY MovedGrows
  <1>2. ASSUME UNCHANGED controllers PROVE rc' = rc /\ OwnPassKept
    BY <1>1, <1>2 DEF controllers, SplitInv, OwnIsFlagged, OwnPassKept
  <1>3. ASSUME OnlyCall(h), call'[h].at # "report" PROVE ReportsKept
    BY <1>3 DEF OnlyCall, ReportsKept
  <1>4. ASSUME UNCHANGED volumes PROVE ClaimsKept /\ \A v \in Volumes : Claimed(v)' => Claimed(v)
    BY <1>4 DEF ClaimsKept, Claimed
  <1>5. ASSUME UNCHANGED pods
        PROVE  PodsKept /\ \A id \in PodNames : pods'[id] = pods[id]
    BY <1>5 DEF PodsKept
  <1>6. ASSUME UNCHANGED <<pods, volumes, data, controllers>>, ReportsKept PROVE SplitInv'
    BY <1>2, <1>4, <1>5, <1>6, SplitQuiet
  <1>7. CASE Begins(h)
    <2>1. OnlyCall(h) /\ call'[h].at # "report" /\ UNCHANGED <<objects, storage, controllers>>
      BY <1>7, BeginsCall
    <2> QED
      BY <1>3, <1>6, <2>1 DEF objects, storage
  <1>8. ASSUME NEW id \in PodNames, UpdatePodStatus(h, id) PROVE SplitInv'
    <2>1. /\ OnlyCall(h) /\ call'[h].left = {id} /\ pods[id] # None /\ call'[h].t = pods[id].t
          /\ UNCHANGED <<objects, storage, controllers>>
      BY <1>8, ReportArrives
    <2>2. ReportsKept
      BY <2>1 DEF OnlyCall, ReportsKept
    <2> QED
      BY <1>6, <2>1, <2>2 DEF objects, storage
  <1>9. ASSUME NEW d \in Names, NEW r \in 1 .. MaxReplicas, Autoscale(h, d, r) PROVE SplitInv'
    <2>1. OnlyCall(h) /\ call'[h].at = "put" /\ UNCHANGED <<objects, storage, controllers>>
      BY <1>9, AutoscaleCall
    <2> QED
      BY <1>3, <1>6, <2>1 DEF objects, storage
  <1>10. ASSUME NEW unread \in SUBSET Volumes, Admit(h, unread) PROVE SplitInv'
    <2>1. OnlyCall(h) /\ call'[h].at # "report" /\ UNCHANGED <<objects, storage, controllers>>
      BY <1>10, AdmitCall
    <2> QED
      BY <1>3, <1>6, <2>1 DEF objects, storage
  <1>11. CASE PutDeployment(h)
    <2>1. OnlyCall(h) /\ call'[h].at # "report" /\ UNCHANGED <<pods, volumes, storage, controllers>>
      BY <1>11, PutCall, PutDeploymentStep
    <2> QED
      BY <1>3, <1>6, <2>1 DEF storage
  <1>12. CASE Remove(h)
    <2>1. OnlyCall(h) /\ call'[h].at # "report" /\ UNCHANGED <<pods, volumes, storage, controllers>>
      BY <1>12, RemoveCall, RemoveStep
    <2> QED
      BY <1>3, <1>6, <2>1 DEF storage
  <1>13. CASE RestartList(h)
    <2>1. OnlyCall(h) /\ call'[h].at # "report" /\ UNCHANGED <<objects, storage, controllers>>
      BY <1>13, RestartListCall DEF RestartList
    <2> QED
      BY <1>3, <1>6, <2>1 DEF objects, storage
  <1>14. CASE CallFails(h)
    <2>1. OnlyCall(h) /\ call'[h].at # "report" /\ UNCHANGED <<objects, data, controllers>>
      BY <1>14, CallFailsCall, CallFailsStep
    <2> QED
      BY <1>3, <1>6, <2>1 DEF objects
  <1>15. CASE VolumeStep(h)
    <2>1. OnlyCall(h) /\ call'[h].at # "report" /\ call[h].d \in Volumes
      BY <1>15, VolumeStepCall DEF VolumeStep
    <2>2. UNCHANGED <<pods, data, controllers>> /\ \A v \in Volumes \ {call[h].d} : volumes'[v] = volumes[v]
      BY <1>15, VolumeStepEffect
    <2>3. CASE UNCHANGED volumes
      BY <1>3, <1>6, <2>1, <2>2, <2>3
    <2>4. CASE PutVolume(h) \/ UnrecordVolume(h)
      <3>w. PICK w : w = call[h].d
        OBVIOUS
      <3> DEFINE x == IF Claimed(w) THEN {w} ELSE {}
      <3>1. flags' = Raise("moved", x)
        BY <2>4, <3>w DEF PutVolume, UnrecordVolume
      <3>2. flags'.moved = flags.moved \cup x
        <4> HIDE DEF x
        <4> QED
          BY <3>1 DEF Raise, TypeOK, FlagFields
      <3>3. ~Claimed(w)'
        <4>1. volumes'[w] = None \/ volumes'[w].node = None
          BY <1>15, <2>4, <3>w, VolumeStepEffect
        <4> QED
          BY <4>1 DEF Claimed
      <3>4. ClaimsKept /\ \A v \in Volumes : Claimed(v)' => Claimed(v)
        BY <2>2, <3>2, <3>3, <3>w DEF ClaimsKept, Claimed
      <3> QED
        BY <1>2, <1>3, <1>5, <2>1, <2>2, <3>4, SplitQuiet
    <2> QED
      BY <1>15, <2>3, <2>4, VolumeStepEffect DEF VolumeStep
  <1>16. ASSUME NEW id \in PodNames, RestartDelete(h, id) PROVE SplitInv'
    <2>1. OnlyCall(h) /\ call'[h].at # "report"
      BY <1>16, RestartDeleteCall
    <2>2. /\ pods'[id] = None /\ \A o \in PodNames \ {id} : pods'[o] = pods[o]
          /\ UNCHANGED <<volumes, storage, controllers>>
      BY <1>16, RestartDeleteStep
    <2>3. pods[id] # None => Unclaimed(id) \subseteq flags'.moved
      <3> DEFINE x == {call[h].d} \cap {rc.d}
                 u == Unclaimed(id)
      <3>1. flags' = [flags EXCEPT !.stale = @ \cup x, !.moved = IF pods[id] # None THEN @ \cup u ELSE @]
        BY <1>16 DEF RestartDelete, Raise, TypeOK, FlagFields
      <3> HIDE DEF x, u
      <3>2. pods[id] # None => flags'.moved = flags.moved \cup u
        BY <3>1 DEF TypeOK, FlagFields
      <3> QED
        BY <3>2 DEF u
    <2>4. PodsKept
      BY <2>2, <2>3 DEF PodsKept, Leaves
    <2>5. data' = data
      BY <2>2 DEF storage
    <2> QED
      BY <1>2, <1>3, <1>4, <2>1, <2>2, <2>4, <2>5, SplitQuiet
  <1>17. CASE PutPod(h)
    <2>1. OnlyCall(h) /\ call'[h].at # "report"
      BY <1>17, PutCall
    <2>2. /\ Copy(h) \in Pod
          /\ \A id \in PodNames : pods'[id] = IF id \in call[h].left THEN Copy(h) ELSE pods[id]
          /\ \A id \in call[h].left : id[1] = None
          /\ flags'.moved = flags.moved \cup call[h].t.vols
          /\ UNCHANGED <<volumes, storage, controllers>>
      BY <1>17, PutPodStep
    <2>3. Copy(h).t = call[h].t
      BY DEF Copy
    <2>4. ASSUME NEW id \in PodNames, id \in call[h].left
          PROVE  Puts(id) /\ pods'[id].t.vols \subseteq flags'.moved
      <3>1. id[1] = None /\ pods'[id].t.vols \subseteq flags'.moved
        BY <2>2, <2>3, <2>4
      <3>2. pods[id] # None => pods[id].t.vols \subseteq flags'.moved
        BY <1>1, <3>1 DEF SplitInv, OwnIsFlagged
      <3> QED
        BY <3>1, <3>2 DEF Puts, MountsAt, Stays
    <2>5. PodsKept
      BY <2>2, <2>4 DEF PodsKept
    <2>6. data' = data
      BY <2>2 DEF storage
    <2>7. \A id \in PodNames : pods'[id] # None /\ pods'[id] # pods[id] => pods'[id].t.vols \subseteq flags'.moved
      BY <2>2, <2>4
    <2> QED
      BY <1>2, <1>3, <1>4, <2>1, <2>2, <2>5, <2>6, <2>7, SplitQuiet
  <1>18. CASE ReportPut(h)
    <2>1. OnlyCall(h) /\ call'[h].at # "report" /\ call[h].at = "report"
      BY <1>18, ReportPutCall
    <2>2. /\ Copy(h) \in Pod /\ Copy(h).t = call[h].t
          /\ \A id \in PodNames : pods'[id] = IF id \in Undone(h) THEN Copy(h) ELSE pods[id]
          /\ UNCHANGED <<volumes, storage, controllers>>
      BY <1>18, ReportPutStep
    <2>3. flags'.moved = flags.moved \cup UNION {call[h].t.vols \cup IF pods[id] = None THEN {} ELSE pods[id].t.vols : id \in Undone(h)}
      BY <1>18, ReportFlags
    <2>4. ASSUME NEW id \in PodNames, id \in Undone(h)
          PROVE  Puts(id) /\ pods'[id].t.vols \subseteq flags'.moved
      <3>1. call[h].t.vols \cup (IF pods[id] = None THEN {} ELSE pods[id].t.vols) \subseteq flags'.moved
        BY <2>3, <2>4
      <3>2. pods'[id].t = call[h].t /\ id \in call[h].left
        BY <2>2, <2>4 DEF Undone
      <3>3. MountsAt(id, call[h].t)
        BY <2>1, <3>2 DEF SplitInv, FirstMounts
      <3> QED
        BY <3>1, <3>2, <3>3 DEF Puts, Stays
    <2>5. PodsKept
      BY <2>2, <2>4 DEF PodsKept
    <2>6. data' = data
      BY <2>2 DEF storage
    <2>7. \A id \in PodNames : pods'[id] # None /\ pods'[id] # pods[id] => pods'[id].t.vols \subseteq flags'.moved
      BY <2>2, <2>4
    <2> QED
      BY <1>2, <1>3, <1>4, <2>1, <2>2, <2>5, <2>6, <2>7, SplitQuiet
  <1> QED
    BY <1>7, <1>8, <1>9, <1>10, <1>11, <1>12, <1>13, <1>14, <1>15, <1>16, <1>17, <1>18
       DEF HandlerStep, Restarts, Reports, Autoscales, Admits

\* The pod controller puts pods of their own back.
LEMMA SplitPods ==
    ASSUME TypeOK, SplitInv, [Next]_vars, PodStep
    PROVE  SplitInv'
  <1>1. flags.moved \subseteq flags'.moved /\ flags.unowned \subseteq flags'.unowned
    BY MovedGrows
  <1>2. /\ UNCHANGED <<volumes, storage, call, rc>>
        /\ \A id \in PodNames : id[1] # None => pods'[id] = pods[id]
        /\ PrOK'
        /\ \/ PrFetches
           \/ \E id \in PodNames, n \in Nodes : id[1] = None /\ PrPlaces(id, n)
           \/ \E id \in PodNames : id[1] = None /\ PrWaits(id)
           \/ PrGivesUp
    BY PodPass DEF PodStep
  <1>3. ASSUME NEW id \in PodNames, id[1] = None, PrGoesOn(id),
               \A o \in PodNames \ {id} : pods'[o] = pods[o],
               pods'[id] = pods[id] \/ pods'[id].t = pr.owned[id].t
        PROVE  OwnPassKept /\ PodsKept /\ \A o \in PodNames : pods'[o] # pods[o] => pods'[o].t.vols \subseteq flags'.moved
    <2>1. id \in DOMAIN pr.owned /\ \A i \in DOMAIN pr'.owned : i \in DOMAIN pr.owned /\ pr'.owned[i] = pr.owned[i]
      BY <1>3 DEF PrGoesOn
    <2>2. OwnPassKept
      BY <1>1, <2>1 DEF SplitInv, OwnIsFlagged, OwnPassKept
    <2>3. pods'[id] # pods[id] => pods'[id].t.vols \subseteq flags'.moved
      BY <1>1, <1>3, <2>1 DEF SplitInv, OwnIsFlagged
    <2>4. pods[id] # None => pods[id].t.vols \subseteq flags'.moved
      BY <1>1, <1>3 DEF SplitInv, OwnIsFlagged
    <2>5. pods'[id] # pods[id] => Puts(id)
      BY <1>3, <2>3, <2>4 DEF Puts, MountsAt, Stays
    <2> QED
      BY <1>3, <2>2, <2>3, <2>5 DEF PodsKept
  <1>4. OwnPassKept /\ PodsKept /\ \A o \in PodNames : pods'[o] # pods[o] => pods'[o].t.vols \subseteq flags'.moved
    <2>1. CASE PrFetches
      BY <1>1, <2>1 DEF PrFetches, SplitInv, OwnIsFlagged, OwnPassKept, PodsKept
    <2>2. ASSUME NEW id \in PodNames, NEW n \in Nodes, id[1] = None, PrPlaces(id, n)
          PROVE  OwnPassKept /\ PodsKept /\ \A o \in PodNames : pods'[o] # pods[o] => pods'[o].t.vols \subseteq flags'.moved
      <3> DEFINE p == [pr.owned[id] EXCEPT !.node = n]
      <3>1. p \in Pod /\ pods' = [pods EXCEPT ![id] = p] /\ PrGoesOn(id)
        BY <2>2 DEF PrPlaces
      <3>2. p.t = pr.owned[id].t
        BY <3>1 DEF PrGoesOn, TypeOK, PrOK, Pod
      <3> HIDE DEF p
      <3>3. pods'[id] = p /\ \A o \in PodNames \ {id} : pods'[o] = pods[o]
        BY <3>1, PodsChange
      <3> QED
        BY <1>3, <2>2, <3>1, <3>2, <3>3
    <2>3. ASSUME NEW id \in PodNames, id[1] = None, PrWaits(id)
          PROVE  OwnPassKept /\ PodsKept /\ \A o \in PodNames : pods'[o] # pods[o] => pods'[o].t.vols \subseteq flags'.moved
      <3>1. pr.owned[id] \in Pod /\ PrGoesOn(id)
        BY <2>3 DEF PrWaits, PrGoesOn, TypeOK, PrOK
      <3>2. /\ \A o \in PodNames \ {id} : pods'[o] = pods[o]
            /\ pods'[id] = pods[id] \/ pods'[id] = pr.owned[id]
        BY <2>3, <3>1, PodsChange DEF PrWaits
      <3> QED
        BY <1>3, <2>3, <3>1, <3>2
    <2>4. CASE PrGivesUp
      BY <1>2, <2>4 DEF PrGivesUp, PrOK, OwnPassKept, PodsKept
    <2> QED
      BY <1>2, <2>1, <2>2, <2>3, <2>4
  <1>5. ReportsKept /\ data' = data
    BY <1>2 DEF ReportsKept, storage
  <1>6. ClaimsKept /\ \A v \in Volumes : Claimed(v)' => Claimed(v)
    BY <1>2 DEF ClaimsKept, Claimed
  <1> QED
    BY <1>2, <1>4, <1>5, <1>6, SplitQuiet

\* An agent makes the directory on the node of the pod, the only one of the volume.
LEMMA SplitMount ==
    ASSUME TypeOK, SplitInv, SharingInv, NEW id \in PodNames, MountVolumes(id)
    PROVE  SplitInv'
  <1>1. /\ data' = data \cup (pods[id].t.vols \X {pods[id].node}) /\ pods[id] # None
        /\ UNCHANGED <<pods, volumes, call, rc, pr, flags>>
    BY DEF MountVolumes, objects, controllers
  <1>2. FirstMounts' /\ OwnIsFlagged' /\ ListAgrees' /\ Claims'
    BY <1>1 DEF SplitInv, FirstMounts, MountsAt, OwnIsFlagged, ListAgrees, Claims, Claimed, NextVolume
  <1>3. ASSUME NEW v \in Volumes, v \notin flags.moved, v \notin flags.unowned
        PROVE  VolumeAt(v)'
    <2>1. VolumeAt(v)
      BY <1>3 DEF SplitInv, VolumesFollowed
    <2>2. CASE v \notin pods[id].t.vols
      <3>1. \A m \in Nodes : <<v, m>> \in data' <=> <<v, m>> \in data
        BY <1>1, <2>2
      <3> QED
        BY <1>1, <2>1, <3>1 DEF VolumeAt, Stays, Holds, Claimed
    <2>3. CASE v \in pods[id].t.vols
      <3>1. id[1] \in Names /\ id[2] = 0
        BY <1>1, <1>3, <2>3, OwnedIsNamed DEF SplitInv, OwnIsFlagged, FirstMounts, MountsAt
      <3>2. Mounts(id[1], v)
        BY <1>1, <2>3 DEF Mounts, PodsOf
      <3>3. ASSUME NEW o \in PodNames, MountsAt(o, pods[o].t), pods[o] # None, v \in pods[o].t.vols
            PROVE  o = id
        <4>1. o[1] \in Names /\ o[2] = 0
          BY <1>3, <3>3, OwnedIsNamed DEF SplitInv, OwnIsFlagged, MountsAt
        <4>2. Mounts(o[1], v)
          BY <3>3 DEF Mounts, PodsOf
        <4>3. o[1] = id[1]
          BY <1>3, <3>1, <3>2, <4>1, <4>2 DEF SharingInv
        <4> QED
          BY <3>1, <4>1, <4>3 DEF PodNames
      <3>4. \A m \in Nodes : <<v, m>> \in data' => pods[id].node = m
        <4>1. \A m \in Nodes : <<v, m>> \in data => pods[id].node = m
          BY <1>1, <2>1, <2>3 DEF VolumeAt, Stays
        <4> QED
          BY <1>1, <4>1
      <3>5. ASSUME NEW o \in PodNames, pods[o] # None PROVE Stays(v, pods[o])'
        <4>1. CASE v \in pods[o].t.vols
          <5>1. o = id
            BY <3>3, <3>5, <4>1 DEF SplitInv, FirstMounts
          <5> QED
            BY <1>1, <3>4, <5>1 DEF Stays
        <4>2. CASE v \notin pods[o].t.vols
          BY <1>1, <4>2 DEF Stays
        <4> QED
          BY <4>1, <4>2
      <3>6. ASSUME rc.at = "place", NEW o \in DOMAIN rc.owned PROVE Stays(v, rc.owned[o])'
        <4>1. CASE v \in rc.owned[o].t.vols
          <5>1. o \in PodNames /\ o[1] = rc.d /\ rc.d \in Names /\ rc.d # None
            BY <3>6, NoneAssumption DEF TypeOK, RcOK
          <5>2. Mounts(rc.d, v)
            BY <3>6, <4>1 DEF Mounts
          <5>3. rc.d = id[1]
            BY <1>3, <3>1, <3>2, <5>1, <5>2 DEF SharingInv
          <5>4. o[2] = 0
            BY <3>6, <4>1, <5>1 DEF SplitInv, FirstMounts, MountsAt
          <5>5. o = id
            BY <3>1, <5>1, <5>3, <5>4 DEF PodNames
          <5>6. pods[id] = rc.owned[id]
            BY <1>1, <1>3, <2>3, <3>6, <5>3 DEF SplitInv, ListAgrees
          <5> QED
            BY <1>1, <3>4, <5>5, <5>6 DEF Stays
        <4>2. CASE v \notin rc.owned[o].t.vols
          BY <1>1, <4>2 DEF Stays
        <4> QED
          BY <4>1, <4>2
      <3>7. ASSUME NEW m \in Nodes, <<v, m>> \in data' PROVE Holds(v, id, m)'
        BY <1>1, <2>3, <3>4, <3>7 DEF Holds
      <3> QED
        BY <1>1, <3>5, <3>6, <3>7 DEF VolumeAt
    <2> QED
      BY <2>2, <2>3
  <1> QED
    BY <1>1, <1>2, <1>3 DEF SplitInv, VolumesFollowed

\* Size: with volumes one pod at most is created, the first, on the node of the claims.
LEMMA SizeSplit ==
    ASSUME TypeOK, Size
    PROVE  LET d == rc.d
               pin == PinnedTo(rc.copy.t.vols)
               p == [t |-> rc.copy.t, node |-> pin]
           IN  \/ \A id \in PodNames : pods'[id] = pods[id] \/ Leaves(id)
               \/ /\ \A id \in PodNames : \/ pods'[id] = pods[id]
                                          \/ id[1] = d /\ pods[id] = None /\ pods'[id] = p
                  /\ rc.copy.t.vols # {} =>
                        /\ \A id \in PodNames : id[1] = d => pods[id] = None
                        /\ \A id \in PodNames : id[1] = d /\ pods'[id] # None => id[2] = 0
                  /\ Scattered(rc.copy.t.vols) \subseteq flags'.moved
  <1> DEFINE d == rc.d
             want == Want(rc.copy)
             have == Cardinality(PodsOf(d))
             pin == PinnedTo(rc.copy.t.vols)
             p == [t |-> rc.copy.t, node |-> pin]
             free == {<<d, i>> : i \in 0 .. MaxReplicas - 1} \ PodsOf(d)
             new == {id \in free : Cardinality({o \in free : o[2] < id[2]}) < want - have}
             old == {id \in PodsOf(d) : Cardinality({o \in PodsOf(d) : o[2] > id[2]}) < have - want}
             x == IF have < want THEN Scattered(rc.copy.t.vols) ELSE UNION {Unclaimed(id) : id \in old}
             y == IF have < want /\ pin # None THEN flags.crowded \cup {pin} ELSE flags.crowded
  <1>1. /\ rc.at = "size"
        /\ pods' = CASE have < want -> [id \in PodNames |-> IF id \in new THEN p ELSE pods[id]]
                     [] have > want -> [id \in PodNames |-> IF id \in old THEN None ELSE pods[id]]
                     [] OTHER -> pods
    BY DEF Size
  <1>2. flags' = [flags EXCEPT !.crowded = y, !.moved = @ \cup x]
    BY DEF Size
  <1>3. flags'.moved = flags.moved \cup x
    <2> HIDE DEF x, y
    <2> QED
      BY <1>2 DEF TypeOK, FlagFields
  <1>4. d \in Names /\ rc.copy \in Deployment /\ d # None
    BY <1>1, NoneAssumption DEF TypeOK, RcOK
  <1>5. want \in Nat /\ have \in Nat
    BY <1>4, SlotTypes, PodsOfFinite
  <1>6. rc.copy.t.vols # {} => want <= 1
    <2>1. rc.copy.replicas \in Int
      BY <1>4 DEF Deployment
    <2> QED
      BY <2>1 DEF Want
  <1>7. free \in SUBSET PodNames /\ \A id \in free : id[1] = d /\ id[2] \in Nat /\ id = <<d, id[2]>> /\ pods[id] = None
    <2>1. \A i \in 0 .. MaxReplicas - 1 : <<d, i>> \in PodNames /\ i \in Nat
      BY <1>4, SizesAssumption DEF PodNames
    <2> QED
      BY <2>1 DEF PodsOf
  <1>8. \A id \in PodNames : id[1] = d /\ pods[id] # None <=> id \in PodsOf(d)
    BY DEF PodsOf
  <1>9. <<d, 0>> \in free \/ <<d, 0>> \in PodsOf(d)
    BY SizesAssumption
  <1>10. ASSUME have = 0 PROVE PodsOf(d) = {}
    BY <1>10, PodsOfFinite, FS_EmptySet
  <1>11. ASSUME NEW id \in free, have = 0, want = 1, id \in new PROVE id[2] = 0
    <2> DEFINE B == {o \in free : o[2] < id[2]}
    <2>1. IsFiniteSet(B) /\ Cardinality(B) \in Nat
      <3>1. B \in SUBSET PodNames
        BY <1>7
      <3> HIDE DEF B
      <3> QED
        BY <3>1, FinitePods, FS_Subset, FS_CardinalityType
    <2>2. Cardinality(B) < want - have
      BY <1>11
    <2>3. Cardinality(B) = 0
      <3> HIDE DEF B, want, have
      <3> QED
        BY <1>11, <2>1, <2>2
    <2>4. B = {}
      <3> HIDE DEF B
      <3> QED
        BY <2>1, <2>3, FS_EmptySet
    <2>5. <<d, 0>> \in free
      BY <1>9, <1>10, <1>11
    <2>6. ~(0 < id[2])
      <3> DEFINE z == <<d, 0>>
      <3>1. z[2] = 0 /\ z \in free
        BY <2>5
      <3>2. z \notin B
        BY <2>4
      <3> HIDE DEF free, z
      <3> QED
        BY <3>1, <3>2
    <2>7. id[2] \in Nat
      BY <1>7
    <2> QED
      BY <2>6, <2>7
  <1> HIDE DEF free, want, have, p
  <1>12. CASE have < want
    <2>1. pods' = [id \in PodNames |-> IF id \in new THEN p ELSE pods[id]]
      BY <1>1, <1>5, <1>12
    <2>2. new \subseteq free
      OBVIOUS
    <2>3. Scattered(rc.copy.t.vols) \subseteq flags'.moved
      BY <1>3, <1>12
    <2>4. ASSUME rc.copy.t.vols # {} PROVE have = 0 /\ want = 1
      BY <1>5, <1>6, <1>12, <2>4
    <2> HIDE DEF new
    <2>5. \A id \in PodNames : pods'[id] = pods[id] \/ (id[1] = d /\ pods[id] = None /\ pods'[id] = p)
      BY <1>7, <2>1, <2>2
    <2>6. ASSUME rc.copy.t.vols # {}
          PROVE  /\ \A id \in PodNames : id[1] = d => pods[id] = None
                 /\ \A id \in PodNames : id[1] = d /\ pods'[id] # None => id[2] = 0
      <3>1. PodsOf(d) = {}
        BY <1>10, <2>4, <2>6
      <3>2. \A id \in PodNames : id[1] = d => pods[id] = None
        BY <1>8, <3>1
      <3>3. \A id \in PodNames : id[1] = d /\ pods'[id] # None => id \in new
        BY <2>1, <3>2
      <3> QED
        BY <1>11, <2>2, <2>4, <2>6, <3>2, <3>3
    <2> QED
      BY <2>3, <2>5, <2>6 DEF p
  <1>13. CASE ~(have < want)
    <2>1. \A id \in PodNames : pods'[id] = pods[id] \/ (id \in old /\ pods'[id] = None)
      <3>1. CASE have > want
        <4>1. pods' = [id \in PodNames |-> IF id \in old THEN None ELSE pods[id]]
          BY <1>1, <1>5, <1>13, <3>1
        <4> HIDE DEF old
        <4> QED
          BY <4>1
      <3>2. CASE ~(have > want)
        BY <1>1, <1>5, <1>13, <3>2
      <3> QED
        BY <3>1, <3>2
    <2> HIDE DEF old
    <2>2. \A id \in old : Unclaimed(id) \subseteq flags'.moved
      BY <1>3, <1>13
    <2> QED
      BY <2>1, <2>2 DEF Leaves
  <1> QED
    BY <1>12, <1>13

LEMMA SplitSize ==
    ASSUME TypeOK, SplitInv, SharingInv, [Next]_vars, Size
    PROVE  SplitInv'
  <1>1. /\ rc'.d = rc.d /\ rc'.copy = rc.copy /\ rc'.owned = rc.owned
        /\ rc'.at = "list" /\ rc.at = "size" /\ UNCHANGED <<volumes, storage, call, pr>>
    BY SizePass DEF SamePass
  <1>2. DOMAIN rc'.owned = {} /\ data' = data /\ rc.d \in Names /\ rc.copy \in Deployment
    BY <1>1, NoPassIs DEF TypeOK, RcOK, storage
  <1>3. flags.moved \subseteq flags'.moved /\ flags.unowned \subseteq flags'.unowned
    BY MovedGrows
  <1>4. PassKept /\ ClaimsKept /\ ReportsKept /\ ListAgrees' /\ Claims'
    BY <1>1, <1>2 DEF PassKept, ClaimsKept, Claimed, ReportsKept, ListAgrees, Claims
  <1>5. OwnPassKept
    BY <1>1, <1>3 DEF OwnPassKept, SplitInv, OwnIsFlagged
  <1>6. PodsKept
    <2> DEFINE vols == rc.copy.t.vols
    <2>0. PICK d, pin, p : d = rc.d /\ pin = PinnedTo(vols) /\ p = [t |-> rc.copy.t, node |-> pin]
      OBVIOUS
    <2>1. CASE \A id \in PodNames : pods'[id] = pods[id] \/ Leaves(id)
      BY <2>1 DEF PodsKept
    <2>2. CASE ~\A id \in PodNames : pods'[id] = pods[id] \/ Leaves(id)
      <3>1. /\ \A id \in PodNames : pods'[id] = pods[id] \/ (id[1] = d /\ pods[id] = None /\ pods'[id] = p)
            /\ vols # {} => /\ \A id \in PodNames : id[1] = d => pods[id] = None
                            /\ \A id \in PodNames : id[1] = d /\ pods'[id] # None => id[2] = 0
            /\ Scattered(vols) \subseteq flags'.moved
        BY <2>0, <2>2, SizeSplit
      <3>2. p.t = rc.copy.t /\ p.node = pin /\ d \in Names /\ d # None
        BY <1>2, <2>0, NoneAssumption
      <3>3. ASSUME NEW v \in Volumes, v \notin flags'.moved, v \notin flags'.unowned PROVE Stays(v, p)
        <4> SUFFICES ASSUME v \in vols, NEW m \in Nodes, <<v, m>> \in data PROVE pin = m
          BY <3>2 DEF Stays
        <4>1. VolumeAt(v) /\ v \notin flags.moved /\ v \notin flags.unowned
          BY <1>3, <3>3 DEF SplitInv, VolumesFollowed
        <4>2. ASSUME NEW o \in PodNames, Holds(v, o, m) PROVE FALSE
          <5>1. o[1] \in Names
            BY <4>1, <4>2, OwnedIsNamed DEF SplitInv, OwnIsFlagged, Holds
          <5>2. Mounts(o[1], v)
            BY <4>2 DEF Mounts, PodsOf, Holds
          <5>3. Mounts(d, v)
            BY <2>0 DEF Mounts
          <5>4. o[1] = d
            BY <3>2, <4>1, <5>1, <5>2, <5>3 DEF SharingInv
          <5> QED
            BY <3>1, <4>2, <5>4 DEF Holds
        <4>3. Claimed(v) /\ volumes[v].node = m
          BY <4>1, <4>2 DEF VolumeAt
        <4>4. v \notin Scattered(vols)
          BY <3>1, <3>3
        <4> DEFINE u == CHOOSE w \in vols : Claimed(w)
        <4>5. u \in vols /\ Claimed(u) /\ pin = volumes[u].node
          BY <2>0, <4>3 DEF PinnedTo
        <4> HIDE DEF u
        <4> QED
          BY <4>3, <4>4, <4>5 DEF Scattered
      <3>4. ASSUME NEW id \in PodNames, pods'[id] # pods[id] PROVE Puts(id)
        <4>1. id[1] = d /\ pods[id] = None /\ pods'[id] = p
          BY <3>1, <3>4
        <4>2. vols # {} => id[2] = 0
          BY <3>1, <3>4, <4>1
        <4> QED
          BY <3>2, <3>3, <4>1, <4>2 DEF Puts, MountsAt
      <3> QED
        BY <3>4 DEF PodsKept
    <2> QED
      BY <2>1, <2>2
  <1> QED
    BY <1>2, <1>3, <1>4, <1>5, <1>6, SplitKept

\* The rest of the pass: the list, the pods placed and the claims.
LEMMA SplitListOwned ==
    ASSUME TypeOK, SplitInv, [Next]_vars, ListOwned
    PROVE  SplitInv'
  <1>1. /\ rc'.at = "place" /\ rc'.d = rc.d
        /\ DOMAIN rc'.owned = PodsOf(rc.d) /\ \A id \in PodsOf(rc.d) : rc'.owned[id] = pods[id]
        /\ UNCHANGED <<objects, storage, call, pr, flags>>
    BY ListOwnedPass
  <1>2. UNCHANGED <<pods, volumes, data, call, pr, flags>>
    BY <1>1 DEF objects, storage
  <1>3. \A id \in PodNames : id[1] = rc.d /\ pods[id] # None <=> id \in PodsOf(rc.d)
    BY DEF PodsOf
  <1>4. PodsOf(rc.d) \subseteq PodNames
    BY DEF PodsOf
  <1>5. PassKept
    BY <1>1, <1>2, <1>3, <1>4 DEF PassKept
  <1>6. ListAgrees' /\ Claims'
    BY <1>1, <1>2, <1>3 DEF ListAgrees, Claims
  <1>7. ClaimsKept /\ PodsKept /\ OwnPassKept /\ ReportsKept
    BY <1>2 DEF ClaimsKept, Claimed, PodsKept, OwnPassKept, SplitInv, OwnIsFlagged, ReportsKept
  <1> QED
    BY <1>2, <1>5, <1>6, <1>7, SplitKept

LEMMA SplitPlace ==
    ASSUME TypeOK, SplitInv, [Next]_vars, NEW n \in Nodes, Place(n) \/ PlaceFails(n)
    PROVE  SplitInv'
  <1>0. flags.moved \subseteq flags'.moved /\ flags.unowned \subseteq flags'.unowned
    BY MovedGrows
  <1> DEFINE id == First(Unplaced)
             p == [rc.owned[id] EXCEPT !.node = n]
  <1>1. rc.at = "place" /\ Unplaced # {} /\ UNCHANGED <<volumes, data, call, pr>>
    BY DEF Place, PlaceFails, objects, storage
  <1>2. id \in Unplaced
    BY <1>1, FirstIsIn DEF Unplaced, TypeOK, RcOK
  <1>3. id \in DOMAIN rc.owned /\ rc.owned[id] \in Pod /\ rc.owned[id].node = None /\ id \in PodNames /\ id[1] = rc.d /\ rc.d \in Names
    BY <1>1, <1>2 DEF Unplaced, TypeOK, RcOK
  <1>4. ClaimsKept /\ OwnPassKept /\ ReportsKept
    BY <1>0, <1>1 DEF ClaimsKept, Claimed, OwnPassKept, SplitInv, OwnIsFlagged, ReportsKept
  <1>5. CASE Place(n)
    <2>1. pods' = [pods EXCEPT ![id] = p] /\ rc' = [rc EXCEPT !.owned[id].node = n, !.taken = @ \cup {n}]
      BY <1>5 DEF Place
    <2> HIDE DEF id
    <2>2. p \in Pod /\ p.t = rc.owned[id].t
      BY <1>3 DEF Pod
    <2>3. /\ rc'.owned = [rc.owned EXCEPT ![id] = p] /\ rc'.at = "place" /\ rc'.d = rc.d
      BY <1>1, <2>1 DEF TypeOK, RcOK, PassFields
    <2> HIDE DEF p
    <2>4. DOMAIN rc'.owned = DOMAIN rc.owned /\ rc'.owned[id] = p /\ \A o \in DOMAIN rc.owned \ {id} : rc'.owned[o] = rc.owned[o]
      BY <1>3, <2>3
    <2>5. pods'[id] = p /\ \A o \in PodNames \ {id} : pods'[o] = pods[o]
      BY <1>3, <2>1, <2>2, PodsChange
    <2>6. p # None
      BY <2>2, PodAssumption
    <2>7. PassKept
      BY <1>1, <1>3, <2>4, <2>5, <2>6 DEF PassKept
    <2>8. pods[id] # None => pods[id] = rc.owned[id] \/ pods[id].t.vols \subseteq flags.moved
      BY <1>1, <1>3 DEF SplitInv, ListAgrees
    <2>9. ListAgrees' /\ Claims'
      <3>1. ASSUME NEW o \in PodNames, o[1] = rc.d, pods'[o] # None
            PROVE  (o \in DOMAIN rc'.owned /\ pods'[o] = rc'.owned[o]) \/ pods'[o].t.vols \subseteq flags'.moved
        <4>1. CASE o = id
          BY <1>3, <2>4, <2>5, <4>1
        <4>2. CASE o # id
          <5>1. pods'[o] = pods[o] /\ pods[o] # None
            BY <2>5, <3>1, <4>2
          <5>2. (o \in DOMAIN rc.owned /\ pods[o] = rc.owned[o]) \/ pods[o].t.vols \subseteq flags.moved
            BY <1>1, <3>1, <5>1 DEF SplitInv, ListAgrees
          <5> QED
            BY <1>0, <2>4, <4>2, <5>1, <5>2
        <4> QED
          BY <4>1, <4>2
      <3> QED
        BY <2>3, <3>1 DEF ListAgrees, Claims
    <2>10. ASSUME pods'[id] # pods[id] PROVE Puts(id)
      <3>1. MountsAt(id, p.t) /\ id[1] # None
        BY <1>3, <2>2, NoneAssumption DEF SplitInv, FirstMounts
      <3>2. ASSUME NEW v \in Volumes, v \notin flags'.moved, v \notin flags'.unowned
            PROVE  Stays(v, p) /\ (pods[id] # None => v \notin pods[id].t.vols \/ \A m \in Nodes : <<v, m>> \notin data)
        <4>1. VolumeAt(v) /\ v \notin flags.moved
          BY <1>0, <3>2 DEF SplitInv, VolumesFollowed
        <4>2. v \in p.t.vols => \A m \in Nodes : <<v, m>> \notin data
          BY <1>1, <1>3, <2>2, <4>1, NoneAssumption DEF VolumeAt, Stays
        <4>3. Stays(v, p)
          BY <4>2 DEF Stays
        <4> QED
          BY <2>2, <2>8, <4>1, <4>2, <4>3
      <3> QED
        BY <2>5, <2>10, <3>1, <3>2 DEF Puts
    <2> QED
      BY <1>0, <1>1, <1>4, <2>5, <2>7, <2>9, <2>10, SplitKept DEF PodsKept
  <1>6. CASE PlaceFails(n)
    <2> DEFINE owned == [rc.owned EXCEPT ![id].node = n]
    <2>1. rc' = ToClaim(owned) /\ UNCHANGED pods
      BY <1>6 DEF PlaceFails, objects
    <2> HIDE DEF id
    <2>2. DOMAIN owned = DOMAIN rc.owned /\ \A o \in DOMAIN rc.owned : owned[o].t = rc.owned[o].t /\ owned[o] \in Pod
      <3>1. owned[id] = p /\ \A o \in DOMAIN rc.owned \ {id} : owned[o] = rc.owned[o]
        BY <1>3
      <3>2. p \in Pod /\ p.t = rc.owned[id].t
        BY <1>3 DEF Pod
      <3>3. \A o \in DOMAIN rc.owned : rc.owned[o] \in Pod
        BY DEF TypeOK, RcOK
      <3> HIDE DEF p
      <3> QED
        BY <1>3, <3>1, <3>2, <3>3
    <2> HIDE DEF owned
    <2>3. rc'.at = "claim" /\ rc'.owned = owned
      BY <1>1, <2>1, <2>2, ToClaimIs
    <2>4. PassKept /\ ListAgrees' /\ Claims'
      BY <2>2, <2>3 DEF PassKept, ListAgrees, Claims
    <2>5. PodsKept
      BY <2>1 DEF PodsKept
    <2> QED
      BY <1>0, <1>1, <1>4, <2>4, <2>5, SplitKept
  <1> QED
    BY <1>5, <1>6

LEMMA SplitPlaceEnds ==
    ASSUME TypeOK, SplitInv, [Next]_vars, PlaceEnds
    PROVE  SplitInv'
  <1>1. /\ SamePass /\ rc.at = "place" /\ rc'.at = "claim"
        /\ \A id \in PodNames : \/ pods'[id] = pods[id]
                                \/ id \in DOMAIN rc.owned /\ pods'[id] = rc.owned[id] /\ rc.owned[id].node = None
        /\ UNCHANGED <<volumes, storage, call, pr, flags>>
    BY PlaceEndsPass
  <1>2. PassKept /\ ListAgrees' /\ Claims'
    BY <1>1 DEF PassKept, SamePass, ListAgrees, Claims
  <1>3. ClaimsKept /\ OwnPassKept /\ ReportsKept /\ data' = data
    BY <1>1 DEF ClaimsKept, Claimed, OwnPassKept, SplitInv, OwnIsFlagged, ReportsKept, storage
  <1>4. ASSUME NEW id \in PodNames, pods'[id] # pods[id] PROVE Puts(id)
    <2>1. id \in DOMAIN rc.owned /\ pods'[id] = rc.owned[id] /\ rc.owned[id].node = None
      BY <1>1, <1>4
    <2>2. id[1] = rc.d /\ rc.d # None
      BY <1>1, <2>1, NoneAssumption DEF TypeOK, RcOK
    <2>3. MountsAt(id, rc.owned[id].t)
      BY <2>1 DEF SplitInv, FirstMounts
    <2>4. pods[id] # None => pods[id].t.vols \subseteq flags.moved
      BY <1>1, <1>4, <2>1, <2>2 DEF SplitInv, ListAgrees
    <2>5. \A v \in Volumes : v \notin flags.moved /\ v \notin flags.unowned => Stays(v, rc.owned[id])
      BY <1>1, <2>1 DEF SplitInv, VolumesFollowed, VolumeAt
    <2> QED
      BY <1>1, <2>1, <2>2, <2>3, <2>4, <2>5 DEF Puts
  <1>5. PodsKept
    BY <1>4 DEF PodsKept
  <1> QED
    BY <1>1, <1>2, <1>3, <1>5, SplitKept

\* A volume is claimed where it was not.
LEMMA SplitClaims ==
    ASSUME TypeOK, SplitInv, [Next]_vars, ClaimGet \/ ClaimPut \/ ClaimFails
    PROVE  SplitInv'
  <1>0. flags.moved \subseteq flags'.moved /\ flags.unowned \subseteq flags'.unowned
    BY MovedGrows
  <1>1. /\ SamePass /\ rc'.at \in {"claim", "claiming"}
        /\ UNCHANGED <<pods, storage, call, pr>>
    BY ClaimPass
  <1>2. PassKept /\ ListAgrees' /\ PodsKept /\ OwnPassKept /\ ReportsKept /\ data' = data
    BY <1>0, <1>1 DEF PassKept, SamePass, ListAgrees, PodsKept, OwnPassKept, SplitInv, OwnIsFlagged, ReportsKept, storage
  <1>3. CASE UNCHANGED volumes /\ (rc'.at = "claiming" => ~Claimed(NextVolume) /\ rc'.left = rc.left)
    <2>1. ClaimsKept
      BY <1>3 DEF ClaimsKept, Claimed
    <2>2. Claims'
      BY <1>3 DEF Claims, Claimed, NextVolume
    <2> QED
      BY <1>0, <1>2, <2>1, <2>2, SplitKept
  <1>4. ASSUME rc.at = "claiming", rc'.at = "claim", NEW v \in Volumes, v = NextVolume,
               \A u \in Volumes \ {v} : volumes'[u] = volumes[u]
        PROVE  SplitInv'
    <2>1. ~Claimed(v)
      BY <1>4 DEF SplitInv, Claims
    <2>2. ClaimsKept /\ Claims'
      BY <1>4, <2>1 DEF ClaimsKept, Claimed, Claims
    <2> QED
      BY <1>0, <1>2, <2>2, SplitKept
  <1> QED
    BY <1>3, <1>4, ClaimPass

\* A pass begins or ends.
LEMMA SplitStatus ==
    ASSUME TypeOK, SplitInv, [Next]_vars,
           (\E d \in Names : Fetch(d)) \/ (Refetch \/ PutStatus \/ RcStops)
    PROVE  SplitInv'
  <1>0. flags.moved \subseteq flags'.moved /\ flags.unowned \subseteq flags'.unowned
    BY MovedGrows
  <1>1. rc'.owned = << >> /\ rc'.at \notin {"place", "claiming"} /\ UNCHANGED <<pods, volumes, storage, call, pr>>
    <2>1. ASSUME NEW d \in Names, Fetch(d)
          PROVE  rc'.owned = << >> /\ rc'.at \notin {"place", "claiming"} /\ UNCHANGED <<pods, volumes, storage, call, pr>>
      BY <2>1, FetchPass DEF objects
    <2>2. CASE Refetch \/ PutStatus \/ RcStops
      BY <2>2, StatusPass, NoPassIs DEF Refetches, PutsStatus, GivesUp
    <2> QED
      BY <2>1, <2>2
  <1>2. PassKept /\ ListAgrees' /\ Claims'
    BY <1>1, NoPassIs DEF PassKept, ListAgrees, Claims
  <1>3. ClaimsKept /\ PodsKept /\ OwnPassKept /\ ReportsKept /\ data' = data
    BY <1>0, <1>1 DEF ClaimsKept, Claimed, PodsKept, OwnPassKept, SplitInv, OwnIsFlagged, ReportsKept, storage
  <1> QED
    BY <1>0, <1>2, <1>3, SplitKept

LEMMA SplitStep ==
    ASSUME TypeOK, SplitInv, SharingInv, [Next]_vars
    PROVE  SplitInv'
  <1>0. flags.moved \subseteq flags'.moved /\ flags.unowned \subseteq flags'.unowned
    BY MovedGrows
  <1>1. ASSUME UNCHANGED <<volumes, data, call, rc, pr>>, PodsKept,
               \A id \in PodNames : pods'[id] \in {pods[id], None}
        PROVE  SplitInv'
    <2>1. ClaimsKept /\ OwnPassKept /\ ReportsKept /\ \A v \in Volumes : Claimed(v)' => Claimed(v)
      BY <1>0, <1>1 DEF ClaimsKept, Claimed, OwnPassKept, SplitInv, OwnIsFlagged, ReportsKept
    <2>2. \A id \in PodNames : pods'[id] # None => pods'[id] = pods[id]
      BY <1>1
    <2> QED
      BY <1>1, <2>1, <2>2, SplitQuiet
  <1>2. ASSUME UNCHANGED <<pods, volumes, data, call, rc, pr>> PROVE SplitInv'
    <2>1. PodsKept
      BY <1>2 DEF PodsKept
    <2> QED
      BY <1>1, <1>2, <2>1
  <1>3. CASE PassStep
    BY <1>3, SplitSize, SplitListOwned, SplitPlace, SplitPlaceEnds, SplitClaims, SplitStatus DEF PassStep
  <1>4. ASSUME NEW id \in PodNames, DeletePod(id) PROVE SplitInv'
    <2>1. /\ pods'[id] = None /\ \A o \in PodNames \ {id} : pods'[o] = pods[o]
          /\ UNCHANGED <<volumes, storage, call, controllers>>
      BY <1>4, DeletePodStep
    <2>2. Unclaimed(id) \subseteq flags'.moved
      <3> DEFINE x == Unclaimed(id)
      <3>1. flags' = Raise("moved", x)
        BY <1>4 DEF DeletePod
      <3> HIDE DEF x
      <3>2. flags'.moved = flags.moved \cup x
        BY <3>1 DEF Raise, TypeOK, FlagFields
      <3> QED
        BY <3>2 DEF x
    <2>3. PodsKept
      BY <2>1, <2>2 DEF PodsKept, Leaves
    <2>4. UNCHANGED <<volumes, data, call, rc, pr>> /\ \A o \in PodNames : pods'[o] \in {pods[o], None}
      BY <2>1 DEF storage, controllers
    <2> QED
      BY <1>1, <2>3, <2>4
  <1>5. ASSUME NEW d \in DOMAIN Manifests, GitSync(d) PROVE SplitInv'
    BY <1>2, <1>5 DEF GitSync, storage, controllers
  <1>6. CASE UNCHANGED vars
    BY <1>2, <1>6 DEF vars
  <1> QED
    BY <1>3, <1>4, <1>5, <1>6, SplitHandlers, SplitPods, SplitMount, Steps

LEMMA SplitInit ==
    ASSUME Init
    PROVE  SplitInv
  <1>1. /\ rc.at = "idle" /\ DOMAIN rc.owned = {} /\ DOMAIN pr.owned = {}
        /\ \A h \in Handlers : call[h].at = "idle"
    BY NoPassIs, IdleCall DEF Init
  <1>2. CASE Empty
    <2>1. (\A id \in PodNames : pods[id] = None) /\ data = {}
      BY <1>2 DEF Empty, NoPods
    <2> QED
      BY <1>1, <2>1 DEF SplitInv, FirstMounts, OwnIsFlagged, ListAgrees, Claims, VolumesFollowed, VolumeAt
  <1>3. CASE Placed
    <2>1. PICK v \in Volumes, n \in Nodes :
              LET t == [Clean EXCEPT !.vols = {v}]
              IN  /\ pods = [NoPods EXCEPT ![<<v, 0>>] = [t |-> t, node |-> n]]
                  /\ volumes = [u \in Volumes |-> IF u = v THEN [node |-> n, owner |-> v] ELSE None]
                  /\ data = {<<v, n>>}
      BY <1>3 DEF Placed
    <2> DEFINE t == [Clean EXCEPT !.vols = {v}]
               p == [t |-> t, node |-> n]
               r == [node |-> n, owner |-> v]
               z == <<v, 0>>
    <2>2. t.vols = {v}
      BY DEF Clean
    <2>3. v \in Names /\ v # None /\ z[1] = v /\ z[2] = 0 /\ n # None
      BY VolumesAssumption, NoneAssumption
    <2> HIDE DEF t
    <2>4. p.t.vols = {v} /\ p.node = n /\ r.node = n /\ r \in Volume
      BY <2>2, <2>3 DEF Volume
    <2>5. r # None
      BY <2>4, NoneAssumption
    <2> HIDE DEF p, r, z
    <2>6. /\ \A id \in PodNames : pods[id] # None => id = z /\ pods[id] = p
          /\ \A u \in Volumes : volumes[u] = IF u = v THEN r ELSE None
          /\ data = {<<v, n>>}
      BY <2>1 DEF NoPods, t, p, r, z
    <2>7. FirstMounts /\ OwnIsFlagged /\ ListAgrees /\ Claims
      BY <1>1, <2>3, <2>6 DEF FirstMounts, MountsAt, OwnIsFlagged, ListAgrees, Claims
    <2>8. ASSUME NEW u \in Volumes PROVE VolumeAt(u)
      <3>1. ASSUME NEW m \in Nodes, <<u, m>> \in data PROVE u = v /\ m = n
        BY <2>6, <3>1
      <3>2. Claimed(v) /\ volumes[v].node = n
        BY <2>3, <2>4, <2>5, <2>6 DEF Claimed
      <3>3. \A id \in PodNames : pods[id] # None => Stays(u, pods[id])
        BY <2>4, <2>6, <3>1 DEF Stays
      <3> QED
        BY <1>1, <3>1, <3>2, <3>3 DEF VolumeAt
    <2> QED
      BY <2>7, <2>8 DEF SplitInv, VolumesFollowed
  <1> QED
    BY <1>2, <1>3 DEF Init

LEMMA SplitImplies ==
    ASSUME SplitInv
    PROVE  SplitVolumeIsExplained
  <1> SUFFICES ASSUME NEW v \in Volumes, NEW m \in Nodes, NEW n \in Nodes,
                      <<v, m>> \in data, <<v, n>> \in data, v \notin flags.moved, v \notin flags.unowned
               PROVE  m = n
    BY DEF SplitVolumeIsExplained
  <1>1. VolumeAt(v)
    BY DEF SplitInv, VolumesFollowed
  <1>2. CASE \E id \in PodNames : pods[id] # None /\ v \in pods[id].t.vols
    BY <1>1, <1>2 DEF VolumeAt, Stays
  <1>3. CASE ~\E id \in PodNames : pods[id] # None /\ v \in pods[id].t.vols
    BY <1>1, <1>3 DEF VolumeAt, Holds
  <1> QED
    BY <1>2, <1>3

-----------------------------------------------------------------------------
(* The theorems.                                                           *)

(***************************************************************************)
(* Type correctness: what the registry, the requests in flight and the two *)
(* controllers' passes hold. A pass lists only pods of its deployment, or, *)
(* for the pod controller, pods without one, and claims only volumes of    *)
(* its copy's template.                                                    *)
(***************************************************************************)
THEOREM TypeCorrectness == Spec => []TypeOK
  <1>1. Init => TypeOK
    BY TypeInit
  <1>2. TypeOK /\ [Next]_vars => TypeOK'
    BY TypeStep
  <1> QED
    BY <1>1, <1>2, PTL DEF Spec

(***************************************************************************)
(* DeploymentService, PodService, the status reports and the controllers   *)
(* store nothing the admission chain objects to: what is stored without    *)
(* passing it is what Sync put from the Git repository, the autoscaler's   *)
(* copies of it included.                                                  *)
(***************************************************************************)
THEOREM AdmissionBypass == Spec => []AdmissionBypassIsGitOps
  <1>1. Init => AdmissionInv
    BY AdmissionInit
  <1>2. TypeOK /\ AdmissionInv /\ [Next]_vars => AdmissionInv'
    BY AdmissionStep
  <1>3. AdmissionInv => AdmissionBypassIsGitOps
    BY DEF AdmissionInv
  <1> QED
    BY <1>1, <1>2, <1>3, TypeCorrectness, PTL DEF Spec

(***************************************************************************)
(* CreateVolume and DeleteVolume keep the driver's directories and the     *)
(* records in step, but for calls that overlap or are cut short, and for a *)
(* claim whose Put brings back a record deleted since its Get.             *)
(***************************************************************************)
THEOREM Directories == Spec => []DirectoriesMatchRecords
  <1>1. Init => DirectoryInv
    BY DirectoryInit
  <1>2. TypeOK /\ DirectoryInv /\ [Next]_vars => DirectoryInv'
    BY DirectoryStep
  <1>3. DirectoryInv => DirectoriesMatchRecords
    <2>1. ASSUME DirectoryInv, NEW v \in Volumes, v \notin flags.torn, \A h \in Handlers : ~Halfway(h, v)
          PROVE  volumes[v] # None <=> v \in dirs
      BY <2>1 DEF DirectoryInv
    <2> QED
      BY <2>1 DEF DirectoriesMatchRecords, Halfway
  <1> QED
    BY <1>1, <1>2, <1>3, TypeCorrectness, PTL DEF Spec

(***************************************************************************)
(* VolumeOwnershipPolicy keeps a volume to one deployment, unless it was   *)
(* asked while another already mounted the volume and none owned it, could *)
(* not read the volume, or was not asked at all, by Sync or by a status    *)
(* report that puts a pod back.                                            *)
(***************************************************************************)
THEOREM SharedVolumes == Spec => []SharedVolumeIsExplained
  <1>1. Init => SharingInv
    BY SharingInit
  <1>2. TypeOK /\ SharingInv /\ [Next]_vars => SharingInv'
    BY SharingStep
  <1>3. TypeOK /\ SharingInv => SharedVolumeIsExplained
    BY SharingImplies
  <1> QED
    BY <1>1, <1>2, <1>3, TypeCorrectness, PTL DEF Spec

(***************************************************************************)
(* A volume keeps its data on one node, whatever controllers, requests,    *)
(* agents and deletions do, until its claim is lost or not yet made when   *)
(* its pod goes, its pod follows the claim of another volume, a status     *)
(* report undoes what became of its pod, or pods without a common owner    *)
(* mount it: claimVolumeNodes claims the node its pod is on, and           *)
(* resolveVolumeNode sends the next pod there.                             *)
(***************************************************************************)
THEOREM SplitVolumes == Spec => []SplitVolumeIsExplained
  <1>1. Init => SplitInv /\ SharingInv
    BY SplitInit, SharingInit
  <1>2. TypeOK /\ SplitInv /\ SharingInv /\ [Next]_vars => SplitInv' /\ SharingInv'
    BY SplitStep, SharingStep
  <1>3. TypeOK /\ SplitInv /\ SharingInv => SplitVolumeIsExplained
    BY SplitImplies
  <1> QED
    BY <1>1, <1>2, <1>3, TypeCorrectness, PTL DEF Spec

(***************************************************************************)
(* handleCreateDeployment's restart leaves no pod of the old template      *)
(* behind, whatever the controllers, agents and other requests do          *)
(* meanwhile, but for the writes that restart nothing, status reports that *)
(* put a pod back, and restarts that are cut short.                        *)
(***************************************************************************)
THEOREM StalePods == Spec => []StalePodIsExplained
  <1>1. Init => StaleInv
    BY StaleInit
  <1>2. TypeOK /\ StaleInv /\ [Next]_vars => StaleInv'
    BY StaleStep
  <1>3. StaleInv => StalePodIsExplained
    BY StaleImplies
  <1> QED
    BY <1>1, <1>2, <1>3, TypeCorrectness, PTL DEF Spec

(***************************************************************************)
(* The two controllers, each with the usage it counted before its pass,    *)
(* fill no node beyond what it can allocate, unless one pass of either     *)
(* places twice, the two overlap, or something puts a pod there past the   *)
(* scheduler: a claim, the client that made the pod, or a status report of *)
(* a pod deleted or moved since.                                           *)
(***************************************************************************)
THEOREM Overcommit == Spec => []OvercommitIsExplained
  <1>1. Init => LoadInv
    BY LoadInit
  <1>2. TypeOK /\ LoadInv /\ [Next]_vars => LoadInv'
    BY LoadStep
  <1>3. LoadInv => OvercommitIsExplained
    BY DEF LoadInv
  <1> QED
    BY <1>1, <1>2, <1>3, TypeCorrectness, PTL DEF Spec

(***************************************************************************)
(* Pods exceed the namespace's quota only after an admission that could    *)
(* not see what had been granted before (quota.go sums the pods that       *)
(* exist), after the autoscaler or Git asked for more without admission,   *)
(* or after a status report put a deleted pod back: until then the pods    *)
(* there are, and those that every deployment, request and pass may still  *)
(* create, fit the quota together.                                         *)
(***************************************************************************)
THEOREM QuotaOverruns == Spec => []QuotaOverrunIsExplained
  <1>1. Init => QuotaInv
    BY QuotaInit
  <1>2. TypeOK /\ TypeOK' /\ QuotaInv /\ [Next]_vars => QuotaInv'
    BY QuotaStep
  <1>3. TypeOK /\ QuotaInv => QuotaOverrunIsExplained
    BY QuotaImplies
  <1> QED
    BY <1>1, <1>2, <1>3, TypeCorrectness, PTL DEF Spec
=============================================================================
