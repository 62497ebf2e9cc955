------------------------------ MODULE Identity ------------------------------
(***************************************************************************)
(* Workload identity: the certificate authority of the bootstrap replica   *)
(* and the file that keeps it (internal/identity/ca.go, persist.go), the   *)
(* enrolment of agents, joining replicas and command line clients          *)
(* (enroll.go, internal/apiserver/identity_service.go), the loops that     *)
(* renew SVIDs every ttl/2 (rotate.go), the mutual TLS handshake (svid.go) *)
(* and the interceptor (internal/apiserver/auth.go).                       *)
(*                                                                         *)
(* A certificate is [ca, life]: the generation of the authority that       *)
(* signed it and the half lifetimes it has left; 0 is expired.  A          *)
(* connection is verified at its handshake and never again.                *)
(***************************************************************************)
EXTENDS Integers, RBAC

CONSTANTS
    Agents,
    Joiners,     \* replicas started without -bootstrap
    Clients,     \* invocations of nimbusctl, and other clusters' federation services
    None,
    MaxFaults    \* bound: processes that end, lost files, broken connections

ASSUME FaultsAssumption == MaxFaults \in Nat
ASSUME NoneAssumption == None \notin Nat /\ None \notin Agents \cup Joiners \cup Clients
ASSUME NoFileAssumption == None \notin [ca : Nat, whole : BOOLEAN]

Members == Agents \cup Joiners \cup Clients
Renewing == Agents \cup Joiners
Role(m) == IF m \in Agents THEN "NODE" ELSE IF m \in Joiners THEN "CONTROL_PLANE" ELSE "CLIENT"
Path(role) == [NODE |-> "node", CONTROL_PLANE |-> "controlplane", CLIENT |-> "client"][role]
Calls(m) == IF m \in Agents THEN AgentCalls
            ELSE IF m \in Joiners THEN JoinerCalls
            ELSE UNION {ApplyCalls, GetCalls, DeleteCalls, RunCalls, FederationCalls}

TTL == 2         \* in half lifetimes: the loops tick every ttl/2

VARIABLES
    file,        \* bootstrap-identity.json: [ca, whole], or None
    issuer,      \* the bootstrap replica: "down", "saving" or "up"
    ca,          \* the authority in its memory
    drawn,       \* authorities made so far
    server,      \* its own certificate
    running,     \* member processes
    svid,        \* per member: its certificate
    bundle,      \* per member: the authority it trusts
    joined,      \* joining replicas whose JoinRaft call has returned
    link,        \* members with an established connection
    due,         \* members (and None for the issuer) whose ticker has fired
    missed,      \* members whose last renewal failed (history)
    faults

authority == <<file, issuer, ca, drawn>>
identities == <<running, svid, bundle, joined>>
ivars == <<file, issuer, ca, drawn, server, running, svid, bundle, joined,
           link, due, missed, faults>>

Certificate == [ca : Nat, life : 0 .. TTL]
NoCert == [ca |-> 0, life |-> 0]

\* Mutant: half the lifetime is asked for.
IssueSVID_Half(g) == [ca |-> g, life |-> TTL - 1]

IssueSVID(g) == [ca |-> g, life |-> TTL]

\* A certificate passes a verifier that trusts the authority g.
Verifies(cert, g) == cert.ca = g /\ cert.life > 0

Fault == faults < MaxFaults /\ faults' = faults + 1

IInit ==
    /\ file = None
    /\ issuer = "down"
    /\ ca = 0
    /\ drawn = 0
    /\ server = NoCert
    /\ running = {}
    /\ svid = [m \in Members |-> NoCert]
    /\ bundle = [m \in Members |-> 0]
    /\ joined = {}
    /\ link = {}
    /\ due = {}
    /\ missed = {}
    /\ faults = 0

-----------------------------------------------------------------------------
(* The bootstrap replica *)

\* Mutant: the new authority signs before it is on disk.
BootNew_ServesFirst ==
    /\ issuer = "down"
    /\ file = None
    /\ ca' = drawn + 1
    /\ drawn' = drawn + 1
    /\ issuer' = "up"
    /\ server' = IssueSVID(drawn + 1)
    /\ UNCHANGED <<file, identities, link, due, missed, faults>>

\* No file: NewCA, then SaveBootstrapState begins to write.
BootNew ==
    /\ issuer = "down"
    /\ file = None
    /\ ca' = drawn + 1
    /\ drawn' = drawn + 1
    /\ file' = [ca |-> drawn + 1, whole |-> FALSE]
    /\ issuer' = "saving"
    /\ UNCHANGED <<server, identities, link, due, missed, faults>>

BootSaved ==
    /\ issuer = "saving"
    /\ file' = [ca |-> ca, whole |-> TRUE]
    /\ issuer' = "up"
    /\ server' = IssueSVID(ca)
    /\ UNCHANGED <<ca, drawn, identities, link, due, missed, faults>>

\* The file is there; one that does not parse ends the process.
BootAgain ==
    /\ issuer = "down"
    /\ file # None
    /\ file.whole
    /\ ca' = file.ca
    /\ issuer' = "up"
    /\ server' = IssueSVID(file.ca)
    /\ UNCHANGED <<file, drawn, identities, link, due, missed, faults>>

IssuerStops ==
    /\ Fault
    /\ issuer # "down"
    /\ issuer' = "down"
    /\ link' = {}
    /\ due' = due \ {None}
    /\ UNCHANGED <<file, ca, drawn, server, identities, missed>>

\* The data directory is lost while the replica is down.
FileLost ==
    /\ Fault
    /\ issuer = "down"
    /\ file # None
    /\ file' = None
    /\ UNCHANGED <<issuer, ca, drawn, server, identities, link, due, missed>>

\* Mutant: the certificate is issued and never put to use.
SelfIssue_NotRotated ==
    /\ None \in due
    /\ due' = due \ {None}
    /\ UNCHANGED <<authority, server, identities, link, missed, faults>>

\* StartSelfIssueRotateLoop
SelfIssue ==
    /\ None \in due
    /\ server' = IssueSVID(ca)
    /\ due' = due \ {None}
    /\ UNCHANGED <<authority, identities, link, missed, faults>>

-----------------------------------------------------------------------------
(* Members *)

\* RequestSVID needs the token only: no connection and no valid SVID.
Enroll(m) ==
    /\ m \notin running
    /\ issuer = "up"
    /\ running' = running \cup {m}
    /\ svid' = [svid EXCEPT ![m] = IssueSVID(ca)]
    /\ bundle' = [bundle EXCEPT ![m] = ca]
    /\ UNCHANGED <<authority, server, joined, link, due, missed, faults>>

Ended(m) ==
    /\ m \in running
    /\ running' = running \ {m}
    /\ svid' = [svid EXCEPT ![m] = NoCert]
    /\ bundle' = [bundle EXCEPT ![m] = 0]
    /\ joined' = joined \ {m}
    /\ link' = link \ {m}
    /\ due' = due \ {m}
    /\ missed' = missed \ {m}
    /\ UNCHANGED <<authority, server>>

MemberStops(m) == m \in Renewing /\ Fault /\ Ended(m)
CommandReturns(m) == m \in Clients /\ Ended(m) /\ UNCHANGED faults

\* StartReenrollRotateLoop: Rotate takes the new key and certificate, and not
\* the trust bundle that came with them.
Renew(m) ==
    /\ m \in due
    /\ m # None
    /\ issuer = "up"
    /\ svid' = [svid EXCEPT ![m] = IssueSVID(ca)]
    /\ due' = due \ {m}
    /\ missed' = missed \ {m}
    /\ UNCHANGED <<authority, server, running, bundle, joined, link, faults>>

\* The error is logged and the loop waits for its next tick.
RenewFails(m) ==
    /\ m \in due
    /\ m # None
    /\ IF issuer = "up" THEN Fault ELSE UNCHANGED faults
    /\ due' = due \ {m}
    /\ missed' = missed \cup {m}
    /\ UNCHANGED <<authority, server, identities, link>>

\* Half a lifetime passes: certificates age, every ticker fires.
HalfLife ==
    /\ due = {}
    /\ svid' = [m \in Members |-> [svid[m] EXCEPT !.life = IF @ > 0 THEN @ - 1 ELSE 0]]
    /\ server' = [server EXCEPT !.life = IF @ > 0 THEN @ - 1 ELSE 0]
    /\ due' = (running \cap Renewing) \cup (IF issuer = "up" THEN {None} ELSE {})
    /\ UNCHANGED <<authority, running, bundle, joined, link, missed, faults>>

-----------------------------------------------------------------------------
(* Connections *)

\* verifyPeerSPIFFE on the client's side, VerifyClientCertIfGiven on the server's.
Handshake(cert, g) == issuer = "up" /\ Verifies(server, g) /\ Verifies(cert, ca)

\* An agent keeps its client connection, which gRPC dials again whenever it is
\* broken; a command dials once; a replica dials to join and never after.
Connect(m) ==
    /\ m \in running \ (link \cup joined)
    /\ Handshake(svid[m], bundle[m])
    /\ link' = link \cup {m}
    /\ UNCHANGED <<authority, server, identities, due, missed, faults>>

\* joinRaftCluster: JoinRaft returned, conn.Close().
JoinReturns(m) ==
    /\ m \in Joiners \cap link
    /\ joined' = joined \cup {m}
    /\ link' = link \ {m}
    /\ UNCHANGED <<authority, server, running, svid, bundle, due, missed, faults>>

\* The dial or JoinRaft failed or took 30 s: log.Fatalf.
JoinFails(m) == m \in Joiners \ joined /\ Ended(m) /\ UNCHANGED faults

\* (For a command or a joining replica that is the end of it: see above.)
LinkBreaks(m) ==
    /\ Fault
    /\ m \in link \cap Agents
    /\ link' = link \ {m}
    /\ UNCHANGED <<authority, server, identities, due, missed>>

\* The interceptor on an established connection: the calls of m that it denies.
Denied(m) == {method \in Calls(m) : ~Authorised(Path(Role(m)), method)}

IdentityNext ==
    \/ BootNew \/ BootSaved \/ BootAgain \/ IssuerStops \/ FileLost \/ SelfIssue \/ HalfLife
    \/ \E m \in Members :
          \/ Enroll(m) \/ MemberStops(m) \/ CommandReturns(m)
          \/ Renew(m) \/ RenewFails(m) \/ Connect(m) \/ LinkBreaks(m)
          \/ JoinReturns(m) \/ JoinFails(m)

-----------------------------------------------------------------------------
(***************************************************************************)
(* The type of every variable.                                             *)
(***************************************************************************)
IdentityTypeOK ==
    /\ file = None \/ file \in [ca : 1 .. drawn, whole : BOOLEAN]
    /\ issuer \in {"down", "saving", "up"}
    /\ drawn \in Nat
    /\ ca \in 0 .. drawn
    /\ server \in Certificate
    /\ running \subseteq Members
    /\ svid \in [Members -> Certificate]
    /\ bundle \in [Members -> 0 .. drawn]
    /\ joined \subseteq running \cap Joiners
    /\ link \subseteq running
    /\ due \subseteq Renewing \cup {None}
    /\ missed \subseteq running \cap Renewing
    /\ faults \in 0 .. MaxFaults

(***************************************************************************)
(* An authority that signs is one a restart will find again: at no point   *)
(* between NewCA and serving can a crash leave members with certificates   *)
(* of an authority that is not on disk.                                    *)
(***************************************************************************)
SigningAuthorityIsSaved ==
    issuer = "up" => file # None /\ file.whole /\ file.ca = ca

(***************************************************************************)
(* The certificate of a running agent or replica expires only after a      *)
(* renewal failed: one tick per half lifetime is enough when all goes      *)
(* well, and one failure is already too many, because the next tick comes  *)
(* when the certificate has run out.                                       *)
(***************************************************************************)
ExpiryMeansMissedRenewal ==
    \A m \in running \cap Renewing : svid[m].life = 0 => m \in missed

(***************************************************************************)
(* No client of this repository is denied a call it makes, but for the two *)
(* node operations of nimbusctl: "apply" of a Node and "delete nodes" need *)
(* verbs the client role does not have.  Every other entry of the method   *)
(* table and of the roles fits what agents, replicas and nimbusctl do.     *)
(***************************************************************************)
OnlyNodeCommandsAreDenied ==
    \A m \in link : Denied(m) \subseteq IF m \in Clients THEN {"CreateNode", "DeleteNode"} ELSE {}

(***************************************************************************)
(* When the issuer is up for good, every agent gets back its connection,   *)
(* expired certificate or not, unless the authority was replaced under it: *)
(* the renewed certificate is then the new authority's, but the trust      *)
(* bundle is still the old one's, and only a restart of the process mends  *)
(* that.  (A joining replica dials once and exits when that fails.)        *)
(***************************************************************************)
Stranded(m) == bundle[m] # ca

AgentsReconnect ==
    <>[](issuer = "up")
        => <>[](\A m \in running \cap Agents : m \in link \/ Stranded(m))
=============================================================================
