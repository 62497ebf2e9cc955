-------------------------- MODULE Federation_proofs --------------------------
(***************************************************************************)
(* Identity and federation for any number of agents, replicas, clients and *)
(* calls: the authority that signs is on disk, a certificate runs out only *)
(* after a failed renewal, no connection to another cluster leaks, and     *)
(* calls that do not overlap leave both maps of connections alike.         *)
(***************************************************************************)
EXTENDS Federation, TLAPS

(***************************************************************************)
(* The strengthening for certificates: a member whose last renewal did not *)
(* fail has a whole lifetime left, or half of it while its ticker is due.  *)
(***************************************************************************)
Renewals ==
    /\ due \ {None} \subseteq running \cap Renewing
    /\ \A m \in running \cap Renewing :
          m \in missed \/ svid[m].life >= IF m \in due THEN 1 ELSE 2

Boots == issuer = "saving" => ca > 0

IdentityInv == IdentityTypeOK /\ SigningAuthorityIsSaved /\ Boots /\ Renewals

(***************************************************************************)
(* The strengthening for connections: while calls have not overlapped only *)
(* one is under way, and what it finds depends on where it is.             *)
(***************************************************************************)
FederationTypeOK ==
    /\ made \in 0 .. MaxConns
    /\ conn \in {None} \cup 1 .. made
    /\ registered \in {None} \cup 1 .. made
    /\ open \subseteq 1 .. made
    /\ call \in [Handlers -> [at : {"idle", "store", "register", "forget"},
                              conn : {None} \cup 1 .. made]]
    /\ overlapped \in BOOLEAN
    /\ \A h \in Handlers : call[h].at = "idle" => call[h] = Idle

Alone ==
    ~overlapped => \A g, h \in Handlers : call[g] # Idle /\ call[h] # Idle => g = h

Stages ==
    ~overlapped =>
        \A h \in Handlers :
            /\ call[h].at = "store" =>
                  call[h].conn \in open /\ call[h].conn # conn /\ open \subseteq {conn, call[h].conn}
            /\ call[h].at = "register" => conn = call[h].conn /\ open = {conn}
            /\ call[h].at = "forget" => registered = None /\ open \subseteq {conn}

FederationInv ==
    /\ FederationTypeOK
    /\ RegistryMatchesService
    /\ Alone
    /\ Stages

-----------------------------------------------------------------------------
(* Identity *)

\* An issued certificate has its whole lifetime before it.
LEMMA Issued ==
    ASSUME NEW g \in Nat
    PROVE  IssueSVID(g) \in Certificate /\ IssueSVID(g).life = 2
BY DEF IssueSVID, Certificate, TTL

\* The file as SaveBootstrapState leaves it, half-way and at its end.
LEMMA FileShapes ==
    ASSUME NEW d \in Nat, NEW g \in 1 .. d
    PROVE  /\ [ca |-> g, whole |-> TRUE] \in [ca : 1 .. d, whole : BOOLEAN]
           /\ [ca |-> g, whole |-> FALSE] \in [ca : 1 .. d, whole : BOOLEAN]
<1>1. TRUE \in BOOLEAN /\ FALSE \in BOOLEAN
  OBVIOUS
<1> QED
  BY <1>1

\* The bound on faults leaves their count in its range.
LEMMA FaultsBounded == ASSUME IdentityTypeOK, Fault PROVE faults' \in 0 .. MaxFaults
BY FaultsAssumption DEF IdentityTypeOK, Fault

LEMMA BootNewKeeps == ASSUME IdentityInv, BootNew PROVE IdentityInv'
<1> USE DEF identities
<1>1. drawn \in Nat /\ drawn + 1 \in 1 .. drawn + 1
  BY DEF IdentityInv, IdentityTypeOK
<1>2. file' \in [ca : 1 .. drawn', whole : BOOLEAN]
  BY <1>1, FileShapes DEF BootNew
<1>3. IdentityTypeOK'
  BY <1>1, <1>2 DEF IdentityInv, IdentityTypeOK, BootNew
<1>4. SigningAuthorityIsSaved'
  BY DEF BootNew, SigningAuthorityIsSaved
<1> QED
  BY <1>1, <1>3, <1>4 DEF IdentityInv, Boots, Renewals, BootNew

LEMMA BootSavedKeeps == ASSUME IdentityInv, BootSaved PROVE IdentityInv'
<1> USE DEF identities
<1>1. drawn \in Nat /\ ca \in 1 .. drawn
  BY DEF IdentityInv, IdentityTypeOK, Boots, BootSaved
<1>2. file' \in [ca : 1 .. drawn', whole : BOOLEAN] /\ server' \in Certificate
  BY <1>1, FileShapes, Issued DEF BootSaved
<1>3. IdentityTypeOK'
  BY <1>2 DEF IdentityInv, IdentityTypeOK, BootSaved
<1>4. SigningAuthorityIsSaved'
  <2>1. file' = [ca |-> ca, whole |-> TRUE] /\ ca' = ca
    BY DEF BootSaved
  <2>2. file' \in [ca : Nat, whole : BOOLEAN]
    <3>1. ca \in Nat /\ TRUE \in BOOLEAN
      BY <1>1
    <3> QED
      BY <2>1, <3>1
  <2>3. file' # None
    BY <2>2, NoFileAssumption
  <2> QED
    BY <2>1, <2>3 DEF SigningAuthorityIsSaved
<1> QED
  BY <1>3, <1>4 DEF IdentityInv, Boots, Renewals, BootSaved

LEMMA BootAgainKeeps == ASSUME IdentityInv, BootAgain PROVE IdentityInv'
<1> USE DEF identities
<1>1. file \in [ca : 1 .. drawn, whole : BOOLEAN] /\ drawn \in Nat
  BY DEF IdentityInv, IdentityTypeOK, BootAgain
<1>2. file.ca \in 1 .. drawn
  BY <1>1
<1>3. IdentityTypeOK'
  BY <1>1, <1>2, Issued DEF IdentityInv, IdentityTypeOK, BootAgain
<1>4. SigningAuthorityIsSaved'
  BY DEF SigningAuthorityIsSaved, BootAgain
<1> QED
  BY <1>3, <1>4 DEF IdentityInv, Boots, Renewals, BootAgain

LEMMA IssuerStopsKeeps == ASSUME IdentityInv, IssuerStops PROVE IdentityInv'
<1> USE DEF identities
<1>1. IdentityTypeOK'
  BY FaultsBounded DEF IdentityInv, IdentityTypeOK, IssuerStops
<1>2. Renewals'
  BY NoneAssumption DEF IdentityInv, Renewals, Renewing, IssuerStops
<1> QED
  BY <1>1, <1>2 DEF IdentityInv, Boots, SigningAuthorityIsSaved, IssuerStops

LEMMA FileLostKeeps == ASSUME IdentityInv, FileLost PROVE IdentityInv'
<1> USE DEF identities
<1>1. IdentityTypeOK'
  BY FaultsBounded DEF IdentityInv, IdentityTypeOK, FileLost
<1> QED
  BY <1>1 DEF IdentityInv, Boots, SigningAuthorityIsSaved, Renewals, FileLost

LEMMA SelfIssueKeeps == ASSUME IdentityInv, SelfIssue PROVE IdentityInv'
<1> USE DEF identities, authority
<1>1. IdentityTypeOK'
  BY Issued DEF IdentityInv, IdentityTypeOK, SelfIssue
<1>2. Renewals'
  BY NoneAssumption DEF IdentityInv, Renewals, Renewing, SelfIssue
<1> QED
  BY <1>1, <1>2 DEF IdentityInv, Boots, SigningAuthorityIsSaved, SelfIssue

LEMMA EnrollKeeps == ASSUME IdentityInv, NEW m \in Members, Enroll(m) PROVE IdentityInv'
<1> USE DEF identities, authority
<1>1. ca \in Nat /\ ca \in 0 .. drawn
  BY DEF IdentityInv, IdentityTypeOK
<1>2. IdentityTypeOK'
  BY <1>1, Issued DEF IdentityInv, IdentityTypeOK, Enroll
<1>3. m \notin due
  BY NoneAssumption DEF IdentityInv, Renewals, Enroll, Members
<1>4. Renewals'
  BY <1>1, <1>3, Issued DEF IdentityInv, IdentityTypeOK, Renewals, Enroll
<1> QED
  BY <1>2, <1>4 DEF IdentityInv, Boots, SigningAuthorityIsSaved, Enroll

LEMMA EndedKeeps ==
    ASSUME IdentityInv, NEW m \in Members, Ended(m), faults' \in 0 .. MaxFaults
    PROVE  IdentityInv'
<1> USE DEF identities, authority
<1>1. NoCert \in Certificate
  BY DEF NoCert, Certificate, TTL
<1>2. IdentityTypeOK'
  BY <1>1 DEF IdentityInv, IdentityTypeOK, Ended
<1>3. Renewals'
  BY DEF IdentityInv, IdentityTypeOK, Renewals, Ended
<1> QED
  BY <1>2, <1>3 DEF IdentityInv, Boots, SigningAuthorityIsSaved, Ended

LEMMA RenewKeeps == ASSUME IdentityInv, NEW m \in Members, Renew(m) PROVE IdentityInv'
<1> USE DEF identities, authority
<1>1. ca \in Nat
  BY DEF IdentityInv, IdentityTypeOK
<1>2. IdentityTypeOK'
  BY <1>1, Issued DEF IdentityInv, IdentityTypeOK, Renew
<1>3. Renewals'
  BY <1>1, Issued DEF IdentityInv, IdentityTypeOK, Renewals, Renew
<1> QED
  BY <1>2, <1>3 DEF IdentityInv, Boots, SigningAuthorityIsSaved, Renew

LEMMA RenewFailsKeeps == ASSUME IdentityInv, NEW m \in Members, RenewFails(m) PROVE IdentityInv'
<1> USE DEF identities, authority
<1>1. faults' \in 0 .. MaxFaults
  BY FaultsBounded DEF IdentityInv, IdentityTypeOK, RenewFails
<1>2. m \in running \cap Renewing
  BY DEF IdentityInv, Renewals, RenewFails
<1>3. IdentityTypeOK'
  BY <1>1, <1>2 DEF IdentityInv, IdentityTypeOK, RenewFails
<1>4. Renewals'
  BY <1>2 DEF IdentityInv, Renewals, RenewFails
<1> QED
  BY <1>3, <1>4 DEF IdentityInv, Boots, SigningAuthorityIsSaved, RenewFails

\* Half a lifetime costs a certificate one of the two halves it has.
LEMMA HalfLifeKeeps == ASSUME IdentityInv, HalfLife PROVE IdentityInv'
<1> USE DEF identities, authority
<1>1. ASSUME NEW c \in Certificate
      PROVE  LET d == [c EXCEPT !.life = IF @ > 0 THEN @ - 1 ELSE 0]
             IN  d \in Certificate /\ (c.life >= 2 => d.life >= 1)
  BY DEF Certificate, TTL
<1>2. svid' \in [Members -> Certificate] /\ server' \in Certificate
  BY <1>1 DEF IdentityInv, IdentityTypeOK, HalfLife
<1>3. due' \subseteq Renewing \cup {None} /\ due' \ {None} \subseteq running \cap Renewing
  BY DEF HalfLife
<1>4. IdentityTypeOK'
  BY <1>2, <1>3 DEF IdentityInv, IdentityTypeOK, HalfLife
<1>5. ASSUME NEW m \in running \cap Renewing, m \notin missed PROVE svid'[m].life >= 1 /\ m \in due'
  <2>1. svid[m] \in Certificate /\ svid[m].life >= 2
    BY <1>5 DEF IdentityInv, IdentityTypeOK, Renewals, HalfLife
  <2> QED
    BY <1>1, <1>5, <2>1 DEF HalfLife, IdentityInv, IdentityTypeOK
<1>6. Renewals'
  BY <1>3, <1>5 DEF Renewals, HalfLife
<1> QED
  BY <1>4, <1>6 DEF IdentityInv, Boots, SigningAuthorityIsSaved, HalfLife

LEMMA ConnectKeeps == ASSUME IdentityInv, NEW m \in Members, Connect(m) PROVE IdentityInv'
BY DEF IdentityInv, IdentityTypeOK, Boots, SigningAuthorityIsSaved, Renewals, Connect, identities, authority

LEMMA LinkBreaksKeeps == ASSUME IdentityInv, NEW m \in Members, LinkBreaks(m) PROVE IdentityInv'
BY FaultsBounded
   DEF IdentityInv, IdentityTypeOK, Boots, SigningAuthorityIsSaved, Renewals, LinkBreaks, identities, authority

LEMMA JoinReturnsKeeps == ASSUME IdentityInv, NEW m \in Members, JoinReturns(m) PROVE IdentityInv'
BY DEF IdentityInv, IdentityTypeOK, Boots, SigningAuthorityIsSaved, Renewals, JoinReturns, authority

LEMMA IdentityNextKeeps == ASSUME IdentityInv, IdentityNext PROVE IdentityInv'
<1>1. ASSUME NEW m \in Members, MemberStops(m) \/ CommandReturns(m) \/ JoinFails(m)
      PROVE  IdentityInv'
  <2>1. faults' \in 0 .. MaxFaults
    BY <1>1, FaultsBounded DEF MemberStops, CommandReturns, JoinFails, IdentityInv, IdentityTypeOK
  <2> QED
    BY <1>1, <2>1, EndedKeeps DEF MemberStops, CommandReturns, JoinFails
<1> QED
  BY <1>1, BootNewKeeps, BootSavedKeeps, BootAgainKeeps, IssuerStopsKeeps, FileLostKeeps, SelfIssueKeeps,
     HalfLifeKeeps, EnrollKeeps, RenewKeeps, RenewFailsKeeps, ConnectKeeps, LinkBreaksKeeps, JoinReturnsKeeps
  DEF IdentityNext

LEMMA IdentityStutters == ASSUME IdentityInv, UNCHANGED ivars PROVE IdentityInv'
BY DEF IdentityInv, IdentityTypeOK, Boots, SigningAuthorityIsSaved, Renewals, ivars

LEMMA IdentityStarts == IInit => IdentityInv
<1> SUFFICES ASSUME IInit PROVE IdentityInv
  OBVIOUS
<1>1. NoCert \in Certificate
  BY DEF NoCert, Certificate, TTL
<1>2. IdentityTypeOK
  BY <1>1, FaultsAssumption DEF IInit, IdentityTypeOK
<1> QED
  BY <1>2 DEF IInit, IdentityInv, Boots, SigningAuthorityIsSaved, Renewals

-----------------------------------------------------------------------------
(* Federation *)

\* A connection is a number, so none of them is None.
LEMMA ConnectionsAreNumbers ==
    ASSUME FederationTypeOK
    PROVE  made \in Nat /\ None \notin open /\ None \notin 1 .. made /\ made + 1 \notin open
<1>1. made \in 0 .. MaxConns /\ open \subseteq 1 .. made
  BY DEF FederationTypeOK
<1>2. made \in Nat
  BY <1>1, ConnsAssumption
<1>3. 1 .. made \subseteq Nat /\ made + 1 \notin 1 .. made
  BY <1>2
<1> QED
  BY <1>1, <1>2, <1>3, NoneAssumption

\* The step a handler takes changes its own entry and leaves the others as they are.
LEMMA CallsOfOthers ==
    ASSUME FederationTypeOK, NEW h \in Handlers, NEW c, call' = [call EXCEPT ![h] = c]
    PROVE  call'[h] = c /\ \A g \in Handlers \ {h} : call'[g] = call[g]
BY DEF FederationTypeOK

\* No call holds a connection when none is under way.
LEMMA QuietHoldsNothing == ASSUME Quiet PROVE Held = {}
BY DEF Quiet, Held, Idle

LEMMA EnrolClusterKeeps == ASSUME FederationInv, NEW h \in Handlers, EnrolCluster(h) PROVE FederationInv'
<1> DEFINE new == [at |-> "store", conn |-> made + 1]
<1>1. FederationTypeOK /\ made' = made + 1 /\ open' = open \cup {made + 1} /\ call' = [call EXCEPT ![h] = new]
      /\ conn' = conn /\ registered' = registered /\ overlapped' = ~Quiet /\ made < MaxConns
  BY DEF FederationInv, EnrolCluster, Begins, Proceeds
<1>2. call'[h] = new /\ \A g \in Handlers \ {h} : call'[g] = call[g]
  BY <1>1, CallsOfOthers
<1>3. made \in Nat /\ None \notin open /\ made + 1 \notin open
  BY <1>1, ConnectionsAreNumbers
<1>4. new.at # "idle" /\ new # Idle /\ new.conn = made + 1 /\ new.at = "store"
  BY DEF Idle
<1>5. FederationTypeOK'
  <2>1. /\ made' \in 0 .. MaxConns
        /\ conn' \in {None} \cup 1 .. made'
        /\ registered' \in {None} \cup 1 .. made'
        /\ open' \subseteq 1 .. made'
    BY <1>1, <1>3, ConnsAssumption DEF FederationTypeOK
  <2>2. call' \in [Handlers -> [at : {"idle", "store", "register", "forget"}, conn : {None} \cup 1 .. made']]
    <3>1. \A g \in Handlers : call[g] \in [at : {"idle", "store", "register", "forget"}, conn : {None} \cup 1 .. made']
      BY <1>1, <1>3 DEF FederationTypeOK
    <3>2. new \in [at : {"idle", "store", "register", "forget"}, conn : {None} \cup 1 .. made']
      BY <1>1, <1>3
    <3> QED
      BY <1>1, <3>1, <3>2 DEF FederationTypeOK
  <2>3. overlapped' \in BOOLEAN
    BY <1>1
  <2>4. \A g \in Handlers : call'[g].at = "idle" => call'[g] = Idle
    BY <1>1, <1>2, <1>4 DEF FederationTypeOK
  <2> QED
    BY <2>1, <2>2, <2>3, <2>4 DEF FederationTypeOK
<1>6. call[h] = Idle
  BY DEF EnrolCluster, Begins
<1>7. RegistryMatchesService'
  <2>1. Held' = Held \cup {made + 1}
    BY <1>2, <1>4, <1>6 DEF Held, Idle
  <2>2. ~Quiet'
    BY <1>2, <1>4 DEF Quiet
  <2> QED
    BY <1>1, <2>1, <2>2 DEF FederationInv, RegistryMatchesService
<1>8. ASSUME ~overlapped' PROVE (\A g \in Handlers \ {h} : call'[g] = Idle) /\ open \subseteq {conn}
  <2>1. Quiet
    BY <1>1, <1>8
  <2> QED
    BY <1>2, <2>1, QuietHoldsNothing DEF Quiet, FederationInv, RegistryMatchesService
<1>9. Alone'
  BY <1>8 DEF Alone
<1>10. made + 1 # conn
  BY <1>1, <1>3, NoneAssumption DEF FederationTypeOK
<1>11. Stages'
  BY <1>1, <1>2, <1>4, <1>8, <1>10 DEF Stages, Idle
<1> QED
  BY <1>5, <1>7, <1>9, <1>11 DEF FederationInv

LEMMA StoreClusterKeeps == ASSUME FederationInv, NEW h \in Handlers, StoreCluster(h) PROVE FederationInv'
<1> DEFINE new == [at |-> "register", conn |-> call[h].conn]
<1>1. FederationTypeOK /\ call' = [call EXCEPT ![h] = new] /\ conn' = call[h].conn /\ open' = open \ {conn}
      /\ registered' = registered /\ made' = made /\ overlapped' = overlapped /\ call[h].at = "store"
  BY DEF FederationInv, StoreCluster, Proceeds
<1>2. call'[h] = new /\ \A g \in Handlers \ {h} : call'[g] = call[g]
  BY <1>1, CallsOfOthers
<1>3. new.at = "register" /\ new # Idle /\ new.conn = call[h].conn /\ call[h] # Idle
  BY <1>1 DEF Idle
<1>4. FederationTypeOK'
  BY <1>1, <1>2, <1>3 DEF FederationTypeOK
<1>5. RegistryMatchesService'
  <2>1. Held \subseteq Held' \cup {conn'}
    BY <1>1, <1>2 DEF Held
  <2>2. ~Quiet'
    BY <1>2, <1>3 DEF Quiet
  <2> QED
    BY <1>1, <2>1, <2>2 DEF FederationInv, RegistryMatchesService
<1>6. Alone'
  BY <1>1, <1>2, <1>3 DEF FederationInv, Alone
<1>7. ASSUME ~overlapped PROVE \A g \in Handlers \ {h} : call'[g] = Idle
  BY <1>2, <1>3, <1>7 DEF FederationInv, Alone
<1>8. ASSUME ~overlapped PROVE open' = {conn'}
  BY <1>1, <1>8 DEF FederationInv, Stages
<1>9. Stages'
  BY <1>1, <1>2, <1>3, <1>7, <1>8 DEF Stages, Idle
<1> QED
  BY <1>4, <1>5, <1>6, <1>9 DEF FederationInv

\* What a call leaves behind at its end, whichever of the two it is.
LEMMA CallEnds ==
    ASSUME FederationInv, NEW h \in Handlers, call' = [call EXCEPT ![h] = Idle], call[h] # Idle,
           overlapped' = overlapped, made' = made,
           conn' \in {None} \cup 1 .. made, registered' \in {None} \cup 1 .. made, open' \subseteq open,
           call[h].at # "store", open' \subseteq {conn'} \cup Held,
           ~overlapped => registered' = conn' /\ open' = {conn'} \ {None}
    PROVE  FederationInv'
<1>1. FederationTypeOK
  BY DEF FederationInv
<1>2. call'[h] = Idle /\ \A g \in Handlers \ {h} : call'[g] = call[g]
  BY <1>1, CallsOfOthers
<1>3. Idle.at = "idle" /\ Idle \in [at : {"idle", "store", "register", "forget"}, conn : {None} \cup 1 .. made]
  BY DEF Idle
<1>4. FederationTypeOK'
  BY <1>1, <1>2, <1>3 DEF FederationTypeOK
<1>5. Held' = Held
  BY <1>2, <1>3 DEF Held
<1>6. RegistryMatchesService'
  BY <1>5 DEF RegistryMatchesService
<1>7. ASSUME ~overlapped PROVE \A g \in Handlers : call'[g] = Idle
  BY <1>2, <1>7 DEF FederationInv, Alone
<1>8. Alone' /\ Stages'
  BY <1>3, <1>7 DEF Alone, Stages
<1> QED
  BY <1>4, <1>6, <1>8 DEF FederationInv

LEMMA RegisterKeeps == ASSUME FederationInv, NEW h \in Handlers, Register(h) PROVE FederationInv'
<1>1. FederationTypeOK /\ call' = [call EXCEPT ![h] = Idle] /\ registered' = call[h].conn /\ call[h].at = "register"
      /\ conn' = conn /\ open' = open /\ made' = made /\ overlapped' = overlapped
  BY DEF FederationInv, Register
<1>2. call[h] # Idle /\ call[h].at # "store"
  BY <1>1 DEF Idle
<1>3. conn' \in {None} \cup 1 .. made /\ registered' \in {None} \cup 1 .. made
  BY <1>1 DEF FederationTypeOK
<1>4. open' \subseteq {conn'} \cup Held
  BY <1>1 DEF FederationInv, RegistryMatchesService
<1>5. ASSUME ~overlapped PROVE registered' = conn' /\ open' = {conn'} \ {None}
  BY <1>1, <1>5, ConnectionsAreNumbers DEF FederationInv, Stages
<1> QED
  BY <1>1, <1>2, <1>3, <1>4, <1>5, CallEnds

LEMMA ForgetClusterKeeps == ASSUME FederationInv, NEW h \in Handlers, ForgetCluster(h) PROVE FederationInv'
<1>1. FederationTypeOK /\ call' = [call EXCEPT ![h] = Idle] /\ conn' = None /\ call[h].at = "forget"
      /\ open' = open \ {conn} /\ registered' = registered /\ made' = made /\ overlapped' = overlapped
  BY DEF FederationInv, ForgetCluster
<1>2. call[h] # Idle /\ call[h].at # "store"
  BY <1>1 DEF Idle
<1>3. conn' \in {None} \cup 1 .. made /\ registered' \in {None} \cup 1 .. made
  BY <1>1 DEF FederationTypeOK
<1>4. open' \subseteq {conn'} \cup Held
  BY <1>1 DEF FederationInv, RegistryMatchesService
<1>5. ASSUME ~overlapped PROVE registered' = conn' /\ open' = {conn'} \ {None}
  BY <1>1, <1>5 DEF FederationInv, Stages
<1> QED
  BY <1>1, <1>2, <1>3, <1>4, <1>5, CallEnds

LEMMA UnregisterKeeps == ASSUME FederationInv, NEW h \in Handlers, Unregister(h) PROVE FederationInv'
<1> DEFINE new == [at |-> "forget", conn |-> None]
<1>1. FederationTypeOK /\ call' = [call EXCEPT ![h] = new] /\ registered' = None /\ call[h] = Idle
      /\ overlapped' = ~Quiet /\ conn' = conn /\ open' = open /\ made' = made
  BY DEF FederationInv, Unregister, Begins, Proceeds
<1>2. call'[h] = new /\ \A g \in Handlers \ {h} : call'[g] = call[g]
  BY <1>1, CallsOfOthers
<1>3. new.at = "forget" /\ new # Idle
  BY DEF Idle
<1>4. FederationTypeOK'
  <2>1. new \in [at : {"idle", "store", "register", "forget"}, conn : {None} \cup 1 .. made]
    OBVIOUS
  <2>2. overlapped' \in BOOLEAN
    BY <1>1
  <2>3. call' \in [Handlers -> [at : {"idle", "store", "register", "forget"}, conn : {None} \cup 1 .. made']]
    BY <1>1, <2>1 DEF FederationTypeOK
  <2>4. \A g \in Handlers : call'[g].at = "idle" => call'[g] = Idle
    BY <1>1, <1>2, <1>3 DEF FederationTypeOK
  <2> QED
    BY <1>1, <2>2, <2>3, <2>4 DEF FederationTypeOK
<1>5. RegistryMatchesService'
  <2>1. Held' = Held
    BY <1>1, <1>2, <1>3 DEF Held, Idle
  <2>2. ~Quiet'
    BY <1>2, <1>3 DEF Quiet
  <2> QED
    BY <1>1, <2>1, <2>2 DEF FederationInv, RegistryMatchesService
<1>6. ASSUME ~overlapped' PROVE (\A g \in Handlers \ {h} : call'[g] = Idle) /\ open \subseteq {conn}
  <2>1. Quiet
    BY <1>1, <1>6
  <2> QED
    BY <1>2, <2>1, QuietHoldsNothing DEF Quiet, FederationInv, RegistryMatchesService
<1>7. Alone'
  BY <1>6 DEF Alone
<1>8. Stages'
  BY <1>1, <1>2, <1>3, <1>6 DEF Stages, Idle
<1> QED
  BY <1>4, <1>5, <1>7, <1>8 DEF FederationInv

LEMMA FederationNextKeeps == ASSUME FederationInv, FederationNext PROVE FederationInv'
BY EnrolClusterKeeps, StoreClusterKeeps, RegisterKeeps, UnregisterKeeps, ForgetClusterKeeps DEF FederationNext

LEMMA FederationStutters == ASSUME FederationInv, UNCHANGED fvars PROVE FederationInv'
BY DEF FederationInv, FederationTypeOK, RegistryMatchesService, Held, Quiet, Alone, Stages, fvars

LEMMA FederationStarts == FInit => FederationInv
<1> SUFFICES ASSUME FInit PROVE FederationInv
  OBVIOUS
<1>1. FederationTypeOK
  <2>1. 0 \in 0 .. MaxConns
    BY ConnsAssumption
  <2>2. \A h \in Handlers : call[h] = Idle
    BY DEF FInit
  <2>3. overlapped \in BOOLEAN
    BY DEF FInit
  <2> QED
    BY <2>1, <2>2, <2>3 DEF FInit, FederationTypeOK, Idle
<1>2. RegistryMatchesService
  BY DEF FInit, RegistryMatchesService
<1> QED
  BY <1>1, <1>2 DEF FInit, FederationInv, Alone, Stages, Idle

-----------------------------------------------------------------------------
(* The tables of the interceptor *)

\* Each role has a rule for every call of the program that is given the role.
LEMMA AgentsAllowed == \A method \in AgentCalls : Authorised("node", method)
<1>1. /\ {"CreateNode", "Heartbeat", "ListPods", "UpdatePodStatus", "ListServices"} \subseteq DOMAIN methodResourceVerb
      /\ methodResourceVerb["CreateNode"] = <<"nodes", "create">>
      /\ methodResourceVerb["Heartbeat"] = <<"nodes", "update">>
      /\ methodResourceVerb["ListPods"] = <<"pods", "list">>
      /\ methodResourceVerb["UpdatePodStatus"] = <<"pods", "update">>
      /\ methodResourceVerb["ListServices"] = <<"services", "list">>
  BY SMTT(30) DEF methodResourceVerb
<1>2. /\ Allow("node", "nodes", "create")
      /\ Allow("node", "nodes", "update")
      /\ Allow("node", "pods", "list")
      /\ Allow("node", "pods", "update")
      /\ Allow("node", "services", "list")
  BY DEF Allow, DefaultRBACBindings, nodeRole, Rule, RuleAllows, Wildcard
<1> QED
  BY <1>1, <1>2 DEF Authorised, AgentCalls

LEMMA JoinersAllowed == \A method \in JoinerCalls : Authorised("controlplane", method)
<1>1. /\ {"JoinRaft"} \subseteq DOMAIN methodResourceVerb
      /\ methodResourceVerb["JoinRaft"] = <<"admin", "join">>
  BY SMTT(30) DEF methodResourceVerb
<1>2. /\ Allow("controlplane", "admin", "join")
  BY DEF Allow, DefaultRBACBindings, controlPlaneRole, Rule, RuleAllows, Wildcard
<1> QED
  BY <1>1, <1>2 DEF Authorised, JoinerCalls

ClientCalls == UNION {ApplyCalls, GetCalls, DeleteCalls, RunCalls, FederationCalls}

LEMMA ClientsAllowed == \A method \in ClientCalls \ {"CreateNode", "DeleteNode"} : Authorised("client", method)
<1>1. /\ {"CreatePod", "CreateDeployment", "CreateService", "ListPods", "ListNodes", "ListServices", "ListDeployments", "DeletePod", "DeleteDeployment"} \subseteq DOMAIN methodResourceVerb
      /\ methodResourceVerb["CreatePod"] = <<"pods", "create">>
      /\ methodResourceVerb["CreateDeployment"] = <<"deployments", "create">>
      /\ methodResourceVerb["CreateService"] = <<"services", "create">>
      /\ methodResourceVerb["ListPods"] = <<"pods", "list">>
      /\ methodResourceVerb["ListNodes"] = <<"nodes", "list">>
      /\ methodResourceVerb["ListServices"] = <<"services", "list">>
      /\ methodResourceVerb["ListDeployments"] = <<"deployments", "list">>
      /\ methodResourceVerb["DeletePod"] = <<"pods", "delete">>
      /\ methodResourceVerb["DeleteDeployment"] = <<"deployments", "delete">>
  BY SMTT(30) DEF methodResourceVerb
<1>2. /\ Allow("client", "deployments", "create")
      /\ Allow("client", "deployments", "delete")
      /\ Allow("client", "deployments", "list")
      /\ Allow("client", "nodes", "list")
      /\ Allow("client", "pods", "create")
      /\ Allow("client", "pods", "delete")
      /\ Allow("client", "pods", "list")
      /\ Allow("client", "services", "create")
      /\ Allow("client", "services", "list")
  BY DEF Allow, DefaultRBACBindings, clientRole, Rule, RuleAllows, Wildcard
<1> QED
  BY <1>1, <1>2 DEF Authorised, ClientCalls, ApplyCalls, GetCalls, DeleteCalls, RunCalls, FederationCalls

LEMMA PathOfRole ==
    ASSUME NEW m
    PROVE  Path(Role(m)) = IF m \in Agents THEN "node" ELSE IF m \in Joiners THEN "controlplane" ELSE "client"
BY DEF Path, Role

\* The client role gives nodes no verb but "get" and "list".
LEMMA NodeCommandsDenied ==
    ASSUME NEW method \in {"CreateNode", "DeleteNode"}
    PROVE  ~Authorised("client", method)
<1>1. method \notin IdentityService
  BY DEF IdentityService
<1>2. ~Allow("client", "nodes", "create") /\ ~Allow("client", "nodes", "delete")
  BY DEF Allow, DefaultRBACBindings, clientRole, Rule, RuleAllows, Wildcard
<1>3. methodResourceVerb["CreateNode"] = <<"nodes", "create">> /\ methodResourceVerb["DeleteNode"] = <<"nodes", "delete">>
  BY DEF methodResourceVerb
<1> QED
  BY <1>1, <1>2, <1>3 DEF Authorised

LEMMA DeniedCalls ==
    ASSUME NEW m \in Members
    PROVE  Denied(m) = IF m \in Renewing THEN {} ELSE {"CreateNode", "DeleteNode"}
<1>1. CASE m \in Agents
  BY <1>1, AgentsAllowed, PathOfRole DEF Denied, Calls, Renewing
<1>2. CASE m \in Joiners \ Agents
  BY <1>2, JoinersAllowed, PathOfRole DEF Denied, Calls, Renewing
<1>3. CASE m \notin Renewing
  <2>1. Denied(m) = {method \in ClientCalls : ~Authorised("client", method)}
    BY <1>3, PathOfRole DEF Denied, Calls, Renewing, ClientCalls
  <2>2. "CreateNode" \in ClientCalls /\ "DeleteNode" \in ClientCalls
    BY DEF ClientCalls, ApplyCalls, DeleteCalls
  <2> QED
    BY <1>3, <2>1, <2>2, ClientsAllowed, NodeCommandsDenied
<1> QED
  BY <1>1, <1>2, <1>3 DEF Renewing

-----------------------------------------------------------------------------
LEMMA InvHolds == Spec => [](IdentityInv /\ FederationInv)
<1>1. Init => IdentityInv /\ FederationInv
  BY IdentityStarts, FederationStarts DEF Init
<1>2. IdentityInv /\ FederationInv /\ [Next]_vars => (IdentityInv /\ FederationInv)'
  <2> SUFFICES ASSUME IdentityInv, FederationInv, [Next]_vars PROVE IdentityInv' /\ FederationInv'
    OBVIOUS
  <2>1. CASE IdentityNext /\ UNCHANGED fvars
    BY <2>1, IdentityNextKeeps, FederationStutters
  <2>2. CASE FederationNext /\ UNCHANGED ivars
    BY <2>2, FederationNextKeeps, IdentityStutters
  <2>3. CASE UNCHANGED vars
    BY <2>3, IdentityStutters, FederationStutters DEF vars
  <2> QED
    BY <2>1, <2>2, <2>3 DEF Next
<1> QED
  BY <1>1, <1>2, PTL DEF Spec

(***************************************************************************)
(* Every reachable state is well typed, however many members and calls     *)
(* there are: the file, the certificates and the connections of            *)
(* persist.go, svid.go and federation_service.go.                          *)
(***************************************************************************)
THEOREM TypeCorrectness == Spec => []TypeOK
<1>1. IdentityInv /\ FederationInv => TypeOK
  BY DEF IdentityInv, FederationInv, FederationTypeOK, TypeOK
<1> QED
  BY <1>1, InvHolds, PTL

(***************************************************************************)
(* The authority that signs is the one on disk (ca.go, persist.go): no     *)
(* sequence of crashes, lost files and restarts makes the issuer serve     *)
(* with an authority that a restart would not find.                        *)
(***************************************************************************)
THEOREM AuthoritySaved == Spec => []SigningAuthorityIsSaved
<1>1. IdentityInv => SigningAuthorityIsSaved
  BY DEF IdentityInv
<1> QED
  BY <1>1, InvHolds, PTL

(***************************************************************************)
(* A running member's certificate runs out only after a failed renewal: a  *)
(* tick every ttl/2 (rotate.go) is often enough for any number of members. *)
(***************************************************************************)
THEOREM ExpiryExplained == Spec => []ExpiryMeansMissedRenewal
<1>1. IdentityInv => ExpiryMeansMissedRenewal
  BY DEF IdentityInv, Renewals, ExpiryMeansMissedRenewal
<1> QED
  BY <1>1, InvHolds, PTL

(***************************************************************************)
(* On no connection does the interceptor (auth.go) deny an agent, a        *)
(* joining replica or nimbusctl a call it makes, but for the two node      *)
(* commands of nimbusctl.                                                  *)
(***************************************************************************)
THEOREM OnlyNodeCommands == Spec => []OnlyNodeCommandsAreDenied
<1>1. IdentityInv => OnlyNodeCommandsAreDenied
  BY DeniedCalls DEF IdentityInv, IdentityTypeOK, OnlyNodeCommandsAreDenied, Members, Renewing
<1> QED
  BY <1>1, InvHolds, PTL

(***************************************************************************)
(* No number of concurrent RegisterCluster and UnregisterCluster calls     *)
(* (federation_service.go) leaks a connection, and calls that do not       *)
(* overlap leave the registry and the service with the same open one.      *)
(***************************************************************************)
THEOREM RegistryAgrees == Spec => []RegistryMatchesService
<1>1. FederationInv => RegistryMatchesService
  BY DEF FederationInv
<1> QED
  BY <1>1, InvHolds, PTL
=============================================================================
