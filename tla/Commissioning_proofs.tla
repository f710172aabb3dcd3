------------------------ MODULE Commissioning_proofs ------------------------
(***************************************************************************)
(* Proofs about Commissioning, for every set of places and every number of *)
(* commands: the inductive invariant IInv, with it the types, OneAttempt,  *)
(* ListedAnswered, PlacesApart and SessionsMatch.                          *)
(***************************************************************************)
EXTENDS Commissioning, WellFoundedInduction, TLAPS

(* The least of a set of numbers is in it. *)
LEMMA LeastOf ==
  ASSUME NEW S \in SUBSET Nat, S # {}
  PROVE  Min(S) \in S
<1>1. \E x \in S : \A y \in S : ~(<<y, x>> \in OpToRel(<, Nat))
  BY NatLessThanWellFounded, WFMin, Zenon
<1>2. \A x, y \in Nat : y < x => <<y, x>> \in OpToRel(<, Nat)
  BY DEF OpToRel
<1>3. \E x \in S : \A y \in S : ~(y < x)
  BY <1>1, <1>2, Zenon
<1>4. \E x \in S : \A y \in S : x <= y
  BY <1>3
<1> QED
  BY <1>4 DEF Min

(* The states, and what an answer makes of them. *)
LEMMA StatesAre ==
  /\ States = {"PBKDF", "Pake2", "Status", "ArmFailSafe", "SetRegulatoryConfig",
               "ReadBasicInfo", "RequestPAI", "RequestDAC", "RequestAttestation",
               "CSRRequest", "AddTrustedRootCert", "AddNOC", "ReadNetworkType",
               "AddThreadNetwork", "AddWiFiNetwork", "ConnectNetwork"}
  /\ DOMAIN After = States \ {"Status", "AddNOC", "ReadNetworkType", "ConnectNetwork"}
BY DEF States, After

LEMMA AfterIs ==
  /\ After["PBKDF"] = "Pake2" /\ After["Pake2"] = "Status"
  /\ \A s \in DOMAIN After \ PaseStates : After[s] \in States \ PaseStates
<1>1. /\ After["PBKDF"] = "Pake2" /\ After["Pake2"] = "Status"
      /\ After["ArmFailSafe"] = "SetRegulatoryConfig"
      /\ After["SetRegulatoryConfig"] = "ReadBasicInfo"
      /\ After["ReadBasicInfo"] = "RequestPAI" /\ After["RequestPAI"] = "RequestDAC"
      /\ After["RequestDAC"] = "RequestAttestation"
      /\ After["RequestAttestation"] = "CSRRequest"
      /\ After["CSRRequest"] = "AddTrustedRootCert"
      /\ After["AddTrustedRootCert"] = "AddNOC"
      /\ After["AddThreadNetwork"] = "ConnectNetwork"
      /\ After["AddWiFiNetwork"] = "ConnectNetwork"
  BY DEF After
<1> QED
  BY <1>1, StatesAre DEF PaseStates

(* An answer told apart by its kind is for a commission past PASE. *)
LEMMA KindIs ==
  ASSUME NEW s \in DOMAIN After \ (Reads \cup PaseStates), NEW t \in States, Kind(t) = Kind(s)
  PROVE  t \in DOMAIN After \ PaseStates
BY StatesAre DEF Kind, Reads, PaseStates

LEMMA MatchingIs ==
  ASSUME NEW k, Matching(k) # {}
  PROVE  /\ Min(Matching(k)) \in Commissions /\ Made(Min(Matching(k)))
         /\ Kind(commission[Min(Matching(k))].state) = k
<1>1. Matching(k) \in SUBSET Nat
  BY CommissioningAssumption DEF Matching, Commissions
<1>2. Min(Matching(k)) \in Matching(k)
  BY <1>1, LeastOf
<1> QED
  BY <1>2 DEF Matching

(* What is sent for commission i is a request of it. *)
LEMMA SentIs ==
  ASSUME NEW i \in Commissions, NEW r, r.state \in States, NEW ob \in BOOLEAN, NEW lk
  PROVE  \A a \in Sent(i, r, ob, lk) : a \in Request /\ a.of = i
<1> DEFINE ble == r.state \in OnlyBle \/ ob
           q == [of |-> i, step |-> r.state, ble |-> ble]
<1>1. ble \in BOOLEAN
  OBVIOUS
<1>2. Sent(i, r, ob, lk) \subseteq {q}
  BY DEF Sent
<1> HIDE DEF ble
<1>3. q \in Request /\ q.of = i
  BY <1>1 DEF Request
<1> QED
  BY <1>2, <1>3

-----------------------------------------------------------------------------
(* m_pendingCommissions with what goes with it: the part of IInv that is    *)
(* about commissions, whoever the user.                                     *)
CommissionsOK ==
  /\ made \in 0..MaxSearch
  /\ commission \in [Commissions -> PendingCommission \cup {None}]
  /\ given \in [Commissions -> Nodes \cup {None}]
  /\ sessions \subseteq Commissions /\ asked \subseteq Request
  /\ Ordered /\ SessionsMatch /\ PlacesApart

(* One commission goes on at the place where it is. *)
LEMMA GoesOn ==
  ASSUME CommissionsOK, searches \in Nat, NEW i \in Commissions, Made(i),
         NEW r \in PendingCommission,
         r.node = commission[i].node, r.place = commission[i].place,
         commission' = [commission EXCEPT ![i] = r],
         asked' \subseteq asked \cup {a \in Request : a.of = i},
         sessions' = IF r.state \in PaseStates THEN sessions \ {i} ELSE sessions \cup {i},
         UNCHANGED <<searches, made, given>>
  PROVE  CommissionsOK'
<1>1. /\ commission' \in [Commissions -> PendingCommission \cup {None}]
      /\ commission'[i] = r /\ r # None
      /\ \A j \in Commissions : j # i => commission'[j] = commission[j]
  BY NoneAssumption DEF CommissionsOK
<1>2. \A j \in Commissions : Made(j)' <=> Made(j)
  BY <1>1 DEF Made
<1>3. Ordered'
  <2>1. \A a \in asked' : a.of \in Commissions /\ Made(a.of)
    BY DEF CommissionsOK, Ordered, Request
  <2> QED
    BY <1>1, <1>2, <2>1 DEF CommissionsOK, Ordered, Made
<1>4. SessionsMatch'
  BY <1>1, <1>2 DEF CommissionsOK, SessionsMatch, InPase
<1>5. PlacesApart'
  BY <1>1, <1>2 DEF CommissionsOK, PlacesApart
<1>6. sessions' \subseteq Commissions /\ asked' \subseteq Request
  BY DEF CommissionsOK
<1> QED
  BY <1>1, <1>3, <1>4, <1>5, <1>6 DEF CommissionsOK

(* One commission goes, with its requests and its session. *)
LEMMA Goes ==
  ASSUME CommissionsOK, searches \in Nat, NEW i \in Commissions,
         commission' = [commission EXCEPT ![i] = None],
         asked' \subseteq {a \in asked : a.of # i}, sessions' = sessions \ {i},
         UNCHANGED <<searches, made, given>>
  PROVE  CommissionsOK'
<1>1. /\ commission' \in [Commissions -> PendingCommission \cup {None}]
      /\ commission'[i] = None
      /\ \A j \in Commissions : j # i => commission'[j] = commission[j]
  BY DEF CommissionsOK
<1>2. Ordered'
  <2>1. \A a \in asked' : a.of \in Commissions /\ a.of # i /\ Made(a.of)
    BY DEF CommissionsOK, Ordered, Request
  <2> QED
    BY <1>1, <2>1 DEF CommissionsOK, Ordered, Made
<1>3. SessionsMatch'
  BY <1>1 DEF CommissionsOK, SessionsMatch, InPase, Made
<1>4. PlacesApart'
  BY <1>1 DEF CommissionsOK, PlacesApart, Made
<1> QED
  BY <1>1, <1>2, <1>3, <1>4 DEF CommissionsOK

(* Requests are lost; the user gives a command.                             *)
LEMMA Stays ==
  ASSUME CommissionsOK, searches \in Nat, searches' \in Nat, searches <= searches',
         asked' \subseteq asked, UNCHANGED <<made, commission, sessions, given>>
  PROVE  CommissionsOK'
<1>1. Ordered'
  <2>1. \A i \in Commissions : given[i] # None => given[i] <= searches'
    BY DEF CommissionsOK, Ordered, Nodes
  <2>2. \A a \in asked' : Made(a.of)'
    BY DEF CommissionsOK, Ordered, Made
  <2> QED
    BY <2>1, <2>2 DEF CommissionsOK, Ordered, Made
<1>2. SessionsMatch' /\ PlacesApart'
  BY DEF CommissionsOK, SessionsMatch, PlacesApart, InPase, Made
<1> QED
  BY <1>1, <1>2 DEF CommissionsOK

(* startCommissioning, at a place where nothing is under way. *)
LEMMA Begins ==
  ASSUME CommissionsOK, searches \in Nodes, UNCHANGED searches,
         Limit \in Nat, Limit <= MaxSearch,
         NEW place \in Places \cup {None}, place # None => Free(place),
         NEW ble \in BOOLEAN, NEW ob \in BOOLEAN, NEW lk,
         NewCommission(place, ble, ob, lk)
  PROVE  /\ CommissionsOK'
         /\ made' = made + 1 /\ made' \in Commissions
         /\ ~Made(made')
         /\ \A i \in Commissions : Made(i)' <=> Made(i) \/ i = made'
         /\ \A i \in Commissions : i # made' => commission'[i] = commission[i] /\ given'[i] = given[i]
         /\ commission'[made'].node = searches /\ given'[made'] = searches
         /\ given[made'] = None
<1> DEFINE r == [node |-> searches, place |-> place, ble |-> ble, state |-> "PBKDF",
                 key |-> None, thread |-> FALSE]
<1>1. /\ made < Limit /\ made' = made + 1
      /\ commission' = [commission EXCEPT ![made + 1] = r]
      /\ asked' = asked \cup Sent(made + 1, r, ob, lk)
      /\ given' = [given EXCEPT ![made + 1] = searches]
      /\ sessions' = sessions
  BY DEF NewCommission
<1>2. made \in Nat /\ made' \in Nat /\ made' \in 0..MaxSearch /\ made' \in Commissions
  BY <1>1, CommissioningAssumption DEF CommissionsOK, Commissions
<1>3. /\ r \in PendingCommission /\ r.node = searches /\ r.place = place /\ r.state = "PBKDF"
      /\ r.state \in States
  BY StatesAre DEF PendingCommission
<1> HIDE DEF r
<1>4. r # None /\ searches # None
  BY <1>3, NoneAssumption
<1>5. /\ commission' \in [Commissions -> PendingCommission \cup {None}]
      /\ given' \in [Commissions -> Nodes \cup {None}]
      /\ commission'[made'] = r /\ given'[made'] = searches
      /\ \A i \in Commissions : i # made' => commission'[i] = commission[i] /\ given'[i] = given[i]
  BY <1>1, <1>2, <1>3 DEF CommissionsOK
<1>6. commission[made'] = None /\ given[made'] = None
  BY <1>1, <1>2 DEF CommissionsOK, Ordered
<1>7. \A a \in asked' : a \in asked \/ (a \in Request /\ a.of = made')
  BY <1>1, <1>2, <1>3, SentIs
<1>8. \A i \in Commissions : Made(i)' <=> Made(i) \/ i = made'
  BY <1>4, <1>5 DEF Made
<1>9. Ordered'
  <2>1. \A i \in Commissions : i > made' => i > made /\ i # made'
    BY <1>1, <1>2 DEF Commissions
  <2>2. \A i \in Commissions : i > made' => commission'[i] = None /\ given'[i] = None
    BY <1>5, <2>1 DEF CommissionsOK, Ordered
  <2>3. \A i \in Commissions : Made(i)' => commission'[i].node = given'[i]
    BY <1>3, <1>5, <1>8 DEF CommissionsOK, Ordered
  <2>4. \A i \in Commissions : given'[i] # None => given'[i] <= searches
    BY <1>5 DEF CommissionsOK, Ordered, Nodes
  <2>5. \A a \in asked' : Made(a.of)'
    BY <1>2, <1>7, <1>8 DEF CommissionsOK, Ordered, Request
  <2> QED
    BY <2>2, <2>3, <2>4, <2>5 DEF Ordered
<1>10. SessionsMatch'
  BY <1>1, <1>2, <1>3, <1>5, <1>6, <1>8 DEF CommissionsOK, SessionsMatch, InPase, Made, PaseStates
<1>11. PlacesApart'
  BY <1>3, <1>5, <1>8 DEF CommissionsOK, PlacesApart, Free
<1>12. asked' \subseteq Request
  BY <1>7 DEF CommissionsOK
<1> QED
  BY <1>1, <1>2, <1>3, <1>5, <1>6, <1>8, <1>9, <1>10, <1>11, <1>12 DEF CommissionsOK, Made

-----------------------------------------------------------------------------
(* The rest of IInv that holds whoever the user.                            *)
OthersOK ==
  /\ searches \in 0..MaxSearch
  /\ searching \in BOOLEAN /\ scanning \in BOOLEAN /\ overBle \in BOOLEAN
  /\ link \in {"off", "connecting", "up", "closing"}
  /\ flag \in BOOLEAN /\ pending \in Nodes \cup {None}
  /\ case \in [Nodes -> {"none", "plain", "completes"}]
  /\ owes \subseteq live /\ live \subseteq installed /\ installed \subseteq Nodes
  /\ timers \subseteq Nodes /\ onThread \subseteq Nodes
  /\ threadReady \in BOOLEAN /\ manner \in Manners
  /\ list \in Seq(Nodes) /\ answered \subseteq Nodes
  /\ Commanded /\ BleTrue

(* What holds for a user who waits.                                         *)
SteadyOK ==
  /\ OneThread /\ Unused /\ ListApart
  /\ \A i, j \in Commissions : i # j /\ given[i] # None => given[i] # given[j]
  /\ ToSet(list) \subseteq answered /\ IsInjective(list)

LEMMA Parts == IInv <=> CommissionsOK /\ OthersOK /\ (manner = "steady" => SteadyOK)
<1>1. TypeOK /\ Ordered /\ SessionsMatch /\ PlacesApart /\ Commanded /\ BleTrue
        <=> CommissionsOK /\ OthersOK
  BY DEF TypeOK, CommissionsOK, OthersOK
<1>2. (manner = "steady" => OneThread /\ Unused /\ ListApart) /\ OneAttempt /\ ListedAnswered
        <=> (manner = "steady" => SteadyOK)
  BY DEF SteadyOK, OneAttempt, ListedAnswered
<1> QED
  BY <1>1, <1>2 DEF IInv

(* A commission is of a command. *)
LEMMA MadeIs ==
  ASSUME CommissionsOK, OthersOK, NEW i \in Commissions, Made(i)
  PROVE  /\ commission[i] \in PendingCommission
         /\ commission[i].node \in Nodes /\ commission[i].state \in States
         /\ given[i] = commission[i].node /\ searches \in Nodes
<1>1. commission[i] \in PendingCommission
  BY DEF CommissionsOK, Made
<1>2. commission[i].node \in Nodes /\ commission[i].state \in States
  BY <1>1 DEF PendingCommission
<1>3. given[i] = commission[i].node /\ given[i] # None
  BY <1>2, NoneAssumption DEF CommissionsOK, Ordered
<1>4. given[i] <= searches
  BY <1>3 DEF CommissionsOK, Ordered
<1> QED
  BY <1>1, <1>2, <1>3, <1>4, CommissioningAssumption DEF OthersOK, Nodes

(* A commission with another state, and what comes with it. *)
LEMMA WithState ==
  ASSUME NEW r \in PendingCommission, NEW s \in States
  PROVE  /\ LET q == [r EXCEPT !.state = s] IN
            q \in PendingCommission /\ q.node = r.node /\ q.place = r.place /\ q.state = s
         /\ \A k \in Commissions \cup {None} :
            LET q == [r EXCEPT !.state = s, !.key = k] IN
            q \in PendingCommission /\ q.node = r.node /\ q.place = r.place /\ q.state = s
         /\ \A t \in BOOLEAN :
            LET q == [r EXCEPT !.state = s, !.thread = t] IN
            q \in PendingCommission /\ q.node = r.node /\ q.place = r.place /\ q.state = s
BY DEF PendingCommission

LEMMA ContinueIs ==
  ASSUME CommissionsOK, OthersOK, NEW i \in Commissions, Made(i),
         NEW r \in PendingCommission, NEW a,
         r.node = commission[i].node, r.place = commission[i].place,
         Continue(i, r, a),
         sessions' = IF r.state \in PaseStates THEN sessions \ {i} ELSE sessions \cup {i},
         UNCHANGED <<searches, made, given>>
  PROVE  CommissionsOK'
<1>1. r.state \in States
  BY DEF PendingCommission
<1>2. \A b \in Sent(i, r, overBle, link) : b \in Request /\ b.of = i
  BY <1>1, SentIs DEF OthersOK
<1>3. /\ commission' = [commission EXCEPT ![i] = r]
      /\ asked' \subseteq asked \cup {b \in Request : b.of = i}
  BY <1>2 DEF Continue
<1>4. searches \in Nat
  BY CommissioningAssumption DEF OthersOK
<1> QED
  BY <1>3, <1>4, GoesOn

(* mdnsServiceFound with a commission that goes on at p. *)
LEMMA Moves ==
  ASSUME CommissionsOK, OthersOK, NEW p \in Places, Free(p),
         NEW i \in Commissions, Made(i), i \in sessions,
         NEW r, r = [commission[i] EXCEPT !.place = p],
         commission' = [commission EXCEPT ![i] = r],
         asked' = asked \cup Sent(i, r, overBle, link),
         UNCHANGED <<searches, made, sessions, given>>
  PROVE  CommissionsOK'
<1>1. commission[i] \in PendingCommission /\ commission[i].state \in States
  BY MadeIs
<1>2. /\ r \in PendingCommission /\ r.node = commission[i].node
      /\ r.state = commission[i].state /\ r.place = p
  BY <1>1 DEF PendingCommission
<1>3. /\ commission' \in [Commissions -> PendingCommission \cup {None}]
      /\ commission'[i] = r /\ r # None
      /\ \A j \in Commissions : j # i => commission'[j] = commission[j]
  BY <1>2, NoneAssumption DEF CommissionsOK
<1>4. \A j \in Commissions : Made(j)' <=> Made(j)
  BY <1>3 DEF Made
<1>5. \A a \in asked' : a \in asked \/ (a \in Request /\ a.of = i)
  <2>1. r.state \in States /\ overBle \in BOOLEAN
    BY <1>1, <1>2 DEF OthersOK
  <2>2. \A a \in Sent(i, r, overBle, link) : a \in Request /\ a.of = i
    BY <2>1, SentIs
  <2> QED
    BY <2>2
<1>6. Ordered'
  <2>1. \A a \in asked' : a.of \in Commissions /\ Made(a.of)
    BY <1>5 DEF CommissionsOK, Ordered, Request
  <2> QED
    BY <1>2, <1>3, <1>4, <2>1 DEF CommissionsOK, Ordered, Made
<1>7. SessionsMatch'
  BY <1>2, <1>3, <1>4 DEF CommissionsOK, SessionsMatch, InPase
<1>8. PlacesApart'
  BY <1>2, <1>3, <1>4 DEF CommissionsOK, PlacesApart, Free
<1>9. asked' \subseteq Request
  BY <1>5 DEF CommissionsOK
<1> QED
  BY <1>3, <1>6, <1>7, <1>8, <1>9 DEF CommissionsOK

LEMMA NextLimit == Limit \in Nat /\ Limit <= MaxSearch
BY CommissioningAssumption DEF Limit

(* Past PASE a session is in the table. *)
LEMMA PastPase ==
  ASSUME CommissionsOK, NEW i \in Commissions, Made(i), commission[i].state \notin PaseStates
  PROVE  i \in sessions
BY DEF CommissionsOK, SessionsMatch, InPase

LEMMA ReportIs ==
  ASSUME CommissionsOK, OthersOK, NEW own \in BOOLEAN, NEW a, Report(own, a),
         UNCHANGED <<searches, made, sessions, given>>
  PROVE  CommissionsOK'
<1> DEFINE for == Matching("ReportData")
           i == Min(for)
           r == commission[i]
<1>0. searches \in Nat /\ searches <= searches'
  BY CommissioningAssumption DEF OthersOK
<1>1. CASE asked' = asked \ {a} /\ UNCHANGED commission
  BY <1>0, <1>1, Stays
<1>2. CASE for # {} /\ ~(asked' = asked \ {a} /\ UNCHANGED commission)
  <2>1. i \in Commissions /\ Made(i) /\ Kind(r.state) = "ReportData"
    BY <1>2, MatchingIs
  <2>2. r \in PendingCommission /\ r.state \in States
    BY <2>1, MadeIs
  <2>3. r.state \in Reads
    BY <2>1, <2>2, StatesAre DEF Kind, Reads
  <2>4. i \in sessions
    BY <2>1, <2>3, PastPase DEF Reads, PaseStates
  <2>5. CASE r.state = "ReadBasicInfo" /\ Continue(i, [r EXCEPT !.state = After[@]], a)
    <3>1. After[r.state] \in States \ PaseStates
      BY <2>5, StatesAre, AfterIs DEF PaseStates
    <3> DEFINE q == [r EXCEPT !.state = After[r.state]]
    <3>2. q \in PendingCommission /\ q.node = r.node /\ q.place = r.place /\ q.state = After[r.state]
      BY <2>2, <3>1, WithState
    <3>3. Continue(i, q, a)
      BY <2>5
    <3> HIDE DEF q, i
    <3>4. sessions' = IF q.state \in PaseStates THEN sessions \ {i} ELSE sessions \cup {i}
      BY <2>4, <3>1, <3>2
    <3> QED
      BY <2>1, <3>2, <3>3, <3>4, ContinueIs
  <2>6. CASE \E s \in NetworkStates : Continue(i, [r EXCEPT !.state = s, !.thread = (s = "AddThreadNetwork")], a)
    <3>1. PICK s \in NetworkStates : Continue(i, [r EXCEPT !.state = s, !.thread = (s = "AddThreadNetwork")], a)
      BY <2>6
    <3>2. s \in States \ PaseStates
      BY StatesAre DEF NetworkStates, PaseStates
    <3> DEFINE t == (s = "AddThreadNetwork")
               q == [r EXCEPT !.state = s, !.thread = t]
    <3>3. t \in BOOLEAN
      OBVIOUS
    <3>4. Continue(i, q, a)
      BY <3>1
    <3> HIDE DEF t
    <3>5. q \in PendingCommission /\ q.node = r.node /\ q.place = r.place /\ q.state = s
      BY <2>2, <3>2, <3>3, WithState
    <3> HIDE DEF q, i
    <3>6. sessions' = IF q.state \in PaseStates THEN sessions \ {i} ELSE sessions \cup {i}
      BY <2>4, <3>2, <3>5
    <3> QED
      BY <2>1, <3>4, <3>5, <3>6, ContinueIs
  <2> QED
    BY <1>2, <2>5, <2>6 DEF Report, NetworkStates
<1> QED
  BY <1>1, <1>2 DEF Report

(* The request that was answered, and the commission whose session told it. *)
LEMMA HeardIs ==
  ASSUME CommissionsOK, NEW a, Hears(a)
  PROVE  a \in Request /\ a.of \in Commissions /\ Made(a.of)
BY DEF Hears, CommissionsOK, Ordered, Request

LEMMA AnswersKeep ==
  ASSUME CommissionsOK, OthersOK, NEW a \in asked,
         PaseAnswer(a) \/ PaseEstablished(a) \/ StepAnswer(a)
  PROVE  CommissionsOK'
<1>0. searches \in Nat /\ searches <= searches
  BY CommissioningAssumption DEF OthersOK
<1>1. CASE PaseAnswer(a)
  <2> DEFINE i == a.of
             r == commission[i]
             q == [r EXCEPT !.state = After[a.step]]
  <2>1. i \in Commissions /\ Made(i)
    BY <1>1, HeardIs DEF PaseAnswer
  <2>2. r \in PendingCommission /\ r.state = a.step /\ a.step \in PaseStates
    BY <1>1, <2>1, MadeIs DEF PaseAnswer, PaseStates
  <2>3. After[a.step] \in States /\ After[a.step] \in PaseStates
    BY <1>1, AfterIs, StatesAre DEF PaseAnswer, PaseStates
  <2>4. q \in PendingCommission /\ q.node = r.node /\ q.place = r.place /\ q.state = After[a.step]
    BY <2>2, <2>3, WithState
  <2>5. Continue(i, q, a) /\ UNCHANGED <<searches, made, sessions, given>>
    BY <1>1 DEF PaseAnswer, searchVars
  <2> HIDE DEF i, q
  <2>6. sessions' = IF q.state \in PaseStates THEN sessions \ {i} ELSE sessions \cup {i}
    BY <2>1, <2>2, <2>3, <2>4, <2>5 DEF CommissionsOK, SessionsMatch, InPase
  <2> QED
    BY <2>1, <2>4, <2>5, <2>6, ContinueIs
<1>2. CASE PaseEstablished(a)
  <2> DEFINE i == a.of
             r == commission[i]
             q == [r EXCEPT !.state = "ArmFailSafe"]
  <2>1. i \in Commissions /\ Made(i)
    BY <1>2, HeardIs DEF PaseEstablished
  <2>2. r \in PendingCommission
    BY <2>1, MadeIs
  <2>3. "ArmFailSafe" \in States /\ "ArmFailSafe" \notin PaseStates
    BY StatesAre DEF PaseStates
  <2>4. q \in PendingCommission /\ q.node = r.node /\ q.place = r.place /\ q.state = "ArmFailSafe"
    BY <2>2, <2>3, WithState
  <2>5. Continue(i, q, a) /\ UNCHANGED <<searches, made, given>> /\ sessions' = sessions \cup {i}
    BY <1>2 DEF PaseEstablished, searchVars
  <2> HIDE DEF i, q
  <2>6. sessions' = IF q.state \in PaseStates THEN sessions \ {i} ELSE sessions \cup {i}
    BY <2>3, <2>4, <2>5
  <2> QED
    BY <2>1, <2>4, <2>5, <2>6, ContinueIs
<1>3. CASE StepAnswer(a) /\ Matching(Kind(a.step)) = {}
  <2>1. asked' = asked \ {a} /\ UNCHANGED <<searches, made, commission, sessions, given>>
    BY <1>3 DEF StepAnswer, searchVars
  <2> QED
    BY <1>0, <2>1, Stays
<1>4. CASE StepAnswer(a) /\ Matching(Kind(a.step)) # {}
  <2> DEFINE i == Min(Matching(Kind(a.step)))
             r == commission[i]
             k == IF r.state = "CSRRequest" THEN a.of ELSE r.key
             q == [r EXCEPT !.state = After[r.state], !.key = k]
  <2>1. i \in Commissions /\ Made(i) /\ Kind(r.state) = Kind(a.step)
    BY <1>4, MatchingIs
  <2>2. r \in PendingCommission /\ r.state \in States /\ r.key \in Commissions \cup {None}
    <3>1. r \in PendingCommission /\ r.state \in States
      BY <2>1, MadeIs
    <3> QED
      BY <3>1 DEF PendingCommission
  <2>3. r.state \in DOMAIN After \ PaseStates
    BY <1>4, <2>1, <2>2, KindIs DEF StepAnswer
  <2>4. After[r.state] \in States \ PaseStates
    BY <2>3, AfterIs
  <2>5. k \in Commissions \cup {None}
    <3>1. Hears(a)
      BY <1>4 DEF StepAnswer, Secured
    <3> QED
      BY <2>2, <3>1, HeardIs
  <2>6. Continue(i, q, a) /\ UNCHANGED <<searches, made, sessions, given>>
    BY <1>4 DEF StepAnswer, searchVars
  <2> HIDE DEF k
  <2>7. q \in PendingCommission /\ q.node = r.node /\ q.place = r.place /\ q.state = After[r.state]
    <3> DEFINE s == After[r.state]
    <3>1. s \in States
      BY <2>4
    <3> HIDE DEF s
    <3>2. [r EXCEPT !.state = s, !.key = k] \in PendingCommission
      BY <2>2, <2>5, <3>1 DEF PendingCommission
    <3>3. q = [r EXCEPT !.state = s, !.key = k]
      BY DEF s
    <3> QED
      BY <2>2, <3>2, <3>3 DEF PendingCommission, s
  <2>8. i \in sessions
    BY <2>1, <2>3, PastPase
  <2> HIDE DEF i, q
  <2>9. sessions' = IF q.state \in PaseStates THEN sessions \ {i} ELSE sessions \cup {i}
    BY <2>4, <2>6, <2>7, <2>8
  <2> QED
    BY <2>1, <2>6, <2>7, <2>9, ContinueIs
<1> QED
  BY <1>1, <1>2, <1>3, <1>4

(* paseFailed of a commission in PASE, which has no session yet. *)
LEMMA PaseFailedKeeps ==
  ASSUME CommissionsOK, OthersOK, NEW i \in Commissions, InPase(i), PaseFailed(i)
  PROVE  CommissionsOK'
<1>1. i \notin sessions
  BY DEF CommissionsOK, SessionsMatch
<1>2. /\ commission' = [commission EXCEPT ![i] = None]
      /\ asked' \subseteq {a \in asked : a.of # i}
      /\ sessions' = sessions \ {i} /\ UNCHANGED <<searches, made, given>>
  BY <1>1 DEF PaseFailed, Gone, searchVars
<1>3. searches \in Nat
  BY CommissioningAssumption DEF OthersOK
<1> QED
  BY <1>2, <1>3, Goes

(* NOCResponse and ConnectNetworkResponse: the commission goes on or ends. *)
LEMMA NetworkKeeps ==
  ASSUME CommissionsOK, OthersOK, NEW a \in asked, NocAnswer(a) \/ NetworkAnswer(a)
  PROVE  CommissionsOK'
<1>0. searches \in Nat /\ searches <= searches
  BY CommissioningAssumption DEF OthersOK
<1>1. ASSUME NEW i \in Commissions, NEW lost, Finish(i, lost), UNCHANGED searches
      PROVE  CommissionsOK'
  <2>1. /\ commission' = [commission EXCEPT ![i] = None]
        /\ asked' \subseteq {b \in asked : b.of # i}
        /\ sessions' = sessions \ {i} /\ UNCHANGED <<made, given>>
    BY <1>1 DEF Finish, Gone, Closed
  <2> QED
    BY <1>0, <1>1, <2>1, Goes
<1>2. ASSUME asked' = asked \ {a}, UNCHANGED <<searches, made, commission, sessions, given>>
      PROVE  CommissionsOK'
  BY <1>0, <1>2, Stays
<1>3. CASE NocAnswer(a) /\ Matching("AddNOC") = {}
  BY <1>2, <1>3 DEF NocAnswer, searchVars
<1>4. CASE NocAnswer(a) /\ Matching("AddNOC") # {} /\ ~overBle
  <2> DEFINE i == Min(Matching("AddNOC"))
             lost == [b \in asked |-> b = a]
  <2>1. i \in Commissions
    BY <1>4, MatchingIs
  <2>2. Finish(i, lost) /\ UNCHANGED searches
    BY <1>4 DEF NocAnswer, searchVars
  <2> HIDE DEF i, lost
  <2> QED
    BY <1>1, <2>1, <2>2
<1>5. CASE NocAnswer(a) /\ Matching("AddNOC") # {} /\ overBle
  <2> DEFINE i == Min(Matching("AddNOC"))
             r == commission[i]
             q == [r EXCEPT !.state = "ReadNetworkType"]
  <2>1. i \in Commissions /\ Made(i) /\ Kind(r.state) = "AddNOC"
    BY <1>5, MatchingIs
  <2>2. r \in PendingCommission /\ r.state \in States
    BY <2>1, MadeIs
  <2>3. r.state \notin PaseStates
    BY <2>1 DEF Kind, Reads, PaseStates
  <2>4. i \in sessions
    BY <2>1, <2>3, PastPase
  <2>5. "ReadNetworkType" \in States \ PaseStates
    BY StatesAre DEF PaseStates
  <2>6. q \in PendingCommission /\ q.node = r.node /\ q.place = r.place /\ q.state = "ReadNetworkType"
    BY <2>2, <2>5, WithState
  <2>7. Continue(i, q, a) /\ UNCHANGED <<searches, made, sessions, given>>
    BY <1>5 DEF NocAnswer, searchVars
  <2> HIDE DEF i, q
  <2>8. sessions' = IF q.state \in PaseStates THEN sessions \ {i} ELSE sessions \cup {i}
    BY <2>4, <2>5, <2>6, <2>7
  <2> QED
    BY <2>1, <2>6, <2>7, <2>8, ContinueIs
<1>6. CASE NetworkAnswer(a) /\ Matching("ConnectNetwork") = {}
  BY <1>2, <1>6 DEF NetworkAnswer
<1>7. CASE NetworkAnswer(a) /\ Matching("ConnectNetwork") # {}
  <2> DEFINE i == Min(Matching("ConnectNetwork"))
             lost == [b \in asked |-> b.ble]
  <2>1. i \in Commissions
    BY <1>7, MatchingIs
  <2>2. Finish(i, lost) /\ UNCHANGED searches
    BY <1>7 DEF NetworkAnswer
  <2> HIDE DEF i, lost
  <2> QED
    BY <1>1, <2>1, <2>2
<1> QED
  BY <1>3, <1>4, <1>5, <1>6, <1>7

(* mdnsServiceFound *)
LEMMA UdpFoundKeeps ==
  ASSUME CommissionsOK, OthersOK, NEW p \in Places, UdpFound(p)
  PROVE  CommissionsOK'
<1>1. CASE Matching("ArmFailSafe") # {}
  <2> DEFINE i == Min(Matching("ArmFailSafe"))
             r == [commission[i] EXCEPT !.place = p]
  <2>1. i \in Commissions /\ Made(i) /\ Kind(commission[i].state) = "ArmFailSafe"
    BY <1>1, MatchingIs
  <2>2. commission[i].state \in States \ PaseStates
    <3>1. commission[i].state \in States
      BY <2>1, MadeIs
    <3> QED
      BY <2>1, <3>1 DEF Kind, Reads, PaseStates
  <2>3. i \in sessions
    BY <2>1, <2>2, PastPase
  <2>4. /\ commission' = [commission EXCEPT ![i] = r]
        /\ asked' = asked \cup Sent(i, r, overBle, link)
        /\ Free(p) /\ UNCHANGED <<searches, made, sessions, given>>
    BY <1>1 DEF UdpFound
  <2> HIDE DEF i
  <2> QED
    BY <2>1, <2>3, <2>4, Moves
<1>2. CASE Matching("ArmFailSafe") = {}
  <2>1. searching /\ Free(p) /\ NewCommission(p, FALSE, overBle, link) /\ UNCHANGED searches
    BY <1>2 DEF UdpFound
  <2>2. searches \in Nodes /\ overBle \in BOOLEAN
    BY <2>1, CommissioningAssumption DEF OthersOK, Commanded, Nodes
  <2>3. p \in Places \cup {None} /\ FALSE \in BOOLEAN
    OBVIOUS
  <2> QED
    BY <2>1, <2>2, <2>3, NextLimit, Begins
<1> QED
  BY <1>1, <1>2

(* A step of any part leaves the commissions right.                         *)
LEMMA CommissionsKept ==
  ASSUME CommissionsOK, OthersOK, Next
  PROVE  CommissionsOK'
<1>0. searches \in Nat /\ searches <= searches
  BY CommissioningAssumption DEF OthersOK
<1>1. CASE Connect
  <2>1. searches' \in Nat /\ searches <= searches' /\ UNCHANGED paseVars
    BY <1>0, <1>1 DEF Connect
  <2> QED
    BY <1>0, <2>1, Stays DEF paseVars
<1>2. ASSUME UNCHANGED <<searches, paseVars>>
      PROVE  CommissionsOK'
  BY <1>0, <1>2, Stays DEF paseVars
<1>3. CASE SearchTimeout \/ ScanTimeout \/ BleFound \/ OperationalFound
  BY <1>2, <1>3 DEF SearchTimeout, ScanTimeout, BleFound, OperationalFound, searchVars
<1>4. CASE BleHandshake
  <2>1. link = "connecting" /\ NewCommission(None, TRUE, TRUE, "up") /\ UNCHANGED searches
    BY <1>4 DEF BleHandshake, searchVars
  <2>2. searches \in Nodes
    BY <2>1, CommissioningAssumption DEF OthersOK, Commanded, Nodes
  <2>3. None \in Places \cup {None} /\ TRUE \in BOOLEAN
    OBVIOUS
  <2> QED
    BY <2>1, <2>2, <2>3, NextLimit, Begins
<1>5. CASE BleDrop
  <2>1. asked' \subseteq asked /\ UNCHANGED <<searches, made, commission, sessions, given>>
    BY <1>5 DEF BleDrop, searchVars
  <2> QED
    BY <1>0, <2>1, Stays
<1>6. ASSUME NEW p \in Places, UdpFound(p)
      PROVE  CommissionsOK'
  BY <1>6, UdpFoundKeeps
<1>7. CASE OtherReport
  <2>1. Report(FALSE, None) /\ UNCHANGED <<searches, made, sessions, given>>
    BY <1>7 DEF OtherReport, searchVars
  <2>2. FALSE \in BOOLEAN
    OBVIOUS
  <2> QED
    BY <2>1, <2>2, ReportIs
<1>8. ASSUME NEW a \in asked, PaseAnswer(a) \/ PaseEstablished(a) \/ StepAnswer(a)
      PROVE  CommissionsOK'
  BY <1>8, AnswersKeep
<1>9. ASSUME NEW a \in asked, PaseRefused(a)
      PROVE  CommissionsOK'
  <2>1. a.of \in Commissions /\ InPase(a.of) /\ PaseFailed(a.of)
    BY <1>9, HeardIs DEF PaseRefused
  <2> QED
    BY <2>1, PaseFailedKeeps
<1>10. ASSUME NEW a \in asked, ReadAnswer(a)
       PROVE  CommissionsOK'
  <2> DEFINE own == a.step = "ReadNetworkType"
  <2>1. Report(own, a) /\ UNCHANGED <<searches, made, sessions, given>>
    BY <1>10 DEF ReadAnswer, searchVars
  <2>2. own \in BOOLEAN
    OBVIOUS
  <2> HIDE DEF own
  <2> QED
    BY <2>1, <2>2, ReportIs
<1>11. ASSUME NEW a \in asked, Unanswered(a)
       PROVE  CommissionsOK'
  <2>1. asked' \subseteq asked /\ UNCHANGED <<searches, made, commission, sessions, given>>
    BY <1>11 DEF Unanswered, searchVars
  <2> QED
    BY <1>0, <2>1, Stays
<1>12. ASSUME NEW a \in asked, NocAnswer(a) \/ NetworkAnswer(a)
       PROVE  CommissionsOK'
  BY <1>12, NetworkKeeps
<1>13. ASSUME NEW i \in Commissions, PaseTimeout(i)
       PROVE  CommissionsOK'
  BY <1>13, PaseFailedKeeps DEF PaseTimeout, Waiting
<1>14. CASE Operate
  BY <1>2, <1>14 DEF Operate, ThreadUp, FiveSeconds, CaseEstablished, CaseFailed, CompleteAnswer,
                     Unreachable, Reconnect, searchVars
<1> QED
  BY <1>1, <1>3, <1>4, <1>5, <1>6, <1>7, <1>8, <1>9, <1>10, <1>11, <1>12, <1>13, <1>14
     DEF Next, Search, Step

(* What connectDevice may change. *)
LEMMA DialIs ==
  ASSUME OthersOK, NEW n \in Nodes, NEW f \in BOOLEAN, Dial(n, f)
  PROVE  /\ flag' \in BOOLEAN /\ case' \in [Nodes -> {"none", "plain", "completes"}]
         /\ \A m \in Nodes : case'[m] # "none" => case[m] # "none" \/ m = n
         /\ \A m \in Nodes : case[m] # "none" => case'[m] # "none"
<1>1. CASE UNCHANGED case /\ flag' = f
  BY <1>1 DEF OthersOK
<1>2. CASE case' = [case EXCEPT ![n] = IF f THEN "completes" ELSE "plain"] /\ flag' = FALSE
  BY <1>2 DEF OthersOK
<1> QED
  BY <1>1, <1>2 DEF Dial

(* A step of any part leaves the rest right.                                *)
LEMMA OthersKept ==
  ASSUME CommissionsOK, OthersOK, Next
  PROVE  OthersOK'
<1> USE DEF Commanded, BleTrue
<1>1. CASE Connect
  <2>1. searches' \in 0..MaxSearch /\ searches' # 0
    BY <1>1, NextLimit, CommissioningAssumption DEF Connect, OthersOK
  <2>2. searching' = TRUE /\ scanning' \in BOOLEAN /\ overBle' = FALSE
    BY <1>1, CommissioningAssumption DEF Connect
  <2> QED
    BY <1>1, <2>1, <2>2 DEF Connect, OthersOK, caseVars, nodeVars, endVars, envVars
<1>2. CASE SearchTimeout
  BY <1>2 DEF SearchTimeout, OthersOK, caseVars, nodeVars, endVars, envVars
<1>22. CASE ScanTimeout
  BY <1>22 DEF ScanTimeout, OthersOK, searchVars, caseVars, nodeVars, endVars, envVars
<1>3. CASE OperationalFound
  <2>1. pending \in Nodes /\ flag \in BOOLEAN /\ Dial(pending, flag)
    BY <1>3, NoneAssumption DEF OperationalFound, OthersOK
  <2>2. flag' \in BOOLEAN /\ case' \in [Nodes -> {"none", "plain", "completes"}]
    BY <2>1, DialIs
  <2> QED
    BY <1>3, <2>2 DEF OperationalFound, OthersOK, nodeVars, endVars, envVars
<1>4. CASE BleFound
  BY <1>4 DEF BleFound, OthersOK, caseVars, nodeVars, endVars, envVars
<1>5. CASE BleHandshake
  BY <1>5 DEF BleHandshake, OthersOK, searchVars, caseVars, nodeVars, endVars, envVars
<1>6. CASE BleDrop
  BY <1>6 DEF BleDrop, Dropped, OthersOK, searchVars, caseVars, nodeVars, endVars, envVars
<1>7. ASSUME NEW p \in Places, UdpFound(p)
      PROVE  OthersOK'
  BY <1>7 DEF UdpFound, OthersOK, caseVars, nodeVars, endVars, envVars
<1>8. ASSUME UNCHANGED <<searchVars, bleVars, caseVars, nodeVars, endVars, envVars>>
      PROVE  OthersOK'
  BY <1>8 DEF OthersOK, searchVars, bleVars, caseVars, nodeVars, endVars, envVars
<1>9. ASSUME OtherReport \/ \E a \in asked : PaseAnswer(a) \/ PaseEstablished(a)
                                              \/ StepAnswer(a) \/ ReadAnswer(a)
      PROVE  OthersOK'
  BY <1>8, <1>9 DEF OtherReport, PaseAnswer, PaseEstablished, StepAnswer, ReadAnswer
<1>10. ASSUME NEW i \in Commissions, PaseFailed(i)
       PROVE  OthersOK'
  BY <1>10 DEF PaseFailed, Disconnecting, OthersOK, searchVars, caseVars, nodeVars, endVars, envVars
<1>11. ASSUME NEW a \in asked, PaseRefused(a)
       PROVE  OthersOK'
  <2>1. a.of \in Commissions /\ PaseFailed(a.of)
    BY <1>11, HeardIs DEF PaseRefused
  <2> QED
    BY <1>10, <2>1
<1>12. ASSUME NEW i \in Commissions, PaseTimeout(i)
       PROVE  OthersOK'
  BY <1>10, <1>12 DEF PaseTimeout
<1>13. ASSUME NEW a \in asked, Unanswered(a)
       PROVE  OthersOK'
  <2>1. a.of \in Commissions /\ Made(a.of)
    BY DEF CommissionsOK, Ordered, Request
  <2>2. MayHold(a) \subseteq Nodes
    BY <2>1, MadeIs DEF MayHold
  <2>3. installed \subseteq installed' /\ installed' \subseteq Nodes
    BY <1>13, <2>2 DEF Unanswered, OthersOK
  <2> QED
    BY <1>13, <2>3 DEF Unanswered, OthersOK, searchVars, bleVars, caseVars, nodeVars, endVars
<1>14. ASSUME NEW a \in asked, NocAnswer(a)
       PROVE  OthersOK'
  <2>1. a.of \in Commissions /\ Made(a.of)
    BY <1>14, HeardIs DEF NocAnswer, Secured
  <2>2. commission[a.of].node \in Nodes
    BY <2>1, MadeIs
  <2>3. installed \subseteq installed' /\ installed' \subseteq Nodes
    BY <1>14, <2>2 DEF NocAnswer, OthersOK
  <2> DEFINE n == commission[Min(Matching("AddNOC"))].node
  <2>4. /\ Matching("AddNOC") # {} => n \in Nodes
        /\ UNCHANGED <<flag, timers, onThread>> \/
           (/\ Matching("AddNOC") # {} /\ flag' = TRUE /\ timers' = timers \cup {n}
            /\ onThread' = onThread \cup {n} \/ onThread' = onThread \ {n})
    <3>1. Matching("AddNOC") # {} => n \in Nodes
      BY MatchingIs, MadeIs
    <3> QED
      BY <1>14, <3>1 DEF NocAnswer
  <2> HIDE DEF n
  <2>5. flag' \in BOOLEAN /\ timers' \subseteq Nodes /\ onThread' \subseteq Nodes
    BY <2>4 DEF OthersOK
  <2> QED
    BY <1>14, <2>3, <2>5 DEF NocAnswer, OthersOK, searchVars, bleVars, endVars
<1>15. ASSUME NEW a \in asked, NetworkAnswer(a)
       PROVE  OthersOK'
  <2>1. CASE Matching("ConnectNetwork") = {}
    BY <1>15, <2>1 DEF NetworkAnswer, OthersOK, envVars
  <2>2. CASE Matching("ConnectNetwork") # {}
    <3> DEFINE i == Min(Matching("ConnectNetwork"))
               n == commission[i].node
    <3>1. i \in Commissions /\ Made(i)
      BY <2>2, MatchingIs
    <3>2. n \in Nodes /\ searches \in Nodes
      BY <3>1, MadeIs
    <3>3. /\ overBle' = FALSE /\ link' = Disconnecting /\ flag' = TRUE /\ searching' = TRUE
          /\ pending' = n
          /\ onThread' = onThread \cup {n} \/ onThread' = onThread \ {n}
          /\ UNCHANGED <<searches, scanning, case, timers, live, owes, threadReady, list,
                         answered, installed, manner>>
      BY <1>15, <2>2 DEF NetworkAnswer, envVars
    <3> HIDE DEF n
    <3>4. searches # 0
      BY <3>2 DEF Nodes
    <3>5. link' \in {"off", "connecting", "up", "closing"} /\ Commanded' /\ BleTrue'
      BY <3>3, <3>4 DEF Disconnecting
    <3>6. pending' \in Nodes \cup {None} /\ onThread' \subseteq Nodes
      BY <3>2, <3>3 DEF OthersOK
    <3>7. searching' \in BOOLEAN /\ overBle' \in BOOLEAN /\ flag' \in BOOLEAN /\ scanning' \in BOOLEAN
      BY <3>3 DEF OthersOK
    <3>8. UNCHANGED <<searches, case, timers, live, owes, threadReady, list, answered, installed, manner>>
      BY <3>3
    <3> HIDE DEF Commanded, BleTrue
    <3> QED
      BY <3>5, <3>6, <3>7, <3>8 DEF OthersOK
  <2> QED
    BY <2>1, <2>2
<1>16. CASE ThreadUp
  BY <1>16 DEF ThreadUp, OthersOK, searchVars, bleVars, caseVars, endVars, envVars
<1>17. ASSUME NEW n \in Nodes, FiveSeconds(n) \/ Reconnect(n)
       PROVE  OthersOK'
  <2>1. flag \in BOOLEAN /\ Dial(n, flag)
    BY <1>17 DEF FiveSeconds, Reconnect, OthersOK
  <2>2. flag' \in BOOLEAN /\ case' \in [Nodes -> {"none", "plain", "completes"}]
    BY <2>1, DialIs
  <2>3. timers' \subseteq Nodes
    BY <1>17 DEF FiveSeconds, Reconnect, OthersOK, nodeVars
  <2> QED
    BY <1>17, <2>2, <2>3 DEF FiveSeconds, Reconnect, OthersOK, searchVars, bleVars, nodeVars, endVars, envVars
<1>18. ASSUME NEW n \in Nodes, CaseEstablished(n)
       PROVE  OthersOK'
  BY <1>18 DEF CaseEstablished, Owner, OthersOK, searchVars, bleVars, envVars
<1>19. ASSUME NEW n \in Nodes, CaseFailed(n)
       PROVE  OthersOK'
  BY <1>19 DEF CaseFailed, OthersOK, searchVars, bleVars, nodeVars, endVars, envVars
<1>20. ASSUME NEW n \in Nodes, CompleteAnswer(n)
       PROVE  OthersOK'
  <2>1. list' \in Seq(Nodes)
    BY <1>20 DEF CompleteAnswer, OthersOK
  <2> QED
    BY <1>20, <2>1 DEF CompleteAnswer, OthersOK, searchVars, bleVars, caseVars, envVars
<1>21. ASSUME NEW n \in Nodes, Unreachable(n)
       PROVE  OthersOK'
  BY <1>21 DEF Unreachable, OthersOK, searchVars, bleVars, caseVars, endVars, envVars
<1> QED
  BY <1>1, <1>2, <1>3, <1>4, <1>5, <1>6, <1>7, <1>9, <1>11, <1>12, <1>13, <1>14, <1>15,
     <1>16, <1>17, <1>18, <1>19, <1>20, <1>21, <1>22
     DEF Next, Search, Step, Operate

-----------------------------------------------------------------------------
(* The part for a user who waits.                                           *)

(* When the search may still make a commission. *)
MayBegin == scanning \/ link = "connecting" \/ (searching /\ ~flag)

LEMMA MadeHere ==
  ASSUME NEW i \in Commissions, commission \in [Commissions -> PendingCommission \cup {None}], Made(i),
         NEW r, commission' = [commission EXCEPT ![i] = r] \/ UNCHANGED commission
  PROVE  \A j \in Commissions : Made(j)' => Made(j)
BY DEF Made

(* A step of the commissions that begins none. *)
LEMMA NoneBegins ==
  ASSUME CommissionsOK, NEW a,
         \/ Report(FALSE, None) \/ ReadAnswer(a) \/ PaseAnswer(a) \/ PaseEstablished(a)
         \/ StepAnswer(a) \/ PaseRefused(a) \/ NocAnswer(a) \/ NetworkAnswer(a)
         \/ Unanswered(a) \/ \E i \in Commissions : PaseTimeout(i)
  PROVE  \A j \in Commissions : Made(j)' => Made(j)
<1>0. commission \in [Commissions -> PendingCommission \cup {None}]
  BY DEF CommissionsOK
<1>1. ASSUME NEW i \in Commissions, Made(i), NEW r, NEW b, Continue(i, r, b)
      PROVE  \A j \in Commissions : Made(j)' => Made(j)
  BY <1>0, <1>1, MadeHere DEF Continue
<1>2. ASSUME UNCHANGED commission
      PROVE  \A j \in Commissions : Made(j)' => Made(j)
  BY <1>2 DEF Made
<1>3. ASSUME NEW i \in Commissions, commission' = Gone(i)
      PROVE  \A j \in Commissions : Made(j)' => Made(j)
  BY <1>0, <1>3 DEF Gone, Made
<1>4. ASSUME NEW own \in BOOLEAN, NEW b, Report(own, b)
      PROVE  \A j \in Commissions : Made(j)' => Made(j)
  <2> DEFINE i == Min(Matching("ReportData"))
  <2>1. UNCHANGED commission \/ (Matching("ReportData") # {} /\ \E r : Continue(i, r, b))
    BY <1>4 DEF Report
  <2>2. Matching("ReportData") # {} => i \in Commissions /\ Made(i)
    BY MatchingIs
  <2> HIDE DEF i
  <2> QED
    BY <1>1, <1>2, <2>1, <2>2
<1>5. CASE Report(FALSE, None)
  BY <1>4, <1>5
<1>6. CASE ReadAnswer(a)
  <2> DEFINE own == a.step = "ReadNetworkType"
  <2>1. own \in BOOLEAN
    OBVIOUS
  <2>2. Report(own, a)
    BY <1>6 DEF ReadAnswer
  <2> HIDE DEF own
  <2> QED
    BY <1>4, <2>1, <2>2
<1>7. CASE PaseAnswer(a) \/ PaseEstablished(a)
  <2>1. Hears(a) /\ \E r : Continue(a.of, r, a)
    BY <1>7 DEF PaseAnswer, PaseEstablished
  <2> QED
    BY <1>1, <2>1, HeardIs
<1>8. CASE StepAnswer(a)
  <2> DEFINE i == Min(Matching(Kind(a.step)))
  <2>1. UNCHANGED commission \/ (Matching(Kind(a.step)) # {} /\ \E r : Continue(i, r, a))
    BY <1>8 DEF StepAnswer
  <2>2. Matching(Kind(a.step)) # {} => i \in Commissions /\ Made(i)
    BY MatchingIs
  <2> HIDE DEF i
  <2> QED
    BY <1>1, <1>2, <2>1, <2>2
<1>9. CASE PaseRefused(a)
  <2>1. Hears(a) /\ commission' = Gone(a.of)
    BY <1>9 DEF PaseRefused, PaseFailed
  <2> QED
    BY <1>3, <2>1, HeardIs
<1>10. CASE NocAnswer(a)
  <2> DEFINE i == Min(Matching("AddNOC"))
  <2>1. \/ UNCHANGED commission
        \/ Matching("AddNOC") # {} /\ ((\E r : Continue(i, r, a)) \/ commission' = Gone(i))
    BY <1>10 DEF NocAnswer, Finish
  <2>2. Matching("AddNOC") # {} => i \in Commissions /\ Made(i)
    BY MatchingIs
  <2> HIDE DEF i
  <2> QED
    BY <1>1, <1>2, <1>3, <2>1, <2>2
<1>11. CASE NetworkAnswer(a)
  <2> DEFINE i == Min(Matching("ConnectNetwork"))
  <2>1. UNCHANGED commission \/ (Matching("ConnectNetwork") # {} /\ commission' = Gone(i))
    BY <1>11 DEF NetworkAnswer, Finish
  <2>2. Matching("ConnectNetwork") # {} => i \in Commissions
    BY MatchingIs
  <2> HIDE DEF i
  <2> QED
    BY <1>2, <1>3, <2>1, <2>2
<1>12. CASE Unanswered(a)
  BY <1>2, <1>12 DEF Unanswered
<1>13. CASE \E i \in Commissions : PaseTimeout(i)
  BY <1>3, <1>13 DEF PaseTimeout, PaseFailed
<1> QED
  BY <1>5, <1>6, <1>7, <1>8, <1>9, <1>10, <1>11, <1>12, <1>13

(* Nothing new is under way. *)
LEMMA Fewer ==
  ASSUME CommissionsOK, OthersOK, CommissionsOK', SteadyOK,
         \A i \in Commissions : Made(i)' => Made(i),
         timers' \subseteq timers, owes' \subseteq owes,
         \A n \in Nodes : case'[n] # "none" => case[n] # "none",
         Found' => Found, ~(searching' /\ link' = "connecting"),
         MayBegin' => MayBegin,
         UNCHANGED <<searches, given, pending, list, answered>>,
         ToSet(list) \subseteq live'
  PROVE  SteadyOK'
<1>1. \A i \in Commissions : Made(i)' => commission'[i].node = commission[i].node
  BY DEF CommissionsOK, Ordered
<1>2. Underway' \subseteq Underway /\ Calls' \subseteq Calls
  BY DEF Underway, Calls
<1>3. OneThread'
  BY <1>2 DEF SteadyOK, OneThread
<1>4. Unused'
  BY DEF SteadyOK, Unused, MayBegin
<1>5. Coming' \subseteq Coming
  <2>1. \A i \in Underway' : i \in Underway /\ commission'[i].node = commission[i].node
    BY <1>1, <1>2 DEF Underway
  <2>2. {commission'[i].node : i \in Underway'} \subseteq {commission[i].node : i \in Underway}
    BY <2>1
  <2> QED
    BY <1>2, <2>2 DEF Coming
<1>6. ListApart'
  BY <1>5 DEF SteadyOK, ListApart
<1> QED
  BY <1>3, <1>4, <1>6 DEF SteadyOK

(* A commission begins: for the latest command, which had none. *)
LEMMA FirstOf ==
  ASSUME CommissionsOK, OthersOK, CommissionsOK', SteadyOK, MayBegin,
         searches \in Nodes, NEW i \in Commissions,
         \A j \in Commissions : Made(j)' <=> Made(j) \/ j = i,
         \A j \in Commissions : j # i => given'[j] = given[j],
         given'[i] = searches, given[i] = None,
         ~Found', ~MayBegin',
         UNCHANGED <<searches, timers, case, owes, live, pending, list, answered>>
  PROVE  SteadyOK'
<1>1. Found /\ \A j \in Commissions : given[j] # searches
  BY DEF SteadyOK, Unused, MayBegin, OthersOK, BleTrue, Found
<1>2. Underway = {} /\ timers = {} /\ Calls = {} /\ owes = {}
  BY <1>1 DEF SteadyOK, OneThread
<1>3. Underway' = {i} /\ timers' = {} /\ Calls' = {} /\ owes' = {}
  BY <1>2 DEF Underway, Calls
<1>4. OneThread'
  BY <1>3 DEF OneThread, Found
<1>5. Unused'
  BY DEF Unused, MayBegin
<1>6. commission'[i].node = searches
  BY DEF CommissionsOK, Ordered
<1>7. Coming' \subseteq ({pending} \ {None}) \cup {searches}
  BY <1>3, <1>6 DEF Coming
<1>8. /\ searches \in {given'[j] : j \in Commissions}
      /\ {given[j] : j \in Commissions} \ {None} \subseteq {given'[j] : j \in Commissions}
  BY DEF CommissionsOK
<1>9. /\ searches \notin ToSet(list) /\ None \notin ToSet(list)
      /\ ToSet(list) \subseteq {given[j] : j \in Commissions}
  <2>1. ToSet(list) \subseteq Nodes
    BY DEF OthersOK, ToSet
  <2>2. ToSet(list) \subseteq {given[j] : j \in Commissions}
    BY DEF SteadyOK, ListApart
  <2> QED
    BY <1>1, <2>1, <2>2, NoneAssumption
<1>10. /\ {pending} \ {None} \subseteq {given[j] : j \in Commissions}
       /\ ({pending} \ {None}) \cap ToSet(list) = {}
       /\ ToSet(list) \subseteq live
  BY DEF SteadyOK, ListApart, Coming
<1>11. ListApart'
  <2>1. Coming' \cup ToSet(list) \subseteq {given'[j] : j \in Commissions}
    BY <1>7, <1>8, <1>9, <1>10
  <2>2. Coming' \cap ToSet(list) = {}
    BY <1>7, <1>9, <1>10
  <2>3. owes' \subseteq {pending'} /\ ToSet(list') = ToSet(list) /\ live' = live
    BY <1>3
  <2> QED
    BY <1>10, <2>1, <2>2, <2>3 DEF ListApart
<1>12. \A j, k \in Commissions : j # k /\ given'[j] # None => given'[j] # given'[k]
  BY <1>1 DEF SteadyOK
<1> QED
  BY <1>4, <1>5, <1>11, <1>12 DEF SteadyOK

(* The command, given by a user who waits. *)
LEMMA ConnectKeeps ==
  ASSUME CommissionsOK, OthersOK, SteadyOK, manner = "steady", Connect
  PROVE  SteadyOK'
<1>1. /\ Underway = {} /\ timers = {} /\ Calls = {} /\ owes = {} /\ link = "off"
  BY DEF Connect, Idle, Underway, Calls
<1>2. UNCHANGED <<link, commission, given, flag, case, timers, owes, live, pending, list, answered>>
  BY DEF Connect, paseVars, caseVars, nodeVars, endVars
<1>3. Underway' = {} /\ Calls' = {} /\ timers' = {} /\ owes' = {} /\ link' = "off"
  BY <1>1, <1>2 DEF Underway, Calls, Made
<1>4. OneThread'
  BY <1>3 DEF OneThread
<1>5. Unused'
  <2>1. searches' = searches + 1 /\ searches' # None
    <3>1. searches' \in Nodes
      BY NextLimit, CommissioningAssumption DEF Connect, OthersOK, Nodes
    <3> QED
      BY <3>1, NoneAssumption DEF Connect
  <2>2. \A i \in Commissions : given[i] # None => given[i] \in Nodes /\ given[i] <= searches
    BY DEF CommissionsOK, Ordered
  <2>3. searches \in Nat
    BY CommissioningAssumption DEF OthersOK
  <2>4. \A i \in Commissions : given[i] # searches'
    BY <2>1, <2>2, <2>3 DEF Nodes
  <2> QED
    BY <1>2, <2>4 DEF Unused
<1>6. Coming' = Coming
  BY <1>1, <1>2, <1>3 DEF Coming
<1>7. ListApart'
  BY <1>2, <1>6 DEF ListApart, SteadyOK
<1> QED
  BY <1>2, <1>4, <1>5, <1>7 DEF SteadyOK

(* The search ends with a commission. *)
LEMMA FoundKeeps ==
  ASSUME CommissionsOK, OthersOK, CommissionsOK', SteadyOK,
         BleHandshake \/ \E p \in Places : UdpFound(p)
  PROVE  SteadyOK'
<1>1. ASSUME NEW place \in Places \cup {None}, place # None => Free(place),
             NEW ble \in BOOLEAN, NEW ob \in BOOLEAN, NEW lk,
             NewCommission(place, ble, ob, lk), MayBegin, ~Found', ~MayBegin',
             UNCHANGED <<searches, timers, case, owes, live, pending, list, answered>>
      PROVE  SteadyOK'
  <2>1. searches \in Nodes
    BY <1>1, CommissioningAssumption DEF MayBegin, OthersOK, Commanded, Nodes
  <2>2. /\ made' \in Commissions
        /\ \A i \in Commissions : Made(i)' <=> Made(i) \/ i = made'
        /\ \A i \in Commissions : i # made' => given'[i] = given[i]
        /\ given'[made'] = searches /\ given[made'] = None
    BY <1>1, <2>1, NextLimit, Begins
  <2> QED
    BY <1>1, <2>1, <2>2, FirstOf
<1>2. CASE BleHandshake
  <2>1. MayBegin
    BY <1>2 DEF BleHandshake, MayBegin
  <2>2. ~searching /\ ~scanning
    BY <1>2, <2>1 DEF BleHandshake, SteadyOK, OneThread, OthersOK, BleTrue
  <2>3. ~Found' /\ ~MayBegin'
    BY <1>2, <2>2 DEF BleHandshake, Found, MayBegin, searchVars, caseVars
  <2>4. UNCHANGED <<searches, timers, case, owes, live, pending, list, answered>>
    BY <1>2 DEF BleHandshake, searchVars, caseVars, nodeVars, endVars
  <2>5. NewCommission(None, TRUE, TRUE, "up") /\ None \in Places \cup {None}
    BY <1>2 DEF BleHandshake
  <2> QED
    BY <1>1, <2>1, <2>3, <2>4, <2>5
<1>3. ASSUME NEW p \in Places, UdpFound(p)
      PROVE  SteadyOK'
  <2>1. /\ searching /\ ~flag /\ Free(p) /\ ~searching' /\ ~scanning'
        /\ UNCHANGED <<searches, link, overBle, flag, case, timers, owes, live, pending, list, answered>>
    BY <1>3 DEF UdpFound, Expected, caseVars, nodeVars, endVars
  <2>2. link # "connecting" /\ Underway = {}
    BY <2>1 DEF SteadyOK, OneThread, Found
  <2>3. MayBegin /\ ~Found' /\ ~MayBegin'
    BY <2>1, <2>2 DEF MayBegin, Found
  <2>4. Matching("ArmFailSafe") = {}
    BY <2>2 DEF Matching, Underway
  <2>5. NewCommission(p, FALSE, overBle, link) /\ overBle \in BOOLEAN
    BY <1>3, <2>4 DEF UdpFound, OthersOK
  <2>6. p \in Places \cup {None} /\ FALSE \in BOOLEAN
    OBVIOUS
  <2> QED
    BY <1>1, <2>1, <2>3, <2>5, <2>6
<1> QED
  BY <1>2, <1>3

(* A step of the commissions that keeps the nodes on their way. *)
LEMMA StepKeeps ==
  ASSUME CommissionsOK, OthersOK, CommissionsOK', SteadyOK,
         \A i \in Commissions : Made(i)' => Made(i),
         UNCHANGED <<searches, searching, scanning, flag, timers, case, owes, live, pending,
                     given, list, answered>>,
         link' = "connecting" => link = "connecting"
  PROVE  SteadyOK'
<1>1. Found' => Found
  BY DEF Found
<1>2. ~(searching' /\ link' = "connecting") /\ (MayBegin' => MayBegin)
  BY DEF SteadyOK, OneThread, MayBegin
<1>3. ToSet(list) \subseteq live'
  BY DEF SteadyOK, ListApart
<1>4. timers' \subseteq timers /\ owes' \subseteq owes
  OBVIOUS
<1>5. \A n \in Nodes : case'[n] # "none" => case[n] # "none"
  OBVIOUS
<1> QED
  BY <1>1, <1>2, <1>3, <1>4, <1>5, Fewer

(* A step that moves a node on: from the search, the commission or the      *)
(* timer to the next stage.                                                 *)
LEMMA MovesOn ==
  ASSUME CommissionsOK, OthersOK, SteadyOK, NEW n \in Coming,
         ~Found', Underway' = {},
         timers' \subseteq {n}, Calls' \subseteq {n}, owes' \subseteq {n} \cap {pending'},
         timers' # {} => Calls' = {}, timers' # {} \/ Calls' # {} => owes' = {},
         pending' \in {pending, n, None}, ~MayBegin',
         UNCHANGED <<given, list, answered>>, live \subseteq live'
  PROVE  SteadyOK'
<1>1. OneThread'
  BY DEF OneThread, Found
<1>2. Unused'
  BY DEF Unused, MayBegin
<1>3. Coming' \subseteq Coming
  BY DEF Coming
<1>4. ListApart'
  BY <1>3 DEF SteadyOK, ListApart
<1> QED
  BY <1>1, <1>2, <1>4 DEF SteadyOK

(* The commission that ends is the only one. *)
LEMMA LastGone ==
  ASSUME CommissionsOK, OthersOK, SteadyOK, NEW i \in Commissions, Made(i), commission' = Gone(i)
  PROVE  /\ Underway' = {} /\ ~Found /\ timers = {} /\ Calls = {} /\ owes = {}
         /\ commission[i].node \in Coming
<1>1. i \in Underway /\ \A j \in Underway : j = i
  BY DEF Underway, SteadyOK, OneThread
<1>2. \A j \in Commissions : Made(j)' => Made(j) /\ j # i
  BY DEF CommissionsOK, Gone, Made
<1>3. Underway' = {}
  BY <1>1, <1>2 DEF Underway
<1>4. commission[i].node \in Coming
  BY <1>1 DEF Coming
<1> QED
  BY <1>1, <1>3, <1>4 DEF SteadyOK, OneThread

(* NOCResponse over UDP. *)
LEMMA NocKeeps ==
  ASSUME CommissionsOK, OthersOK, CommissionsOK', SteadyOK, NEW a \in asked, NocAnswer(a)
  PROVE  SteadyOK'
<1>0. UNCHANGED <<searches, searching, scanning, link, case, live, owes, pending, list, answered, given>>
  BY DEF NocAnswer, searchVars, bleVars, endVars, Finish
<1>1. CASE Matching("AddNOC") = {} \/ overBle
  <2>1. UNCHANGED <<flag, timers>>
    BY <1>1 DEF NocAnswer
  <2>2. \A j \in Commissions : Made(j)' => Made(j)
    BY NoneBegins
  <2> QED
    BY <1>0, <2>1, <2>2, StepKeeps
<1>2. CASE Matching("AddNOC") # {} /\ ~overBle
  <2> DEFINE i == Min(Matching("AddNOC"))
             n == commission[i].node
  <2>1. i \in Commissions /\ Made(i)
    BY <1>2, MatchingIs
  <2>2. commission' = Gone(i) /\ timers' = timers \cup {n}
    BY <1>2 DEF NocAnswer, Finish
  <2> HIDE DEF i
  <2>3. Underway' = {} /\ ~Found /\ timers = {} /\ Calls = {} /\ owes = {} /\ n \in Coming
    BY <2>1, <2>2, LastGone
  <2> HIDE DEF n
  <2>4. timers' = {n} /\ Calls' = {} /\ owes' = {}
    BY <1>0, <2>2, <2>3 DEF Calls
  <2>5. ~Found' /\ ~MayBegin'
    BY <1>0, <2>3 DEF Found, MayBegin, OthersOK, BleTrue
  <2> QED
    BY <1>0, <2>3, <2>4, <2>5, MovesOn
<1> QED
  BY <1>1, <1>2

(* ConnectNetworkResponse: the search for the operational service begins. *)
LEMMA NetworkSearches ==
  ASSUME CommissionsOK, OthersOK, CommissionsOK', SteadyOK, NEW a \in asked, NetworkAnswer(a)
  PROVE  SteadyOK'
<1>0. UNCHANGED <<searches, scanning, case, timers, live, owes, list, answered, given>>
  BY DEF NetworkAnswer, Finish
<1>1. CASE Matching("ConnectNetwork") = {}
  <2>1. UNCHANGED <<searching, link, flag, pending>>
    BY <1>1 DEF NetworkAnswer
  <2>2. \A j \in Commissions : Made(j)' => Made(j)
    BY NoneBegins
  <2> QED
    BY <1>0, <2>1, <2>2, StepKeeps
<1>2. CASE Matching("ConnectNetwork") # {}
  <2> DEFINE i == Min(Matching("ConnectNetwork"))
             n == commission[i].node
  <2>1. i \in Commissions /\ Made(i)
    BY <1>2, MatchingIs
  <2>2. commission' = Gone(i) /\ pending' = n /\ flag' = TRUE /\ link' = Disconnecting
    BY <1>2 DEF NetworkAnswer, Finish
  <2> HIDE DEF i
  <2>3. Underway' = {} /\ ~Found /\ timers = {} /\ Calls = {} /\ owes = {} /\ n \in Coming
    BY <2>1, <2>2, LastGone
  <2> HIDE DEF n
  <2>4. timers' = {} /\ Calls' = {} /\ owes' = {}
    BY <1>0, <2>3 DEF Calls
  <2>5. ~scanning' /\ link' # "connecting" /\ flag'
    BY <1>0, <2>2, <2>3 DEF Disconnecting, Found, OthersOK, BleTrue
  <2>6. OneThread'
    BY <2>3, <2>4, <2>5 DEF OneThread
  <2>7. Unused'
    BY <2>5 DEF Unused
  <2>8. Coming' \subseteq {n}
    BY <2>2, <2>3, <2>4 DEF Coming
  <2>9. ListApart'
    BY <1>0, <2>3, <2>4, <2>8 DEF ListApart, SteadyOK
  <2> QED
    BY <1>0, <2>6, <2>7, <2>9 DEF SteadyOK
<1> QED
  BY <1>1, <1>2

(* The operational service turns up; the five seconds are over: CASE. *)
LEMMA DialKeeps ==
  ASSUME CommissionsOK, OthersOK, SteadyOK,
         OperationalFound \/ \E n \in Nodes : FiveSeconds(n)
  PROVE  SteadyOK'
<1>1. UNCHANGED <<link, commission, owes, live, pending, given, list, answered>>
  BY DEF OperationalFound, FiveSeconds, bleVars, paseVars, nodeVars, endVars
<1>2. Underway' = Underway
  BY <1>1 DEF Underway, Made
<1>3. flag \in BOOLEAN
  BY DEF OthersOK
<1>4. CASE OperationalFound
  <2>1. searching /\ ~searching' /\ ~scanning' /\ UNCHANGED timers
    BY <1>4 DEF OperationalFound, nodeVars
  <2>2. pending \in Nodes /\ Dial(pending, flag)
    BY <1>4 DEF OperationalFound, OthersOK
  <2>3. /\ link # "connecting" /\ Underway = {} /\ timers = {} /\ Calls = {} /\ owes = {}
    BY <2>1 DEF Found, SteadyOK, OneThread
  <2>4. Calls' \subseteq {pending}
    BY <1>3, <2>2, <2>3, DialIs DEF Calls
  <2>5. pending \in Coming
    BY <2>2, NoneAssumption DEF Coming
  <2>6. ~Found' /\ ~MayBegin'
    BY <1>1, <2>1, <2>3 DEF Found, MayBegin
  <2> QED
    BY <1>1, <1>2, <2>1, <2>3, <2>4, <2>5, <2>6, MovesOn
<1>5. ASSUME NEW n \in Nodes, FiveSeconds(n)
      PROVE  SteadyOK'
  <2>1. n \in timers /\ timers' = timers \ {n} /\ Dial(n, flag) /\ UNCHANGED <<searching, scanning>>
    BY <1>5 DEF FiveSeconds, searchVars, bleVars
  <2>2. ~Found /\ Underway = {} /\ Calls = {} /\ owes = {} /\ timers' = {}
    BY <2>1 DEF SteadyOK, OneThread
  <2>3. Calls' \subseteq {n}
    BY <1>3, <2>1, <2>2, DialIs DEF Calls
  <2>4. n \in Coming
    BY <2>1 DEF Coming
  <2>5. ~Found' /\ ~MayBegin'
    BY <1>1, <2>1, <2>2 DEF Found, MayBegin, OthersOK, BleTrue
  <2> QED
    BY <1>1, <1>2, <2>2, <2>3, <2>4, <2>5, MovesOn
<1> QED
  BY <1>4, <1>5

(* caseEstablished *)
LEMMA CaseKeeps ==
  ASSUME CommissionsOK, OthersOK, SteadyOK, NEW n \in Nodes, CaseEstablished(n)
  PROVE  SteadyOK'
<1>1. /\ n \in Calls /\ Calls' = Calls \ {n} /\ live' = live \cup {n}
      /\ UNCHANGED <<searching, scanning, link, commission, timers, flag, given, list, answered>>
  BY DEF CaseEstablished, Calls, OthersOK, searchVars, bleVars, paseVars
<1>2. /\ ~Found /\ Underway = {} /\ timers = {} /\ owes = {} /\ Calls' = {}
  BY <1>1 DEF SteadyOK, OneThread
<1>3. Underway' = {}
  BY <1>1, <1>2 DEF Underway, Made
<1>4. n \in Coming
  BY <1>1 DEF Coming
<1>5. ~Found' /\ ~MayBegin'
  BY <1>1, <1>2 DEF Found, MayBegin, OthersOK, BleTrue
<1>6. pending' \in {pending, n} /\ owes' \subseteq {n} \cap {pending'}
  BY <1>2 DEF CaseEstablished, Owner
<1> QED
  BY <1>1, <1>2, <1>3, <1>4, <1>5, <1>6, MovesOn

(* The answer to CommissioningComplete: the pending device is the one that  *)
(* gave it.                                                                 *)
LEMMA CompleteKeeps ==
  ASSUME CommissionsOK, OthersOK, SteadyOK, NEW n \in Nodes, CompleteAnswer(n)
  PROVE  SteadyOK'
<1>1. n \in owes /\ owes \subseteq {pending}
  BY DEF CompleteAnswer, SteadyOK, ListApart
<1>2. pending = n /\ owes = {n} /\ pending # None
  BY <1>1, NoneAssumption
<1>3. /\ owes' = {} /\ pending' = None /\ list' = Append(list, n)
      /\ answered' = answered \cup {n}
      /\ UNCHANGED <<searches, searching, scanning, link, commission, given, flag, case, timers, live>>
  BY <1>2 DEF CompleteAnswer, searchVars, bleVars, paseVars, caseVars
<1>4. ~Found /\ Underway = {} /\ timers = {} /\ Calls = {}
  BY <1>2 DEF SteadyOK, OneThread
<1>5. Underway' = {} /\ Calls' = {} /\ timers' = {} /\ ~Found'
  BY <1>3, <1>4 DEF Underway, Calls, Made, Found
<1>6. OneThread'
  BY <1>3, <1>5 DEF OneThread, Found
<1>7. Unused'
  BY <1>3 DEF Unused, SteadyOK
<1>8. Coming' = {}
  BY <1>3, <1>5 DEF Coming
<1>9. list \in Seq(Nodes) /\ ToSet(list') = ToSet(list) \cup {n}
  <2>1. list \in Seq(Nodes)
    BY DEF OthersOK
  <2> QED
    BY <1>3, <2>1 DEF ToSet
<1>10. n \in Coming /\ n \in live
  BY <1>1 DEF Coming, OthersOK
<1>11. ListApart'
  <2>1. ToSet(list') \subseteq {given[i] : i \in Commissions}
    BY <1>9, <1>10 DEF SteadyOK, ListApart
  <2>2. ToSet(list') \subseteq live'
    BY <1>3, <1>9, <1>10 DEF SteadyOK, ListApart
  <2> QED
    BY <1>3, <1>8, <2>1, <2>2 DEF ListApart
<1>12. IsInjective(list')
  <2>1. n \notin ToSet(list) /\ IsInjective(list)
    BY <1>10 DEF SteadyOK, ListApart
  <2>2. \A i \in 1..Len(list) : list[i] \in ToSet(list)
    BY <1>9 DEF ToSet
  <2> QED
    BY <1>3, <1>9, <2>1, <2>2 DEF IsInjective
<1>13. ToSet(list') \subseteq answered'
  BY <1>3, <1>9 DEF SteadyOK
<1> QED
  BY <1>3, <1>6, <1>7, <1>11, <1>12, <1>13 DEF SteadyOK

LEMMA SteadyKept ==
  ASSUME CommissionsOK, OthersOK, CommissionsOK', SteadyOK, manner = "steady", Next
  PROVE  SteadyOK'
<1> DEFINE Same == UNCHANGED <<searches, searching, scanning, flag, timers, case, owes, live,
                               pending, given, list, answered>>
<1>1. CASE Connect
  BY <1>1, ConnectKeeps
<1>2. ASSUME UNCHANGED <<commission, given, searches, timers, owes, live, pending, list, answered>>,
             \A n \in Nodes : case'[n] # "none" => case[n] # "none",
             Found' => Found, ~(searching' /\ link' = "connecting"), MayBegin' => MayBegin
      PROVE  SteadyOK'
  <2>1. \A i \in Commissions : Made(i)' => Made(i)
    BY <1>2 DEF Made
  <2>2. ToSet(list) \subseteq live' /\ timers' \subseteq timers /\ owes' \subseteq owes
    BY <1>2 DEF SteadyOK, ListApart
  <2> QED
    BY <1>2, <2>1, <2>2, Fewer
<1>3. CASE SearchTimeout \/ ScanTimeout \/ BleFound
  <2>1. UNCHANGED <<commission, given, searches, timers, owes, live, pending, list, answered, case>>
    BY <1>3 DEF SearchTimeout, ScanTimeout, BleFound, searchVars, paseVars, caseVars, nodeVars, endVars
  <2>2. (Found' => Found) /\ ~(searching' /\ link' = "connecting") /\ (MayBegin' => MayBegin)
    BY <1>3 DEF SearchTimeout, ScanTimeout, BleFound, searchVars, caseVars,
                Found, MayBegin, SteadyOK, OneThread
  <2> QED
    BY <1>2, <2>1, <2>2
<1>4. CASE OperationalFound \/ \E n \in Nodes : FiveSeconds(n)
  BY <1>4, DialKeeps
<1>5. CASE BleHandshake \/ \E p \in Places : UdpFound(p)
  BY <1>5, FoundKeeps
<1>6. CASE BleDrop
  <2>1. Same /\ UNCHANGED commission /\ link' # "connecting"
    BY <1>6 DEF BleDrop, searchVars, caseVars, nodeVars, endVars
  <2>2. \A i \in Commissions : Made(i)' => Made(i)
    BY <2>1 DEF Made
  <2> QED
    BY <2>1, <2>2, StepKeeps
<1>7. ASSUME NEW a,
             \/ OtherReport \/ ReadAnswer(a) \/ PaseAnswer(a) \/ PaseEstablished(a)
             \/ StepAnswer(a) \/ PaseRefused(a) \/ Unanswered(a)
             \/ \E i \in Commissions : PaseTimeout(i)
      PROVE  SteadyOK'
  <2>1. \A j \in Commissions : Made(j)' => Made(j)
    BY <1>7, NoneBegins DEF OtherReport
  <2>2. Same /\ (link' = "connecting" => link = "connecting")
    BY <1>7 DEF OtherReport, ReadAnswer, PaseAnswer, PaseEstablished, StepAnswer, PaseRefused,
                Unanswered, PaseTimeout, PaseFailed, Disconnecting,
                searchVars, bleVars, caseVars, nodeVars, endVars
  <2> QED
    BY <2>1, <2>2, StepKeeps
<1>8. ASSUME NEW a \in asked, NocAnswer(a) \/ NetworkAnswer(a)
      PROVE  SteadyOK'
  BY <1>8, NocKeeps, NetworkSearches
<1>9. CASE ThreadUp
  <2>1. UNCHANGED <<commission, given, searches, timers, owes, live, pending, list, answered, case,
                    searching, scanning, link, flag>>
    BY <1>9 DEF ThreadUp, searchVars, bleVars, paseVars, caseVars, endVars
  <2>2. (Found' => Found) /\ ~(searching' /\ link' = "connecting") /\ (MayBegin' => MayBegin)
    BY <2>1 DEF Found, MayBegin, SteadyOK, OneThread
  <2> QED
    BY <1>2, <2>1, <2>2
<1>10. ASSUME NEW n \in Nodes, CaseEstablished(n)
       PROVE  SteadyOK'
  BY <1>10, CaseKeeps
<1>11. ASSUME NEW n \in Nodes, CaseFailed(n)
       PROVE  SteadyOK'
  <2>1. UNCHANGED <<commission, given, searches, timers, owes, live, pending, list, answered,
                    searching, scanning, link, flag>>
    BY <1>11 DEF CaseFailed, searchVars, bleVars, paseVars, nodeVars, endVars
  <2>2. (Found' => Found) /\ ~(searching' /\ link' = "connecting") /\ (MayBegin' => MayBegin)
    BY <2>1 DEF Found, MayBegin, SteadyOK, OneThread
  <2>3. \A m \in Nodes : case'[m] # "none" => case[m] # "none"
    BY <1>11 DEF CaseFailed, OthersOK
  <2> QED
    BY <1>2, <2>1, <2>2, <2>3
<1>12. ASSUME NEW n \in Nodes, CompleteAnswer(n)
       PROVE  SteadyOK'
  BY <1>12, CompleteKeeps
<1>13. ASSUME NEW n \in Nodes, Unreachable(n)
       PROVE  SteadyOK'
  <2>1. /\ UNCHANGED <<commission, given, searches, timers, live, pending, list, answered, case,
                       searching, scanning, link, flag>>
        /\ owes' \subseteq owes
    BY <1>13 DEF Unreachable, searchVars, bleVars, paseVars, caseVars, endVars
  <2>2. (Found' => Found) /\ ~(searching' /\ link' = "connecting") /\ (MayBegin' => MayBegin)
    BY <2>1 DEF Found, MayBegin, SteadyOK, OneThread
  <2>3. \A i \in Commissions : Made(i)' => Made(i)
    BY <2>1 DEF Made
  <2>4. ToSet(list) \subseteq live' /\ timers' \subseteq timers
    BY <2>1 DEF SteadyOK, ListApart
  <2> QED
    BY <2>1, <2>2, <2>3, <2>4, Fewer
<1>14. ASSUME NEW n \in Nodes, Reconnect(n)
       PROVE  SteadyOK'
  BY <1>14 DEF Reconnect, SteadyOK, ListApart
<1> HIDE DEF Same
<1> QED
  BY <1>1, <1>3, <1>4, <1>5, <1>6, <1>7, <1>8, <1>9, <1>10, <1>11, <1>12, <1>13, <1>14
     DEF Next, Search, Step, Operate

(* The user stays the one he is. *)
LEMMA MannerStays == ASSUME Next PROVE UNCHANGED manner
<1>1. CASE Search
  BY <1>1 DEF Search, Connect, SearchTimeout, ScanTimeout, OperationalFound, BleFound,
              BleHandshake, BleDrop, UdpFound, envVars
<1>2. CASE Step
  BY <1>2 DEF Step, OtherReport, PaseAnswer, PaseEstablished, PaseRefused, PaseFailed, StepAnswer,
              ReadAnswer, Unanswered, NocAnswer, NetworkAnswer, PaseTimeout, envVars
<1>3. CASE Operate
  BY <1>3 DEF Operate, ThreadUp, FiveSeconds, CaseEstablished, CaseFailed, CompleteAnswer,
              Unreachable, Reconnect, envVars
<1> QED
  BY <1>1, <1>2, <1>3 DEF Next

-----------------------------------------------------------------------------
LEMMA InitHolds == ASSUME Init PROVE IInv
<1>1. CommissionsOK
  <2>1. \A i \in Commissions : commission[i] = None /\ given[i] = None /\ ~Made(i)
    BY DEF Init, Made
  <2>2. Ordered /\ SessionsMatch /\ PlacesApart
    BY <2>1 DEF Init, Ordered, SessionsMatch, PlacesApart
  <2>3. made \in 0..MaxSearch
    BY CommissioningAssumption DEF Init
  <2> QED
    BY <2>2, <2>3 DEF Init, CommissionsOK
<1>2. OthersOK
  <2>1. searches \in 0..MaxSearch /\ Commanded /\ BleTrue
    BY CommissioningAssumption DEF Init, Commanded, BleTrue
  <2>2. list \in Seq(Nodes) /\ case \in [Nodes -> {"none", "plain", "completes"}]
    BY DEF Init
  <2>3. searching \in BOOLEAN /\ scanning \in BOOLEAN /\ overBle \in BOOLEAN /\ flag \in BOOLEAN
    BY DEF Init
  <2> QED
    BY <2>1, <2>2, <2>3 DEF Init, OthersOK
<1>3. SteadyOK
  <2>1. Underway = {} /\ Calls = {} /\ Coming = {}
    BY DEF Init, Underway, Calls, Coming, Made
  <2>2. ToSet(list) = {} /\ IsInjective(list)
    BY DEF Init, ToSet, IsInjective
  <2>3. OneThread
    BY <2>1 DEF Init, OneThread, Found
  <2>4. Unused
    BY DEF Init, Unused
  <2>5. ListApart
    BY <2>1, <2>2 DEF Init, ListApart
  <2> QED
    BY <2>2, <2>3, <2>4, <2>5 DEF Init, SteadyOK
<1> QED
  BY <1>1, <1>2, <1>3, Parts

LEMMA StepHolds == ASSUME IInv, [Next]_vars PROVE IInv'
<1>1. CommissionsOK /\ OthersOK /\ (manner = "steady" => SteadyOK)
  BY Parts
<1>2. CASE Next
  <2>1. CommissionsOK' /\ OthersOK' /\ manner' = manner
    BY <1>1, <1>2, CommissionsKept, OthersKept, MannerStays
  <2>2. manner' = "steady" => SteadyOK'
    BY <1>1, <1>2, <2>1, SteadyKept
  <2>3. (IInv <=> CommissionsOK /\ OthersOK /\ (manner = "steady" => SteadyOK))'
    BY Parts, PTL
  <2> QED
    BY <2>1, <2>2, <2>3
<1>3. CASE UNCHANGED vars
  <2>1. (IInv <=> CommissionsOK /\ OthersOK /\ (manner = "steady" => SteadyOK))'
    BY Parts, PTL
  <2>2. CommissionsOK'
    BY <1>1, <1>3 DEF vars, searchVars, paseVars, CommissionsOK, Ordered, SessionsMatch,
                      PlacesApart, InPase, Made
  <2>3. OthersOK'
    BY <1>1, <1>3 DEF vars, searchVars, bleVars, caseVars, nodeVars, endVars, envVars, OthersOK,
                      Commanded, BleTrue
  <2>4. manner = "steady" => SteadyOK'
    BY <1>1, <1>3 DEF vars, searchVars, bleVars, paseVars, caseVars, nodeVars, endVars, SteadyOK,
                      OneThread, Found, Underway, Calls, Unused, ListApart, Coming, Made
  <2> QED
    BY <1>3, <2>1, <2>2, <2>3, <2>4 DEF vars, envVars
<1> QED
  BY <1>2, <1>3

(* The inductive invariant of commissioning, for every number of commands   *)
(* and every user.                                                          *)
THEOREM Invariant == Spec => []IInv
<1>1. Init => IInv
  BY InitHolds
<1>2. IInv /\ [Next]_vars => IInv'
  BY StepHolds
<1> QED
  BY <1>1, <1>2, PTL DEF Spec

(* One command leads to one commission, for a user who waits (BLE and mDNS  *)
(* search at the same time).                                                *)
THEOREM OneCommission == Spec => []OneAttempt
<1>1. IInv => OneAttempt
  BY DEF IInv
<1> QED
  BY <1>1, Invariant, PTL

(* m_devices gets a node once, and by that node's own answer to             *)
(* CommissioningComplete, for a user who waits.                             *)
THEOREM ListedOnItsAnswer == Spec => []ListedAnswered
<1>1. IInv => ListedAnswered
  BY DEF IInv
<1> QED
  BY <1>1, Invariant, PTL

(* No two entries of m_pendingCommissions talk to one address, whoever the  *)
(* user.                                                                    *)
THEOREM OneAtAPlace == Spec => []PlacesApart
<1>1. IInv => PlacesApart
  BY DEF IInv
<1> QED
  BY <1>1, Invariant, PTL

(* m_sessions holds the PASE sessions of the commissions past PASE, and no  *)
(* others, whoever the user.                                                *)
THEOREM SessionsFollow == Spec => []SessionsMatch
<1>1. IInv => SessionsMatch
  BY DEF IInv
<1> QED
  BY <1>1, Invariant, PTL

=============================================================================
