--------------------------- MODULE Commissioning ---------------------------
(***************************************************************************)
(* How a device is added (matter.cpp with pase.cpp): the search over BLE   *)
(* and mDNS, PASE, the steps of PendingCommission, and the first CASE with *)
(* CommissioningComplete.                                                  *)
(*                                                                         *)
(* Abstractions.  A command takes a fresh node id, so a node is the number *)
(* of its search.  What a device answers is a choice: the answer, a        *)
(* refusal, or nothing.  Keys and certificates are the commission whose    *)
(* CSR they were made from.  CASE is one step from its start to its end;   *)
(* its retries, discovery and removal are the module Connection.  The      *)
(* browse timer only repeats the query: a service may turn up at any time, *)
(* also one that is gone, for the mDNS cache keeps it.                     *)
(***************************************************************************)
EXTENDS Naturals, Sequences, SequencesExt

CONSTANTS
  Places,       \* addresses and ports of commissionable services
  Mesh,         \* those with an IPv6 address: taken for Thread
  HasBle,       \* an adapter and a WiFi SSID
  Manners,      \* bound: what the user and the listed devices are like
  MaxSearch,    \* bound: commands, and commissions
  MaxHasty,     \* bound: the same for a user who does not wait
  None

ASSUME CommissioningAssumption ==
  /\ Mesh \subseteq Places /\ None \notin Places
  /\ HasBle \in BOOLEAN
  /\ Manners \subseteq {"hasty", "patient", "steady"}
  /\ MaxSearch \in Nat /\ MaxHasty \in 0..MaxSearch

Nodes == 1..MaxSearch
Commissions == 1..MaxSearch

VARIABLES
  searches,     \* commands so far: the node of m_searchNodeId
  searching,    \* m_searching, and m_searchTimer runs
  scanning,     \* BLE::m_scanning
  link,         \* the BLE connection: off, connecting, up, closing
  overBle,      \* m_bleCommissioning
  made,         \* commissions so far: the last local session id given
  commission,   \* m_pendingCommissions, in the order of local session ids
  sessions,     \* PASE sessions in m_sessions
  asked,        \* requests a device may answer
  flag,         \* m_caseNeedsCommissioningComplete
  pending,      \* m_pendingCommissionDevice
  timers,       \* nodes with the 5 s singleShot of AddNOC
  case,         \* m_pendingCASEs: none, plain, or completes
  live,         \* nodes with an active CASE session
  owes,         \* nodes asked for CommissioningComplete
  onThread,     \* DeviceObject::thread
  threadReady,  \* m_threadReady
  list,         \* m_devices: the nodes appended, in order
  installed,    \* environment: nodes whose device holds its NOC
  manner,       \* environment: a user who waits, devices that stay, neither
  answered,     \* history: nodes that answered CommissioningComplete
  given         \* history: the node of each commission

searchVars == <<searches, searching>>
bleVars == <<scanning, link, overBle>>
paseVars == <<made, commission, sessions, asked, given>>
caseVars == <<flag, case>>
nodeVars == <<timers, live, owes, onThread, threadReady>>
endVars == <<pending, list, answered>>
envVars == <<installed, manner>>
vars == <<searchVars, bleVars, paseVars, caseVars, nodeVars, endVars, envVars>>

(* The bound on commands and on commissions. *)
Limit == IF manner = "hasty" THEN MaxHasty ELSE MaxSearch

-----------------------------------------------------------------------------
(* CommissioningState; PASE is split into the states of PASESession. *)
PaseStates == {"PBKDF", "Pake2", "Status"}
Reads == {"ReadBasicInfo", "ReadNetworkType"}
OnlyBle == {"ReadNetworkType", "AddThreadNetwork", "AddWiFiNetwork", "ConnectNetwork"}

(* The state an answer leads to, where it is the only one. *)
After == [
  PBKDF |-> "Pake2", Pake2 |-> "Status",
  ArmFailSafe |-> "SetRegulatoryConfig", SetRegulatoryConfig |-> "ReadBasicInfo",
  ReadBasicInfo |-> "RequestPAI", RequestPAI |-> "RequestDAC",
  RequestDAC |-> "RequestAttestation", RequestAttestation |-> "CSRRequest",
  CSRRequest |-> "AddTrustedRootCert", AddTrustedRootCert |-> "AddNOC",
  AddThreadNetwork |-> "ConnectNetwork", AddWiFiNetwork |-> "ConnectNetwork"]

States == DOMAIN After \cup {"Status", "AddNOC", "ReadNetworkType", "ConnectNetwork"}

PendingCommission ==
  [node : Nodes, place : Places \cup {None}, ble : BOOLEAN, state : States,
   key : Commissions \cup {None}, thread : BOOLEAN]
Request == [of : Commissions, step : States, ble : BOOLEAN]

ASSUME NoneAssumption == None \notin PendingCommission /\ None \notin Nodes

Made(i) == i \in Commissions /\ commission[i] # None
InPase(i) == Made(i) /\ commission[i].state \in PaseStates

(* What an answer to step s is told by. *)
Kind(s) ==
  CASE s \in {"RequestPAI", "RequestDAC"} -> "CertificateChainResponse"
    [] s \in {"AddThreadNetwork", "AddWiFiNetwork"} -> "NetworkConfigResponse"
    [] s \in Reads -> "ReportData"
    [] OTHER -> s

(* handleInteractionModel: the commissions an answer of kind k may be for. *)
Matching(k) == {i \in Commissions : Made(i) /\ Kind(commission[i].state) = k}

(* sendCommissioningMessage, sendEncryptedBle and the two of PASE: the      *)
(* request of commission i as r, if a device that can answer gets it.  ob   *)
(* is m_bleCommissioning, lk the BLE connection.                            *)
Sent(i, r, ob, lk) ==
  LET ble == r.state \in OnlyBle \/ ob IN
  IF (ble /\ r.ble /\ lk = "up") \/ (~ble /\ r.place # None)
  THEN {[of |-> i, step |-> r.state, ble |-> ble]} ELSE {}

(* The requests whose answer can still be taken in. *)
Hears(a) == a \in asked /\ (a.ble => overBle)

(* The device that answers a is known by its PASE session. *)
Secured(a) == Hears(a) /\ a.of \in sessions

(* Commission i becomes r and sends what its state asks for; the request a  *)
(* has been answered.                                                       *)
Continue(i, r, a) ==
  /\ commission' = [commission EXCEPT ![i] = r]
  /\ asked' = (asked \ {a}) \cup Sent(i, r, overBle, link)

(* Mutant of Gone: the entry is only marked. *)
MarkedDone(i) == [commission EXCEPT ![i].state = "Done"]

(* m_pendingCommissions.remove *)
Gone(i) == [commission EXCEPT ![i] = None]

(* Mutant of Closed: the PASE session is left in the table. *)
LeftOpen(i) == sessions

(* removeSession of a PASE session. *)
Closed(i) == sessions \ {i}

(* BLE::disconnectDevice: bleDisconnected follows. *)
Disconnecting == IF link = "off" THEN "off" ELSE "closing"

(* startCommissioning and btpHandshakeComplete *)
NewCommission(place, ble, ob, lk) ==
  LET r == [node |-> searches, place |-> place, ble |-> ble, state |-> "PBKDF",
            key |-> None, thread |-> FALSE] IN
  /\ made < Limit
  /\ made' = made + 1
  /\ commission' = [commission EXCEPT ![made + 1] = r]
  /\ asked' = asked \cup Sent(made + 1, r, ob, lk)
  /\ given' = [given EXCEPT ![made + 1] = searches]
  /\ UNCHANGED sessions

(* connectDevice(DeviceObject) of node n, with the flag f. *)
Dial(n, f) ==
  IF (n \in onThread /\ ~threadReady) \/ n \in live \/ case[n] # "none"
  THEN flag' = f /\ UNCHANGED case
  ELSE /\ case' = [case EXCEPT ![n] = IF f THEN "completes" ELSE "plain"]
       /\ flag' = FALSE

-----------------------------------------------------------------------------
Init ==
  /\ searches = 0 /\ searching = FALSE /\ scanning = FALSE
  /\ link = "off" /\ overBle = FALSE
  /\ made = 0
  /\ commission = [i \in Commissions |-> None]
  /\ given = [i \in Commissions |-> None]
  /\ sessions = {} /\ asked = {}
  /\ flag = FALSE /\ pending = None
  /\ timers = {} /\ live = {} /\ owes = {} /\ onThread = {}
  /\ case = [n \in Nodes |-> "none"]
  /\ threadReady \in BOOLEAN
  /\ list = << >> /\ installed = {} /\ answered = {}
  /\ manner \in Manners

(* What a user who waits would wait for. *)
Idle ==
  /\ ~searching /\ link = "off" /\ timers = {} /\ owes = {}
  /\ \A i \in Commissions : ~Made(i)
  /\ \A n \in Nodes : case[n] = "none"

(* The command: connectDevice(code). *)
Connect ==
  /\ searches < Limit
  /\ manner # "hasty" => Idle
  /\ searches' = searches + 1
  /\ searching' = TRUE
  /\ scanning' = HasBle
  /\ overBle' = FALSE
  /\ UNCHANGED <<link, paseVars, caseVars, nodeVars, endVars, envVars>>

(* deviceNotFound *)
SearchTimeout ==
  /\ searching
  /\ searching' = FALSE /\ scanning' = FALSE
  /\ UNCHANGED <<searches, link, overBle, paseVars, caseVars, nodeVars, endVars, envVars>>

(* BLE::scanTimeout: mDNS goes on alone. *)
ScanTimeout ==
  /\ scanning
  /\ scanning' = FALSE
  /\ UNCHANGED <<searchVars, link, overBle, paseVars, caseVars, nodeVars, endVars, envVars>>

(* bleDeviceFound.  While BLE still holds a connection, the new one never   *)
(* gets as far as its characteristics.                                      *)
BleFound ==
  /\ scanning /\ searching
  /\ searching' = FALSE /\ scanning' = FALSE
  /\ link' = IF link = "off" THEN "connecting" ELSE link
  /\ UNCHANGED <<searches, overBle, paseVars, caseVars, nodeVars, endVars, envVars>>

(* bleConnected, then btpHandshakeComplete: the commission is for the       *)
(* latest command.                                                          *)
BleHandshake ==
  /\ link = "connecting"
  /\ link' = "up" /\ overBle' = TRUE
  /\ NewCommission(None, TRUE, TRUE, "up")
  /\ UNCHANGED <<searchVars, scanning, caseVars, nodeVars, endVars, envVars>>

(* bleDisconnected: m_bleCommissioning, which was b. *)
Dropped(b) == FALSE

(* The connection ends, or never comes about. *)
BleDrop ==
  /\ link # "off"
  /\ link' = "off" /\ overBle' = Dropped(overBle)
  /\ asked' = {a \in asked : ~a.ble}
  /\ UNCHANGED <<searchVars, scanning, made, commission, sessions, given, caseVars, nodeVars, endVars, envVars>>

(* Mutant of Expected: any commissionable service will do. *)
AlwaysExpected(f) == TRUE

(* "after BLE commissioning, only accept operational services" *)
Expected(f) == ~f

(* Mutant of Free: only a commission still in PASE holds its place. *)
FreeAfterPase(p) == \A i \in Commissions : InPase(i) => commission[i].place # p

(* No commission is under way at p. *)
Free(p) == \A i \in Commissions : Made(i) => commission[i].place # p

(* mdnsServiceFound with a commissionable service: a commission that waits  *)
(* for ArmFailSafe goes on there, else one begins.                          *)
UdpFound(p) ==
  /\ searching /\ Expected(flag) /\ Free(p)
  /\ searching' = FALSE /\ scanning' = FALSE
  /\ LET waiting == Matching("ArmFailSafe") IN
     IF waiting # {}
     THEN LET i == Min(waiting)
              r == [commission[i] EXCEPT !.place = p] IN
          /\ commission' = [commission EXCEPT ![i] = r]
          /\ asked' = asked \cup Sent(i, r, overBle, link)
          /\ UNCHANGED <<made, sessions, given>>
     ELSE NewCommission(p, FALSE, overBle, link)
  /\ UNCHANGED <<searches, link, overBle, caseVars, nodeVars, endVars, envVars>>

(* mdnsServiceFound with the operational service of the pending device. *)
OperationalFound ==
  /\ searching /\ flag
  /\ pending \in installed
  /\ searching' = FALSE /\ scanning' = FALSE
  /\ Dial(pending, flag)
  /\ UNCHANGED <<searches, link, overBle, paseVars, nodeVars, endVars, envVars>>

-----------------------------------------------------------------------------
(* PBKDFParamResponse and Pake2, which name their commission's exchange. *)
PaseAnswer(a) ==
  /\ Hears(a) /\ a.step \in {"PBKDF", "Pake2"}
  /\ commission[a.of].state = a.step
  /\ Continue(a.of, [commission[a.of] EXCEPT !.state = After[a.step]], a)
  /\ UNCHANGED <<searchVars, bleVars, made, sessions, given, caseVars, nodeVars, endVars, envVars>>

(* The StatusReport that ends PASE, and paseEstablished. *)
PaseEstablished(a) ==
  /\ Hears(a) /\ a.step = "Status"
  /\ commission[a.of].state = "Status"
  /\ sessions' = sessions \cup {a.of}
  /\ Continue(a.of, [commission[a.of] EXCEPT !.state = "ArmFailSafe"], a)
  /\ UNCHANGED <<searchVars, bleVars, made, given, caseVars, nodeVars, endVars, envVars>>

(* paseFailed *)
PaseFailed(i) ==
  /\ commission' = Gone(i)
  /\ overBle' = FALSE
  /\ link' = IF overBle THEN Disconnecting ELSE link
  /\ asked' = {a \in asked : a.of # i /\ (overBle => ~a.ble)}
  /\ UNCHANGED <<searchVars, scanning, made, sessions, given, caseVars, nodeVars, endVars, envVars>>

(* The device refuses: a failure in its answer or a StatusReport. *)
PaseRefused(a) ==
  /\ Hears(a) /\ InPase(a.of)
  /\ PaseFailed(a.of)

(* Mutant of Waiting: the timer stops at the first answer. *)
WaitingFirst(i) == Made(i) /\ commission[i].state = "PBKDF"

(* The timer of PASESession runs until the session is established. *)
Waiting(i) == InPase(i)

PaseTimeout(i) ==
  /\ Waiting(i)
  /\ PaseFailed(i)

-----------------------------------------------------------------------------
(* An answer to a step whose only outcome is the next one.  The first       *)
(* commission whose state it suits takes it, whatever session it came on.   *)
StepAnswer(a) ==
  /\ Secured(a) /\ a.step \in DOMAIN After \ (Reads \cup PaseStates)
  /\ LET for == Matching(Kind(a.step)) IN
     IF for = {}
     THEN asked' = asked \ {a} /\ UNCHANGED commission
     ELSE LET i == Min(for)
              r == commission[i] IN
          Continue(i, [r EXCEPT !.state = After[r.state],
                                !.key = IF r.state = "CSRRequest" THEN a.of ELSE @], a)
  /\ UNCHANGED <<searchVars, bleVars, made, sessions, given, caseVars, nodeVars, endVars, envVars>>

(* The states ReadNetworkType may lead to; none is left without matching    *)
(* credentials.                                                             *)
NetworkStates == {"ReadNetworkType", "AddThreadNetwork", "AddWiFiNetwork"}

(* ReportData, whoever sent it: the first commission that reads takes it.   *)
(* The features count only when they were in a report, own says whether.    *)
Report(own, a) ==
  LET for == Matching("ReportData") IN
  IF for = {}
  THEN asked' = asked \ {a} /\ UNCHANGED commission
  ELSE LET i == Min(for)
           r == commission[i] IN
       IF r.state = "ReadBasicInfo"
       THEN Continue(i, [r EXCEPT !.state = After[@]], a)
       ELSE \E s \in IF own THEN NetworkStates ELSE {"ReadNetworkType"} :
              IF s = r.state
              THEN asked' = asked \ {a} /\ UNCHANGED commission
              ELSE Continue(i, [r EXCEPT !.state = s, !.thread = (s = "AddThreadNetwork")], a)

(* The answer to a read of a commission. *)
ReadAnswer(a) ==
  /\ Secured(a) /\ a.step \in Reads
  /\ Report(a.step = "ReadNetworkType", a)
  /\ UNCHANGED <<searchVars, bleVars, made, sessions, given, caseVars, nodeVars, endVars, envVars>>

(* A report of a device of the list. *)
OtherReport ==
  /\ live \cap ToSet(list) # {}
  /\ Report(FALSE, None)
  /\ UNCHANGED <<searchVars, bleVars, made, sessions, given, caseVars, nodeVars, endVars, envVars>>

(* The device of commission i takes the NOC if it is for its own key. *)
Fits(i) == commission[i].key = i

(* The nodes whose device may have taken its NOC when a comes to nothing. *)
MayHold(a) ==
  IF a.step = "AddNOC" /\ Made(a.of) /\ Fits(a.of) THEN {commission[a.of].node} ELSE {}

(* A step is refused, or a message is lost for good: nothing waits for it.  *)
(* For AddNOC the device may have taken it.                                 *)
Unanswered(a) ==
  /\ a \in asked
  /\ asked' = asked \ {a}
  /\ \E took \in BOOLEAN :
       installed' = IF took THEN installed \cup MayHold(a) ELSE installed
  /\ UNCHANGED <<searchVars, bleVars, made, commission, sessions, given, caseVars, nodeVars, endVars, manner>>

(* A commission that ended: its entry and its session go. *)
Finish(i, lost) ==
  /\ commission' = Gone(i)
  /\ sessions' = Closed(i)
  /\ asked' = {b \in asked : b.of # i /\ ~lost[b]}
  /\ UNCHANGED <<made, given>>

(* NOCResponse(0).  Over BLE the network comes next; over UDP the first     *)
(* CASE, 5 s later.                                                         *)
NocAnswer(a) ==
  /\ Secured(a) /\ a.step = "AddNOC" /\ Fits(a.of)
  /\ installed' = installed \cup {commission[a.of].node}
  /\ LET i == Min(Matching("AddNOC"))
         r == commission[i] IN
     IF Matching("AddNOC") = {}
     THEN /\ asked' = asked \ {a}
          /\ UNCHANGED <<made, commission, sessions, given, flag, timers, onThread>>
     ELSE IF overBle
     THEN /\ Continue(i, [r EXCEPT !.state = "ReadNetworkType"], a)
          /\ UNCHANGED <<made, sessions, given, flag, timers, onThread>>
     ELSE /\ Finish(i, [b \in asked |-> b = a])
          /\ flag' = TRUE
          /\ timers' = timers \cup {r.node}
          /\ onThread' = IF r.place \in Mesh THEN onThread \cup {r.node}
                                             ELSE onThread \ {r.node}
  /\ UNCHANGED <<searchVars, bleVars, case, live, owes, threadReady, endVars, manner>>

(* ConnectNetworkResponse(0): BLE goes, the search is for the device's      *)
(* operational service.                                                     *)
NetworkAnswer(a) ==
  /\ Secured(a) /\ a.step = "ConnectNetwork"
  /\ LET i == Min(Matching("ConnectNetwork"))
         r == commission[i] IN
     IF Matching("ConnectNetwork") = {}
     THEN /\ asked' = asked \ {a}
          /\ UNCHANGED <<searching, link, overBle, made, commission, sessions, given, flag, pending, onThread>>
     ELSE /\ Finish(i, [b \in asked |-> b.ble])
          /\ overBle' = FALSE /\ link' = Disconnecting
          /\ flag' = TRUE /\ pending' = r.node
          /\ onThread' = IF r.thread THEN onThread \cup {r.node} ELSE onThread \ {r.node}
          /\ searching' = TRUE
  /\ UNCHANGED <<searches, scanning, case, timers, live, owes, threadReady, list, answered, envVars>>

-----------------------------------------------------------------------------
(* The singleShot of AddNOC. *)
FiveSeconds(n) ==
  /\ n \in timers
  /\ timers' = timers \ {n}
  /\ Dial(n, flag)
  /\ UNCHANGED <<searchVars, bleVars, paseVars, live, owes, onThread, threadReady, endVars, envVars>>

(* Mutant of Owner: the device stays the one of ConnectNetwork. *)
OwnerKept(n) == pending

(* caseEstablished: the pending device once n is asked to complete. *)
Owner(n) == n

(* caseEstablished *)
CaseEstablished(n) ==
  /\ case[n] # "none" /\ n \in installed
  /\ case' = [case EXCEPT ![n] = "none"]
  /\ live' = live \cup {n}
  /\ IF case[n] = "completes"
     THEN owes' = owes \cup {n} /\ pending' = Owner(n)
     ELSE UNCHANGED <<owes, pending>>
  /\ UNCHANGED <<searchVars, bleVars, paseVars, flag, timers, onThread, threadReady, list, answered, envVars>>

(* caseFailed, or MRP gave up: only a device of the list is tried again. *)
CaseFailed(n) ==
  /\ case[n] # "none"
  /\ case' = [case EXCEPT ![n] = "none"]
  /\ UNCHANGED <<searchVars, bleVars, paseVars, flag, nodeVars, endVars, envVars>>

(* CommissioningCompleteResponse, whatever it says and whoever it is from. *)
CompleteAnswer(n) ==
  /\ n \in owes
  /\ owes' = owes \ {n}
  /\ answered' = answered \cup {n}
  /\ pending' = None
  /\ list' = IF pending # None THEN Append(list, pending) ELSE list
  /\ UNCHANGED <<searchVars, bleVars, paseVars, caseVars, timers, live, onThread, threadReady, envVars>>

(* The device stops answering.  mrpRetransmitFailed knows the devices of    *)
(* the list only: the session of another stays.                             *)
Unreachable(n) ==
  /\ n \in live
  /\ IF n \in ToSet(list) THEN manner # "steady" /\ live' = live \ {n}
                          ELSE n \in owes /\ UNCHANGED live
  /\ owes' = owes \ {n}
  /\ UNCHANGED <<searchVars, bleVars, paseVars, caseVars, timers, onThread, threadReady, endVars, envVars>>

(* reconnectTimeout for a device of the list. *)
Reconnect(n) ==
  /\ n \in ToSet(list) \ live
  /\ case[n] = "none"
  /\ Dial(n, flag)
  /\ UNCHANGED <<searchVars, bleVars, paseVars, nodeVars, endVars, envVars>>

(* threadDatasetTimeout: the border router is up. *)
ThreadUp ==
  /\ ~threadReady
  /\ threadReady' = TRUE
  /\ UNCHANGED <<searchVars, bleVars, paseVars, caseVars, timers, live, owes, onThread, endVars, envVars>>

Search ==
  \/ Connect \/ SearchTimeout \/ ScanTimeout \/ OperationalFound
  \/ BleFound \/ BleHandshake \/ BleDrop
  \/ \E p \in Places : UdpFound(p)

Step ==
  \/ OtherReport
  \/ \E a \in asked : \/ PaseAnswer(a) \/ PaseEstablished(a) \/ PaseRefused(a)
                       \/ StepAnswer(a) \/ ReadAnswer(a) \/ Unanswered(a)
                       \/ NocAnswer(a) \/ NetworkAnswer(a)
  \/ \E i \in Commissions : PaseTimeout(i)

Operate ==
  \/ ThreadUp
  \/ \E n \in Nodes : \/ FiveSeconds(n) \/ CaseEstablished(n) \/ CaseFailed(n)
                      \/ CompleteAnswer(n) \/ Unreachable(n) \/ Reconnect(n)

Next == Search \/ Step \/ Operate

Spec == Init /\ [][Next]_vars

(* QTimer: the timer of PASE runs out. *)
Fairness == \A i \in Commissions : WF_vars(PaseTimeout(i))

-----------------------------------------------------------------------------
(* The types; that entries and sessions are of commissions that were made. *)
TypeOK ==
  /\ searches \in 0..MaxSearch /\ made \in 0..MaxSearch
  /\ searching \in BOOLEAN /\ scanning \in BOOLEAN /\ overBle \in BOOLEAN
  /\ link \in {"off", "connecting", "up", "closing"}
  /\ commission \in [Commissions -> PendingCommission \cup {None}]
  /\ given \in [Commissions -> Nodes \cup {None}]
  /\ sessions \subseteq Commissions /\ asked \subseteq Request
  /\ flag \in BOOLEAN /\ pending \in Nodes \cup {None}
  /\ case \in [Nodes -> {"none", "plain", "completes"}]
  /\ owes \subseteq live /\ live \subseteq installed /\ installed \subseteq Nodes
  /\ timers \subseteq Nodes /\ onThread \subseteq Nodes
  /\ threadReady \in BOOLEAN /\ manner \in Manners
  /\ list \in Seq(Nodes) /\ answered \subseteq Nodes

(* One command leads to one commission, whichever of BLE and mDNS finds the *)
(* device first: bleDeviceFound and mdnsServiceFound both end the search,   *)
(* and the search that follows BLE takes operational services only.  For a  *)
(* user who waits for the outcome.                                          *)
OneAttempt ==
  manner = "steady" => \A i, j \in Commissions : i # j /\ given[i] # None => given[i] # given[j]

(* A device of the list got there once, and by its own answer to            *)
(* CommissioningComplete, though the answer is taken for the pending        *)
(* device, whichever that is.  For a user who waits, and while the devices   *)
(* of the list keep their sessions.                                         *)
ListedAnswered ==
  manner = "steady" => ToSet(list) \subseteq answered /\ IsInjective(list)

(* No two commissions talk to one address: "check if already commissioning  *)
(* this device" in mdnsServiceFound, also when a commission from BLE goes   *)
(* on over UDP.                                                             *)
PlacesApart ==
  \A i, j \in Commissions : Made(i) /\ Made(j) /\ i # j /\ commission[i].place # None
    => commission[i].place # commission[j].place

(* A PASE session is in the table just while its commission is past PASE:   *)
(* continueCommissioning finds its session, and none is left behind.        *)
SessionsMatch ==
  \A i \in Commissions : i \in sessions <=> Made(i) /\ ~InPase(i)

-----------------------------------------------------------------------------
(* What IInv adds.  Commissions are made one after another, each for the    *)
(* node of a command; what is asked is asked of one that is under way.      *)
Ordered ==
  /\ \A i \in Commissions : i > made => commission[i] = None /\ given[i] = None
  /\ \A i \in Commissions : Made(i) => commission[i].node = given[i]
  /\ \A i \in Commissions : given[i] # None => given[i] <= searches
  /\ \A a \in asked : Made(a.of)

(* A search, or a BLE connection, is of a command.                          *)
Commanded == searches = 0 => ~searching /\ ~scanning /\ link = "off"

(* The BLE connection commissioning goes over is up; the search over BLE is *)
(* part of the one over mDNS.                                               *)
BleTrue == (overBle => link = "up") /\ (scanning => searching)

(* For a user who waits there is one thread of events at a time: a search,  *)
(* a connection that comes about, a commission, its five seconds, its CASE, *)
(* its last answer.                                                         *)
Calls == {n \in Nodes : case[n] # "none"}
Underway == {i \in Commissions : Made(i)}
Found == searching \/ link = "connecting"
OneThread ==
  /\ ~(searching /\ link = "connecting")
  /\ Found => Underway = {}
  /\ Found \/ Underway # {} => timers = {}
  /\ Found \/ Underway # {} \/ timers # {} => Calls = {}
  /\ Found \/ Underway # {} \/ timers # {} \/ Calls # {} => owes = {}
  /\ \A i, j \in Underway : i = j
  /\ \A m, n \in timers : m = n
  /\ \A m, n \in Calls : m = n
  /\ \A m, n \in owes : m = n

(* A search that may still make a commission has made none.                 *)
Unused ==
  scanning \/ link = "connecting" \/ (searching /\ ~flag) =>
    \A i \in Commissions : given[i] # searches

(* The nodes on their way to the list: none is there yet, and each had a    *)
(* commission.  The list keeps its sessions.                                *)
Coming ==
  timers \cup Calls \cup owes \cup ({pending} \ {None}) \cup
  {commission[i].node : i \in Underway}
ListApart ==
  /\ Coming \cup ToSet(list) \subseteq {given[i] : i \in Commissions}
  /\ Coming \cap ToSet(list) = {}
  /\ owes \subseteq {pending}
  /\ ToSet(list) \subseteq live

IInv ==
  /\ TypeOK
  /\ Ordered /\ SessionsMatch /\ PlacesApart
  /\ Commanded /\ BleTrue
  /\ manner = "steady" => OneThread /\ Unused /\ ListApart
  /\ OneAttempt /\ ListedAnswered

(* A PASE that gets no answer ends: established, failed or timed out. *)
PaseEnds == \A i \in Commissions : InPase(i) ~> ~InPase(i)

(* "send CommissioningComplete on CASE session only during initial          *)
(* commissioning" (caseEstablished): no device of the list is asked.        *)
OnlyInitial ==
  [][\A n \in Nodes : n \in owes' \ owes => n \notin ToSet(list)]_vars
=============================================================================
