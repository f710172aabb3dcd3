----------------------------- MODULE Connection -----------------------------
(***************************************************************************)
(* How the controller keeps one secure session to each listed device: CASE *)
(* attempts, the session table, availability, the reconnect and ping       *)
(* timers, MRP failures, Thread readiness and removal (matter.cpp), over   *)
(* the session table of case.cpp.  Every handler of the event loop is one  *)
(* action.  Messages are kept only while MRP waits for their ack.          *)
(*                                                                         *)
(* Abstractions.  Exchange and session identifiers are 16-bit counters in  *)
(* the code; here a CASE attempt takes any identifier that is not in use.  *)
(* nextReconnectAt is kept relative to now: Zero, Due (past) or Later.     *)
(* Each device has an address of its own.  Nothing but the display tells    *)
(* Unknown from Offline: a device is online or it is not.                   *)
(***************************************************************************)
EXTENDS Naturals, FiniteSets, Functions

CONSTANTS
  Devices,        \* the devices loaded from the database
  Thread,         \* those reached through the Thread border router
  Battery,        \* those with a battery (PowerSource cluster)
  Addressed,      \* those with a known network address
  ExchangeIds,    \* identifiers a CASE exchange may get, 0 possibly among them
  SessionIds,     \* identifiers a secure session may get
  Resuming,       \* those whose peer hands out resumption IDs
  Removable,      \* bound: devices the user may remove
  Rediscovered,   \* bound: devices the user may discover anew
  Settling,       \* devices that may stop failing for good
  MaxOutbound,    \* bound: reliable messages waiting for an ack
  None            \* "no device", "no exchange" or "no session"

ASSUME ConnectionAssumption ==
  /\ Thread \subseteq Devices
  /\ Battery \subseteq Devices
  /\ Addressed \subseteq Devices
  /\ Resuming \cup Removable \cup Rediscovered \subseteq Devices
  /\ Settling \subseteq Devices
  /\ None \notin Devices \cup ExchangeIds \cup SessionIds
  /\ MaxOutbound \in Nat

VARIABLES
  listed,         \* m_devices
  online,         \* devices whose availability is Online
  nextReconnect,  \* DeviceObject::nextReconnectAt, relative to now
  endpoints,      \* endpoints known (the map is not empty)
  resumption,     \* resumptionID and resumptionSharedSecret are set
  caseFor,        \* m_pendingCASEs: exchange -> device
  casePhase,      \* what the CASESession of that entry waits for
  owner,          \* m_sessions: local id -> peer node
  active,         \* sessions with SessionInfo::active
  validating,     \* sessions with resumptionPendingValidation
  outbound,       \* MRP m_pendingMessages
  timer,          \* m_reconnectTimer is running
  threadReady,    \* m_threadReady
  pendingRemove,  \* m_pendingRemoveDevice
  held,           \* environment: sessions of the table their peer holds too
  asked,          \* environment: peers that owe a RemoveFabric response
  sound           \* environment: peers that do not fail any more

caseVars == <<caseFor, casePhase>>
sessionVars == <<owner, active, validating>>
deviceVars == <<listed, online, nextReconnect, endpoints, resumption>>
peerVars == <<held, asked, sound>>
vars == <<deviceVars, caseVars, sessionVars, outbound, timer, threadReady,
          pendingRemove, peerVars>>

-----------------------------------------------------------------------------
(* Messages MRP retransmits until acked: a handshake message carries the    *)
(* exchange of its CASE; a request (Read, Subscribe, Invoke) an exchange of *)
(* its own (None: never that of a CASE); a StatusResponse answers on the    *)
(* exchange the peer chose.  Equal unacked messages count as one.           *)
Message == [device : Devices, exchange : ExchangeIds \cup {None},
            session : SessionIds \cup {None}]

Handshake(e, d) == [device |-> d, exchange |-> e, session |-> None]
Request(s, d) == [device |-> d, exchange |-> None, session |-> s]
StatusResponse(s, d, e) == [device |-> d, exchange |-> e, session |-> s]

Encrypted(m) == m.session # None

Room(msgs) == Cardinality(outbound \cup msgs) <= MaxOutbound

-----------------------------------------------------------------------------
SessionsOf(d) == {s \in active : owner[s] = d}
HasSession(d) == SessionsOf(d) # {}
InFlight(d) == \E e \in ExchangeIds : caseFor[e] = d
Routed(d) == d \in Thread => threadReady

(* A device the reconnect timer is responsible for. *)
Waiting(d) ==
  /\ d \in listed
  /\ d \in Addressed
  /\ d \notin online
  /\ ~HasSession(d)
  /\ ~InFlight(d)

(* Mutant of ScheduleReconnect: the timer is not started. *)
LeaveTimer(running) == timer' = running

(* scheduleReconnect: start the timer when some device waits, else leave it. *)
ScheduleReconnect(running) ==
  timer' = (running \/ (\E d \in Devices : Waiting(d))')

(* handleDeviceUnreachable's choice of the next attempt. *)
NextAttempt(d) ==
  CASE nextReconnect[d] = "Zero" -> {"Due"}
    [] nextReconnect[d] = "Due" -> {"Due", "Later"}
    [] OTHER -> {"Later"}

(* The table with new entries at distinct free slots. *)
Fill(at, ds, table) ==
  [x \in DOMAIN table |-> IF \E d \in ds : at[d] = x
                          THEN CHOOSE d \in ds : at[d] = x ELSE table[x]]

FreeExchanges ==
  {e \in ExchangeIds : caseFor[e] = None /\ \A m \in outbound : m.exchange # e}

FreeSessions ==
  {s \in SessionIds : owner[s] = None /\ \A m \in outbound : m.session # s}

(* Mutant of Connectable: an attempt in flight is not looked for. *)
ConnectableTwice(d) == Routed(d) /\ ~HasSession(d) /\ d \in Addressed

(* The guards of connectDevice. *)
Connectable(d) == Routed(d) /\ ~HasSession(d) /\ ~InFlight(d) /\ d \in Addressed

Sigma1s(at, ds) == {Handshake(at[d], d) : d \in ds}

(* connectDevice past its guards, for each device of ds. *)
StartCASE(ds) ==
  \E at \in Injection(ds, FreeExchanges) :
    /\ Room(Sigma1s(at, ds))
    /\ caseFor' = Fill(at, ds, caseFor)
    /\ casePhase' = [e \in ExchangeIds |->
                       IF \E d \in ds : at[d] = e /\ resumption[d] THEN "Resume"
                       ELSE IF \E d \in ds : at[d] = e THEN "Sigma2"
                       ELSE casePhase[e]]
    /\ outbound' = outbound \cup Sigma1s(at, ds)

(* Mutants of EraseCases: the CASESession stays, or every entry goes. *)
EraseEntries(es) ==
  /\ caseFor' = [e \in ExchangeIds |-> IF e \in es THEN None ELSE caseFor[e]]
  /\ UNCHANGED casePhase

EraseAllCases(es) ==
  /\ caseFor' = [e \in ExchangeIds |-> None]
  /\ casePhase' = [e \in ExchangeIds |-> "None"]

(* Erase the m_pendingCASEs entries in es. *)
EraseCases(es) ==
  /\ caseFor' = [e \in ExchangeIds |-> IF e \in es THEN None ELSE caseFor[e]]
  /\ casePhase' = [e \in ExchangeIds |-> IF e \in es THEN "None" ELSE casePhase[e]]

(* removeSession for the sessions in ss. *)
EraseSessions(ss) ==
  /\ owner' = [s \in SessionIds |-> IF s \in ss THEN None ELSE owner[s]]
  /\ active' = active \ ss
  /\ validating' = validating \ ss
  /\ held' = held \ ss

(* Mutant of CasesOf: removal finds no attempt to tear down. *)
NoCases(d) == {}

CasesOf(d) == {e \in ExchangeIds : caseFor[e] = d}

(* A decrypted datagram from d's node (readyRead): a listed device that is *)
(* not Online becomes Online and its backoff is reset.                     *)
HeardOnline(d) == online \cup ({d} \cap listed)

HeardReconnect(d) ==
  IF d \in listed \ online
  THEN [nextReconnect EXCEPT ![d] = "Zero"] ELSE nextReconnect

-----------------------------------------------------------------------------
(* The state after the constructors of Matter and Controller: sessions of  *)
(* some battery devices restored, a CASE started to every other device     *)
(* that connectDevice does not turn away.                                  *)
Init ==
  /\ listed = Devices
  /\ online = {}
  /\ threadReady \in BOOLEAN
  /\ resumption \in {f \in [Devices -> BOOLEAN] : \A d \in Devices : f[d] => d \in Resuming}
  /\ nextReconnect = [d \in Devices |-> "Zero"]
  /\ \E restored \in SUBSET Battery :
       LET started == {d \in Addressed \ restored : Routed(d)}
       IN /\ endpoints \in [Devices -> BOOLEAN]
          /\ \E id \in Injection(restored, SessionIds), at \in Injection(started, ExchangeIds) :
               /\ owner = Fill(id, restored, [s \in SessionIds |-> None])
               /\ active = {id[d] : d \in restored}
               /\ caseFor = Fill(at, started, [e \in ExchangeIds |-> None])
               /\ casePhase = [e \in ExchangeIds |->
                    IF caseFor[e] = None THEN "None"
                    ELSE IF resumption[caseFor[e]] THEN "Resume" ELSE "Sigma2"]
               /\ outbound = Sigma1s(at, started) \cup
                    {Request(id[d], d) : d \in {c \in restored : endpoints[c] /\ Routed(c)}}
  /\ validating = {}
  /\ timer = FALSE
  /\ pendingRemove = None
  /\ held \in SUBSET active
  /\ asked = {}
  /\ sound = {}

-----------------------------------------------------------------------------
(* CASESession::handleSigma2 accepts and answers with Sigma3. *)
CaseSigma2(e) ==
  LET msg == Handshake(e, caseFor[e]) IN
  /\ casePhase[e] \in {"Sigma2", "Resume"}
  /\ Room({msg})
  /\ casePhase' = [casePhase EXCEPT ![e] = "Status"]
  /\ outbound' = outbound \cup {msg}
  /\ UNCHANGED <<deviceVars, caseFor, sessionVars, timer, threadReady,
                 pendingRemove, peerVars>>

(* StatusReport(success) after Sigma3, or Sigma2_Resume: caseEstablished.   *)
(* A resumed session is answered with a StatusReport; then a Read of the    *)
(* PartsList when no endpoints are known, a Subscribe when they are.        *)
CaseEstablished(e, s) ==
  LET d == caseFor[e]
      resumed == casePhase[e] = "Resume"
      msgs == {Request(s, d)} \cup (IF resumed THEN {Handshake(e, d)} ELSE {})
  IN
  /\ casePhase[e] \in {"Resume", "Status"}
  /\ s \in FreeSessions
  /\ Room(msgs)
  /\ \E old \in SUBSET SessionsOf(d) :
       /\ Cardinality(old) <= 1
       /\ HasSession(d) => old # {}
       /\ owner' = [t \in SessionIds |-> IF t = s THEN d
                                         ELSE IF t \in old THEN None ELSE owner[t]]
       /\ active' = (active \ old) \cup {s}
       /\ validating' = (validating \ old) \cup (IF resumed THEN {s} ELSE {})
       /\ held' = (held \ old) \cup {s}
  /\ EraseCases({e})
  /\ \E renewed \in BOOLEAN :
       /\ resumed => renewed
       /\ renewed => d \in Resuming
       /\ resumption' = [resumption EXCEPT ![d] = @ \/ renewed]
  /\ online' = online \cup {d}
  /\ nextReconnect' = [nextReconnect EXCEPT ![d] = "Zero"]
  /\ outbound' = outbound \cup msgs
  /\ UNCHANGED <<listed, endpoints, timer, threadReady, pendingRemove, asked, sound>>

(* Mutant of CaseFailed: every failure drops the resumption pair. *)
CaseFailedDropsPair(e, mic) ==
  LET d == caseFor[e] IN
  /\ casePhase[e] \in {"Sigma2", "Resume", "Status"}
  /\ EraseCases({e})
  /\ resumption' = [resumption EXCEPT ![d] = FALSE]
  /\ nextReconnect' = [nextReconnect EXCEPT ![d] = "Later"]
  /\ UNCHANGED <<listed, online, endpoints, sessionVars, outbound,
                 threadReady, pendingRemove, peerVars>>
  /\ ScheduleReconnect(timer)

(* CASESession emits failed: caseFailed.  mic says that the reason was the *)
(* Sigma2_Resume MIC.  Exchange 0 reads as "no pending CASE", so its entry *)
(* stays although its CASESession is deleted.                              *)
CaseFailed(e, mic) ==
  LET d == caseFor[e] IN
  /\ casePhase[e] \in {"Sigma2", "Resume", "Status"}
  /\ mic => casePhase[e] = "Resume"
  /\ d \notin sound
  /\ IF e = 0
     THEN /\ casePhase' = [casePhase EXCEPT ![e] = "Gone"]
          /\ UNCHANGED caseFor
     ELSE EraseCases({e})
  /\ resumption' = [resumption EXCEPT ![d] = @ /\ ~mic]
  /\ nextReconnect' = [nextReconnect EXCEPT ![d] = "Later"]
  /\ UNCHANGED <<listed, online, endpoints, sessionVars, outbound,
                 threadReady, pendingRemove, peerVars>>
  /\ ScheduleReconnect(timer)

-----------------------------------------------------------------------------
(* The peer behind m's session can still decrypt it and be heard. *)
Live(m) == m.session \in held /\ owner[m.session] = m.device

(* readyRead: an ack arrives.  An encrypted one proves that d is there. *)
MessageAcked(m) ==
  /\ Encrypted(m) => Live(m)
  /\ outbound' = outbound \ {m}
  /\ IF Encrypted(m)
     THEN /\ validating' = validating \ {m.session}
          /\ online' = HeardOnline(m.device)
          /\ nextReconnect' = HeardReconnect(m.device)
     ELSE UNCHANGED <<validating, online, nextReconnect>>
  /\ UNCHANGED <<listed, endpoints, resumption, caseVars, owner, active, timer,
                 threadReady, pendingRemove, peerVars>>

(* mrpRetransmitFailed.  A sound peer acks whatever it can before MRP gives *)
(* up on what it cannot.                                                    *)
MessageFailed(m) ==
  LET d == m.device
      e == m.exchange
      inCase == e \in ExchangeIds /\ caseFor[e] # None
      gone == SessionsOf(d)
      unreachable == ~inCase /\ gone # {} /\ d \in listed
  IN
  /\ d \in sound =>
       /\ Encrypted(m)
       /\ \A n \in outbound : n.device = d => Encrypted(n) /\ ~Live(n)
  /\ outbound' = outbound \ {m}
  /\ IF inCase THEN EraseCases({e}) ELSE UNCHANGED caseVars
  /\ IF unreachable THEN EraseSessions(gone) ELSE UNCHANGED <<sessionVars, held>>
  /\ resumption' = [resumption EXCEPT ![d] =
                      @ /\ ~(unreachable /\ gone \cap validating # {})]
  /\ online' = IF unreachable THEN online \ {d} ELSE online
  /\ IF inCase THEN nextReconnect' = [nextReconnect EXCEPT ![caseFor[e]] = "Later"]
     ELSE IF unreachable
     THEN \E at \in NextAttempt(d) : nextReconnect' = [nextReconnect EXCEPT ![d] = at]
     ELSE UNCHANGED nextReconnect
  /\ UNCHANGED <<listed, endpoints, threadReady, pendingRemove, asked, sound>>
  /\ IF inCase \/ unreachable THEN ScheduleReconnect(timer) ELSE UNCHANGED timer

(* An encrypted message on session s.  A report may be answered with a      *)
(* StatusResponse on the peer's exchange, and during discovery it leads to  *)
(* the next Read, or to the endpoints being known and a Subscribe.          *)
Receive(s) ==
  LET d == owner[s] IN
  /\ d # None
  /\ s \in held
  /\ \E known \in {endpoints[d], endpoints[d] \/ d \in listed},
        next \in {{}, IF d \in listed THEN {Request(s, d)} ELSE {}},
        status \in {{}} \cup {{StatusResponse(s, d, e)} : e \in ExchangeIds \cup {None}} :
       /\ next = {} => known = endpoints[d]
       /\ Room(next \cup status)
       /\ endpoints' = [endpoints EXCEPT ![d] = known]
       /\ outbound' = outbound \cup next \cup status
  /\ validating' = validating \ {s}
  /\ online' = HeardOnline(d)
  /\ nextReconnect' = HeardReconnect(d)
  /\ UNCHANGED <<listed, resumption, caseVars, owner, active, timer, threadReady,
                 pendingRemove, peerVars>>

-----------------------------------------------------------------------------
(* reconnectTimeout: a CASE to every device whose time has come. *)
ReconnectTimeout ==
  LET candidates == {d \in Devices : Waiting(d) /\ Routed(d)}
      due == {d \in candidates : nextReconnect[d] # "Later"}
  IN
  /\ timer
  /\ StartCASE(due)
  /\ UNCHANGED <<deviceVars, sessionVars, threadReady, pendingRemove, peerVars>>
  /\ IF candidates # {} THEN ScheduleReconnect(FALSE) ELSE timer' = FALSE

(* pingTimeout.  silent: the devices not heard of for longer than their     *)
(* limit.  A silent battery device goes Offline and keeps its session.      *)
PingTimeout(silent) ==
  LET watched == listed \cap online
      lost == {d \in watched : ~HasSession(d)}
      quiet == (watched \ lost) \cap silent
      pings == {Request(s, owner[s]) :
                  s \in {t \in active : owner[t] \in quiet \ Battery}}
  IN
  /\ Room(pings)
  /\ online' = online \ (lost \cup (quiet \cap Battery))
  /\ \E at \in [lost -> {"Due", "Later"}] :
       /\ \A d \in lost : at[d] \in NextAttempt(d)
       /\ nextReconnect' = [d \in Devices |-> IF d \in lost THEN at[d]
                                              ELSE nextReconnect[d]]
  /\ outbound' = outbound \cup pings
  /\ UNCHANGED <<listed, endpoints, resumption, caseVars, sessionVars, threadReady,
                 pendingRemove, peerVars>>
  /\ IF lost # {} THEN ScheduleReconnect(timer) ELSE UNCHANGED timer

(* threadDatasetTimeout succeeds: resumeThreadDevices. *)
ThreadUp ==
  LET resumed == {d \in listed \cap Thread : endpoints[d]}
      idle == {d \in resumed : ~HasSession(d)}
      msgs == {Request(s, owner[s]) :
                 s \in {t \in active : owner[t] \in resumed}}
  IN
  /\ ~threadReady
  /\ threadReady' = TRUE
  /\ Room(msgs)
  /\ nextReconnect' = [d \in Devices |-> IF d \in idle THEN "Zero" ELSE nextReconnect[d]]
  /\ outbound' = outbound \cup msgs
  /\ UNCHANGED <<listed, online, endpoints, resumption, caseVars, sessionVars,
                 pendingRemove, peerVars>>
  /\ IF idle # {} THEN ScheduleReconnect(timer) ELSE UNCHANGED timer

-----------------------------------------------------------------------------
(* deviceAction: a command, or a CASE when there is no session. *)
SendCommand(d) ==
  /\ d \in listed
  /\ IF HasSession(d)
     THEN /\ endpoints[d]
          /\ LET msgs == {Request(s, d) : s \in SessionsOf(d)} IN
               Room(msgs) /\ outbound' = outbound \cup msgs
          /\ UNCHANGED caseVars
     ELSE Connectable(d) /\ StartCASE({d})
  /\ UNCHANGED <<deviceVars, sessionVars, timer, threadReady, pendingRemove, peerVars>>

(* discoverDevice: forget the endpoints, and read PartsList on the session. *)
DiscoverCommand(d) ==
  LET msgs == {Request(s, d) : s \in SessionsOf(d)} IN
  /\ d \in listed \cap Rediscovered
  /\ Room(msgs)
  /\ endpoints' = [endpoints EXCEPT ![d] = FALSE]
  /\ outbound' = outbound \cup msgs
  /\ UNCHANGED <<listed, online, nextReconnect, resumption, caseVars, sessionVars,
                 timer, threadReady, pendingRemove, peerVars>>

(* removeDevice with a session: RemoveFabric on it, then it is inactive. *)
RemoveFabric(d) ==
  LET msgs == {Request(s, d) : s \in SessionsOf(d)} IN
  /\ d \in listed \cap Removable
  /\ HasSession(d)
  /\ Room(msgs)
  /\ pendingRemove' = d
  /\ outbound' = outbound \cup msgs
  /\ active' = active \ SessionsOf(d)
  /\ asked' = asked \cup {d}
  /\ UNCHANGED <<deviceVars, caseVars, owner, validating, timer, threadReady, held, sound>>

(* removeDevice without a session: the device goes at once. *)
RemoveForced(d) ==
  /\ d \in listed \cap Removable
  /\ ~HasSession(d)
  /\ EraseCases(CasesOf(d))
  /\ listed' = listed \ {d}
  /\ online' = online \ {d}
  /\ UNCHANGED <<nextReconnect, endpoints, resumption, sessionVars, outbound,
                 timer, threadReady, pendingRemove, peerVars>>

(* A NOCResponse on session s.  While a removal is pending it removes the   *)
(* device of m_pendingRemoveDevice, whoever answered.  That pointer may be  *)
(* stale: the outcome modelled is then a name that is not in the list.      *)
RemoveResponse(s) ==
  LET d == owner[s]
      p == pendingRemove
  IN
  /\ d \in asked
  /\ s \in held
  /\ listed' = listed \ {p}
  /\ EraseCases(CasesOf(p))
  /\ owner' = [t \in SessionIds |-> IF t \in SessionsOf(p) THEN None ELSE owner[t]]
  /\ active' = active \ SessionsOf(p)
  /\ validating' = validating \ (SessionsOf(p) \cup {s})
  /\ pendingRemove' = None
  /\ online' = HeardOnline(d) \ {p}
  /\ nextReconnect' = HeardReconnect(d)
  /\ asked' = asked \ {d}
  /\ held' = {t \in held \ SessionsOf(p) : owner[t] # d}
  /\ UNCHANGED <<endpoints, resumption, outbound, timer, threadReady, sound>>

-----------------------------------------------------------------------------
(* The environment: time passes, a peer loses its sessions, a peer stops    *)
(* failing for good.                                                        *)
Tick(d) ==
  /\ d \in listed
  /\ nextReconnect[d] = "Later"
  /\ nextReconnect' = [nextReconnect EXCEPT ![d] = "Due"]
  /\ UNCHANGED <<listed, online, endpoints, resumption, caseVars, sessionVars,
                 outbound, timer, threadReady, pendingRemove, peerVars>>

PeerReboot(d) ==
  /\ d \notin sound
  /\ held' = {s \in held : owner[s] # d}
  /\ UNCHANGED <<deviceVars, caseVars, sessionVars, outbound, timer, threadReady,
                 pendingRemove, asked, sound>>

PeerSettles(d) ==
  /\ sound' = sound \cup {d}
  /\ UNCHANGED <<deviceVars, caseVars, sessionVars, outbound, timer, threadReady,
                 pendingRemove, held, asked>>

Next ==
  \/ \E e \in ExchangeIds : CaseSigma2(e)
  \/ \E e \in ExchangeIds, s \in SessionIds : CaseEstablished(e, s)
  \/ \E e \in ExchangeIds, mic \in BOOLEAN : CaseFailed(e, mic)
  \/ \E m \in outbound : MessageAcked(m)
  \/ \E m \in outbound : MessageFailed(m)
  \/ \E s \in SessionIds : Receive(s)
  \/ ReconnectTimeout
  \/ \E silent \in SUBSET Devices : PingTimeout(silent)
  \/ ThreadUp
  \/ \E d \in Devices : SendCommand(d)
  \/ \E d \in Devices : DiscoverCommand(d)
  \/ \E d \in Devices : RemoveFabric(d)
  \/ \E d \in Devices : RemoveForced(d)
  \/ \E s \in SessionIds : RemoveResponse(s)
  \/ \E d \in Devices : Tick(d)
  \/ \E d \in Devices : PeerReboot(d)
  \/ \E d \in Settling : PeerSettles(d)

Spec == Init /\ [][Next]_vars

-----------------------------------------------------------------------------
(* Types, and no more. *)
TypeOK ==
  /\ listed \subseteq Devices
  /\ online \subseteq Devices
  /\ nextReconnect \in [Devices -> {"Zero", "Due", "Later"}]
  /\ endpoints \in [Devices -> BOOLEAN]
  /\ resumption \in [Devices -> BOOLEAN]
  /\ caseFor \in [ExchangeIds -> Devices \cup {None}]
  /\ casePhase \in [ExchangeIds -> {"None", "Sigma2", "Resume", "Status", "Gone"}]
  /\ owner \in [SessionIds -> Devices \cup {None}]
  /\ active \subseteq SessionIds
  /\ validating \subseteq SessionIds
  /\ outbound \subseteq Message
  /\ timer \in BOOLEAN
  /\ threadReady \in BOOLEAN
  /\ pendingRemove \in Devices \cup {None}
  /\ held \subseteq SessionIds
  /\ asked \subseteq Devices
  /\ sound \subseteq Devices

(* At most one active session and at most one CASE per device, and never a  *)
(* CASE beside a session: commands, the timer and resumeThreadDevices race  *)
(* for connectDevice, and findByPeerNodeId assumes a single answer.         *)
Exclusive ==
  /\ \A s, t \in active : owner[s] = owner[t] => s = t
  /\ \A e, f \in ExchangeIds : caseFor[e] = caseFor[f] /\ caseFor[e] # None => e = f
  /\ \A e \in ExchangeIds, s \in active : caseFor[e] # owner[s]

(* A CASE holds a raw device pointer and an active session is looked up by  *)
(* node: both belong to a device that is still in the list.                 *)
NoDangling ==
  /\ \A e \in ExchangeIds : caseFor[e] \in listed \cup {None}
  /\ \A s \in active : owner[s] \in listed

(* A listed device that could be reached is Online (and pinged), or a CASE  *)
(* or the reconnect timer is under way for it.  The code leaves two gaps,   *)
(* spelled out here: a battery device may rest on a session nobody tests,   *)
(* and resumeThreadDevices skips a Thread device with no endpoints.         *)
NeverStranded ==
  \A d \in listed \cap Addressed :
    \/ d \in online \/ InFlight(d) \/ timer
    \/ ~Routed(d) \/ (d \in Thread /\ ~endpoints[d])
    \/ d \in Battery /\ \E s \in SessionIds : owner[s] = d

(* The inductive invariant behind the four: a CASE entry has a phase and a  *)
(* device with an address, and a mains device with a session is Online, so  *)
(* that the ping timer watches over it.                                     *)
PhaseOK == \A e \in ExchangeIds : caseFor[e] = None <=> casePhase[e] = "None"
CaseAddressed == \A e \in ExchangeIds : caseFor[e] \in Addressed \cup {None}
MainsOnline == \A s \in active : owner[s] \in online \cup Battery

IInv ==
  /\ TypeOK
  /\ Exclusive
  /\ NoDangling
  /\ NeverStranded
  /\ PhaseOK
  /\ CaseAddressed
  /\ MainsOnline

(* The resumption pair is dropped only when a resumed handshake has failed: *)
(* its MIC, or the session that was still waiting for a first answer.       *)
ResumptionKept ==
  [][\A d \in Devices : resumption[d] /\ ~resumption'[d] =>
       \/ \E e \in CasesOf(d) : casePhase[e] = "Resume" /\ casePhase'[e] # "Resume"
       \/ \E s \in SessionsOf(d) : s \in validating /\ s \notin active']_vars

(* What the component promises, device by device: see DeviceLink. *)
LinkOf(d) ==
  CASE d \notin listed -> "removed"
    [] d \in listed /\ HasSession(d) -> "up"
    [] d \in listed /\ ~HasSession(d) /\ InFlight(d) -> "connecting"
    [] OTHER -> "down"

LinkState == [d \in Devices |-> LinkOf(d)]

Link == INSTANCE DeviceLink WITH link <- LinkState
ImplementsLink == Link!Spec

-----------------------------------------------------------------------------
(* Fairness.  Timers expire, MRP ends every message by its ack or after its *)
(* last retry, the OTBR comes up, and a peer that can answer a CASE does    *)
(* unless the attempt fails.  No command, report or failure is promised.    *)
(* SF where Room, the bound on outbound, can disable a step for a while.    *)
CaseProgress(d) ==
  \E e \in CasesOf(d) : CaseSigma2(e) \/ \E s \in SessionIds : CaseEstablished(e, s)

DeadPinged ==
  \E silent \in SUBSET Devices :
    /\ \A s \in active \ held : owner[s] \in silent
    /\ PingTimeout(silent)

Fairness ==
  /\ SF_vars(ReconnectTimeout)
  /\ SF_vars(DeadPinged)
  /\ WF_vars(ThreadUp)
  /\ \A d \in Devices : WF_vars(Tick(d)) /\ SF_vars(CaseProgress(d))
  /\ \A d \in Settling : WF_vars(PeerSettles(d))
  /\ \A m \in Message : WF_vars(m \in outbound /\ (MessageAcked(m) \/ MessageFailed(m)))

(* Once its peer has stopped failing, a mains device nobody removes gets    *)
(* back to a session that its peer holds too and in the end keeps it: the   *)
(* retransmissions earlier failures left behind tear down only so many.     *)
Reconnects ==
  \A d \in (Settling \cap Addressed) \ (Battery \cup Removable) :
    <>[](\/ \E s \in SessionsOf(d) : s \in held
         \/ d \in Thread /\ ~endpoints[d])

-----------------------------------------------------------------------------
(* Statements of the comments in the code.                                 *)

(* matter.cpp:2570: an in-flight CASE comes back by caseEstablished/Failed. *)
InFlightIsLive == \A e \in ExchangeIds : casePhase[e] # "Gone"
=============================================================================
