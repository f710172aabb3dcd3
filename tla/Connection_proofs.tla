------------------------- MODULE Connection_proofs -------------------------
(***************************************************************************)
(* Proofs about Connection, for every set of devices, exchanges, sessions  *)
(* and every bound: the inductive invariant IInv, with it the type         *)
(* invariant and the safety invariants, ResumptionKept, and that the       *)
(* connection manager implements DeviceLink.                               *)
(***************************************************************************)
EXTENDS Connection, TLAPS

(* Filling a table at distinct slots: the new entries are there, the other  *)
(* entries are as before.                                                   *)
LEMMA FillFacts ==
  ASSUME NEW ds, NEW free, NEW table, NEW at \in Injection(ds, free),
         free \subseteq DOMAIN table
  PROVE  /\ Fill(at, ds, table) = [x \in DOMAIN table |-> Fill(at, ds, table)[x]]
         /\ \A x \in DOMAIN table : \/ Fill(at, ds, table)[x] \in ds
                                    \/ Fill(at, ds, table)[x] = table[x]
         /\ \A d \in ds : at[d] \in free /\ Fill(at, ds, table)[at[d]] = d
         /\ \A x \in DOMAIN table :
              (\A d \in ds : at[d] # x) => Fill(at, ds, table)[x] = table[x]
<1> DEFINE F == Fill(at, ds, table)
           X == DOMAIN table
<1>0. at \in [ds -> free] /\ \A c, d \in ds : at[c] = at[d] => c = d
  BY DEF Injection, IsInjective
<1>1. F = [x \in X |-> IF \E d \in ds : at[d] = x
                       THEN CHOOSE d \in ds : at[d] = x ELSE table[x]]
  BY DEF Fill
<1>2. \A x \in X : (\E d \in ds : at[d] = x) => F[x] \in ds /\ at[F[x]] = x
  BY <1>1
<1>3. \A x \in X : ~(\E d \in ds : at[d] = x) => F[x] = table[x]
  BY <1>1
<1>4. \A d \in ds : at[d] \in X /\ at[d] \in free
  BY <1>0
<1>5. \A d \in ds : F[at[d]] = d
  BY <1>0, <1>2, <1>4
<1>6. \A x \in X : F[x] \in ds \/ F[x] = table[x]
  BY <1>2, <1>3
<1>7. F = [x \in X |-> F[x]]
  BY <1>1
<1> QED
  BY <1>3, <1>4, <1>5, <1>6, <1>7

-----------------------------------------------------------------------------
(* What starting the CASE attempts of ds does to the table of attempts. *)
LEMMA StartCASEFacts ==
  ASSUME IInv, NEW ds \in SUBSET Devices, StartCASE(ds)
  PROVE  /\ caseFor' \in [ExchangeIds -> Devices \cup {None}]
         /\ casePhase' \in [ExchangeIds -> {"None", "Sigma2", "Resume", "Status", "Gone"}]
         /\ outbound' \subseteq Message
         /\ \A e \in ExchangeIds : caseFor'[e] = None <=> casePhase'[e] = "None"
         /\ \A e \in ExchangeIds : caseFor'[e] \in ds \/ caseFor'[e] = caseFor[e]
         /\ \A e \in ExchangeIds : caseFor[e] # None => caseFor'[e] = caseFor[e]
         /\ \A d \in ds : \E e \in ExchangeIds : caseFor'[e] = d
         /\ \A e, f \in ExchangeIds :
              caseFor'[e] = caseFor'[f] /\ caseFor'[e] \in ds
                => e = f \/ caseFor[e] = caseFor'[e] \/ caseFor[f] = caseFor'[f]
<1> USE ConnectionAssumption
<1>1. PICK at \in Injection(ds, FreeExchanges) :
        /\ caseFor' = Fill(at, ds, caseFor)
        /\ casePhase' = [e \in ExchangeIds |->
                           IF \E d \in ds : at[d] = e /\ resumption[d] THEN "Resume"
                           ELSE IF \E d \in ds : at[d] = e THEN "Sigma2"
                           ELSE casePhase[e]]
        /\ outbound' = outbound \cup Sigma1s(at, ds)
  BY DEF StartCASE
<1>2. FreeExchanges \in SUBSET ExchangeIds /\ \A e \in FreeExchanges : caseFor[e] = None
  BY DEF FreeExchanges
<1>3. caseFor \in [ExchangeIds -> Devices \cup {None}] /\ outbound \subseteq Message
      /\ casePhase \in [ExchangeIds -> {"None", "Sigma2", "Resume", "Status", "Gone"}]
  BY DEF IInv, TypeOK
<1>4. /\ caseFor' \in [ExchangeIds -> (Devices \cup {None}) \cup ds]
      /\ \A d \in ds : at[d] \in FreeExchanges /\ caseFor'[at[d]] = d
      /\ \A e \in ExchangeIds : (\A d \in ds : at[d] # e) => caseFor'[e] = caseFor[e]
  <2> DEFINE F == Fill(at, ds, caseFor)
  <2>0. DOMAIN caseFor = ExchangeIds
    BY <1>3
  <2>1. /\ F = [e \in ExchangeIds |-> F[e]]
        /\ \A e \in ExchangeIds : F[e] \in ds \/ F[e] = caseFor[e]
        /\ \A d \in ds : at[d] \in FreeExchanges /\ F[at[d]] = d
        /\ \A e \in ExchangeIds : (\A d \in ds : at[d] # e) => F[e] = caseFor[e]
    BY <1>2, <2>0, FillFacts
  <2>2. caseFor' = F
    BY <1>1
  <2> HIDE DEF F
  <2> QED
    BY <1>3, <2>1, <2>2
<1>5. caseFor' \in [ExchangeIds -> Devices \cup {None}]
  <2>1. (Devices \cup {None}) \cup ds = Devices \cup {None}
    OBVIOUS
  <2> QED
    BY <1>4, <2>1
<1>6. \A e \in ExchangeIds : caseFor'[e] \in ds \/ caseFor'[e] = caseFor[e]
  BY <1>4
<1>7. \A e \in ExchangeIds : caseFor[e] # None => caseFor'[e] = caseFor[e]
  BY <1>2, <1>4
<1>8. \A d \in ds : \E e \in ExchangeIds : caseFor'[e] = d
  BY <1>2, <1>4
<1>9. \A e \in ExchangeIds : caseFor'[e] = None <=> casePhase'[e] = "None"
  <2>1. \A e \in ExchangeIds : caseFor[e] = None <=> casePhase[e] = "None"
    BY DEF IInv, PhaseOK
  <2>2. \A d \in ds : d # None
    OBVIOUS
  <2>3. ASSUME NEW e \in ExchangeIds, \A d \in ds : at[d] # e
        PROVE  caseFor'[e] = None <=> casePhase'[e] = "None"
    BY <1>1, <1>4, <2>1, <2>3
  <2>4. ASSUME NEW d \in ds
        PROVE  caseFor'[at[d]] # None /\ casePhase'[at[d]] # "None"
    BY <1>1, <1>2, <1>4, <2>2
  <2> QED
    BY <2>3, <2>4
<1>10. casePhase' \in [ExchangeIds -> {"None", "Sigma2", "Resume", "Status", "Gone"}]
  BY <1>1, <1>3
<1>11. Sigma1s(at, ds) \subseteq Message
  BY <1>2, <1>4 DEF Sigma1s, Handshake, Message
<1>12. ASSUME NEW e \in ExchangeIds, NEW f \in ExchangeIds,
              caseFor'[e] = caseFor'[f], caseFor'[e] \in ds,
              caseFor[e] # caseFor'[e], caseFor[f] # caseFor'[f]
       PROVE  e = f
  <2>1. PICK c \in ds : at[c] = e
    BY <1>4, <1>12
  <2>2. PICK d \in ds : at[d] = f
    BY <1>4, <1>12
  <2>3. c = caseFor'[e] /\ d = caseFor'[f]
    BY <1>4, <2>1, <2>2
  <2> QED
    BY <2>1, <2>2, <2>3, <1>12
<1> QED
  BY <1>1, <1>3, <1>5, <1>6, <1>7, <1>8, <1>9, <1>10, <1>11, <1>12

-----------------------------------------------------------------------------
(* The messages the actions send are of the type MRP queues. *)
LEMMA MessageFacts ==
  /\ \A e \in ExchangeIds, d \in Devices : Handshake(e, d) \in Message
  /\ \A s \in SessionIds, d \in Devices : Request(s, d) \in Message
  /\ \A s \in SessionIds, d \in Devices, e \in ExchangeIds \cup {None} :
       StatusResponse(s, d, e) \in Message
BY DEF Handshake, Request, StatusResponse, Message

(* The next attempt of an unreachable device is now or later, never unset. *)
LEMMA NextAttemptFacts ==
  ASSUME TypeOK, NEW d \in Devices
  PROVE  NextAttempt(d) \subseteq {"Due", "Later"}
<1>1. nextReconnect[d] \in {"Zero", "Due", "Later"}
  BY DEF TypeOK
<1> QED
  BY <1>1 DEF NextAttempt

(* Whatever else a step does, scheduleReconnect leaves nobody stranded: a   *)
(* mains device with a session is Online, and the rest is what it looks for. *)
LEMMA Armed ==
  ASSUME TypeOK', MainsOnline', NEW r \in BOOLEAN, ScheduleReconnect(r)
  PROVE  NeverStranded' /\ timer' \in BOOLEAN
<1>1. ASSUME NEW d \in (listed \cap Addressed)', d \notin online', ~InFlight(d)',
             ~(d \in Battery /\ \E s \in SessionIds : owner'[s] = d)
      PROVE  timer'
  <2>1. ~HasSession(d)'
    BY <1>1 DEF HasSession, SessionsOf, MainsOnline, TypeOK
  <2>2. Waiting(d)' /\ d \in Devices
    BY <1>1, <2>1 DEF Waiting, TypeOK
  <2> QED
    BY <2>2 DEF ScheduleReconnect
<1>2. NeverStranded'
  BY <1>1 DEF NeverStranded
<1> QED
  BY <1>2 DEF ScheduleReconnect

(* Erasing CASE entries or sessions keeps whatever is said of those left. *)
LEMMA EraseCasesFacts ==
  ASSUME IInv, NEW es \in SUBSET ExchangeIds, EraseCases(es)
  PROVE  /\ caseFor' \in [ExchangeIds -> Devices \cup {None}]
         /\ casePhase' \in [ExchangeIds -> {"None", "Sigma2", "Resume", "Status", "Gone"}]
         /\ PhaseOK' /\ CaseAddressed'
         /\ \A e \in ExchangeIds : caseFor'[e] = None \/ caseFor'[e] = caseFor[e]
         /\ \A e \in ExchangeIds \ es : caseFor'[e] = caseFor[e]
         /\ \A e \in es : caseFor'[e] = None
BY DEF IInv, TypeOK, EraseCases, PhaseOK, CaseAddressed

(* Erasing sessions leaves the others with their owners. *)
LEMMA EraseSessionsFacts ==
  ASSUME IInv, NEW ss \in SUBSET SessionIds, EraseSessions(ss)
  PROVE  /\ owner' \in [SessionIds -> Devices \cup {None}]
         /\ active' = active \ ss
         /\ validating' \subseteq SessionIds
         /\ held' \subseteq SessionIds
         /\ \A s \in active' : s \in active /\ owner'[s] = owner[s]
         /\ \A s \in SessionIds \ ss : owner'[s] = owner[s]
BY DEF IInv, TypeOK, EraseSessions

-----------------------------------------------------------------------------
(* Each action keeps the inductive invariant. *)
LEMMA CaseSigma2Step ==
  ASSUME IInv, NEW e \in ExchangeIds, CaseSigma2(e)
  PROVE  IInv'
<1> USE ConnectionAssumption
<1>1. caseFor[e] \in Devices
  BY DEF IInv, TypeOK, PhaseOK, CaseSigma2
<1>2. outbound' \subseteq Message
  BY <1>1, MessageFacts DEF IInv, TypeOK, CaseSigma2
<1>3. TypeOK'
  BY <1>2 DEF IInv, TypeOK, CaseSigma2, deviceVars, sessionVars, peerVars
<1>4. PhaseOK'
  BY <1>1 DEF IInv, TypeOK, PhaseOK, CaseSigma2
<1>5. Exclusive' /\ NoDangling' /\ CaseAddressed' /\ MainsOnline' /\ NeverStranded'
  BY DEF IInv, Exclusive, NoDangling, CaseAddressed, MainsOnline, NeverStranded, InFlight,
         Routed, CaseSigma2, deviceVars, sessionVars, peerVars
<1> QED
  BY <1>3, <1>4, <1>5 DEF IInv

(* CaseEstablished keeps the inductive invariant. *)
LEMMA CaseEstablishedStep ==
  ASSUME IInv, NEW e \in ExchangeIds, NEW s \in SessionIds, CaseEstablished(e, s)
  PROVE  IInv'
<1> DEFINE d == caseFor[e]
<1> USE ConnectionAssumption
<1>1. d \in Devices /\ d \in listed /\ d \in Addressed
  BY DEF IInv, TypeOK, PhaseOK, NoDangling, CaseAddressed, CaseEstablished
<1>2. SessionsOf(d) = {}
  BY DEF IInv, Exclusive, TypeOK, SessionsOf
<1>3. /\ owner' = [t \in SessionIds |-> IF t = s THEN d ELSE owner[t]]
      /\ active' = active \cup {s}
      /\ validating' = validating \cup (IF casePhase[e] = "Resume" THEN {s} ELSE {})
      /\ held' = held \cup {s}
  <2>1. PICK old \in SUBSET SessionsOf(d) :
          /\ owner' = [t \in SessionIds |-> IF t = s THEN d
                                            ELSE IF t \in old THEN None ELSE owner[t]]
          /\ active' = (active \ old) \cup {s}
          /\ validating' = (validating \ old)
                             \cup (IF casePhase[e] = "Resume" THEN {s} ELSE {})
          /\ held' = (held \ old) \cup {s}
    BY DEF CaseEstablished
  <2>2. old = {}
    BY <1>2, <2>1
  <2> QED
    BY <2>1, <2>2
<1>4. s \notin active
  <2>1. owner[s] = None
    BY DEF CaseEstablished, FreeSessions
  <2> QED
    BY <2>1 DEF IInv, NoDangling, TypeOK
<1>5. EraseCases({e})
  BY DEF CaseEstablished
<1>6. /\ caseFor' \in [ExchangeIds -> Devices \cup {None}]
      /\ casePhase' \in [ExchangeIds -> {"None", "Sigma2", "Resume", "Status", "Gone"}]
      /\ PhaseOK' /\ CaseAddressed'
      /\ \A f \in ExchangeIds : caseFor'[f] = None \/ caseFor'[f] = caseFor[f]
      /\ \A f \in ExchangeIds \ {e} : caseFor'[f] = caseFor[f]
      /\ caseFor'[e] = None
  BY <1>5, EraseCasesFacts
<1>7. outbound' \subseteq Message
  BY <1>1, MessageFacts DEF IInv, TypeOK, CaseEstablished
<1>8. online' = online \cup {d} /\ listed' = listed /\ timer' = timer
      /\ endpoints' = endpoints /\ threadReady' = threadReady
  BY DEF CaseEstablished
<1>9. TypeOK'
  <2>1. resumption' \in [Devices -> BOOLEAN]
    BY <1>1 DEF IInv, TypeOK, CaseEstablished
  <2>2. /\ owner' \in [SessionIds -> Devices \cup {None}]
        /\ active' \subseteq SessionIds /\ validating' \subseteq SessionIds
        /\ held' \subseteq SessionIds
    BY <1>1, <1>3 DEF IInv, TypeOK
  <2>3. nextReconnect' \in [Devices -> {"Zero", "Due", "Later"}]
    BY <1>1 DEF IInv, TypeOK, CaseEstablished
  <2> QED
    BY <1>1, <1>6, <1>7, <1>8, <2>1, <2>2, <2>3 DEF IInv, TypeOK, CaseEstablished
<1>10. Exclusive'
  <2>1. \A f \in ExchangeIds : caseFor'[f] # d
    BY <1>1, <1>6 DEF IInv, Exclusive
  <2>2. \A t \in active : owner'[t] = owner[t] /\ owner[t] # d
    BY <1>2, <1>3, <1>4 DEF SessionsOf, IInv, TypeOK
  <2>3. owner'[s] = d
    BY <1>3
  <2>4. \A t, u \in active' : owner'[t] = owner'[u] => t = u
    BY <1>3, <2>2, <2>3 DEF IInv, Exclusive
  <2>5. \A f, g \in ExchangeIds :
          caseFor'[f] = caseFor'[g] /\ caseFor'[f] # None => f = g
    BY <1>6 DEF IInv, Exclusive
  <2>6. \A f \in ExchangeIds, t \in active' : caseFor'[f] # owner'[t]
    <3>1. \A t \in active : owner[t] # None
      BY DEF IInv, NoDangling, TypeOK
    <3> QED
      BY <1>3, <1>6, <2>1, <2>2, <2>3, <3>1 DEF IInv, Exclusive
  <2> QED
    BY <2>4, <2>5, <2>6 DEF Exclusive
<1>11. NoDangling' /\ MainsOnline'
  BY <1>1, <1>3, <1>4, <1>6, <1>8 DEF IInv, NoDangling, MainsOnline, TypeOK
<1>12. NeverStranded'
  <2>1. ASSUME NEW c \in listed \cap Addressed, c # d
        PROVE  /\ InFlight(c) => InFlight(c)'
               /\ (\E t \in SessionIds : owner[t] = c) => \E t \in SessionIds : owner'[t] = c
    <3>1. owner[s] = None /\ c # None
      BY <2>1 DEF CaseEstablished, FreeSessions, IInv, TypeOK
    <3> QED
      BY <1>3, <1>6, <2>1, <3>1 DEF InFlight
  <2> QED
    BY <1>8, <2>1 DEF IInv, NeverStranded, Routed
<1> QED
  BY <1>6, <1>9, <1>10, <1>11, <1>12 DEF IInv

(* CaseFailed keeps the inductive invariant. *)
LEMMA CaseFailedStep ==
  ASSUME IInv, NEW e \in ExchangeIds, NEW mic \in BOOLEAN, CaseFailed(e, mic)
  PROVE  IInv'
<1> USE ConnectionAssumption
<1>1. caseFor[e] \in Devices
  BY DEF IInv, TypeOK, PhaseOK, CaseFailed
<1>2. /\ caseFor' \in [ExchangeIds -> Devices \cup {None}]
      /\ casePhase' \in [ExchangeIds -> {"None", "Sigma2", "Resume", "Status", "Gone"}]
      /\ PhaseOK' /\ CaseAddressed'
      /\ \A f \in ExchangeIds : caseFor'[f] = None \/ caseFor'[f] = caseFor[f]
  <2>1. CASE e = 0
    BY <1>1, <2>1 DEF IInv, TypeOK, PhaseOK, CaseAddressed, CaseFailed
  <2>2. CASE e # 0
    <3>1. EraseCases({e})
      BY <2>2 DEF CaseFailed
    <3> QED
      BY <3>1, EraseCasesFacts
  <2> QED
    BY <2>1, <2>2
<1>3. /\ UNCHANGED <<listed, online, endpoints, sessionVars, outbound, threadReady,
                     pendingRemove, peerVars>>
      /\ ScheduleReconnect(timer)
      /\ nextReconnect' = [nextReconnect EXCEPT ![caseFor[e]] = "Later"]
      /\ resumption' = [resumption EXCEPT ![caseFor[e]] = @ /\ ~mic]
  BY DEF CaseFailed
<1>4. timer' \in BOOLEAN
  BY <1>3 DEF ScheduleReconnect, IInv, TypeOK
<1>5. TypeOK'
  BY <1>1, <1>2, <1>3, <1>4 DEF IInv, TypeOK, sessionVars, peerVars
<1>6. Exclusive' /\ NoDangling' /\ MainsOnline'
  <2>1. \A s \in active : owner[s] # None
    BY DEF IInv, NoDangling, TypeOK
  <2> QED
    BY <1>2, <1>3, <2>1 DEF IInv, Exclusive, NoDangling, MainsOnline, sessionVars
<1>7. NeverStranded'
  BY <1>3, <1>5, <1>6, Armed DEF IInv, TypeOK
<1> QED
  BY <1>2, <1>5, <1>6, <1>7 DEF IInv

(* MessageAcked keeps the inductive invariant. *)
LEMMA MessageAckedStep ==
  ASSUME IInv, NEW m \in outbound, MessageAcked(m)
  PROVE  IInv'
<1> USE ConnectionAssumption
<1>1. m.device \in Devices
  BY DEF IInv, TypeOK, Message
<1>2. /\ UNCHANGED <<listed, endpoints, resumption, caseVars, owner, active, timer,
                      threadReady, pendingRemove, peerVars>>
      /\ outbound' = outbound \ {m}
      /\ online \subseteq online' /\ online' \subseteq online \cup {m.device}
      /\ validating' \subseteq validating
      /\ nextReconnect' \in [Devices -> {"Zero", "Due", "Later"}]
  BY <1>1 DEF MessageAcked, HeardOnline, HeardReconnect, IInv, TypeOK
<1>3. TypeOK'
  BY <1>1, <1>2 DEF IInv, TypeOK, caseVars, peerVars
<1>4. /\ Exclusive' /\ NoDangling' /\ PhaseOK' /\ CaseAddressed' /\ MainsOnline'
      /\ NeverStranded'
  BY <1>2 DEF IInv, Exclusive, NoDangling, PhaseOK, CaseAddressed, MainsOnline,
              NeverStranded, InFlight, Routed, caseVars
<1> QED
  BY <1>3, <1>4 DEF IInv

(* MessageFailed keeps the inductive invariant. *)
LEMMA MessageFailedStep ==
  ASSUME IInv, NEW m \in outbound, MessageFailed(m)
  PROVE  IInv'
<1> DEFINE d == m.device
           e == m.exchange
           inCase == e \in ExchangeIds /\ caseFor[e] # None
           gone == SessionsOf(d)
           unreachable == ~inCase /\ gone # {} /\ d \in listed
<1> USE ConnectionAssumption
<1>1. d \in Devices
  BY DEF IInv, TypeOK, Message
<1>2. /\ outbound' = outbound \ {m}
      /\ IF inCase THEN EraseCases({e}) ELSE UNCHANGED caseVars
      /\ IF unreachable THEN EraseSessions(gone) ELSE UNCHANGED <<sessionVars, held>>
      /\ resumption' = [resumption EXCEPT ![d] =
                          @ /\ ~(unreachable /\ gone \cap validating # {})]
      /\ online' = IF unreachable THEN online \ {d} ELSE online
      /\ IF inCase THEN nextReconnect' = [nextReconnect EXCEPT ![caseFor[e]] = "Later"]
         ELSE IF unreachable
         THEN \E at \in NextAttempt(d) : nextReconnect' = [nextReconnect EXCEPT ![d] = at]
         ELSE UNCHANGED nextReconnect
      /\ UNCHANGED <<listed, endpoints, threadReady, pendingRemove, asked, sound>>
      /\ IF inCase \/ unreachable THEN ScheduleReconnect(timer) ELSE UNCHANGED timer
  BY DEF MessageFailed
<1> HIDE DEF inCase, unreachable, d, e
<1>3. /\ caseFor' \in [ExchangeIds -> Devices \cup {None}]
      /\ casePhase' \in [ExchangeIds -> {"None", "Sigma2", "Resume", "Status", "Gone"}]
      /\ PhaseOK' /\ CaseAddressed'
      /\ \A f \in ExchangeIds : caseFor'[f] = None \/ caseFor'[f] = caseFor[f]
  <2>1. CASE inCase
    <3>1. EraseCases({e}) /\ e \in ExchangeIds
      BY <1>2, <2>1 DEF inCase
    <3> QED
      BY <3>1, EraseCasesFacts
  <2>2. CASE ~inCase
    BY <1>2, <2>2 DEF caseVars, IInv, TypeOK, PhaseOK, CaseAddressed
  <2> QED
    BY <2>1, <2>2
<1>4. gone \in SUBSET SessionIds
  BY DEF SessionsOf, IInv, TypeOK
<1>5. /\ owner' \in [SessionIds -> Devices \cup {None}]
      /\ active' \subseteq active
      /\ validating' \subseteq SessionIds /\ held' \subseteq SessionIds
      /\ \A s \in active' : owner'[s] = owner[s]
      /\ unreachable => \A s \in active' : owner[s] # d
      /\ ~unreachable => UNCHANGED <<owner, active>>
  <2>1. CASE unreachable
    <3>1. EraseSessions(gone)
      BY <1>2, <2>1
    <3>2. \A s \in active : owner[s] = d => s \in gone
      BY DEF SessionsOf, d
    <3> QED
      BY <1>4, <2>1, <3>1, <3>2, EraseSessionsFacts
  <2>2. CASE ~unreachable
    BY <1>2, <2>2 DEF sessionVars, IInv, TypeOK
  <2> QED
    BY <2>1, <2>2
<1>6. nextReconnect' \in [Devices -> {"Zero", "Due", "Later"}]
  <2>1. nextReconnect \in [Devices -> {"Zero", "Due", "Later"}]
    BY DEF IInv, TypeOK
  <2>2. NextAttempt(d) \subseteq {"Due", "Later"}
    BY <1>1, NextAttemptFacts DEF IInv
  <2> QED
    BY <1>1, <1>2, <2>1, <2>2
<1>7. resumption' \in [Devices -> BOOLEAN]
  BY <1>1, <1>2 DEF IInv, TypeOK
<1>8. timer' \in BOOLEAN
  BY <1>2 DEF ScheduleReconnect, IInv, TypeOK
<1>9. online' \subseteq Devices /\ outbound' \subseteq Message
  BY <1>2 DEF IInv, TypeOK
<1>10. TypeOK'
  BY <1>2, <1>3, <1>5, <1>6, <1>7, <1>8, <1>9 DEF IInv, TypeOK
<1>11. Exclusive' /\ NoDangling'
  <2>1. \A s \in active : owner[s] # None
    BY DEF IInv, NoDangling, TypeOK
  <2> QED
    BY <1>2, <1>3, <1>5, <2>1 DEF IInv, Exclusive, NoDangling
<1>12. MainsOnline'
  BY <1>2, <1>5 DEF IInv, MainsOnline
<1>13. NeverStranded'
  <2>1. CASE inCase \/ unreachable
    <3>1. ScheduleReconnect(timer) /\ timer \in BOOLEAN
      BY <1>2, <2>1 DEF IInv, TypeOK
    <3> QED
      BY <1>10, <1>12, <3>1, Armed
  <2>2. CASE ~inCase /\ ~unreachable
    BY <1>2, <1>5, <2>2 DEF IInv, NeverStranded, InFlight, Routed, caseVars
  <2> QED
    BY <2>1, <2>2
<1> QED
  BY <1>3, <1>10, <1>11, <1>12, <1>13 DEF IInv

(* Receive keeps the inductive invariant. *)
LEMMA ReceiveStep ==
  ASSUME IInv, NEW s \in SessionIds, Receive(s)
  PROVE  IInv'
<1> DEFINE d == owner[s]
<1> USE ConnectionAssumption
<1>1. d \in Devices
  BY DEF IInv, TypeOK, Receive
<1>2. /\ UNCHANGED <<listed, resumption, caseVars, owner, active, timer, threadReady,
                      pendingRemove, peerVars>>
      /\ online' = HeardOnline(d) /\ nextReconnect' = HeardReconnect(d)
      /\ validating' = validating \ {s}
  BY DEF Receive
<1>3. PICK known \in {endpoints[d], endpoints[d] \/ d \in listed},
           next \in {{}, IF d \in listed THEN {Request(s, d)} ELSE {}},
           status \in {{}} \cup {{StatusResponse(s, d, e)} : e \in ExchangeIds \cup {None}} :
        /\ next = {} => known = endpoints[d]
        /\ endpoints' = [endpoints EXCEPT ![d] = known]
        /\ outbound' = outbound \cup next \cup status
  BY DEF Receive
<1>4. next \subseteq Message /\ status \subseteq Message
  BY <1>1, MessageFacts
<1>5. endpoints' \in [Devices -> BOOLEAN]
  <2>1. endpoints \in [Devices -> BOOLEAN]
    BY DEF IInv, TypeOK
  <2>2. known \in BOOLEAN
    BY <1>1, <2>1
  <2> QED
    BY <1>3, <2>1, <2>2
<1>6. nextReconnect' \in [Devices -> {"Zero", "Due", "Later"}]
  BY <1>1, <1>2 DEF HeardReconnect, IInv, TypeOK
<1>7. online \subseteq online' /\ online' \subseteq Devices /\ (d \in listed => d \in online')
  BY <1>1, <1>2 DEF HeardOnline, IInv, TypeOK
<1>8. TypeOK'
  BY <1>2, <1>3, <1>4, <1>5, <1>6, <1>7 DEF IInv, TypeOK, caseVars, peerVars
<1>9. Exclusive' /\ NoDangling' /\ PhaseOK' /\ CaseAddressed' /\ MainsOnline'
  BY <1>2, <1>7 DEF IInv, Exclusive, NoDangling, PhaseOK, CaseAddressed, MainsOnline, caseVars
<1>10. NeverStranded'
  <2>1. \A c \in Devices : c # d => endpoints'[c] = endpoints[c]
    BY <1>1, <1>3 DEF IInv, TypeOK
  <2>2. listed \subseteq Devices
    BY DEF IInv, TypeOK
  <2> QED
    BY <1>2, <1>7, <2>1, <2>2 DEF IInv, NeverStranded, InFlight, Routed, caseVars
<1> QED
  BY <1>8, <1>9, <1>10 DEF IInv

(* ReconnectTimeout keeps the inductive invariant. *)
LEMMA ReconnectTimeoutStep ==
  ASSUME IInv, ReconnectTimeout
  PROVE  IInv'
<1> DEFINE candidates == {d \in Devices : Waiting(d) /\ Routed(d)}
           due == {d \in candidates : nextReconnect[d] # "Later"}
<1> USE ConnectionAssumption
<1>1. /\ StartCASE(due)
      /\ UNCHANGED <<deviceVars, sessionVars, threadReady, pendingRemove, peerVars>>
      /\ IF candidates # {} THEN ScheduleReconnect(FALSE) ELSE timer' = FALSE
  BY DEF ReconnectTimeout
<1>2. \A d \in due : d \in listed /\ d \in Addressed /\ ~HasSession(d) /\ ~InFlight(d)
  BY DEF Waiting
<1>3. \A d \in candidates : Waiting(d)
  OBVIOUS
<1>4. \A d \in listed \cap Addressed : d \in online \/ InFlight(d) \/ HasSession(d)
                                     \/ ~Routed(d) \/ d \in candidates
  BY DEF Waiting, IInv, TypeOK
<1>5. due \in SUBSET Devices
  OBVIOUS
<1> HIDE DEF due, candidates
<1>6. /\ caseFor' \in [ExchangeIds -> Devices \cup {None}]
      /\ casePhase' \in [ExchangeIds -> {"None", "Sigma2", "Resume", "Status", "Gone"}]
      /\ outbound' \subseteq Message
      /\ PhaseOK'
      /\ \A e \in ExchangeIds : caseFor'[e] \in due \/ caseFor'[e] = caseFor[e]
      /\ \A e \in ExchangeIds : caseFor[e] # None => caseFor'[e] = caseFor[e]
      /\ \A e, f \in ExchangeIds :
           caseFor'[e] = caseFor'[f] /\ caseFor'[e] \in due
             => e = f \/ caseFor[e] = caseFor'[e] \/ caseFor[f] = caseFor'[f]
  BY <1>1, <1>5, StartCASEFacts DEF PhaseOK
<1>7. timer' \in BOOLEAN
  BY <1>1 DEF ScheduleReconnect
<1>8. TypeOK'
  BY <1>1, <1>6, <1>7 DEF IInv, TypeOK, deviceVars, sessionVars, peerVars
<1>9. Exclusive'
  <2>1. \A e \in ExchangeIds : caseFor[e] \notin due
    BY <1>2 DEF InFlight
  <2>2. \A s \in active : owner[s] \notin due /\ owner[s] # None
    BY <1>2 DEF HasSession, SessionsOf, IInv, NoDangling, TypeOK
  <2>3. \A e, f \in ExchangeIds :
          caseFor'[e] = caseFor'[f] /\ caseFor'[e] # None => e = f
    BY <1>6, <2>1 DEF IInv, Exclusive
  <2>4. \A e \in ExchangeIds, s \in active : caseFor'[e] # owner[s]
    BY <1>6, <2>2 DEF IInv, Exclusive
  <2>5. active' = active /\ owner' = owner
    BY <1>1 DEF sessionVars
  <2> QED
    BY <2>3, <2>4, <2>5 DEF IInv, Exclusive
<1>10. NoDangling' /\ CaseAddressed' /\ MainsOnline'
  BY <1>1, <1>2, <1>6 DEF IInv, NoDangling, CaseAddressed, MainsOnline, deviceVars, sessionVars
<1>11. NeverStranded'
  <2>1. CASE candidates # {}
    BY <1>1, <1>8, <1>10, <2>1, Armed
  <2>2. CASE candidates = {}
    <3>1. \A d \in listed \cap Addressed : d \in online \/ InFlight(d) \/ HasSession(d) \/ ~Routed(d)
      BY <1>4, <2>2
    <3>2. \A d \in Devices : HasSession(d) =>
            d \in online \/ (d \in Battery /\ \E s \in SessionIds : owner[s] = d)
      BY DEF HasSession, SessionsOf, IInv, MainsOnline, TypeOK
    <3>3. \A d \in Devices : InFlight(d) => InFlight(d)'
      BY <1>6 DEF InFlight
    <3>4. listed \subseteq Devices
      BY DEF IInv, TypeOK
    <3> QED
      BY <1>1, <3>1, <3>2, <3>3, <3>4 DEF NeverStranded, Routed, deviceVars, sessionVars
  <2> QED
    BY <2>1, <2>2
<1> QED
  BY <1>6, <1>8, <1>9, <1>10, <1>11 DEF IInv

(* PingTimeout keeps the inductive invariant. *)
LEMMA PingTimeoutStep ==
  ASSUME IInv, NEW silent \in SUBSET Devices, PingTimeout(silent)
  PROVE  IInv'
<1> DEFINE watched == listed \cap online
           lost == {d \in watched : ~HasSession(d)}
           quiet == (watched \ lost) \cap silent
           pings == {Request(s, owner[s]) :
                       s \in {t \in active : owner[t] \in quiet \ Battery}}
<1> USE ConnectionAssumption
<1>1. /\ online' = online \ (lost \cup (quiet \cap Battery))
      /\ outbound' = outbound \cup pings
      /\ UNCHANGED <<listed, endpoints, resumption, caseVars, sessionVars, threadReady,
                     pendingRemove, peerVars>>
      /\ IF lost # {} THEN ScheduleReconnect(timer) ELSE UNCHANGED timer
  BY DEF PingTimeout
<1>2. nextReconnect' \in [Devices -> {"Zero", "Due", "Later"}]
  <2>1. PICK at \in [lost -> {"Due", "Later"}] :
          nextReconnect' = [d \in Devices |-> IF d \in lost THEN at[d] ELSE nextReconnect[d]]
    BY DEF PingTimeout
  <2>2. nextReconnect \in [Devices -> {"Zero", "Due", "Later"}]
    BY DEF IInv, TypeOK
  <2> HIDE DEF lost
  <2> QED
    BY <2>1, <2>2
<1>3. pings \subseteq Message
  <2>1. \A s \in active : owner[s] \in Devices /\ s \in SessionIds
    BY DEF IInv, NoDangling, TypeOK
  <2>2. \A s \in active : Request(s, owner[s]) \in Message
    BY <2>1, MessageFacts
  <2> QED
    BY <2>2
<1>4. timer' \in BOOLEAN
  BY <1>1 DEF ScheduleReconnect, IInv, TypeOK
<1>5. \A s \in active : owner[s] \notin lost
  BY DEF HasSession, SessionsOf
<1>6. \A d \in quiet \cap Battery : \E s \in SessionIds : owner[s] = d
  BY DEF HasSession, SessionsOf, IInv, TypeOK
<1>7. watched = listed \cap online /\ quiet \subseteq watched /\ lost \subseteq watched
  OBVIOUS
<1> HIDE DEF watched, lost, quiet, pings
<1>8. TypeOK'
  BY <1>1, <1>2, <1>3, <1>4 DEF IInv, TypeOK, caseVars, sessionVars, peerVars
<1>9. /\ Exclusive' /\ NoDangling' /\ PhaseOK' /\ CaseAddressed'
  BY <1>1 DEF IInv, Exclusive, NoDangling, PhaseOK, CaseAddressed, caseVars, sessionVars
<1>10. MainsOnline'
  BY <1>1, <1>5 DEF IInv, MainsOnline, sessionVars
<1>11. NeverStranded'
  <2>1. CASE lost # {}
    <3>1. ScheduleReconnect(timer) /\ timer \in BOOLEAN
      BY <1>1, <2>1 DEF IInv, TypeOK
    <3> QED
      BY <1>8, <1>10, <3>1, Armed
  <2>2. CASE lost = {}
    BY <1>1, <1>6, <2>2 DEF IInv, NeverStranded, InFlight, Routed, caseVars, sessionVars
  <2> QED
    BY <2>1, <2>2
<1> QED
  BY <1>8, <1>9, <1>10, <1>11 DEF IInv

(* ThreadUp keeps the inductive invariant. *)
LEMMA ThreadUpStep ==
  ASSUME IInv, ThreadUp
  PROVE  IInv'
<1> DEFINE resumed == {d \in listed \cap Thread : endpoints[d]}
           idle == {d \in resumed : ~HasSession(d)}
           msgs == {Request(s, owner[s]) : s \in {t \in active : owner[t] \in resumed}}
<1> USE ConnectionAssumption
<1>1. /\ threadReady' = TRUE
      /\ nextReconnect' = [d \in Devices |-> IF d \in idle THEN "Zero" ELSE nextReconnect[d]]
      /\ outbound' = outbound \cup msgs
      /\ UNCHANGED <<listed, online, endpoints, resumption, caseVars, sessionVars,
                     pendingRemove, peerVars>>
      /\ IF idle # {} THEN ScheduleReconnect(timer) ELSE UNCHANGED timer
  BY DEF ThreadUp
<1>2. msgs \subseteq Message
  <2>1. \A s \in active : owner[s] \in Devices /\ s \in SessionIds
    BY DEF IInv, NoDangling, TypeOK
  <2>2. \A s \in active : Request(s, owner[s]) \in Message
    BY <2>1, MessageFacts
  <2> QED
    BY <2>2
<1>3. \A d \in listed \cap Thread : endpoints[d] => d \in idle \/ HasSession(d)
  OBVIOUS
<1>4. timer' \in BOOLEAN
  BY <1>1 DEF ScheduleReconnect, IInv, TypeOK
<1> HIDE DEF resumed, idle, msgs
<1>5. nextReconnect' \in [Devices -> {"Zero", "Due", "Later"}]
  BY <1>1 DEF IInv, TypeOK
<1>6. TypeOK'
  BY <1>1, <1>2, <1>4, <1>5 DEF IInv, TypeOK, caseVars, sessionVars, peerVars
<1>7. /\ Exclusive' /\ NoDangling' /\ PhaseOK' /\ CaseAddressed' /\ MainsOnline'
  BY <1>1 DEF IInv, Exclusive, NoDangling, PhaseOK, CaseAddressed, MainsOnline, caseVars,
              sessionVars
<1>8. NeverStranded'
  <2>1. CASE idle # {}
    <3>1. ScheduleReconnect(timer) /\ timer \in BOOLEAN
      BY <1>1, <2>1 DEF IInv, TypeOK
    <3> QED
      BY <1>6, <1>7, <3>1, Armed
  <2>2. CASE idle = {}
    <3>1. \A d \in Devices : HasSession(d) =>
            d \in online \/ (d \in Battery /\ \E s \in SessionIds : owner[s] = d)
      BY DEF HasSession, SessionsOf, IInv, MainsOnline, TypeOK
    <3>2. listed \subseteq Devices
      BY DEF IInv, TypeOK
    <3>3. \A d \in listed : InFlight(d)' = InFlight(d) /\ (~Routed(d) => d \in Thread)
      BY <1>1 DEF InFlight, Routed, caseVars
    <3> QED
      BY <1>1, <1>3, <2>2, <3>1, <3>2, <3>3 DEF IInv, NeverStranded, sessionVars
  <2> QED
    BY <2>1, <2>2
<1> QED
  BY <1>6, <1>7, <1>8 DEF IInv

(* SendCommand keeps the inductive invariant. *)
LEMMA SendCommandStep ==
  ASSUME IInv, NEW d \in Devices, SendCommand(d)
  PROVE  IInv'
<1> USE ConnectionAssumption
<1>1. UNCHANGED <<deviceVars, sessionVars, timer, threadReady, pendingRemove, peerVars>>
      /\ d \in listed
  BY DEF SendCommand
<1>2. CASE HasSession(d)
  <2>1. PICK msgs : msgs = {Request(s, d) : s \in SessionsOf(d)}
    OBVIOUS
  <2>2. outbound' = outbound \cup msgs /\ UNCHANGED caseVars
    BY <1>2, <2>1 DEF SendCommand
  <2>3. msgs \subseteq Message
    <3>1. SessionsOf(d) \subseteq SessionIds
      BY DEF SessionsOf, IInv, TypeOK
    <3> QED
      BY <2>1, <3>1, MessageFacts
  <2>4. TypeOK'
    BY <1>1, <2>2, <2>3 DEF IInv, TypeOK, deviceVars, caseVars, sessionVars, peerVars
  <2> QED
    BY <1>1, <2>2, <2>4 DEF IInv, Exclusive, NoDangling, PhaseOK, CaseAddressed, MainsOnline,
       NeverStranded, InFlight, Routed, deviceVars, caseVars, sessionVars
<1>3. CASE ~HasSession(d)
  <2>1. Connectable(d) /\ StartCASE({d}) /\ {d} \in SUBSET Devices
    BY <1>3 DEF SendCommand
  <2>2. d \in Addressed /\ ~InFlight(d)
    BY <2>1 DEF Connectable
  <2>3. /\ caseFor' \in [ExchangeIds -> Devices \cup {None}]
        /\ casePhase' \in [ExchangeIds -> {"None", "Sigma2", "Resume", "Status", "Gone"}]
        /\ outbound' \subseteq Message
        /\ PhaseOK'
        /\ \A e \in ExchangeIds : caseFor'[e] = d \/ caseFor'[e] = caseFor[e]
        /\ \A e \in ExchangeIds : caseFor[e] # None => caseFor'[e] = caseFor[e]
        /\ \A e, f \in ExchangeIds :
             caseFor'[e] = d /\ caseFor'[f] = d
               => e = f \/ caseFor[e] = caseFor'[e] \/ caseFor[f] = caseFor'[f]
    BY <2>1, StartCASEFacts DEF PhaseOK
  <2>4. TypeOK'
    BY <1>1, <2>3 DEF IInv, TypeOK, deviceVars, sessionVars, peerVars
  <2>5. Exclusive'
    <3>1. \A e \in ExchangeIds : caseFor[e] # d
      BY <2>2 DEF InFlight
    <3>2. \A s \in active : owner[s] # d /\ owner[s] # None
      BY <1>3 DEF HasSession, SessionsOf, IInv, NoDangling, TypeOK
    <3>3. \A e, f \in ExchangeIds :
            caseFor'[e] = caseFor'[f] /\ caseFor'[e] # None => e = f
      BY <2>3, <3>1 DEF IInv, Exclusive
    <3>4. \A e \in ExchangeIds, s \in active : caseFor'[e] # owner[s]
      BY <2>3, <3>2 DEF IInv, Exclusive
    <3>5. active' = active /\ owner' = owner
      BY <1>1 DEF sessionVars
    <3> QED
      BY <3>3, <3>4, <3>5 DEF IInv, Exclusive
  <2>6. NoDangling' /\ CaseAddressed' /\ MainsOnline'
    BY <1>1, <2>2, <2>3 DEF IInv, NoDangling, CaseAddressed, MainsOnline, deviceVars, sessionVars
  <2>7. NeverStranded'
    <3>1. \A c \in Devices : InFlight(c) => InFlight(c)'
      BY <2>3 DEF InFlight
    <3>2. listed \subseteq Devices
      BY DEF IInv, TypeOK
    <3> QED
      BY <1>1, <3>1, <3>2 DEF IInv, NeverStranded, Routed, deviceVars, sessionVars
  <2> QED
    BY <2>3, <2>4, <2>5, <2>6, <2>7 DEF IInv
<1> QED
  BY <1>2, <1>3

(* DiscoverCommand keeps the inductive invariant. *)
LEMMA DiscoverCommandStep ==
  ASSUME IInv, NEW d \in Devices, DiscoverCommand(d)
  PROVE  IInv'
<1> DEFINE msgs == {Request(s, d) : s \in SessionsOf(d)}
<1>1. /\ endpoints' = [endpoints EXCEPT ![d] = FALSE]
      /\ outbound' = outbound \cup msgs
      /\ UNCHANGED <<listed, online, nextReconnect, resumption, caseVars, sessionVars,
                     timer, threadReady, pendingRemove, peerVars>>
  BY DEF DiscoverCommand
<1>2. msgs \subseteq Message
  <2>1. SessionsOf(d) \subseteq SessionIds
    BY DEF SessionsOf, IInv, TypeOK
  <2> QED
    BY <2>1, MessageFacts
<1> HIDE DEF msgs
<1>3. TypeOK'
  BY <1>1, <1>2 DEF IInv, TypeOK, caseVars, sessionVars, peerVars
<1>4. Exclusive' /\ NoDangling' /\ PhaseOK' /\ CaseAddressed' /\ MainsOnline'
  BY <1>1 DEF IInv, Exclusive, NoDangling, PhaseOK, CaseAddressed, MainsOnline, caseVars,
              sessionVars
<1>5. NeverStranded'
  <2>1. \A c \in Devices : ~endpoints[c] => ~endpoints'[c]
    BY <1>1 DEF IInv, TypeOK
  <2>2. listed \subseteq Devices
    BY DEF IInv, TypeOK
  <2> QED
    BY <1>1, <2>1, <2>2 DEF IInv, NeverStranded, InFlight, Routed, caseVars, sessionVars
<1> QED
  BY <1>3, <1>4, <1>5 DEF IInv

(* RemoveFabric keeps the inductive invariant. *)
LEMMA RemoveFabricStep ==
  ASSUME IInv, NEW d \in Devices, RemoveFabric(d)
  PROVE  IInv'
<1> DEFINE msgs == {Request(s, d) : s \in SessionsOf(d)}
<1>1. /\ pendingRemove' = d
      /\ outbound' = outbound \cup msgs
      /\ active' = active \ SessionsOf(d)
      /\ asked' = asked \cup {d}
      /\ UNCHANGED <<deviceVars, caseVars, owner, validating, timer, threadReady, held, sound>>
  BY DEF RemoveFabric
<1>2. msgs \subseteq Message
  <2>1. SessionsOf(d) \subseteq SessionIds
    BY DEF SessionsOf, IInv, TypeOK
  <2> QED
    BY <2>1, MessageFacts
<1> HIDE DEF msgs
<1>3. TypeOK'
  BY <1>1, <1>2 DEF IInv, TypeOK, deviceVars, caseVars
<1>4. Exclusive' /\ NoDangling' /\ PhaseOK' /\ CaseAddressed' /\ MainsOnline' /\ NeverStranded'
  BY <1>1 DEF IInv, Exclusive, NoDangling, PhaseOK, CaseAddressed, MainsOnline, NeverStranded,
              InFlight, Routed, deviceVars, caseVars
<1> QED
  BY <1>3, <1>4 DEF IInv

(* RemoveForced keeps the inductive invariant. *)
LEMMA RemoveForcedStep ==
  ASSUME IInv, NEW d \in Devices, RemoveForced(d)
  PROVE  IInv'
<1> USE ConnectionAssumption
<1>1. /\ EraseCases(CasesOf(d)) /\ ~HasSession(d)
      /\ listed' = listed \ {d} /\ online' = online \ {d}
      /\ UNCHANGED <<nextReconnect, endpoints, resumption, sessionVars, outbound,
                     timer, threadReady, pendingRemove, peerVars>>
  BY DEF RemoveForced
<1>2. CasesOf(d) \in SUBSET ExchangeIds /\ \A e \in ExchangeIds : caseFor[e] = d <=> e \in CasesOf(d)
  BY DEF CasesOf
<1>3. /\ caseFor' \in [ExchangeIds -> Devices \cup {None}]
      /\ casePhase' \in [ExchangeIds -> {"None", "Sigma2", "Resume", "Status", "Gone"}]
      /\ PhaseOK' /\ CaseAddressed'
      /\ \A e \in ExchangeIds : caseFor'[e] = None \/ caseFor'[e] = caseFor[e]
      /\ \A e \in ExchangeIds : caseFor'[e] # d
      /\ \A e \in ExchangeIds : caseFor[e] # d => caseFor'[e] = caseFor[e]
  BY <1>1, <1>2, EraseCasesFacts
<1>4. TypeOK'
  BY <1>1, <1>3 DEF IInv, TypeOK, sessionVars, peerVars
<1>5. Exclusive' /\ NoDangling' /\ MainsOnline'
  <2>1. \A s \in active : owner[s] # None /\ owner[s] # d
    BY <1>1 DEF IInv, NoDangling, TypeOK, HasSession, SessionsOf
  <2> QED
    BY <1>1, <1>3, <2>1 DEF IInv, Exclusive, NoDangling, MainsOnline, sessionVars
<1>6. NeverStranded'
  BY <1>1, <1>3 DEF IInv, NeverStranded, InFlight, Routed, sessionVars
<1> QED
  BY <1>3, <1>4, <1>5, <1>6 DEF IInv

(* RemoveResponse keeps the inductive invariant. *)
LEMMA RemoveResponseStep ==
  ASSUME IInv, NEW s \in SessionIds, RemoveResponse(s)
  PROVE  IInv'
<1> DEFINE d == owner[s]
           p == pendingRemove
           mine == SessionsOf(p)
<1> USE ConnectionAssumption
<1>1. /\ d \in asked
      /\ listed' = listed \ {p}
      /\ EraseCases(CasesOf(p))
      /\ owner' = [t \in SessionIds |-> IF t \in mine THEN None ELSE owner[t]]
      /\ active' = active \ mine
      /\ validating' = validating \ (mine \cup {s})
      /\ pendingRemove' = None
      /\ online' = HeardOnline(d) \ {p}
      /\ nextReconnect' = HeardReconnect(d)
      /\ asked' = asked \ {d}
      /\ held' = {t \in held \ mine : owner[t] # d}
      /\ UNCHANGED <<endpoints, resumption, outbound, timer, threadReady, sound>>
  BY DEF RemoveResponse
<1>2. d \in Devices /\ p \in Devices \cup {None}
  BY <1>1 DEF IInv, TypeOK
<1>3. CasesOf(p) \in SUBSET ExchangeIds /\ \A e \in ExchangeIds : caseFor[e] = p <=> e \in CasesOf(p)
  BY DEF CasesOf
<1>4. mine \subseteq active /\ \A t \in active : owner[t] = p => t \in mine
  BY DEF SessionsOf
<1>5. \A t \in mine : owner[t] = p
  BY DEF SessionsOf
<1> HIDE DEF mine
<1>6. /\ caseFor' \in [ExchangeIds -> Devices \cup {None}]
      /\ casePhase' \in [ExchangeIds -> {"None", "Sigma2", "Resume", "Status", "Gone"}]
      /\ PhaseOK' /\ CaseAddressed'
      /\ \A e \in ExchangeIds : caseFor'[e] = None \/ caseFor'[e] = caseFor[e]
      /\ \A e \in ExchangeIds : caseFor[e] = p => caseFor'[e] = None
      /\ \A e \in ExchangeIds : caseFor[e] # p => caseFor'[e] = caseFor[e]
  BY <1>1, <1>3, EraseCasesFacts
<1>7. online' \subseteq Devices /\ online \ {p} \subseteq online'
  BY <1>1, <1>2 DEF HeardOnline, IInv, TypeOK
<1>8. nextReconnect' \in [Devices -> {"Zero", "Due", "Later"}]
  BY <1>1, <1>2 DEF HeardReconnect, IInv, TypeOK
<1>9. TypeOK'
  BY <1>1, <1>2, <1>6, <1>7, <1>8 DEF IInv, TypeOK
<1>10. Exclusive' /\ NoDangling' /\ MainsOnline'
  <2>1. \A t \in active : owner[t] # None /\ t \in SessionIds
    BY DEF IInv, NoDangling, TypeOK
  <2>2. \A t \in active' : t \in active /\ owner'[t] = owner[t] /\ owner[t] # p
    BY <1>1, <1>4, <2>1
  <2>3. Exclusive'
    BY <1>6, <2>1, <2>2 DEF IInv, Exclusive
  <2>4. NoDangling'
    BY <1>1, <1>6, <2>2 DEF IInv, NoDangling
  <2>5. MainsOnline'
    BY <1>7, <2>2 DEF IInv, MainsOnline
  <2> QED
    BY <2>3, <2>4, <2>5
<1>11. NeverStranded'
  <2>1. ASSUME NEW c \in listed', c \in Addressed
        PROVE  /\ c \in listed /\ c # p /\ c # None
               /\ c \in online => c \in online'
               /\ InFlight(c) => InFlight(c)'
               /\ (\E t \in SessionIds : owner[t] = c) => \E t \in SessionIds : owner'[t] = c
    <3>1. c \in listed /\ c # p /\ c # None
      BY <1>1, <2>1 DEF IInv, TypeOK
    <3>2. InFlight(c) => InFlight(c)'
      BY <1>6, <3>1 DEF InFlight
    <3>3. \A t \in SessionIds : owner[t] = c => owner'[t] = c
      BY <1>1, <1>5, <3>1
    <3> QED
      BY <1>7, <3>1, <3>2, <3>3
  <2> QED
    BY <1>1, <2>1 DEF IInv, NeverStranded, Routed
<1> QED
  BY <1>6, <1>9, <1>10, <1>11 DEF IInv

(* Environment keeps the inductive invariant. *)
LEMMA EnvironmentStep ==
  ASSUME IInv, NEW d \in Devices, Tick(d) \/ PeerReboot(d) \/ PeerSettles(d)
  PROVE  IInv'
<1>1. /\ UNCHANGED <<listed, online, endpoints, resumption, caseVars, sessionVars, outbound,
                     timer, threadReady, pendingRemove, asked>>
      /\ nextReconnect' \in [Devices -> {"Zero", "Due", "Later"}]
      /\ held' \subseteq SessionIds /\ sound' \subseteq Devices
  BY DEF IInv, TypeOK, Tick, PeerReboot, PeerSettles, deviceVars, peerVars
<1>2. TypeOK'
  BY <1>1 DEF IInv, TypeOK, caseVars, sessionVars
<1> QED
  BY <1>1, <1>2 DEF IInv, Exclusive, NoDangling, PhaseOK, CaseAddressed, MainsOnline,
     NeverStranded, InFlight, Routed, caseVars, sessionVars

-----------------------------------------------------------------------------
(* The start-up state: restored sessions and the first CASE attempts fit.   *)
LEMMA InitIInv ==
  ASSUME Init
  PROVE  IInv
<1> USE ConnectionAssumption
<1>1. /\ listed = Devices /\ online = {} /\ threadReady \in BOOLEAN
      /\ resumption \in [Devices -> BOOLEAN]
      /\ nextReconnect = [d \in Devices |-> "Zero"]
      /\ validating = {} /\ timer = FALSE /\ pendingRemove = None
      /\ held \subseteq active /\ asked = {} /\ sound = {}
  BY DEF Init
<1>2. PICK restored \in SUBSET Battery :
        LET started == {d \in Addressed \ restored : Routed(d)}
        IN /\ endpoints \in [Devices -> BOOLEAN]
           /\ \E id \in Injection(restored, SessionIds), at \in Injection(started, ExchangeIds) :
                /\ owner = Fill(id, restored, [s \in SessionIds |-> None])
                /\ active = {id[d] : d \in restored}
                /\ caseFor = Fill(at, started, [e \in ExchangeIds |-> None])
                /\ casePhase = [e \in ExchangeIds |->
                     IF caseFor[e] = None THEN "None"
                     ELSE IF resumption[caseFor[e]] THEN "Resume" ELSE "Sigma2"]
                /\ outbound = Sigma1s(at, started) \cup
                     {Request(id[d], d) : d \in {c \in restored : endpoints[c] /\ Routed(c)}}
  BY DEF Init
<1> DEFINE started == {d \in Addressed \ restored : Routed(d)}
<1>3. PICK id \in Injection(restored, SessionIds), at \in Injection(started, ExchangeIds) :
        /\ owner = Fill(id, restored, [s \in SessionIds |-> None])
        /\ active = {id[d] : d \in restored}
        /\ caseFor = Fill(at, started, [e \in ExchangeIds |-> None])
        /\ casePhase = [e \in ExchangeIds |->
             IF caseFor[e] = None THEN "None"
             ELSE IF resumption[caseFor[e]] THEN "Resume" ELSE "Sigma2"]
        /\ outbound = Sigma1s(at, started) \cup
             {Request(id[d], d) : d \in {c \in restored : endpoints[c] /\ Routed(c)}}
  BY <1>2
<1>4. started \subseteq Devices /\ started \subseteq Addressed /\ restored \subseteq Devices
      /\ started \cap restored = {}
  OBVIOUS
<1>5. \A d \in Addressed : Routed(d) => d \in started \/ d \in restored
  OBVIOUS
<1> HIDE DEF started
<1>6. /\ owner = [s \in SessionIds |-> owner[s]]
      /\ \A s \in SessionIds : owner[s] \in restored \/ owner[s] = None
      /\ \A d \in restored : id[d] \in SessionIds /\ owner[id[d]] = d
  <2> DEFINE table == [s \in SessionIds |-> None]
             F == Fill(id, restored, table)
  <2>1. DOMAIN table = SessionIds /\ \A s \in SessionIds : table[s] = None
    OBVIOUS
  <2> HIDE DEF table
  <2>2. /\ F = [s \in SessionIds |-> F[s]]
        /\ \A s \in SessionIds : F[s] \in restored \/ F[s] = table[s]
        /\ \A d \in restored : id[d] \in SessionIds /\ F[id[d]] = d
    BY <2>1, FillFacts
  <2>3. owner = F
    BY <1>3 DEF table
  <2> HIDE DEF F
  <2> QED
    BY <2>1, <2>2, <2>3
<1>7. /\ caseFor = [e \in ExchangeIds |-> caseFor[e]]
      /\ \A e \in ExchangeIds : caseFor[e] \in started \/ caseFor[e] = None
      /\ \A d \in started : at[d] \in ExchangeIds /\ caseFor[at[d]] = d
      /\ \A e \in ExchangeIds : (\A d \in started : at[d] # e) => caseFor[e] = None
  <2> DEFINE table == [e \in ExchangeIds |-> None]
             F == Fill(at, started, table)
  <2>1. DOMAIN table = ExchangeIds /\ \A e \in ExchangeIds : table[e] = None
    OBVIOUS
  <2> HIDE DEF table
  <2>2. /\ F = [e \in ExchangeIds |-> F[e]]
        /\ \A e \in ExchangeIds : F[e] \in started \/ F[e] = table[e]
        /\ \A d \in started : at[d] \in ExchangeIds /\ F[at[d]] = d
        /\ \A e \in ExchangeIds : (\A d \in started : at[d] # e) => F[e] = table[e]
    BY <2>1, FillFacts
  <2>3. caseFor = F
    BY <1>3 DEF table
  <2> HIDE DEF F
  <2> QED
    BY <2>1, <2>2, <2>3
<1>8. owner \in [SessionIds -> Devices \cup {None}]
  BY <1>4, <1>6
<1>9. caseFor \in [ExchangeIds -> Devices \cup {None}]
  BY <1>4, <1>7
<1>10. casePhase \in [ExchangeIds -> {"None", "Sigma2", "Resume", "Status", "Gone"}]
  BY <1>3
<1>11. active \subseteq SessionIds
  BY <1>3, <1>6
<1>12. outbound \subseteq Message
  <2>1. Sigma1s(at, started) \subseteq Message
    BY <1>4, <1>7, MessageFacts DEF Sigma1s
  <2>2. \A d \in restored : Request(id[d], d) \in Message
    BY <1>4, <1>6, MessageFacts
  <2> QED
    BY <1>3, <2>1, <2>2
<1>13. TypeOK
  BY <1>1, <1>2, <1>8, <1>9, <1>10, <1>11, <1>12 DEF TypeOK
<1>14. \A s \in active : owner[s] \in restored /\ id[owner[s]] = s
  BY <1>3, <1>6
<1>15. \A e \in ExchangeIds : caseFor[e] # None => at[caseFor[e]] = e
  BY <1>7
<1>16. Exclusive
  BY <1>4, <1>7, <1>14, <1>15 DEF Exclusive
<1>17. NoDangling /\ MainsOnline /\ CaseAddressed
  BY <1>1, <1>4, <1>7, <1>14 DEF NoDangling, MainsOnline, CaseAddressed
<1>18. PhaseOK
  BY <1>3, <1>9 DEF PhaseOK
<1>19. NeverStranded
  <2>1. \A d \in started : InFlight(d)
    BY <1>7 DEF InFlight
  <2>2. \A d \in restored : d \in Battery /\ \E s \in SessionIds : owner[s] = d
    BY <1>6
  <2> QED
    BY <1>5, <2>1, <2>2 DEF NeverStranded
<1> QED
  BY <1>13, <1>16, <1>17, <1>18, <1>19 DEF IInv

(* Every step keeps the inductive invariant: one case per action. *)
LEMMA NextIInv ==
  ASSUME IInv, [Next]_vars
  PROVE  IInv'
<1>1. CASE UNCHANGED vars
  BY <1>1 DEF IInv, TypeOK, Exclusive, NoDangling, NeverStranded, PhaseOK, CaseAddressed,
     MainsOnline, InFlight, Routed, vars, deviceVars, caseVars, sessionVars, peerVars
<1>2. CASE Next
  BY <1>2, CaseSigma2Step, CaseEstablishedStep, CaseFailedStep, MessageAckedStep,
     MessageFailedStep, ReceiveStep, ReconnectTimeoutStep, PingTimeoutStep, ThreadUpStep,
     SendCommandStep, DiscoverCommandStep, RemoveFabricStep, RemoveForcedStep,
     RemoveResponseStep, EnvironmentStep, ConnectionAssumption DEF Next
<1> QED
  BY <1>1, <1>2

(* The inductive invariant holds in every state. *)
THEOREM Invariant == Spec => []IInv
<1>1. Init => IInv
  BY InitIInv
<1>2. IInv /\ [Next]_vars => IInv'
  BY NextIInv
<1> QED
  BY <1>1, <1>2, PTL DEF Spec

(* The state of the connection manager stays within its types. *)
THEOREM TypeCorrect == Spec => []TypeOK
<1>1. IInv => TypeOK
  BY DEF IInv
<1> QED
  BY <1>1, Invariant, PTL

(* Commands, the reconnect timer, the ping timer and resumeThreadDevices    *)
(* never give one device two sessions, two CASE attempts, or one of each.   *)
THEOREM OneLinkPerDevice == Spec => []Exclusive
<1>1. IInv => Exclusive
  BY DEF IInv
<1> QED
  BY <1>1, Invariant, PTL

(* No CASE attempt and no active session outlives its device in the list.   *)
THEOREM NothingDangles == Spec => []NoDangling
<1>1. IInv => NoDangling
  BY DEF IInv
<1> QED
  BY <1>1, Invariant, PTL

(* Every reachable device is Online, or something is under way that brings  *)
(* it back: no interleaving of the handlers loses a device for good.        *)
THEOREM NobodyStranded == Spec => []NeverStranded
<1>1. IInv => NeverStranded
  BY DEF IInv
<1> QED
  BY <1>1, Invariant, PTL

-----------------------------------------------------------------------------
(* A step that drops a resumption pair. *)
LEMMA ResumptionStep ==
  ASSUME IInv, [Next]_vars, NEW d \in Devices, resumption[d], ~resumption'[d]
  PROVE  \/ \E e \in CasesOf(d) : casePhase[e] = "Resume" /\ casePhase'[e] # "Resume"
         \/ \E s \in SessionsOf(d) : s \in validating /\ s \notin active'
<1>1. ~UNCHANGED resumption
  OBVIOUS
<1>2. resumption \in [Devices -> BOOLEAN]
  BY DEF IInv, TypeOK
<1>3. ASSUME NEW e \in ExchangeIds, NEW s \in SessionIds, CaseEstablished(e, s)
      PROVE  FALSE
  BY <1>2, <1>3 DEF CaseEstablished, IInv, TypeOK
<1>4. ASSUME NEW e \in ExchangeIds, NEW mic \in BOOLEAN, CaseFailed(e, mic)
      PROVE  \E f \in CasesOf(d) : casePhase[f] = "Resume" /\ casePhase'[f] # "Resume"
  <2>1. caseFor[e] = d /\ mic
    BY <1>2, <1>4 DEF CaseFailed
  <2>2. casePhase[e] = "Resume"
    BY <1>4, <2>1 DEF CaseFailed
  <2>3. casePhase'[e] # "Resume"
    BY <1>4 DEF CaseFailed, EraseCases, IInv, TypeOK
  <2> QED
    BY <2>1, <2>2, <2>3 DEF CasesOf
<1>5. ASSUME NEW m \in outbound, MessageFailed(m)
      PROVE  \E s \in SessionsOf(d) : s \in validating /\ s \notin active'
  <2>1. m.device = d /\ SessionsOf(d) \cap validating # {} /\ EraseSessions(SessionsOf(d))
    BY <1>2, <1>5 DEF MessageFailed
  <2>2. PICK s \in SessionsOf(d) : s \in validating
    BY <2>1
  <2> QED
    BY <2>1, <2>2 DEF EraseSessions
<1>6. CASE Next
  BY <1>1, <1>3, <1>4, <1>5, <1>6 DEF Next, CaseSigma2, MessageAcked, Receive,
     ReconnectTimeout, PingTimeout, ThreadUp, SendCommand, DiscoverCommand, RemoveFabric,
     RemoveForced, RemoveResponse, Tick, PeerReboot, PeerSettles, deviceVars
<1>7. CASE UNCHANGED vars
  BY <1>1, <1>7 DEF vars, deviceVars
<1> QED
  BY <1>6, <1>7

(* A device keeps its resumption pair through every failure but that of a   *)
(* resumed handshake, so that a reconnect stays cheap.                      *)
THEOREM ResumptionIsKept == Spec => ResumptionKept
<1>1. IInv /\ [Next]_vars =>
        [\A d \in Devices : resumption[d] /\ ~resumption'[d] =>
           \/ \E e \in CasesOf(d) : casePhase[e] = "Resume" /\ casePhase'[e] # "Resume"
           \/ \E s \in SessionsOf(d) : s \in validating /\ s \notin active']_vars
  BY ResumptionStep
<1> QED
  BY <1>1, Invariant, PTL DEF Spec, ResumptionKept

-----------------------------------------------------------------------------
(* Connection implements DeviceLink: each handler moves at most one link     *)
(* along its life, or several from down to connecting, and nothing else.     *)

(* The link of a device depends on three facts about it. *)
LEMMA LinkFacts ==
  ASSUME NEW d \in Devices
  PROVE  /\ d \notin listed => LinkOf(d) = "removed"
         /\ d \in listed /\ HasSession(d) => LinkOf(d) = "up"
         /\ d \in listed /\ ~HasSession(d) /\ InFlight(d) => LinkOf(d) = "connecting"
         /\ d \in listed /\ ~HasSession(d) /\ ~InFlight(d) => LinkOf(d) = "down"
BY DEF LinkOf

(* The same after a step. *)
LEMMA LinkFactsNext ==
  ASSUME NEW d \in Devices
  PROVE  /\ d \notin listed' => LinkOf(d)' = "removed"
         /\ d \in listed' /\ HasSession(d)' => LinkOf(d)' = "up"
         /\ d \in listed' /\ ~HasSession(d)' /\ InFlight(d)' => LinkOf(d)' = "connecting"
         /\ d \in listed' /\ ~HasSession(d)' /\ ~InFlight(d)' => LinkOf(d)' = "down"
BY DEF LinkOf

(* A link stays when those facts do. *)
LEMMA SameLink ==
  ASSUME NEW d \in Devices, d \in listed' <=> d \in listed,
         HasSession(d)' <=> HasSession(d), InFlight(d)' <=> InFlight(d)
  PROVE  LinkOf(d)' = LinkOf(d)
BY LinkFacts, LinkFactsNext

(* No link moves: the abstract state stutters. *)
LEMMA NoMove ==
  ASSUME \A d \in Devices : LinkOf(d)' = LinkOf(d)
  PROVE  [Link!Next]_LinkState
BY DEF LinkState

(* One link moves along its life: an abstract step. *)
LEMMA OneMove ==
  ASSUME NEW d \in Devices, \A c \in Devices \ {d} : LinkOf(c)' = LinkOf(c),
         \/ LinkOf(d) = "connecting" /\ LinkOf(d)' = "up"
         \/ LinkOf(d) \in {"connecting", "up"} /\ LinkOf(d)' = "down"
         \/ LinkOf(d) # "removed" /\ LinkOf(d)' = "removed"
  PROVE  [Link!Next]_LinkState
<1>1. LinkState' = [LinkState EXCEPT ![d] = LinkOf(d)'] /\ LinkState[d] = LinkOf(d)
  BY DEF LinkState
<1>2. CASE LinkOf(d) = "connecting" /\ LinkOf(d)' = "up"
  BY <1>1, <1>2 DEF Link!Next, Link!Establish
<1>3. CASE LinkOf(d) \in {"connecting", "up"} /\ LinkOf(d)' = "down"
  BY <1>1, <1>3 DEF Link!Next, Link!Lose
<1>4. CASE LinkOf(d) # "removed" /\ LinkOf(d)' = "removed"
  BY <1>1, <1>4 DEF Link!Next, Link!Remove
<1> QED
  BY <1>2, <1>3, <1>4

(* Some links go from down to connecting: an abstract step. *)
LEMMA ManyConnect ==
  ASSUME NEW ds \in SUBSET Devices,
         \A d \in ds : LinkOf(d) = "down" /\ LinkOf(d)' = "connecting",
         \A c \in Devices \ ds : LinkOf(c)' = LinkOf(c)
  PROVE  [Link!Next]_LinkState
<1>1. LinkState' = [d \in Devices |-> IF d \in ds THEN "connecting" ELSE LinkState[d]]
      /\ \A d \in ds : LinkState[d] = "down"
  BY DEF LinkState
<1>2. Link!Connect(ds)
  BY <1>1 DEF Link!Connect
<1> QED
  BY <1>2 DEF Link!Next

(* Steps that leave the list, the attempts and the active sessions alone. *)
LEMMA QuietStep ==
  ASSUME UNCHANGED <<listed, caseFor, owner, active>>
  PROVE  [Link!Next]_LinkState
<1>1. ASSUME NEW d \in Devices
      PROVE  LinkOf(d)' = LinkOf(d)
  BY SameLink DEF HasSession, SessionsOf, InFlight
<1> QED
  BY <1>1, NoMove

(* An attempt and a session exclude each other, and both are listed. *)
LEMMA LinkOfCase ==
  ASSUME IInv, NEW d \in Devices, NEW e \in ExchangeIds, caseFor[e] = d
  PROVE  d \in listed /\ ~HasSession(d) /\ LinkOf(d) = "connecting"
<1>1. d \in listed
  BY ConnectionAssumption DEF IInv, NoDangling
<1>2. ~HasSession(d) /\ InFlight(d)
  BY DEF IInv, Exclusive, HasSession, SessionsOf, InFlight
<1> QED
  BY <1>1, <1>2, LinkFacts

(* A device with a session has no attempt. *)
LEMMA NoCaseBesideSession ==
  ASSUME IInv, NEW d, HasSession(d)
  PROVE  ~InFlight(d)
BY DEF IInv, Exclusive, HasSession, SessionsOf, InFlight

(* Erasing the attempt of a device ends its being in flight, and only its. *)
LEMMA InFlightAfterErase ==
  ASSUME IInv, NEW d \in Devices, NEW e \in ExchangeIds, caseFor[e] = d, EraseCases({e})
  PROVE  ~InFlight(d)' /\ \A c \in Devices \ {d} : InFlight(c)' <=> InFlight(c)
<1> USE ConnectionAssumption
<1>1. \A f \in ExchangeIds : caseFor'[f] = IF f = e THEN None ELSE caseFor[f]
  BY DEF EraseCases
<1>2. \A f \in ExchangeIds : caseFor[f] = d => f = e
  BY DEF IInv, Exclusive
<1>3. \A f \in ExchangeIds : caseFor'[f] # d
  BY <1>1, <1>2
<1>4. \A c \in Devices \ {d}, f \in ExchangeIds : caseFor'[f] = c <=> caseFor[f] = c
  BY <1>1
<1> QED
  BY <1>3, <1>4 DEF InFlight

-----------------------------------------------------------------------------
(* A failed attempt takes its link down; other links stay. *)
LEMMA LinkOfFailedCase ==
  ASSUME IInv, NEW e \in ExchangeIds, caseFor[e] # None, EraseCases({e}),
         UNCHANGED <<listed, owner, active>>
  PROVE  [Link!Next]_LinkState
<1>1. PICK d \in Devices : caseFor[e] = d
  BY DEF IInv, TypeOK
<1>2. d \in listed /\ ~HasSession(d) /\ LinkOf(d) = "connecting"
  BY <1>1, LinkOfCase
<1>3. ~InFlight(d)' /\ \A c \in Devices \ {d} : InFlight(c)' <=> InFlight(c)
  BY <1>1, InFlightAfterErase
<1>4. \A c \in Devices : HasSession(c)' <=> HasSession(c)
  BY DEF HasSession, SessionsOf
<1>5. LinkOf(d)' = "down"
  BY <1>2, <1>3, <1>4, LinkFactsNext
<1>6. \A c \in Devices \ {d} : LinkOf(c)' = LinkOf(c)
  BY <1>3, <1>4, SameLink
<1> QED
  BY <1>2, <1>5, <1>6, OneMove

(* A device that loses its active sessions goes down; other links stay. *)
LEMMA LinkOfLostSession ==
  ASSUME IInv, NEW d \in Devices, d \in listed, HasSession(d),
         active' = active \ SessionsOf(d), \A s \in active' : owner'[s] = owner[s],
         UNCHANGED <<listed, caseFor>>
  PROVE  [Link!Next]_LinkState
<1>1. \A c \in Devices : InFlight(c)' <=> InFlight(c)
  BY DEF InFlight
<1>2. ~HasSession(d)' /\ \A c \in Devices \ {d} : HasSession(c)' <=> HasSession(c)
  BY DEF HasSession, SessionsOf
<1>3. LinkOf(d) = "up"
  BY LinkFacts
<1>4. LinkOf(d)' = "down"
  BY <1>1, <1>2, NoCaseBesideSession, LinkFactsNext
<1>5. \A c \in Devices \ {d} : LinkOf(c)' = LinkOf(c)
  BY <1>1, <1>2, SameLink
<1> QED
  BY <1>3, <1>4, <1>5, OneMove

(* Starting attempts takes their links, all down, to connecting. *)
LEMMA LinkOfStartCASE ==
  ASSUME IInv, NEW ds \in SUBSET Devices, StartCASE(ds),
         \A d \in ds : d \in listed /\ ~HasSession(d) /\ ~InFlight(d),
         UNCHANGED <<listed, owner, active>>
  PROVE  [Link!Next]_LinkState
<1>1. /\ \A e \in ExchangeIds : caseFor'[e] \in ds \/ caseFor'[e] = caseFor[e]
      /\ \A e \in ExchangeIds : caseFor[e] # None => caseFor'[e] = caseFor[e]
      /\ \A d \in ds : \E e \in ExchangeIds : caseFor'[e] = d
  BY StartCASEFacts
<1>2. \A c \in Devices : HasSession(c)' <=> HasSession(c)
  BY DEF HasSession, SessionsOf
<1>3. \A d \in ds : InFlight(d)'
  BY <1>1 DEF InFlight
<1>4. \A c \in Devices \ ds : InFlight(c)' <=> InFlight(c)
  BY <1>1, ConnectionAssumption DEF InFlight
<1>5. \A d \in ds : LinkOf(d) = "down" /\ LinkOf(d)' = "connecting"
  BY <1>2, <1>3, LinkFacts, LinkFactsNext
<1>6. \A c \in Devices \ ds : LinkOf(c)' = LinkOf(c)
  BY <1>2, <1>4, SameLink
<1> QED
  BY <1>5, <1>6, ManyConnect

-----------------------------------------------------------------------------
(* CaseEstablished takes one link from connecting to up. *)
LEMMA CaseEstablishedLink ==
  ASSUME IInv, NEW e \in ExchangeIds, NEW s \in SessionIds, CaseEstablished(e, s)
  PROVE  [Link!Next]_LinkState
<1> USE ConnectionAssumption
<1>1. caseFor[e] # None /\ EraseCases({e}) /\ listed' = listed
  BY DEF CaseEstablished, IInv, PhaseOK
<1>2. PICK d \in Devices : caseFor[e] = d
  BY <1>1 DEF IInv, TypeOK
<1>3. d \in listed /\ SessionsOf(d) = {} /\ LinkOf(d) = "connecting"
  BY <1>2, LinkOfCase DEF HasSession
<1>4. ~InFlight(d)' /\ \A c \in Devices \ {d} : InFlight(c)' <=> InFlight(c)
  BY <1>1, <1>2, InFlightAfterErase
<1>5. /\ owner' = [t \in SessionIds |-> IF t = s THEN d ELSE owner[t]]
      /\ active' = active \cup {s}
  <2>1. PICK old \in SUBSET SessionsOf(d) :
          /\ owner' = [t \in SessionIds |-> IF t = s THEN d
                                            ELSE IF t \in old THEN None ELSE owner[t]]
          /\ active' = (active \ old) \cup {s}
    BY <1>2 DEF CaseEstablished
  <2>2. old = {}
    BY <1>3, <2>1
  <2> QED
    BY <2>1, <2>2
<1>6. owner[s] = None /\ active \subseteq SessionIds
  BY DEF CaseEstablished, FreeSessions, IInv, TypeOK
<1>7. s \notin active
  BY <1>6 DEF IInv, NoDangling, TypeOK
<1>8. HasSession(d)' /\ \A c \in Devices \ {d} : HasSession(c)' <=> HasSession(c)
  BY <1>5, <1>6, <1>7 DEF HasSession, SessionsOf
<1>9. LinkOf(d)' = "up"
  BY <1>1, <1>3, <1>8, LinkFactsNext
<1>10. \A c \in Devices \ {d} : LinkOf(c)' = LinkOf(c)
  BY <1>1, <1>4, <1>8, SameLink
<1> QED
  BY <1>3, <1>9, <1>10, OneMove

(* CaseFailed takes one link down, but on exchange 0, where nothing moves. *)
LEMMA CaseFailedLink ==
  ASSUME IInv, NEW e \in ExchangeIds, NEW mic \in BOOLEAN, CaseFailed(e, mic)
  PROVE  [Link!Next]_LinkState
<1>1. caseFor[e] # None /\ UNCHANGED <<listed, owner, active>>
  BY DEF CaseFailed, IInv, PhaseOK, sessionVars
<1>2. CASE e = 0
  BY <1>1, <1>2, QuietStep DEF CaseFailed
<1>3. CASE e # 0
  <2>1. EraseCases({e})
    BY <1>3 DEF CaseFailed
  <2> QED
    BY <1>1, <2>1, LinkOfFailedCase
<1> QED
  BY <1>2, <1>3

(* MessageFailed takes down the link of an attempt or that of a session. *)
LEMMA MessageFailedLink ==
  ASSUME IInv, NEW m \in outbound, MessageFailed(m)
  PROVE  [Link!Next]_LinkState
<1> DEFINE d == m.device
           e == m.exchange
           inCase == e \in ExchangeIds /\ caseFor[e] # None
           gone == SessionsOf(d)
           unreachable == ~inCase /\ gone # {} /\ d \in listed
<1>1. d \in Devices
  BY DEF IInv, TypeOK, Message
<1>2. /\ IF inCase THEN EraseCases({e}) ELSE UNCHANGED caseVars
      /\ IF unreachable THEN EraseSessions(gone) ELSE UNCHANGED <<sessionVars, held>>
      /\ listed' = listed
  BY DEF MessageFailed
<1>3. CASE inCase
  <2>1. UNCHANGED <<listed, owner, active>> /\ EraseCases({e})
    BY <1>2, <1>3 DEF sessionVars
  <2> QED
    BY <1>3, <2>1, LinkOfFailedCase
<1>4. CASE unreachable
  <2>1. UNCHANGED <<listed, caseFor>> /\ HasSession(d) /\ d \in listed
    BY <1>2, <1>4 DEF caseVars, HasSession
  <2>2. gone \in SUBSET SessionIds
    BY DEF SessionsOf, IInv, TypeOK
  <2>3. active' = active \ SessionsOf(d) /\ \A s \in active' : owner'[s] = owner[s]
    BY <1>2, <1>4, <2>2, EraseSessionsFacts
  <2> QED
    BY <1>1, <2>1, <2>3, LinkOfLostSession
<1>5. CASE ~inCase /\ ~unreachable
  BY <1>2, <1>5, QuietStep DEF caseVars, sessionVars
<1> QED
  BY <1>3, <1>4, <1>5

(* ReconnectTimeout takes every link that is due from down to connecting. *)
LEMMA ReconnectTimeoutLink ==
  ASSUME IInv, ReconnectTimeout
  PROVE  [Link!Next]_LinkState
<1> DEFINE candidates == {d \in Devices : Waiting(d) /\ Routed(d)}
           due == {d \in candidates : nextReconnect[d] # "Later"}
<1>1. StartCASE(due) /\ UNCHANGED <<listed, owner, active>>
  BY DEF ReconnectTimeout, deviceVars, sessionVars
<1>2. due \in SUBSET Devices
  OBVIOUS
<1>3. \A d \in due : d \in listed /\ ~HasSession(d) /\ ~InFlight(d)
  BY DEF Waiting
<1> QED
  BY <1>1, <1>2, <1>3, LinkOfStartCASE

(* SendCommand connects a device that is down, or moves no link. *)
LEMMA SendCommandLink ==
  ASSUME IInv, NEW d \in Devices, SendCommand(d)
  PROVE  [Link!Next]_LinkState
<1>1. UNCHANGED <<listed, owner, active>> /\ d \in listed
  BY DEF SendCommand, deviceVars, sessionVars
<1>2. CASE HasSession(d)
  <2>1. UNCHANGED caseFor
    BY <1>2 DEF SendCommand, caseVars
  <2> QED
    BY <1>1, <2>1, QuietStep
<1>3. CASE ~HasSession(d)
  <2>1. StartCASE({d}) /\ ~InFlight(d) /\ {d} \in SUBSET Devices
    BY <1>3 DEF SendCommand, Connectable
  <2> QED
    BY <1>1, <1>3, <2>1, LinkOfStartCASE
<1> QED
  BY <1>2, <1>3

(* RemoveFabric takes the link down: the session is inactive from now on. *)
LEMMA RemoveFabricLink ==
  ASSUME IInv, NEW d \in Devices, RemoveFabric(d)
  PROVE  [Link!Next]_LinkState
<1>1. /\ d \in listed /\ HasSession(d)
      /\ active' = active \ SessionsOf(d) /\ \A s \in active' : owner'[s] = owner[s]
      /\ UNCHANGED <<listed, caseFor>>
  BY DEF RemoveFabric, deviceVars, caseVars
<1> QED
  BY <1>1, LinkOfLostSession

(* RemoveForced removes one link. *)
LEMMA RemoveForcedLink ==
  ASSUME IInv, NEW d \in Devices, RemoveForced(d)
  PROVE  [Link!Next]_LinkState
<1> USE ConnectionAssumption
<1>1. /\ d \in listed /\ listed' = listed \ {d}
      /\ UNCHANGED <<owner, active>> /\ EraseCases(CasesOf(d))
  BY DEF RemoveForced, sessionVars
<1>2. \A c \in Devices \ {d} : InFlight(c)' <=> InFlight(c)
  BY <1>1 DEF EraseCases, CasesOf, InFlight
<1>3. \A c \in Devices : HasSession(c)' <=> HasSession(c)
  BY <1>1 DEF HasSession, SessionsOf
<1>4. \A c \in Devices \ {d} : LinkOf(c)' = LinkOf(c)
  BY <1>1, <1>2, <1>3, SameLink
<1>5. LinkOf(d) # "removed" /\ LinkOf(d)' = "removed"
  BY <1>1, LinkFacts, LinkFactsNext
<1> QED
  BY <1>4, <1>5, OneMove

(* RemoveResponse removes the link of the pending removal, if it is there. *)
LEMMA RemoveResponseLink ==
  ASSUME IInv, NEW s \in SessionIds, RemoveResponse(s)
  PROVE  [Link!Next]_LinkState
<1> USE ConnectionAssumption
<1>0. PICK p \in Devices \cup {None} : pendingRemove = p
  BY DEF IInv, TypeOK
<1>1. /\ listed' = listed \ {p}
      /\ EraseCases(CasesOf(p))
      /\ owner' = [t \in SessionIds |-> IF t \in SessionsOf(p) THEN None ELSE owner[t]]
      /\ active' = active \ SessionsOf(p)
  BY <1>0 DEF RemoveResponse
<1>2. active \subseteq SessionIds /\ listed \subseteq Devices
  BY DEF IInv, TypeOK
<1>3. \A c \in Devices \ {p} : InFlight(c)' <=> InFlight(c)
  BY <1>1 DEF EraseCases, CasesOf, InFlight
<1>4. \A c \in Devices \ {p} : HasSession(c)' <=> HasSession(c)
  BY <1>1, <1>2 DEF HasSession, SessionsOf
<1>5. \A c \in Devices \ {p} : LinkOf(c)' = LinkOf(c)
  BY <1>1, <1>3, <1>4, SameLink
<1>6. CASE p \in listed
  <2>1. p \in Devices /\ LinkOf(p) # "removed" /\ LinkOf(p)' = "removed"
    BY <1>1, <1>2, <1>6, LinkFacts, LinkFactsNext
  <2> QED
    BY <1>5, <2>1, OneMove
<1>7. CASE p \notin listed
  <2>1. p \in Devices => LinkOf(p)' = LinkOf(p)
    BY <1>1, <1>7, LinkFacts, LinkFactsNext
  <2> QED
    BY <1>5, <2>1, NoMove
<1> QED
  BY <1>6, <1>7

-----------------------------------------------------------------------------
(* At the start every device is listed, so that no link is removed. *)
LEMMA InitLink ==
  ASSUME Init
  PROVE  Link!Init
<1>1. \A d \in Devices : LinkOf(d) \in {"down", "connecting", "up"}
  BY LinkFacts DEF Init
<1> QED
  BY <1>1 DEF Link!Init, LinkState

(* Every step of the connection manager is one of DeviceLink, or none. *)
LEMMA NextLink ==
  ASSUME IInv, [Next]_vars
  PROVE  [Link!Next]_LinkState
<1>1. ASSUME NEW e \in ExchangeIds, CaseSigma2(e)
      PROVE  [Link!Next]_LinkState
  BY <1>1, QuietStep DEF CaseSigma2, deviceVars, sessionVars
<1>2. ASSUME NEW e \in ExchangeIds, NEW s \in SessionIds, CaseEstablished(e, s)
      PROVE  [Link!Next]_LinkState
  BY <1>2, CaseEstablishedLink
<1>3. ASSUME NEW e \in ExchangeIds, NEW mic \in BOOLEAN, CaseFailed(e, mic)
      PROVE  [Link!Next]_LinkState
  BY <1>3, CaseFailedLink
<1>4. ASSUME NEW m \in outbound, MessageAcked(m)
      PROVE  [Link!Next]_LinkState
  BY <1>4, QuietStep DEF MessageAcked, caseVars
<1>5. ASSUME NEW m \in outbound, MessageFailed(m)
      PROVE  [Link!Next]_LinkState
  BY <1>5, MessageFailedLink
<1>6. ASSUME NEW s \in SessionIds, Receive(s)
      PROVE  [Link!Next]_LinkState
  BY <1>6, QuietStep DEF Receive, caseVars
<1>7. ASSUME ReconnectTimeout
      PROVE  [Link!Next]_LinkState
  BY <1>7, ReconnectTimeoutLink
<1>8. ASSUME NEW silent \in SUBSET Devices, PingTimeout(silent)
      PROVE  [Link!Next]_LinkState
  BY <1>8, QuietStep DEF PingTimeout, caseVars, sessionVars
<1>9. ASSUME ThreadUp
      PROVE  [Link!Next]_LinkState
  BY <1>9, QuietStep DEF ThreadUp, caseVars, sessionVars
<1>10. ASSUME NEW d \in Devices, SendCommand(d)
       PROVE  [Link!Next]_LinkState
  BY <1>10, SendCommandLink
<1>11. ASSUME NEW d \in Devices, DiscoverCommand(d)
       PROVE  [Link!Next]_LinkState
  BY <1>11, QuietStep DEF DiscoverCommand, caseVars, sessionVars
<1>12. ASSUME NEW d \in Devices, RemoveFabric(d)
       PROVE  [Link!Next]_LinkState
  BY <1>12, RemoveFabricLink
<1>13. ASSUME NEW d \in Devices, RemoveForced(d)
       PROVE  [Link!Next]_LinkState
  BY <1>13, RemoveForcedLink
<1>14. ASSUME NEW s \in SessionIds, RemoveResponse(s)
       PROVE  [Link!Next]_LinkState
  BY <1>14, RemoveResponseLink
<1>15. ASSUME NEW d \in Devices, Tick(d) \/ PeerReboot(d) \/ PeerSettles(d)
       PROVE  [Link!Next]_LinkState
  BY <1>15, QuietStep DEF Tick, PeerReboot, PeerSettles, deviceVars, caseVars, sessionVars
<1>16. ASSUME UNCHANGED vars
       PROVE  [Link!Next]_LinkState
  BY <1>16, QuietStep DEF vars, deviceVars, caseVars, sessionVars
<1> QED
  BY <1>1, <1>2, <1>3, <1>4, <1>5, <1>6, <1>7, <1>8, <1>9, <1>10, <1>11, <1>12, <1>13,
     <1>14, <1>15, <1>16, ConnectionAssumption DEF Next

(* The connection manager implements DeviceLink: whatever the commands,     *)
(* timers, failures and answers, a link comes up only out of an attempt of  *)
(* its own, and nobody is brought back once removed.                        *)
THEOREM ImplementsDeviceLink == Spec => ImplementsLink
<1>1. Init => Link!Init
  BY InitLink
<1>2. IInv /\ [Next]_vars => [Link!Next]_LinkState
  BY NextLink
<1>3. Spec => []IInv
  BY Invariant
<1> QED
  BY <1>1, <1>2, <1>3, PTL DEF Spec, ImplementsLink, Link!Spec
=============================================================================
