---------------------------- MODULE CaseHandshake ----------------------------
(***************************************************************************)
(* CASE with one device (case.cpp), and what matter.cpp does with its      *)
(* outcome: the full handshake of Sigma1, Sigma2, Sigma3 and StatusReport, *)
(* the resumption of an earlier one, the 10 s timer, and the fall back to  *)
(* a full handshake when a resumption turns out to be worth nothing.       *)
(*                                                                         *)
(* Abstractions.  Cryptography is symbolic: a secret is the two ephemeral  *)
(* keys it comes from, a key is what it is derived from, and who knows the *)
(* same secret and has seen the same messages derives the same key.  The   *)
(* random, the ephemeral key and the exchange of an attempt are its        *)
(* number; those of the device count its answers.  Datagrams may be lost,  *)
(* late or out of order, and come to a device twice; the controller drops  *)
(* what it has taken once (module Mrp).  One device has one session here.  *)
(***************************************************************************)
EXTENDS Naturals, Sequences

CONSTANTS
  Quirks,       \* devices: "deaf" to resumed sessions, "wrongMic", "forgetful"
  MaxTroubled,  \* bound: attempts while the network and the device may fail
  MaxAttempts,  \* bound: attempts in all
  MaxRestarts,  \* bound: crashes of the controller, and of the device
  None          \* no attempt, no session, no resumption data

ASSUME CaseHandshakeAssumption ==
  /\ {MaxTroubled, MaxAttempts, MaxRestarts} \subseteq Nat
  /\ MaxTroubled <= MaxAttempts
  /\ None \notin Nat
  /\ Quirks \subseteq {"deaf", "wrongMic", "forgetful"}

VARIABLES
  attempt,      \* CASE attempts so far
  handshake,    \* the CASESession of the pending attempt, or None
  pair,         \* DeviceObject::resumptionID and resumptionSharedSecret
  disk,         \* the same in the database file
  session,      \* the SessionInfo of the device
  validating,   \* SessionInfo::resumptionPendingValidation
  request,      \* a request on the session waits for its ack
  wire,         \* datagrams sent
  answering,    \* device: the handshake it is in
  held,         \* device: keys of the sessions it holds
  peerPair,     \* device: the resumption data it keeps
  taken,        \* device: what it has received since it started
  answers,      \* device: handshakes answered
  quirk,        \* device: what it does wrong
  derived,      \* history: session keys the device has derived
  used,         \* history: keys of the controller's sessions
  calm,         \* environment: no loss, no restart and no refusal any more
  restarts      \* bound

caseVars == <<attempt, handshake>>
deviceVars == <<answering, held, peerPair, taken, answers, derived>>
vars == <<caseVars, pair, disk, session, validating, request, wire, deviceVars,
          quirk, used, calm, restarts>>

-----------------------------------------------------------------------------
(* What is derived from a secret.  In the code: HKDF over a salt.           *)
Secret(a, b) == <<a, b>>
ResumeMic(label, secret, random, id) == <<label, secret, random, id>>
WrongMic == <<"wrong">>
FullKeys(secret, transcript) == <<"SessionKeys", secret, transcript>>
ResumedKeys(secret, random, id) == <<"SessionResumptionKeys", secret, random, id>>

(* Mutant of Random: it is drawn once. *)
RandomOnce(a) == 1
Random(a) == a

Pair(id, secret) == [id |-> id, secret |-> secret]

(* The datagrams.  An attempt that resumes says so in its Sigma1.           *)
Sigma1(a, offered) ==
  [type |-> "Sigma1", exchange |-> a, offered |-> offered]
Offer(a, p) ==
  IF p = None THEN None
  ELSE [id |-> p.id, random |-> Random(a),
        mic |-> ResumeMic("Sigma1_Resume", p.secret, Random(a), p.id)]
Sigma2(a, b, newId, sound) ==
  [type |-> "Sigma2", exchange |-> a, key |-> b, newId |-> newId, sound |-> sound]
Sigma3(a, secret, transcript) ==
  [type |-> "Sigma3", exchange |-> a, sealed |-> <<secret, transcript>>]
Sigma2Resume(a, newId, mic) ==
  [type |-> "Sigma2Resume", exchange |-> a, newId |-> newId, mic |-> mic]
StatusReport(a, ok) == [type |-> "StatusReport", exchange |-> a, ok |-> ok]
(* The controller's own StatusReport, which ends a resumption. *)
Finished(a) == [type |-> "Finished", exchange |-> a]

ToDevice == {"Sigma1", "Sigma3", "Finished"}
ToController == {"Sigma2", "Sigma2Resume", "StatusReport"}

(* The handshake it is in, which it resumes or not. *)
InHandshake(m) ==
  /\ answering # None
  /\ answering.exchange = m.exchange
  /\ (answering.keys # None) <=> (m.type = "Finished")

(* What the other end will still take. *)
Undelivered(m) ==
  /\ m.exchange = attempt
  /\ IF m.type \in ToController THEN handshake # None
     ELSE m \notin taken /\ (m.type = "Sigma1" \/ InHandshake(m))

-----------------------------------------------------------------------------
Init ==
  /\ attempt = 0
  /\ handshake = None
  /\ pair = None
  /\ disk = None
  /\ session = None
  /\ validating = FALSE
  /\ request = FALSE
  /\ wire = {}
  /\ answering = None
  /\ held = {}
  /\ peerPair = None
  /\ taken = {}
  /\ answers = 0
  /\ quirk \in Quirks
  /\ derived = {}
  /\ used = {}
  /\ calm = FALSE
  /\ restarts = 0

-----------------------------------------------------------------------------
(* connectDevice, past its guards, and CASESession::start.  A late answer to *)
(* an earlier attempt is for an exchange handleSecureChannel does not know.  *)
Start ==
  LET a == attempt + 1
      sigma1 == Sigma1(a, Offer(a, pair))
  IN
  /\ session = None
  /\ handshake = None
  /\ a <= IF calm THEN MaxAttempts ELSE MaxTroubled
  /\ attempt' = a
  /\ handshake' = [state |-> "WaitingSigma2", old |-> pair,
                   transcript |-> <<sigma1>>, secret |-> None, newId |-> None,
                   keys |-> None, resumed |-> FALSE]
  /\ wire' = {m \in wire : m.type \in ToDevice} \cup {sigma1}
  /\ UNCHANGED <<pair, disk, session, validating, request, deviceVars, quirk, used,
                 calm, restarts>>

(* Mutant of NewPair: the secret is that of the handshake before. *)
NewPairOldSecret(h) ==
  IF h.newId = None THEN pair
  ELSE Pair(h.newId, IF pair = None THEN h.secret ELSE pair.secret)
NewPair(h) == IF h.newId = None THEN pair ELSE Pair(h.newId, h.secret)

(* caseEstablished: h is the CASESession at its end.  A resumed session is  *)
(* finished with a StatusReport; a request follows (subscribe or discover). *)
CaseEstablished(h) ==
  /\ session' = [keys |-> h.keys, resumed |-> h.resumed]
  /\ validating' = h.resumed
  /\ used' = used \cup {h.keys}
  /\ request' = TRUE
  /\ pair' = NewPair(h)
  /\ handshake' = None

(* Mutants of MicFailed: the resumption data stays, or its secret does. *)
MicFailedKept(p) == p
MicFailedHalf(p) == Pair(None, p.secret)
MicFailed(p) == None

(* caseFailed.  Only a wrong MIC is held against the resumption data. *)
CaseFailed(mic) ==
  /\ handshake' = None
  /\ pair' = IF mic /\ pair # None THEN MicFailed(pair) ELSE pair
  /\ UNCHANGED <<session, validating, request, used>>

(* readyRead and handleSecureChannel: a datagram for the pending attempt. *)
Takes(m) ==
  /\ m \in wire
  /\ handshake # None
  /\ m.exchange = attempt

(* handleSigma2.  sound: its fields are there and it decrypts. *)
HandleSigma2(m) ==
  LET secret == Secret(attempt, m.key)
      seen == Append(handshake.transcript, m)
      sigma3 == Sigma3(attempt, secret, seen)
  IN
  /\ m.type = "Sigma2"
  /\ Takes(m)
  /\ IF handshake.state = "WaitingSigma2" /\ m.sound
     THEN /\ handshake' = [handshake EXCEPT
               !.state = "WaitingStatusReport",
               !.transcript = Append(seen, sigma3),
               !.secret = secret,
               !.newId = m.newId,
               !.keys = FullKeys(secret, Append(seen, sigma3))]
          /\ wire' = (wire \ {m}) \cup {sigma3}
          /\ UNCHANGED <<pair, session, validating, request, used>>
     ELSE CaseFailed(FALSE) /\ wire' = wire \ {m}
  /\ UNCHANGED <<attempt, disk, deviceVars, quirk, calm, restarts>>

(* Mutant of ResumeKeys: the salt is the new resumption ID, as in the MIC. *)
ResumeKeysOfNew(old, a, newId) == ResumedKeys(old.secret, Random(a), newId)
ResumeKeys(old, a, newId) == ResumedKeys(old.secret, Random(a), old.id)

(* handleSigma2Resume. *)
HandleSigma2Resume(m) ==
  LET old == handshake.old
      right == /\ handshake.state = "WaitingSigma2"
               /\ old # None
  IN
  /\ m.type = "Sigma2Resume"
  /\ Takes(m)
  /\ IF right /\ m.mic = ResumeMic("Sigma2_Resume", old.secret, Random(attempt), m.newId)
     THEN /\ CaseEstablished([handshake EXCEPT
               !.state = "Established",
               !.secret = old.secret,
               !.newId = m.newId,
               !.keys = ResumeKeys(old, attempt, m.newId),
               !.resumed = TRUE])
          /\ wire' = (wire \ {m}) \cup {Finished(attempt)}
     ELSE CaseFailed(right) /\ wire' = wire \ {m}
  /\ UNCHANGED <<attempt, disk, deviceVars, quirk, calm, restarts>>

Ends(m) == m.ok /\ handshake.state = "WaitingStatusReport"

(* handleStatusReport. *)
HandleStatusReport(m) ==
  /\ m.type = "StatusReport"
  /\ Takes(m)
  /\ IF Ends(m) THEN CaseEstablished([handshake EXCEPT !.state = "Established"])
                ELSE CaseFailed(FALSE)
  /\ wire' = wire \ {m}
  /\ UNCHANGED <<attempt, disk, deviceVars, quirk, calm, restarts>>

(* CASESession::timeout, or MRP that gives up on a Sigma1 or Sigma3         *)
(* (mrpRetransmitFailed with the exchange of a pending attempt).            *)
GiveUp ==
  /\ handshake # None
  /\ calm => ~\E m \in wire : Undelivered(m)
  /\ CaseFailed(FALSE)
  /\ UNCHANGED <<attempt, disk, wire, deviceVars, quirk, calm, restarts>>

-----------------------------------------------------------------------------
(* The device has the session and serves it. *)
Serves ==
  /\ session # None
  /\ session.keys \in held
  /\ ~(quirk = "deaf" /\ session.resumed)

(* Its answer to a request: a datagram that decrypts. *)
Answered ==
  /\ request
  /\ Serves
  /\ request' = FALSE
  /\ validating' = FALSE
  /\ UNCHANGED <<caseVars, pair, disk, session, wire, deviceVars, quirk, used, calm,
                 restarts>>

(* mrpRetransmitFailed: the first message of a resumed session is lost. *)
Distrust(p) == IF validating THEN None ELSE p

(* MRP gives up on a request: the session goes, a resumption that never     *)
(* proved itself with it.                                                   *)
Unreachable ==
  /\ request
  /\ calm => ~Serves /\ ~\E m \in wire : Undelivered(m)
  /\ pair' = Distrust(pair)
  /\ session' = None
  /\ validating' = FALSE
  /\ request' = FALSE
  /\ UNCHANGED <<caseVars, disk, wire, deviceVars, quirk, used, calm, restarts>>

(* A ping or a command on the session. *)
Ask ==
  /\ session # None
  /\ ~request
  /\ request' = TRUE
  /\ UNCHANGED <<caseVars, pair, disk, session, validating, wire, deviceVars, quirk,
                 used, calm, restarts>>

(* writeDatabase, 20 ms after the latest store that asked for it.         *)
WriteDatabase ==
  /\ ~calm
  /\ disk # pair
  /\ disk' = pair
  /\ UNCHANGED <<caseVars, pair, session, validating, request, wire, deviceVars,
                 quirk, used, calm, restarts>>

(* The controller stops without writing, and starts. *)
Crash ==
  /\ ~calm
  /\ restarts < MaxRestarts
  /\ restarts' = restarts + 1
  /\ handshake' = None
  /\ pair' = disk
  /\ session' = None
  /\ validating' = FALSE
  /\ request' = FALSE
  /\ UNCHANGED <<attempt, disk, wire, deviceVars, quirk, used, calm>>

-----------------------------------------------------------------------------
(* The device.  It answers a Sigma1 in one of three ways, and takes part in *)
(* one handshake at a time, the last.                                       *)
Hears(m) ==
  /\ m \in wire \ taken
  /\ taken' = taken \cup {m}
  /\ UNCHANGED <<caseVars, pair, disk, session, validating, request, quirk, used,
                 calm, restarts>>

(* It knows the resumption ID, and the secret that goes with it. *)
Knows(m) ==
  /\ m.offered # None
  /\ peerPair # None
  /\ m.offered.id = peerPair.id
  /\ m.offered.mic = ResumeMic("Sigma1_Resume", peerPair.secret, m.offered.random, peerPair.id)

DeviceResumes(m) ==
  LET b == answers + 1
      keys == ResumedKeys(peerPair.secret, m.offered.random, peerPair.id)
      mic == IF quirk = "wrongMic" THEN WrongMic
             ELSE ResumeMic("Sigma2_Resume", peerPair.secret, m.offered.random, b)
  IN
  /\ m.type = "Sigma1"
  /\ Hears(m)
  /\ Knows(m)
  /\ answers' = b
  /\ answering' = [exchange |-> m.exchange, keys |-> keys, transcript |-> <<m>>,
                   pair |-> Pair(b, peerPair.secret)]
  /\ derived' = derived \cup {keys}
  /\ wire' = wire \cup {Sigma2Resume(m.exchange, b, mic)}
  /\ UNCHANGED <<held, peerPair>>

(* newId: a resumption ID, which a forgetful device may leave out. *)
DeviceAnswers(m) ==
  LET b == answers + 1 IN
  \E newId \in {b} \cup IF quirk = "forgetful" THEN {None} ELSE {} :
    LET sigma2 == Sigma2(m.exchange, b, newId, TRUE) IN
    /\ m.type = "Sigma1"
    /\ Hears(m)
    /\ ~(Knows(m) /\ calm)
    /\ answers' = b
    /\ answering' = [exchange |-> m.exchange, keys |-> None,
                     transcript |-> <<m, sigma2>>, pair |-> Pair(newId, Secret(m.exchange, b))]
    /\ wire' = wire \cup {sigma2}
    /\ UNCHANGED <<held, peerPair, derived>>

(* It is busy, or sends what the controller does not understand. *)
DeviceRefuses(m) ==
  /\ m.type = "Sigma1"
  /\ Hears(m)
  /\ ~calm
  /\ \E answer \in {StatusReport(m.exchange, FALSE), Sigma2(m.exchange, None, None, FALSE)} :
       wire' = wire \cup {answer}
  /\ UNCHANGED <<answering, held, peerPair, answers, derived>>

(* Sigma3: the device decrypts it if it has seen the same handshake. *)
DeviceEnds(m) ==
  LET h == answering
      keys == FullKeys(h.pair.secret, Append(h.transcript, m))
      ok == m.sealed = <<h.pair.secret, h.transcript>>
  IN
  /\ m.type = "Sigma3"
  /\ Hears(m)
  /\ InHandshake(m)
  /\ answering' = None
  /\ wire' = wire \cup {StatusReport(m.exchange, ok)}
  /\ held' = IF ok THEN held \cup {keys} ELSE held
  /\ derived' = IF ok THEN derived \cup {keys} ELSE derived
  /\ peerPair' = IF ok /\ h.pair.id # None THEN h.pair ELSE peerPair
  /\ UNCHANGED answers

DeviceFinishes(m) ==
  LET h == answering IN
  /\ m.type = "Finished"
  /\ Hears(m)
  /\ InHandshake(m)
  /\ answering' = None
  /\ held' = held \cup {h.keys}
  /\ peerPair' = h.pair
  /\ UNCHANGED <<answers, derived, wire>>

(* It forgets its sessions and may forget its resumption data. *)
DeviceRestarts ==
  /\ ~calm
  /\ restarts < MaxRestarts
  /\ restarts' = restarts + 1
  /\ answering' = None
  /\ held' = {}
  /\ peerPair' \in {peerPair, None}
  /\ taken' = {}
  /\ UNCHANGED <<caseVars, pair, disk, session, validating, request, wire, answers,
                 derived, quirk, used, calm>>

(* Nothing is lost, refused or late from here on. *)
Settle ==
  /\ ~calm
  /\ calm' = TRUE
  /\ wire' = {m \in wire : m.exchange = attempt}
  /\ disk' = pair
  /\ UNCHANGED <<caseVars, pair, session, validating, request, deviceVars,
                 quirk, used, restarts>>

-----------------------------------------------------------------------------
Receive == \E m \in wire :
  HandleSigma2(m) \/ HandleSigma2Resume(m) \/ HandleStatusReport(m)

Device == \E m \in wire :
  \/ DeviceResumes(m)
  \/ DeviceAnswers(m)
  \/ DeviceRefuses(m)
  \/ DeviceEnds(m)
  \/ DeviceFinishes(m)

Next ==
  \/ Start
  \/ Receive
  \/ GiveUp
  \/ Answered
  \/ Unreachable
  \/ Ask
  \/ WriteDatabase
  \/ Crash
  \/ Device
  \/ DeviceRestarts
  \/ Settle

Spec == Init /\ [][Next]_vars

(* Once the network is calm what is sent arrives, the reconnect timer starts *)
(* attempts, Qt and MRP end them and the requests, and the ping timer asks a *)
(* mains device: one or the other of these goes on happening.               *)
Fairness ==
  WF_vars(calm /\ \/ Start \/ Receive \/ Device \/ GiveUp
                  \/ Answered \/ Unreachable \/ Ask)

-----------------------------------------------------------------------------
Secrets == (1..MaxAttempts) \X Nat
Pairs == [id : Nat, secret : Secrets]

TypeOK ==
  /\ attempt \in 0..MaxAttempts
  /\ handshake # None =>
       /\ handshake.state \in {"WaitingSigma2", "WaitingStatusReport"}
       /\ session = None
  /\ {pair, disk, peerPair} \subseteq Pairs \cup {None}
  /\ session # None => session.keys \in used
  /\ {validating, request, calm} \subseteq BOOLEAN
  /\ \A m \in wire : m.type \in ToDevice \cup ToController /\ m.exchange \in 1..attempt
  /\ \A m \in taken : m.type \in ToDevice
  /\ answers \in Nat
  /\ restarts \in 0..MaxRestarts

(* Both ends derive the same keys: a session of the controller has keys the *)
(* device derived from the same handshake (deriveKeys of handleSigma2 and   *)
(* handleSigma2Resume), whatever was lost, late or answered twice.          *)
KeysAgree == session # None => session.keys \in derived

(* A resumption ID that both ends keep stands for the same secret, also     *)
(* when the controller has fallen back to the one in its file: a device     *)
(* that knows the ID can then always verify the attempt.                    *)
PairsAgree ==
  \A p \in {pair, disk} \ {None} :
    peerPair # None /\ peerPair.id = p.id => peerPair.secret = p.secret

(* What IInv adds: a message under way says the truth to the handshake that  *)
(* waits for it.  An answer to an earlier attempt does not count.            *)
Pending(m) == handshake # None /\ m.exchange = attempt

HandshakeShape ==
  handshake # None =>
    /\ handshake = [f \in DOMAIN handshake |-> handshake[f]]
    /\ DOMAIN handshake = {"state", "old", "transcript", "secret", "newId", "keys",
                            "resumed"}
    /\ handshake.resumed = FALSE

OfferKept ==
  \A m \in wire :
    m.type = "Sigma1" /\ Pending(m) => m.offered = Offer(attempt, handshake.old)

ResumeAnswered ==
  \A m \in wire :
    /\ m.type = "Sigma2Resume" /\ Pending(m) /\ handshake.old # None
    /\ m.mic = ResumeMic("Sigma2_Resume", handshake.old.secret, Random(attempt), m.newId)
    => ResumeKeys(handshake.old, attempt, m.newId) \in derived

Sigma3Sealed ==
  \A m \in wire :
    m.type = "Sigma3" /\ Pending(m) =>
      /\ handshake.state = "WaitingStatusReport"
      /\ handshake.keys = FullKeys(m.sealed[1], Append(m.sealed[2], m))

ReportTrue ==
  \A m \in wire :
    m.type = "StatusReport" /\ Pending(m) /\ m.ok =>
      /\ handshake.state = "WaitingStatusReport"
      /\ handshake.keys \in derived

(* Every resumption ID about, and the secret it stands for. *)
PairsAbout ==
  {p \in {pair, disk, peerPair} : p # None} \cup
  {h.pair : h \in {k \in {answering} : k # None /\ k.pair.id # None}} \cup
  {Pair(h.newId, h.secret) : h \in {k \in {handshake} : k # None /\ k.newId # None}} \cup
  {Pair(m.newId, Secret(m.exchange, m.key)) :
     m \in {k \in wire : k.type = "Sigma2" /\ k.newId # None}} \cup
  {Pair(m.newId, m.mic[2]) :
     m \in {k \in wire : k.type = "Sigma2Resume" /\ k.mic # WrongMic}}

Numbered == PairsAbout \subseteq [id : 1..answers, secret : Secrets]
Consistent == \A p, q \in PairsAbout : p.id = q.id => p.secret = q.secret
Resumes == answering # None /\ answering.keys # None => answering.pair.id \in Nat

(* Keys are of the attempt that made them. *)
Of(keys, a) ==
  \/ keys[1] = "SessionKeys" /\ keys[2][1] = a
  \/ keys[1] = "SessionResumptionKeys" /\ keys[3] = Random(a)
KeysDated ==
  /\ \A k \in used : \E a \in 1..attempt :
       Of(k, a) /\ (handshake # None => a < attempt)
  /\ handshake # None /\ handshake.state = "WaitingStatusReport" =>
       handshake.keys[1] = "SessionKeys" /\ handshake.keys[2][1] = attempt

IInv ==
  /\ TypeOK
  /\ HandshakeShape
  /\ OfferKept
  /\ ResumeAnswered
  /\ Sigma3Sealed
  /\ ReportTrue
  /\ KeysAgree
  /\ Numbered
  /\ Consistent
  /\ Resumes
  /\ KeysDated

(* A session counts its messages from 1 again, so its keys must be keys     *)
(* never used before, though a crash brings back resumption data that       *)
(* served already.                                                          *)
KeysNew == [][session' # session /\ session' # None => session'.keys \notin used]_vars

(* Once nothing is lost any more the controller gets a session that works,  *)
(* with a device that resumes and then does not listen, or that answers a   *)
(* resumption wrongly: it does not try the same resumption for ever (the    *)
(* comments of caseFailed and mrpRetransmitFailed).                         *)
Recovers == calm ~> [](session # None /\ ~validating /\ session.keys \in held)
=============================================================================
