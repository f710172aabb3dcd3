------------------------ MODULE CaseHandshake_proofs ------------------------
(***************************************************************************)
(* Proofs about CaseHandshake, for every set of quirks and every bound:    *)
(* the inductive invariant IInv, with it the types, KeysAgree, PairsAgree  *)
(* and KeysNew.                                                            *)
(***************************************************************************)
EXTENDS CaseHandshake, TLAPS

(* The resumption IDs about, one place at a time. *)
LEMMA AboutFacts ==
  \A p : p \in PairsAbout <=>
    \/ p # None /\ (p = pair \/ p = disk \/ p = peerPair)
    \/ answering # None /\ answering.pair.id # None /\ p = answering.pair
    \/ /\ handshake # None /\ handshake.newId # None
       /\ p = Pair(handshake.newId, handshake.secret)
    \/ \E m \in wire : /\ m.type = "Sigma2" /\ m.newId # None
                       /\ p = Pair(m.newId, Secret(m.exchange, m.key))
    \/ \E m \in wire : /\ m.type = "Sigma2Resume" /\ m.mic # WrongMic
                       /\ p = Pair(m.newId, m.mic[2])
BY DEF PairsAbout

(* Pairs that disappear leave the rest in order. *)
LEMMA FewerPairs ==
  ASSUME Numbered, Consistent, PairsAbout' \subseteq PairsAbout, answers' = answers
  PROVE  Numbered' /\ Consistent'
BY DEF Numbered, Consistent, Secrets

(* So does a pair with a new resumption ID. *)
LEMMA NewPairOnly ==
  ASSUME Numbered, Consistent, answers \in Nat, answers' = answers + 1,
         NEW q, q.id = answers', q \in [id : Nat, secret : Secrets],
         PairsAbout' \subseteq PairsAbout \cup {q}
  PROVE  Numbered' /\ Consistent'
<1>1. \A p \in PairsAbout : p.id \in 1..answers /\ p.id # q.id
  BY DEF Numbered
<1>2. q \in [id : 1..answers', secret : Secrets]
  BY DEF Secrets
<1>3. PairsAbout \subseteq [id : 1..answers', secret : Secrets]
  BY DEF Numbered
<1>4. Numbered'
  BY <1>2, <1>3 DEF Numbered, Secrets
<1>5. Consistent'
  BY <1>1 DEF Consistent
<1> QED
  BY <1>4, <1>5

-----------------------------------------------------------------------------
(* What only loses - an attempt, a session, a datagram, resumption data -    *)
(* keeps the invariant.                                                      *)
LEMMA Losing ==
  ASSUME IInv,
         attempt' = attempt, answers' = answers, derived' = derived, used' = used,
         handshake' \in {handshake, None}, answering' \in {answering, None},
         session' \in {session, None}, wire' \subseteq wire, taken' \subseteq taken,
         pair' \in {pair, disk, None}, disk' \in {disk, pair},
         peerPair' \in {peerPair, None},
         {validating', request', calm'} \subseteq BOOLEAN,
         restarts' \in 0..MaxRestarts
  PROVE  IInv'
<1> USE DEF IInv
<1>1. TypeOK'
  BY DEF TypeOK, Pairs, Secrets, ToDevice, ToController
<1>2. HandshakeShape'
  BY DEF HandshakeShape
<1>3. OfferKept'
  BY DEF OfferKept, Pending, Offer, ResumeMic, Random
<1>4. ResumeAnswered'
  BY DEF ResumeAnswered, Pending, ResumeMic, Random, ResumeKeys, ResumedKeys
<1>5. Sigma3Sealed'
  BY DEF Sigma3Sealed, Pending, FullKeys
<1>6. ReportTrue'
  BY DEF ReportTrue, Pending
<1>7. KeysAgree'
  BY DEF KeysAgree
<1>8. PairsAbout' \subseteq PairsAbout
  <2> SUFFICES ASSUME NEW p \in PairsAbout' PROVE p \in PairsAbout
    OBVIOUS
  <2>1. (\/ p # None /\ (p = pair \/ p = disk \/ p = peerPair)
         \/ answering # None /\ answering.pair.id # None /\ p = answering.pair
         \/ /\ handshake # None /\ handshake.newId # None
            /\ p = Pair(handshake.newId, handshake.secret)
         \/ \E m \in wire : /\ m.type = "Sigma2" /\ m.newId # None
                            /\ p = Pair(m.newId, Secret(m.exchange, m.key))
         \/ \E m \in wire : /\ m.type = "Sigma2Resume" /\ m.mic # WrongMic
                            /\ p = Pair(m.newId, m.mic[2]))'
    BY DEF PairsAbout
  <2> QED
    BY <2>1, AboutFacts DEF Pair, Secret, WrongMic
<1>9. Numbered' /\ Consistent'
  BY <1>8, FewerPairs
<1>10. Resumes'
  BY DEF Resumes
<1>11. KeysDated'
  BY DEF KeysDated, Of, Random
<1> QED
  BY <1>1, <1>2, <1>3, <1>4, <1>5, <1>6, <1>7, <1>9, <1>10, <1>11

(* An attempt that fails, and the steps of matter.cpp and of the world that *)
(* only lose.                                                               *)
LEMMA Failing ==
  ASSUME IInv, NEW mic, CaseFailed(mic), wire' \subseteq wire,
         UNCHANGED <<attempt, disk, deviceVars, quirk, calm, restarts>>
  PROVE  IInv'
<1>1. pair' \in {pair, disk, None}
  BY DEF CaseFailed, MicFailed
<1>2. TypeOK
  BY DEF IInv
<1> QED
  BY <1>1, <1>2, Losing DEF CaseFailed, deviceVars, TypeOK

LEMMA LosingSteps ==
  ASSUME IInv,
         GiveUp \/ Answered \/ Unreachable \/ Ask \/ WriteDatabase \/ Crash
         \/ DeviceRestarts \/ Settle
  PROVE  IInv'
<1>1. TypeOK
  BY DEF IInv
<1>2. CASE GiveUp
  BY <1>2, Failing DEF GiveUp
<1>3. CASE Answered
  BY <1>1, <1>3, Losing DEF Answered, caseVars, deviceVars, TypeOK
<1>4. CASE Unreachable
  BY <1>1, <1>4, Losing DEF Unreachable, Distrust, caseVars, deviceVars, TypeOK
<1>5. CASE Ask
  BY <1>1, <1>5, Losing DEF Ask, caseVars, deviceVars, TypeOK
<1>6. CASE WriteDatabase
  BY <1>1, <1>6, Losing DEF WriteDatabase, caseVars, deviceVars, TypeOK
<1>7. CASE Crash
  <2>1. restarts' \in 0..MaxRestarts
    BY <1>1, <1>7, CaseHandshakeAssumption DEF Crash, TypeOK
  <2> QED
    BY <1>1, <1>7, <2>1, Losing DEF Crash, deviceVars, TypeOK
<1>8. CASE DeviceRestarts
  <2>1. restarts' \in 0..MaxRestarts
    BY <1>1, <1>8, CaseHandshakeAssumption DEF DeviceRestarts, TypeOK
  <2> QED
    BY <1>1, <1>8, <2>1, Losing DEF DeviceRestarts, caseVars, TypeOK
<1>9. CASE Settle
  BY <1>1, <1>9, Losing DEF Settle, caseVars, deviceVars, TypeOK
<1> QED
  BY <1>2, <1>3, <1>4, <1>5, <1>6, <1>7, <1>8, <1>9

-----------------------------------------------------------------------------
(* The controller's steps that gain something. *)

(* A new attempt: no message of an earlier one is for it. *)
LEMMA StartStep ==
  ASSUME IInv, Start
  PROVE  IInv'
<1> DEFINE sigma1 == Sigma1(attempt + 1, Offer(attempt + 1, pair))
<1>1. /\ handshake = None /\ session = None
      /\ attempt' = attempt + 1 /\ attempt' \in 0..MaxAttempts /\ attempt \in Nat
  BY CaseHandshakeAssumption DEF IInv, TypeOK, Start
<1>2. /\ wire' = {m \in wire : m.type \in ToDevice} \cup {sigma1}
      /\ handshake' = [state |-> "WaitingSigma2", old |-> pair,
                       transcript |-> <<sigma1>>, secret |-> None, newId |-> None,
                       keys |-> None, resumed |-> FALSE]
      /\ UNCHANGED <<pair, disk, session, validating, request, deviceVars, quirk, used,
                     calm, restarts>>
  BY DEF Start
<1>3. \A m \in wire' : \/ m = sigma1
                       \/ m.type \in ToDevice /\ m \in wire /\ m.exchange \in 1..attempt
  BY <1>2 DEF IInv, TypeOK
<1>4. sigma1.type = "Sigma1" /\ sigma1.exchange = attempt'
      /\ sigma1.offered = Offer(attempt', pair)
  BY <1>1 DEF Sigma1
<1> HIDE DEF sigma1
<1>5. \A m \in wire' : Pending(m)' => m = sigma1
  BY <1>1, <1>3 DEF Pending
<1>6. TypeOK'
  BY <1>1, <1>2, <1>3, <1>4 DEF IInv, TypeOK, ToDevice, deviceVars
<1>7. HandshakeShape'
  BY <1>2 DEF HandshakeShape
<1>8. OfferKept'
  BY <1>2, <1>4, <1>5 DEF OfferKept
<1>9. ResumeAnswered' /\ Sigma3Sealed' /\ ReportTrue'
  BY <1>4, <1>5 DEF ResumeAnswered, Sigma3Sealed, ReportTrue
<1>10. KeysAgree'
  BY <1>2, <1>1 DEF KeysAgree
<1>11. PairsAbout' \subseteq PairsAbout
  <2> SUFFICES ASSUME NEW p \in PairsAbout' PROVE p \in PairsAbout
    OBVIOUS
  <2>1. handshake'.newId = None
    BY <1>2
  <2>2. \A m \in wire' : m.type # "Sigma2" /\ m.type # "Sigma2Resume"
    BY <1>3, <1>4 DEF ToDevice
  <2>3. \/ p # None /\ (p = pair' \/ p = disk' \/ p = peerPair')
        \/ answering' # None /\ answering'.pair.id # None /\ p = answering'.pair
    BY <2>1, <2>2 DEF PairsAbout
  <2> QED
    BY <2>3, <1>2, AboutFacts DEF deviceVars
<1>12. Numbered' /\ Consistent'
  BY <1>2, <1>11, FewerPairs DEF IInv, deviceVars
<1>13. Resumes'
  BY <1>2 DEF IInv, Resumes, deviceVars
<1>14. KeysDated'
  BY <1>1, <1>2 DEF IInv, KeysDated, Of, Random
<1> QED
  BY <1>6, <1>7, <1>8, <1>9, <1>10, <1>12, <1>13, <1>14 DEF IInv

(* What ends well: the keys are the device's, and of this attempt. *)
LEMMA Establishing ==
  ASSUME IInv, NEW h, NEW m \in wire, handshake # None, m.exchange = attempt,
         CaseEstablished(h), h.resumed \in BOOLEAN,
         h.keys \in derived, Of(h.keys, attempt),
         h.newId # None => Pair(h.newId, h.secret) \in PairsAbout,
         wire' \subseteq wire \cup {Finished(attempt)},
         UNCHANGED <<attempt, disk, deviceVars, quirk, calm, restarts>>
  PROVE  IInv'
<1>1. attempt \in 1..attempt /\ attempt \in 0..MaxAttempts
  BY DEF IInv, TypeOK
<1>2. Finished(attempt).type = "Finished" /\ Finished(attempt).exchange = attempt
  BY DEF Finished
<1>3. PairsAbout \subseteq Pairs
  BY DEF IInv, Numbered, Pairs
<1>4. pair' \in Pairs \cup {None} /\ (pair' # None => pair' \in PairsAbout)
  BY <1>3, AboutFacts DEF CaseEstablished, NewPair, IInv, TypeOK
<1>5. TypeOK'
  <2>1. session'.keys \in used'
    BY DEF CaseEstablished
  <2>2. handshake' = None
    BY DEF CaseEstablished
  <2>3. \A k \in wire' : k.type \in ToDevice \cup ToController /\ k.exchange \in 1..attempt
    BY <1>1, <1>2 DEF IInv, TypeOK, ToDevice
  <2> QED
    BY <2>1, <2>2, <2>3, <1>4 DEF IInv, TypeOK, CaseEstablished, deviceVars
<1>6. /\ HandshakeShape' /\ OfferKept' /\ ResumeAnswered' /\ Sigma3Sealed' /\ ReportTrue'
  BY DEF CaseEstablished, HandshakeShape, OfferKept, ResumeAnswered, Sigma3Sealed,
         ReportTrue, Pending
<1>7. KeysAgree'
  BY DEF CaseEstablished, KeysAgree, deviceVars
<1>8. PairsAbout' \subseteq PairsAbout
  <2> SUFFICES ASSUME NEW p \in PairsAbout' PROVE p \in PairsAbout
    OBVIOUS
  <2>1. \A k \in wire' : k.type \in {"Sigma2", "Sigma2Resume"} => k \in wire
    BY <1>2
  <2>2. \/ p # None /\ (p = pair' \/ p = disk' \/ p = peerPair')
        \/ answering' # None /\ answering'.pair.id # None /\ p = answering'.pair
        \/ \E k \in wire' : /\ k.type = "Sigma2" /\ k.newId # None
                            /\ p = Pair(k.newId, Secret(k.exchange, k.key))
        \/ \E k \in wire' : /\ k.type = "Sigma2Resume" /\ k.mic # WrongMic
                            /\ p = Pair(k.newId, k.mic[2])
    BY DEF PairsAbout, CaseEstablished, Pair, Secret, WrongMic
  <2> QED
    BY <2>1, <2>2, <1>4, AboutFacts DEF deviceVars
<1>9. Numbered' /\ Consistent'
  BY <1>8, FewerPairs DEF IInv, deviceVars
<1>10. Resumes'
  BY DEF IInv, Resumes, deviceVars
<1>11. KeysDated'
  BY <1>1 DEF IInv, KeysDated, CaseEstablished, Of, Random
<1> QED
  BY <1>5, <1>6, <1>7, <1>9, <1>10, <1>11 DEF IInv

(* A sound Sigma2 in time: the Sigma3 that answers it seals what the keys   *)
(* are made of.                                                             *)
LEMMA Sigma2Step ==
  ASSUME IInv, NEW m \in wire, HandleSigma2(m)
  PROVE  IInv'
<1>1. CASE ~(handshake.state = "WaitingSigma2" /\ m.sound)
  <2>1. CaseFailed(FALSE) /\ wire' \subseteq wire
    BY <1>1 DEF HandleSigma2
  <2> QED
    BY <2>1, Failing DEF HandleSigma2
<1>2. CASE handshake.state = "WaitingSigma2" /\ m.sound
  <2> DEFINE secret == Secret(attempt, m.key)
             seen == Append(handshake.transcript, m)
             sigma3 == Sigma3(attempt, secret, seen)
             keys == FullKeys(secret, Append(seen, sigma3))
  <2>1. /\ handshake # None /\ m.type = "Sigma2" /\ m.exchange = attempt
        /\ handshake' = [handshake EXCEPT
             !.state = "WaitingStatusReport",
             !.transcript = Append(seen, sigma3),
             !.secret = secret,
             !.newId = m.newId,
             !.keys = keys]
        /\ wire' = (wire \ {m}) \cup {sigma3}
        /\ UNCHANGED <<pair, session, validating, request, used>>
        /\ UNCHANGED <<attempt, disk, deviceVars, quirk, calm, restarts>>
    BY <1>2 DEF HandleSigma2, Takes
  <2>2. /\ sigma3.type = "Sigma3" /\ sigma3.exchange = attempt
        /\ sigma3.sealed[1] = secret /\ sigma3.sealed[2] = seen
    BY DEF Sigma3
  <2>3. keys[1] = "SessionKeys" /\ keys[2][1] = attempt
    BY DEF FullKeys, Secret
  <2>4. attempt \in 1..attempt /\ session = None
    BY <2>1 DEF IInv, TypeOK
  <2>5. keys = FullKeys(sigma3.sealed[1], Append(sigma3.sealed[2], sigma3))
    BY <2>2
  <2> HIDE DEF sigma3, keys, secret, seen
  <2>6. /\ handshake'.state = "WaitingStatusReport" /\ handshake'.old = handshake.old
        /\ handshake'.secret = secret /\ handshake'.newId = m.newId
        /\ handshake'.keys = keys /\ handshake'.resumed = handshake.resumed
    BY <2>1 DEF IInv, HandshakeShape
  <2>7. HandshakeShape'
    <3>1. /\ handshake' = [f \in DOMAIN handshake' |-> handshake'[f]]
          /\ DOMAIN handshake' = DOMAIN handshake
      BY <2>1
    <3> QED
      BY <2>1, <2>6, <3>1 DEF IInv, HandshakeShape
  <2>8. TypeOK'
    <3>1. \A k \in wire' : k.type \in ToDevice \cup ToController /\ k.exchange \in 1..attempt
      BY <2>1, <2>2, <2>4 DEF IInv, TypeOK, ToDevice
    <3> QED
      BY <2>1, <2>4, <2>6, <3>1 DEF IInv, TypeOK, deviceVars
  <2>9. OfferKept'
    BY <2>1, <2>2, <2>6 DEF IInv, OfferKept, Pending
  <2>10. ResumeAnswered'
    BY <2>1, <2>2, <2>6 DEF IInv, ResumeAnswered, Pending, deviceVars
  <2>11. Sigma3Sealed'
    BY <1>2, <2>1, <2>2, <2>5, <2>6 DEF IInv, Sigma3Sealed, Pending
  <2>12. ReportTrue'
    BY <1>2, <2>1, <2>2, <2>6 DEF IInv, ReportTrue, Pending
  <2>13. KeysAgree'
    BY <2>1 DEF IInv, KeysAgree, deviceVars
  <2>14. PairsAbout' \subseteq PairsAbout
    <3> SUFFICES ASSUME NEW p \in PairsAbout' PROVE p \in PairsAbout
      OBVIOUS
    <3>1. \A k \in wire' : k.type \in {"Sigma2", "Sigma2Resume"} => k \in wire
      BY <2>1, <2>2
    <3>2. \/ p # None /\ (p = pair' \/ p = disk' \/ p = peerPair')
          \/ answering' # None /\ answering'.pair.id # None /\ p = answering'.pair
          \/ handshake'.newId # None /\ p = Pair(handshake'.newId, handshake'.secret)
          \/ \E k \in wire' : /\ k.type = "Sigma2" /\ k.newId # None
                              /\ p = Pair(k.newId, Secret(k.exchange, k.key))
          \/ \E k \in wire' : /\ k.type = "Sigma2Resume" /\ k.mic # WrongMic
                              /\ p = Pair(k.newId, k.mic[2])
      BY DEF PairsAbout, Pair, Secret, WrongMic
    <3>3. handshake'.newId # None => Pair(handshake'.newId, handshake'.secret) \in PairsAbout
      BY <2>1, <2>6, AboutFacts DEF secret
    <3>4. UNCHANGED <<pair, disk, peerPair, answering>>
      BY <2>1 DEF deviceVars
    <3>5. CASE p # None /\ (p = pair' \/ p = disk' \/ p = peerPair')
      BY <3>4, <3>5, AboutFacts
    <3>6. CASE answering' # None /\ answering'.pair.id # None /\ p = answering'.pair
      BY <3>4, <3>6, AboutFacts
    <3> QED
      BY <3>1, <3>2, <3>3, <3>5, <3>6, AboutFacts
  <2>15. Numbered' /\ Consistent'
    BY <2>1, <2>14, FewerPairs DEF IInv, deviceVars
  <2>16. Resumes'
    BY <2>1 DEF IInv, Resumes, deviceVars
  <2>17. KeysDated'
    BY <2>1, <2>3, <2>6 DEF IInv, KeysDated, Of, Random
  <2> QED
    BY <2>7, <2>8, <2>9, <2>10, <2>11, <2>12, <2>13, <2>15, <2>16, <2>17 DEF IInv
<1> QED
  BY <1>1, <1>2

(* A resumption the device agrees to. *)
LEMMA Sigma2ResumeStep ==
  ASSUME IInv, NEW m \in wire, HandleSigma2Resume(m)
  PROVE  IInv'
<1> DEFINE old == handshake.old
           right == handshake.state = "WaitingSigma2" /\ old # None
           mic == ResumeMic("Sigma2_Resume", old.secret, Random(attempt), m.newId)
<1>1. CASE ~(right /\ m.mic = mic)
  <2>1. CaseFailed(right) /\ wire' \subseteq wire
    BY <1>1 DEF HandleSigma2Resume
  <2> QED
    BY <2>1, Failing DEF HandleSigma2Resume
<1>2. CASE right /\ m.mic = mic
  <2> DEFINE keys == ResumeKeys(old, attempt, m.newId)
             h == [handshake EXCEPT
                     !.state = "Established", !.secret = old.secret, !.newId = m.newId,
                     !.keys = keys, !.resumed = TRUE]
  <2>1. /\ handshake # None /\ m.type = "Sigma2Resume" /\ m.exchange = attempt
        /\ CaseEstablished(h)
        /\ wire' \subseteq wire \cup {Finished(attempt)}
        /\ UNCHANGED <<attempt, disk, deviceVars, quirk, calm, restarts>>
    BY <1>2 DEF HandleSigma2Resume, Takes
  <2>2. keys \in derived
    BY <1>2, <2>1 DEF IInv, ResumeAnswered, Pending
  <2>3. Of(keys, attempt)
    BY DEF ResumeKeys, ResumedKeys, Of
  <2>4. Pair(m.newId, old.secret) \in PairsAbout
    <3>1. m.mic # WrongMic
      <4>1. mic[2] = old.secret /\ Len(mic) = 4 /\ Len(WrongMic) = 1
        BY DEF ResumeMic, WrongMic
      <4> QED
        BY <1>2, <4>1
    <3>2. m.mic[2] = old.secret
      BY <1>2 DEF ResumeMic
    <3> QED
      BY <2>1, <3>1, <3>2, AboutFacts
  <2> HIDE DEF keys
  <2>5. h.resumed = TRUE /\ h.keys = keys /\ h.newId = m.newId /\ h.secret = old.secret
    BY <2>1 DEF IInv, HandshakeShape
  <2> HIDE DEF h
  <2> QED
    BY <2>1, <2>2, <2>3, <2>4, <2>5, Establishing
<1> QED
  BY <1>1, <1>2

(* A StatusReport, good or bad. *)
LEMMA StatusReportStep ==
  ASSUME IInv, NEW m \in wire, HandleStatusReport(m)
  PROVE  IInv'
<1>1. CASE ~Ends(m)
  <2>1. CaseFailed(FALSE) /\ wire' \subseteq wire
    BY <1>1 DEF HandleStatusReport
  <2> QED
    BY <2>1, Failing DEF HandleStatusReport
<1>2. CASE Ends(m)
  <2> DEFINE h == [handshake EXCEPT !.state = "Established"]
  <2>1. /\ handshake # None /\ m.type = "StatusReport" /\ m.exchange = attempt /\ m.ok
        /\ handshake.state = "WaitingStatusReport"
        /\ CaseEstablished(h)
        /\ wire' \subseteq wire
        /\ UNCHANGED <<attempt, disk, deviceVars, quirk, calm, restarts>>
    BY <1>2 DEF HandleStatusReport, Takes, Ends
  <2>2. handshake.keys \in derived
    BY <2>1 DEF IInv, ReportTrue, Pending
  <2>3. Of(handshake.keys, attempt)
    BY <2>1 DEF IInv, KeysDated, Of
  <2>4. handshake.newId # None => Pair(handshake.newId, handshake.secret) \in PairsAbout
    BY <2>1, AboutFacts
  <2>5. /\ h.resumed = FALSE /\ h.keys = handshake.keys
        /\ h.newId = handshake.newId /\ h.secret = handshake.secret
    BY <2>1 DEF IInv, HandshakeShape
  <2> HIDE DEF h
  <2> QED
    BY <2>1, <2>2, <2>3, <2>4, <2>5, Establishing
<1> QED
  BY <1>1, <1>2

-----------------------------------------------------------------------------
(* What the device adds: an answer that is true, and no resumption ID that   *)
(* stands for two secrets.                                                   *)
LEMMA Answering ==
  ASSUME IInv, NEW m \in wire, m.type \in ToDevice, Hears(m),
         derived \subseteq derived', wire \subseteq wire',
         answers' \in Nat, peerPair' \in Pairs \cup {None},
         Numbered', Consistent', Resumes',
         \A w \in wire' \ wire :
           /\ w.type \in ToController /\ w.exchange \in 1..attempt
           /\ w.type = "Sigma2Resume" /\ Pending(w) /\ handshake.old # None
              /\ w.mic = ResumeMic("Sigma2_Resume", handshake.old.secret,
                                   Random(attempt), w.newId)
              => ResumeKeys(handshake.old, attempt, w.newId) \in derived'
           /\ w.type = "StatusReport" /\ Pending(w) /\ w.ok =>
                handshake.state = "WaitingStatusReport" /\ handshake.keys \in derived'
  PROVE  IInv'
<1>1. UNCHANGED <<caseVars, pair, disk, session, validating, request, quirk, used,
                  calm, restarts>>
  BY DEF Hears
<1>2. TypeOK'
  BY <1>1 DEF IInv, TypeOK, Hears, caseVars
<1>3. HandshakeShape'
  BY <1>1 DEF IInv, HandshakeShape, caseVars
<1>4. OfferKept' /\ Sigma3Sealed'
  BY <1>1 DEF IInv, OfferKept, Sigma3Sealed, Pending, caseVars, ToController
<1>5. ResumeAnswered'
  BY <1>1 DEF IInv, ResumeAnswered, Pending, caseVars
<1>6. ReportTrue'
  BY <1>1 DEF IInv, ReportTrue, Pending, caseVars
<1>7. KeysAgree' /\ KeysDated'
  BY <1>1 DEF IInv, KeysAgree, KeysDated, caseVars
<1> QED
  BY <1>2, <1>3, <1>4, <1>5, <1>6, <1>7 DEF IInv

(* What the device can do to the resumption IDs about, one place at a time. *)
LEMMA DevicePairs ==
  ASSUME NEW m \in wire, Hears(m), NEW Q,
         peerPair' = None \/ peerPair' \in PairsAbout \cup Q,
         answering' # None => answering'.pair.id = None
                              \/ answering'.pair \in PairsAbout \cup Q,
         \A w \in wire' \ wire :
           /\ w.type = "Sigma2" /\ w.newId # None =>
                Pair(w.newId, Secret(w.exchange, w.key)) \in PairsAbout \cup Q
           /\ w.type = "Sigma2Resume" /\ w.mic # WrongMic =>
                Pair(w.newId, w.mic[2]) \in PairsAbout \cup Q
  PROVE  PairsAbout' \subseteq PairsAbout \cup Q
<1> SUFFICES ASSUME NEW p \in PairsAbout' PROVE p \in PairsAbout \cup Q
  OBVIOUS
<1>1. \/ p # None /\ (p = pair' \/ p = disk' \/ p = peerPair')
      \/ answering' # None /\ answering'.pair.id # None /\ p = answering'.pair
      \/ /\ handshake' # None /\ handshake'.newId # None
         /\ p = Pair(handshake'.newId, handshake'.secret)
      \/ \E w \in wire' : /\ w.type = "Sigma2" /\ w.newId # None
                          /\ p = Pair(w.newId, Secret(w.exchange, w.key))
      \/ \E w \in wire' : /\ w.type = "Sigma2Resume" /\ w.mic # WrongMic
                          /\ p = Pair(w.newId, w.mic[2])
  BY DEF PairsAbout, Pair, Secret, WrongMic
<1>2. UNCHANGED <<handshake, pair, disk>>
  BY DEF Hears, caseVars
<1> QED
  BY <1>1, <1>2, AboutFacts

LEMMA DeviceStep ==
  ASSUME IInv, NEW m \in wire,
         DeviceResumes(m) \/ DeviceAnswers(m) \/ DeviceRefuses(m) \/ DeviceEnds(m)
         \/ DeviceFinishes(m)
  PROVE  IInv'
<1> USE CaseHandshakeAssumption
<1> DEFINE b == answers + 1
<1>1. /\ answers \in Nat /\ b \in Nat /\ b # None
      /\ m.exchange \in 1..attempt /\ m.exchange \in 1..MaxAttempts
      /\ peerPair \in Pairs \cup {None} /\ Numbered /\ Consistent
  BY DEF IInv, TypeOK
<1>2. peerPair # None => peerPair \in PairsAbout
  BY AboutFacts
<1>3. answering # None /\ answering.pair.id # None => answering.pair \in PairsAbout
  BY AboutFacts
<1>4. PairsAbout \subseteq Pairs
  BY <1>1 DEF Numbered, Pairs
<1> HIDE DEF b
<1>5. CASE DeviceResumes(m)
  <2> DEFINE keys == ResumedKeys(peerPair.secret, m.offered.random, peerPair.id)
             mic == IF quirk = "wrongMic" THEN WrongMic
                    ELSE ResumeMic("Sigma2_Resume", peerPair.secret, m.offered.random, b)
             q == Pair(b, peerPair.secret)
             w == Sigma2Resume(m.exchange, b, mic)
  <2>1. /\ m.type = "Sigma1" /\ Hears(m) /\ Knows(m) /\ answers' = b
        /\ answering' = [exchange |-> m.exchange, keys |-> keys, transcript |-> <<m>>,
                         pair |-> q]
        /\ derived' = derived \cup {keys} /\ wire' = wire \cup {w}
        /\ UNCHANGED <<held, peerPair>>
    BY <1>5 DEF DeviceResumes, b
  <2>2. /\ w.type = "Sigma2Resume" /\ w.exchange = m.exchange /\ w.newId = b
        /\ w.mic = mic
    BY DEF Sigma2Resume
  <2>3. mic # WrongMic => mic[2] = peerPair.secret
    BY DEF ResumeMic
  <2>4. peerPair \in Pairs
    BY <1>1, <2>1 DEF Knows
  <2>5. q.id = b /\ q \in [id : Nat, secret : Secrets]
    BY <1>1, <2>4 DEF Pair, Pairs
  <2>6. Pending(w) /\ handshake.old # None => ResumeKeys(handshake.old, attempt, b) \in derived'
    <3> SUFFICES ASSUME Pending(w), handshake.old # None
                 PROVE  ResumeKeys(handshake.old, attempt, b) = keys
      BY <2>1
    <3>1. m.offered = Offer(attempt, handshake.old)
      BY <2>1, <2>2 DEF IInv, OfferKept, Pending
    <3>2. /\ m.offered.id = handshake.old.id /\ m.offered.random = Random(attempt)
          /\ m.offered.mic = ResumeMic("Sigma1_Resume", handshake.old.secret,
                                       Random(attempt), handshake.old.id)
      BY <3>1 DEF Offer
    <3>3. peerPair.id = handshake.old.id /\ peerPair.secret = handshake.old.secret
      BY <2>1, <3>2 DEF Knows, ResumeMic
    <3> QED
      BY <3>2, <3>3 DEF ResumeKeys
  <2> HIDE DEF w, mic, keys
  <2>7. PairsAbout' \subseteq PairsAbout \cup {q}
    <3>1. w.mic # WrongMic => Pair(w.newId, w.mic[2]) = q
      BY <2>2, <2>3
    <3>2. peerPair' \in PairsAbout
      BY <1>2, <2>1, <2>4, CaseHandshakeAssumption DEF Knows
    <3>3. answering'.pair = q
      BY <2>1
    <3>4. \A k \in wire' \ wire : k = w
      BY <2>1
    <3> HIDE DEF q
    <3> QED
      BY <2>1, <2>2, <3>1, <3>2, <3>3, <3>4, DevicePairs
  <2> HIDE DEF q
  <2>8. Numbered' /\ Consistent'
    BY <1>1, <2>1, <2>5, <2>7, NewPairOnly DEF b
  <2>9. Resumes'
    BY <1>1, <2>1, <2>5 DEF Resumes
  <2>10. \A k \in wire' \ wire : k = w
    BY <2>1
  <2> QED
    BY <1>1, <2>1, <2>2, <2>6, <2>8, <2>9, <2>10, Answering DEF ToDevice, ToController
<1>6. CASE DeviceAnswers(m)
  <2>1. PICK newId \in {b, None} :
        /\ m.type = "Sigma1" /\ Hears(m) /\ answers' = b
        /\ answering' = [exchange |-> m.exchange, keys |-> None,
                         transcript |-> <<m, Sigma2(m.exchange, b, newId, TRUE)>>,
                         pair |-> Pair(newId, Secret(m.exchange, b))]
        /\ wire' = wire \cup {Sigma2(m.exchange, b, newId, TRUE)}
        /\ UNCHANGED <<held, peerPair, derived>>
    BY <1>6 DEF DeviceAnswers, b
  <2> DEFINE q == Pair(b, Secret(m.exchange, b))
             w == Sigma2(m.exchange, b, newId, TRUE)
  <2>2. /\ w.type = "Sigma2" /\ w.exchange = m.exchange /\ w.newId = newId
        /\ w.key = b
    BY DEF Sigma2
  <2>3. q.id = b /\ q \in [id : Nat, secret : Secrets]
    BY <1>1 DEF Pair, Secret, Secrets
  <2>4. /\ answering'.keys = None
        /\ answering'.pair.id = newId /\ (newId # None => answering'.pair = q)
    BY <2>1 DEF Pair
  <2>5. newId # None => Pair(w.newId, Secret(w.exchange, w.key)) = q
    BY <2>2
  <2>6. wire' = wire \cup {w}
    BY <2>1
  <2> HIDE DEF w, q
  <2>7. PairsAbout' \subseteq PairsAbout \cup {q}
    BY <1>2, <2>1, <2>2, <2>4, <2>5, <2>6, DevicePairs
  <2>8. Numbered' /\ Consistent'
    BY <1>1, <2>1, <2>3, <2>7, NewPairOnly DEF b
  <2>9. Resumes'
    BY <2>4 DEF Resumes
  <2>10. \A k \in wire' \ wire : k = w
    BY <2>6
  <2> QED
    BY <1>1, <2>1, <2>2, <2>6, <2>8, <2>9, <2>10, Answering DEF ToDevice, ToController
<1>7. CASE DeviceRefuses(m)
  <2>1. PICK w \in {StatusReport(m.exchange, FALSE), Sigma2(m.exchange, None, None, FALSE)} :
        wire' = wire \cup {w}
    BY <1>7 DEF DeviceRefuses
  <2>2. /\ m.type = "Sigma1" /\ Hears(m)
        /\ UNCHANGED <<answering, held, peerPair, answers, derived>>
    BY <1>7 DEF DeviceRefuses
  <2>3. /\ w.exchange = m.exchange
        /\ \/ w.type = "StatusReport" /\ w.ok = FALSE
           \/ w.type = "Sigma2" /\ w.newId = None
    BY <2>1 DEF StatusReport, Sigma2
  <2>4. PairsAbout' \subseteq PairsAbout \cup {}
    BY <1>2, <1>3, <2>1, <2>2, <2>3, DevicePairs
  <2>5. Numbered' /\ Consistent'
    BY <1>1, <2>2, <2>4, FewerPairs
  <2>6. Resumes'
    BY <2>2 DEF IInv, Resumes
  <2> QED
    BY <1>1, <2>1, <2>2, <2>3, <2>5, <2>6, Answering DEF ToDevice, ToController
<1>8. CASE DeviceEnds(m)
  <2> DEFINE h == answering
             keys == FullKeys(h.pair.secret, Append(h.transcript, m))
             ok == m.sealed = <<h.pair.secret, h.transcript>>
             w == StatusReport(m.exchange, ok)
  <2>1. /\ m.type = "Sigma3" /\ Hears(m) /\ answering # None
        /\ answering' = None /\ wire' = wire \cup {w}
        /\ derived' = IF ok THEN derived \cup {keys} ELSE derived
        /\ peerPair' = IF ok /\ h.pair.id # None THEN h.pair ELSE peerPair
        /\ UNCHANGED answers
    BY <1>8 DEF DeviceEnds, InHandshake
  <2>2. w.type = "StatusReport" /\ w.exchange = m.exchange /\ w.ok = ok
    BY DEF StatusReport
  <2>3. Pending(w) /\ w.ok =>
          handshake.state = "WaitingStatusReport" /\ handshake.keys \in derived'
    <3> SUFFICES ASSUME Pending(w), ok
                 PROVE  handshake.state = "WaitingStatusReport" /\ handshake.keys = keys
      BY <2>1, <2>2
    <3>1. m.sealed[1] = h.pair.secret /\ m.sealed[2] = h.transcript
      OBVIOUS
    <3> QED
      BY <2>1, <2>2, <3>1 DEF IInv, Sigma3Sealed, Pending
  <2> HIDE DEF w, keys, ok
  <2>4. PairsAbout' \subseteq PairsAbout \cup {}
    BY <1>2, <1>3, <2>1, <2>2, DevicePairs
  <2>5. Numbered' /\ Consistent'
    BY <1>1, <2>1, <2>4, FewerPairs
  <2>6. Resumes'
    BY <2>1 DEF Resumes
  <2>7. peerPair' \in Pairs \cup {None}
    BY <1>1, <1>3, <1>4, <2>1
  <2>8. \A k \in wire' \ wire : k = w
    BY <2>1
  <2> QED
    BY <1>1, <2>1, <2>2, <2>3, <2>5, <2>6, <2>7, <2>8, Answering DEF ToDevice, ToController
<1>9. CASE DeviceFinishes(m)
  <2>1. /\ m.type = "Finished" /\ Hears(m) /\ answering # None /\ answering.keys # None
        /\ answering' = None /\ peerPair' = answering.pair
        /\ UNCHANGED <<answers, derived, wire>>
    BY <1>9 DEF DeviceFinishes, InHandshake
  <2>2. answering.pair \in PairsAbout
    BY <1>1, <1>3, <2>1 DEF IInv, Resumes
  <2>3. PairsAbout' \subseteq PairsAbout \cup {}
    BY <2>1, <2>2, DevicePairs
  <2>4. Numbered' /\ Consistent'
    BY <1>1, <2>1, <2>3, FewerPairs
  <2>5. Resumes'
    BY <2>1 DEF Resumes
  <2>6. peerPair' \in Pairs \cup {None}
    BY <1>4, <2>1, <2>2
  <2> QED
    BY <1>1, <2>1, <2>4, <2>5, <2>6, Answering DEF ToDevice
<1> QED
  BY <1>5, <1>6, <1>7, <1>8, <1>9

-----------------------------------------------------------------------------
(* The invariant at the start, and after each step. *)
LEMMA InitInv == Init => IInv
<1> SUFFICES ASSUME Init PROVE IInv
  OBVIOUS
<1>1. TypeOK
  <2>1. MaxAttempts \in Nat /\ MaxRestarts \in Nat
    BY CaseHandshakeAssumption
  <2>2. {pair, disk, peerPair} \subseteq Pairs \cup {None}
    BY DEF Init
  <2>3. {validating, request, calm} \subseteq BOOLEAN
    BY DEF Init
  <2>4. attempt = 0 /\ restarts = 0 /\ answers = 0
    BY DEF Init
  <2>5. attempt \in 0..MaxAttempts /\ restarts \in 0..MaxRestarts
    BY <2>1, <2>4
  <2>6. wire = {} /\ taken = {} /\ handshake = None /\ session = None
    BY DEF Init
  <2> QED
    BY <2>2, <2>3, <2>4, <2>5, <2>6 DEF TypeOK
<1>2. PairsAbout = {}
  <2> SUFFICES ASSUME NEW p \in PairsAbout PROVE FALSE
    OBVIOUS
  <2> QED
    BY AboutFacts DEF Init
<1>3. Numbered /\ Consistent
  BY <1>2 DEF Numbered, Consistent
<1>4. /\ HandshakeShape /\ OfferKept /\ ResumeAnswered /\ Sigma3Sealed /\ ReportTrue
      /\ KeysAgree /\ Resumes /\ KeysDated
  BY DEF Init, HandshakeShape, OfferKept, ResumeAnswered, Sigma3Sealed, ReportTrue,
         KeysAgree, Resumes, KeysDated
<1> QED
  BY <1>1, <1>3, <1>4 DEF IInv

LEMMA StutterStep ==
  ASSUME IInv, UNCHANGED vars
  PROVE  IInv'
BY Losing DEF IInv, TypeOK, vars, caseVars, deviceVars

LEMMA NextInv ==
  ASSUME IInv, [Next]_vars
  PROVE  IInv'
<1>1. CASE Start
  BY <1>1, StartStep
<1>2. CASE Receive
  BY <1>2, Sigma2Step, Sigma2ResumeStep, StatusReportStep DEF Receive
<1>3. CASE Device
  BY <1>3, DeviceStep DEF Device
<1>4. CASE GiveUp \/ Answered \/ Unreachable \/ Ask \/ WriteDatabase \/ Crash
           \/ DeviceRestarts \/ Settle
  BY <1>4, LosingSteps
<1>5. CASE UNCHANGED vars
  BY <1>5, StutterStep
<1> QED
  BY <1>1, <1>2, <1>3, <1>4, <1>5 DEF Next

(* IInv holds always: what is under way to the pending attempt is true of    *)
(* the keys and the resumption data of both ends.                            *)
THEOREM Invariant == Spec => []IInv
<1>1. IInv /\ [Next]_vars => IInv'
  BY NextInv
<1> QED
  BY InitInv, <1>1, PTL DEF Spec

(* Both ends derive the same keys, whatever was lost, late or answered twice *)
(* (deriveKeys of handleSigma2 and handleSigma2Resume).                      *)
THEOREM KeysAlwaysAgree == Spec => []KeysAgree
<1>1. IInv => KeysAgree
  BY DEF IInv
<1> QED
  BY Invariant, <1>1, PTL

(* A resumption ID that both ends keep stands for the same secret, after any *)
(* number of crashes, restarts and handshakes (caseEstablished, caseFailed). *)
THEOREM PairsAlwaysAgree == Spec => []PairsAgree
<1>1. IInv => PairsAgree
  BY AboutFacts DEF IInv, Consistent, PairsAgree
<1> QED
  BY Invariant, <1>1, PTL

(* The keys of a new session are of the pending attempt; those of the        *)
(* sessions before it are of earlier ones.                                   *)
LEMMA NewKeys ==
  ASSUME IInv, Next, session' # session, session' # None
  PROVE  session'.keys \notin used
<1>1. handshake # None => \A k \in used : ~Of(k, attempt)
  <2> SUFFICES ASSUME handshake # None, NEW k \in used PROVE ~Of(k, attempt)
    OBVIOUS
  <2>1. PICK a \in 1..attempt : Of(k, a) /\ a < attempt
    BY DEF IInv, KeysDated
  <2>2. attempt \in Nat
    BY CaseHandshakeAssumption DEF IInv, TypeOK
  <2> QED
    BY <2>1, <2>2 DEF Of, Random
<1>2. CASE \E m \in wire : HandleSigma2Resume(m)
  <2>1. PICK m \in wire : HandleSigma2Resume(m)
    BY <1>2
  <2> DEFINE keys == ResumeKeys(handshake.old, attempt, m.newId)
             h == [handshake EXCEPT
                     !.state = "Established", !.secret = handshake.old.secret,
                     !.newId = m.newId, !.keys = keys, !.resumed = TRUE]
  <2>2. handshake # None /\ CaseEstablished(h)
    BY <2>1 DEF HandleSigma2Resume, Takes, CaseFailed
  <2>3. Of(keys, attempt)
    BY DEF ResumeKeys, ResumedKeys, Of
  <2> HIDE DEF keys
  <2>4. h.keys = keys
    BY <2>2 DEF IInv, HandshakeShape
  <2> HIDE DEF h
  <2> QED
    BY <1>1, <2>2, <2>3, <2>4 DEF CaseEstablished
<1>3. CASE \E m \in wire : HandleStatusReport(m)
  <2>1. PICK m \in wire : HandleStatusReport(m)
    BY <1>3
  <2> DEFINE h == [handshake EXCEPT !.state = "Established"]
  <2>2. handshake # None /\ handshake.state = "WaitingStatusReport" /\ CaseEstablished(h)
    BY <2>1 DEF HandleStatusReport, Takes, CaseFailed, Ends
  <2>3. Of(handshake.keys, attempt)
    BY <2>2 DEF IInv, KeysDated, Of
  <2>4. h.keys = handshake.keys
    BY <2>2 DEF IInv, HandshakeShape
  <2> HIDE DEF h
  <2> QED
    BY <1>1, <2>2, <2>3, <2>4 DEF CaseEstablished
<1>4. CASE \E m \in wire : HandleSigma2(m)
  BY <1>4 DEF HandleSigma2, CaseFailed
<1>5. CASE Device
  BY <1>5 DEF Device, DeviceResumes, DeviceAnswers, DeviceRefuses, DeviceEnds,
              DeviceFinishes, Hears
<1>6. CASE Start \/ GiveUp \/ Answered \/ Unreachable \/ Ask \/ WriteDatabase \/ Crash
           \/ DeviceRestarts \/ Settle
  BY <1>6 DEF Start, GiveUp, CaseFailed, Answered, Unreachable, Ask, WriteDatabase,
              Crash, DeviceRestarts, Settle
<1> QED
  BY <1>2, <1>3, <1>4, <1>5, <1>6 DEF Next, Receive

(* A new session has keys no session had before: nothing that a crash brings *)
(* back from the file leads to the same ones again (caseEstablished).        *)
THEOREM KeysAlwaysNew == Spec => KeysNew
<1>1. IInv /\ [Next]_vars =>
        [session' # session /\ session' # None => session'.keys \notin used]_vars
  BY NewKeys
<1> QED
  BY Invariant, <1>1, PTL DEF Spec, KeysNew

=============================================================================
