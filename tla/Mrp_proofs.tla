----------------------------- MODULE Mrp_proofs -----------------------------
(***************************************************************************)
(* Proofs about Mrp, for every set of peers at addresses of their own and  *)
(* every bound: the inductive invariant IInv, with it the types and        *)
(* AckMatches.                                                             *)
(***************************************************************************)
EXTENDS Mrp, FiniteSetTheorems, TLAPS

(* A message is known by its peer, its session and its counter. *)
LEMMA OneMessage ==
  ASSUME Numbered, sent \in Nat, NEW i \in 1..sent, NEW j \in 1..sent,
         msg[i].peer = msg[j].peer, msg[i].session = msg[j].session,
         msg[i].counter = msg[j].counter
  PROVE  i = j
<1>1. msg[i].session \in Nat /\ msg[i].counter \in Nat
  BY DEF Numbered, Message
<1>2. ~(i < j) /\ ~(j < i)
  BY <1>1 DEF Numbered
<1> QED
  BY <1>2

(* What is heard of a message is of one that was sent and acked. *)
LEMMA Heard ==
  ASSUME TypeOK, Numbered, AcksTrue, NEW k \in wire, NEW i \in 1..sent, AcksIt(k, i)
  PROVE  i \in got
<1>1. sent \in Nat
  BY MrpAssumption DEF TypeOK
<1>2. k.ack # 0
  BY DEF AcksIt, Numbered, Message
<1>3. PICK j \in got : AcksIt(k, j)
  BY <1>2 DEF AcksTrue
<1>4. j \in 1..sent
  BY <1>3 DEF AcksTrue
<1> QED
  BY <1>1, <1>3, <1>4, OneMessage DEF AcksIt

(* sendEncrypted: the new message is the last, and like none before it. *)
LEMMA Transmitting ==
  ASSUME TypeOK, Numbered, NEW p \in Peers, NEW out, Transmit(p, out),
         out \in [Ids -> {"unsent", "pending", "acked", "failed"}],
         \A i \in Ids : i > sent => out[i] = "unsent",
         UNCHANGED session
  PROVE  /\ sent' = sent + 1 /\ sent' \in 0..MaxSent /\ sent' \in Ids
         /\ counter' \in [Peers -> Nat]
         /\ msg' \in [Ids -> Message \cup {None}]
         /\ outcome' \in [Ids -> {"unsent", "pending", "acked", "failed"}]
         /\ \A i \in 1..sent : msg'[i] = msg[i] /\ outcome'[i] = out[i]
         /\ \A i \in 1..sent : ~(/\ msg'[sent'].peer = msg[i].peer
                                 /\ msg'[sent'].session = msg[i].session
                                 /\ msg'[sent'].counter = msg[i].counter)
         /\ msg'[sent'].counter > 0 /\ outcome'[sent'] = "pending"
         /\ Numbered'
<1> DEFINE new == [peer |-> p, session |-> session[p], counter |-> counter[p] + 1]
<1>1. /\ sent < MaxSent /\ sent' = sent + 1
      /\ counter' = [counter EXCEPT ![p] = @ + 1]
      /\ msg' = [msg EXCEPT ![sent + 1] = new]
      /\ outcome' = [out EXCEPT ![sent + 1] = "pending"]
  BY DEF Transmit
<1>2. sent \in Nat /\ sent' \in Nat /\ sent' \in 0..MaxSent /\ sent' \in Ids
  BY <1>1, MrpAssumption DEF TypeOK, Ids
<1>3. session[p] \in Nat /\ counter[p] \in Nat
  BY DEF TypeOK
<1>4. /\ new \in Message /\ new.peer = p /\ new.session = session[p]
      /\ new.counter = counter[p] + 1
  BY <1>3 DEF Message
<1> HIDE DEF new
<1>5. /\ counter' \in [Peers -> Nat] /\ counter'[p] = counter[p] + 1
      /\ \A q \in Peers : q # p => counter'[q] = counter[q]
  BY <1>1, <1>3 DEF TypeOK
<1>6. /\ msg' \in [Ids -> Message \cup {None}] /\ msg'[sent'] = new
      /\ \A i \in Ids : i # sent' => msg'[i] = msg[i]
  BY <1>1, <1>2, <1>4 DEF TypeOK
<1>7. /\ outcome' \in [Ids -> {"unsent", "pending", "acked", "failed"}]
      /\ outcome'[sent'] = "pending"
      /\ \A i \in Ids : i # sent' => outcome'[i] = out[i]
  BY <1>1, <1>2
<1>8. \A i \in 1..sent : i \in Ids /\ i # sent' /\ i < sent' /\ msg'[i] = msg[i]
                         /\ msg[i] \in Message
  <2> SUFFICES ASSUME NEW i \in 1..sent
               PROVE  i \in Ids /\ i # sent' /\ i < sent' /\ msg'[i] = msg[i]
                      /\ msg[i] \in Message
    OBVIOUS
  <2>1. i \in Ids /\ i # sent' /\ i < sent'
    BY <1>1, <1>2, MrpAssumption DEF Ids
  <2>2. msg[i] \in Message
    BY DEF Numbered
  <2> QED
    BY <1>6, <2>1, <2>2
<1>9. \A i \in 1..sent' : i \in 1..sent \/ i = sent'
  BY <1>1, <1>2
<1>10. \A i \in 1..sent : msg[i].peer = p =>
         \/ msg[i].session < new.session
         \/ msg[i].session = new.session /\ msg[i].counter < new.counter
  BY <1>3, <1>4, <1>8 DEF Numbered, Current, Message
<1>11. \A i \in 1..sent : ~(/\ new.peer = msg[i].peer
                            /\ new.session = msg[i].session
                            /\ new.counter = msg[i].counter)
  BY <1>3, <1>4, <1>10
<1>12. Numbered'
  <2>1. \A i \in 1..sent' : /\ msg'[i] \in Message /\ msg'[i].counter > 0
                            /\ msg'[i].session <= session[msg'[i].peer]
                            /\ msg'[i].session = session[msg'[i].peer]
                                 => msg'[i].counter <= counter'[msg'[i].peer]
    <3> SUFFICES ASSUME NEW i \in 1..sent'
                 PROVE  /\ msg'[i] \in Message /\ msg'[i].counter > 0
                        /\ msg'[i].session <= session[msg'[i].peer]
                        /\ msg'[i].session = session[msg'[i].peer]
                             => msg'[i].counter <= counter'[msg'[i].peer]
      OBVIOUS
    <3>1. CASE i = sent'
      BY <1>3, <1>4, <1>5, <1>6, <3>1
    <3>2. CASE i \in 1..sent
      <4>1. /\ msg'[i] = msg[i] /\ msg[i] \in Message /\ msg[i].counter > 0
            /\ msg[i].session <= session[msg[i].peer]
            /\ msg[i].session = session[msg[i].peer] => msg[i].counter <= counter[msg[i].peer]
        BY <1>8, <3>2 DEF Numbered, Current
      <4>2. counter[msg[i].peer] <= counter'[msg[i].peer] /\ counter[msg[i].peer] \in Nat
            /\ counter'[msg[i].peer] \in Nat /\ msg[i].counter \in Nat
        <5>1. msg[i].peer \in Peers /\ msg[i].counter \in Nat
          BY <4>1 DEF Message
        <5>2. counter[msg[i].peer] \in Nat /\ counter'[msg[i].peer] \in Nat
          BY <1>5, <5>1 DEF TypeOK
        <5> QED
          BY <1>3, <1>5, <5>1, <5>2
      <4> QED
        BY <4>1, <4>2
    <3> QED
      BY <1>9, <3>1, <3>2
  <2>2. \A i, j \in 1..sent' :
          i < j /\ msg'[i].peer = msg'[j].peer =>
            \/ msg'[i].session < msg'[j].session
            \/ msg'[i].session = msg'[j].session /\ msg'[i].counter < msg'[j].counter
    <3> SUFFICES ASSUME NEW i \in 1..sent', NEW j \in 1..sent', i < j,
                        msg'[i].peer = msg'[j].peer
                 PROVE  \/ msg'[i].session < msg'[j].session
                        \/ msg'[i].session = msg'[j].session
                           /\ msg'[i].counter < msg'[j].counter
      OBVIOUS
    <3>1. i \in 1..sent
      BY <1>1, <1>2
    <3>2. CASE j = sent'
      BY <1>4, <1>6, <1>8, <1>10, <3>1, <3>2
    <3>3. CASE j \in 1..sent
      BY <1>8, <3>1, <3>3 DEF Numbered
    <3> QED
      BY <1>9, <3>2, <3>3
  <2>3. \A i \in Ids : i > sent' => outcome'[i] = "unsent"
    BY <1>1, <1>2, <1>7 DEF Ids
  <2> QED
    BY <2>1, <2>2, <2>3 DEF Numbered, Current
<1> QED
  BY <1>1, <1>2, <1>3, <1>4, <1>5, <1>6, <1>7, <1>8, <1>11, <1>12

(* Nothing on the wire acks the message that is sent last. *)
LEMMA Unheard ==
  ASSUME TypeOK, Numbered, AcksTrue, NEW k \in wire, NEW peer, NEW number, NEW c \in Nat,
         c > 0,
         \A i \in 1..sent : ~(/\ peer = msg[i].peer /\ number = msg[i].session
                              /\ c = msg[i].counter)
  PROVE  ~(k.peer = peer /\ k.session = number /\ k.ack = c)
<1> SUFFICES ASSUME k.peer = peer, k.session = number, k.ack = c
             PROVE  FALSE
  OBVIOUS
<1>1. PICK j \in got : AcksIt(k, j)
  BY DEF AcksTrue
<1>2. j \in 1..sent
  BY <1>1 DEF AcksTrue
<1> QED
  BY <1>1, <1>2 DEF AcksIt

(* What was heard is still true after one more message is sent. *)
LEMMA HeardStill ==
  ASSUME TypeOK, AcksTrue, sent' = sent + 1, UNCHANGED <<wire, got>>,
         \A i \in 1..sent : msg'[i] = msg[i],
         \A n \in DOMAIN log' : log'[n] \in wire
  PROVE  AcksTrue'
<1>1. sent \in Nat
  BY MrpAssumption DEF TypeOK
<1>2. got' \subseteq 1..sent'
  <2>1. \A i \in 1..sent : i \in 1..sent'
    BY <1>1
  <2> QED
    BY <2>1 DEF AcksTrue
<1>3. \A i \in got : msg'[i] = msg[i]
  BY DEF AcksTrue
<1> QED
  BY <1>2, <1>3 DEF AcksTrue, AcksIt

(* A message sent last disturbs nothing of AckMatches, and is not acked yet. *)
LEMMA Answered ==
  ASSUME TypeOK, Numbered, AcksTrue, sent' = sent + 1, UNCHANGED <<session, wire, got>>,
         \A n \in DOMAIN log' : log'[n] \in wire,
         \A i \in 1..sent : msg'[i] = msg[i],
         \A i \in 1..sent : outcome'[i] = "acked" /\ Current(msg[i]) => i \in got,
         \A i \in 1..sent : (\E n \in DOMAIN log' : AcksIt(log'[n], i)) =>
                              outcome'[i] # "pending",
         \A i \in 1..sent : ~(/\ msg'[sent'].peer = msg[i].peer
                              /\ msg'[sent'].session = msg[i].session
                              /\ msg'[sent'].counter = msg[i].counter),
         msg'[sent'].counter \in Nat, msg'[sent'].counter > 0,
         outcome'[sent'] = "pending"
  PROVE  AckMatches'
<1>1. \A i \in 1..sent' : i \in 1..sent \/ i = sent'
  BY MrpAssumption DEF TypeOK
<1>2. \A n \in DOMAIN log' : ~(AcksIt(log[n], sent))'
  <2> SUFFICES ASSUME NEW n \in DOMAIN log'
               PROVE  ~(/\ log'[n].peer = msg'[sent'].peer
                        /\ log'[n].session = msg'[sent'].session
                        /\ log'[n].ack = msg'[sent'].counter)
    BY DEF AcksIt
  <2> DEFINE k == log'[n]
             new == msg'[sent']
  <2>1. k \in wire
    OBVIOUS
  <2>2. new.counter \in Nat /\ new.counter > 0
    OBVIOUS
  <2>3. \A i \in 1..sent : ~(/\ new.peer = msg[i].peer /\ new.session = msg[i].session
                             /\ new.counter = msg[i].counter)
    OBVIOUS
  <2> HIDE DEF k, new
  <2>4. ~(k.peer = new.peer /\ k.session = new.session /\ k.ack = new.counter)
    BY <2>1, <2>2, <2>3, Unheard
  <2> QED
    BY <2>4 DEF k, new
<1> SUFFICES ASSUME NEW i \in 1..sent'
             PROVE  /\ outcome'[i] = "acked" /\ Current(msg[i])' => i \in got
                    /\ (\E n \in DOMAIN log' : AcksIt(log[n], i)') => outcome'[i] # "pending"
  BY DEF AckMatches
<1>3. CASE i \in 1..sent
  BY <1>3 DEF Current, AcksIt
<1>4. CASE i = sent'
  BY <1>2, <1>4 DEF AcksIt
<1> QED
  BY <1>1, <1>3, <1>4

LEMMA Starts == Init => AckInv
<1> SUFFICES ASSUME Init PROVE AckInv
  OBVIOUS
<1>1. TypeOK
  BY MrpAssumption DEF Init, TypeOK, Ids
<1>2. Numbered /\ AcksTrue /\ AckMatches
  BY DEF Init, Numbered, AcksTrue, AckMatches
<1> QED
  BY <1>1, <1>2 DEF AckInv

(* caseEstablished: what was sent before is of a session that is over. *)
LEMMA NewSessionKeeps ==
  ASSUME AckInv, NEW p \in Peers, NewSession(p)
  PROVE  AckInv'
<1>1. TypeOK /\ Numbered /\ AcksTrue /\ AckMatches
  BY DEF AckInv
<1>2. /\ session' = [session EXCEPT ![p] = @ + 1]
      /\ counter' = [counter EXCEPT ![p] = 0] /\ live' = live \cup {p}
      /\ UNCHANGED <<sent, msg, outcome, retries, owed, seen, log, acks, wire, peerSent, got>>
  BY DEF NewSession, mrpVars, peerVars
<1>3. TypeOK'
  BY <1>1, <1>2 DEF TypeOK
<1>4. \A i \in 1..sent : /\ msg[i] \in Message
                         /\ msg[i].session <= session'[msg[i].peer]
                         /\ Current(msg[i])' =>
                              msg[i].peer # p /\ Current(msg[i])
                              /\ counter'[msg[i].peer] = counter[msg[i].peer]
  <2> SUFFICES ASSUME NEW i \in 1..sent
               PROVE  /\ msg[i] \in Message
                      /\ msg[i].session <= session'[msg[i].peer]
                      /\ Current(msg[i])' =>
                           msg[i].peer # p /\ Current(msg[i])
                           /\ counter'[msg[i].peer] = counter[msg[i].peer]
    OBVIOUS
  <2>1. msg[i] \in Message /\ msg[i].session <= session[msg[i].peer]
    BY <1>1 DEF Numbered
  <2>2. msg[i].peer \in Peers /\ msg[i].session \in Nat /\ session[msg[i].peer] \in Nat
    BY <1>1, <2>1 DEF Message, TypeOK
  <2>3. CASE msg[i].peer = p
    <3>1. session'[p] = session[p] + 1
      BY <1>1, <1>2 DEF TypeOK
    <3> QED
      BY <1>2, <2>1, <2>2, <2>3, <3>1 DEF Current
  <2>4. CASE msg[i].peer # p
    <3>1. session'[msg[i].peer] = session[msg[i].peer]
          /\ counter'[msg[i].peer] = counter[msg[i].peer]
      BY <1>1, <1>2, <2>2, <2>4 DEF TypeOK
    <3> QED
      BY <1>2, <2>1, <2>4, <3>1 DEF Current
  <2> QED
    BY <2>3, <2>4
<1>5. Numbered'
  BY <1>1, <1>2, <1>4 DEF Numbered, Current
<1>6. AcksTrue'
  BY <1>1, <1>2 DEF AcksTrue, AcksIt
<1>7. AckMatches'
  BY <1>1, <1>2, <1>4 DEF AckMatches, AcksIt, Current
<1> QED
  BY <1>3, <1>5, <1>6, <1>7 DEF AckInv

LEMMA SendKeeps ==
  ASSUME AckInv, NEW p \in Peers, Send(p)
  PROVE  AckInv'
<1>1. TypeOK /\ Numbered /\ AcksTrue /\ AckMatches
  BY DEF AckInv
<1>2. /\ Transmit(p, outcome)
      /\ UNCHANGED <<retries, owed, seen, session, live, log, acks, wire, peerSent, got>>
  BY DEF Send, linkVars, peerVars
<1>3. /\ sent' = sent + 1 /\ sent' \in 0..MaxSent /\ sent' \in Ids
      /\ counter' \in [Peers -> Nat]
      /\ msg' \in [Ids -> Message \cup {None}]
      /\ outcome' \in [Ids -> {"unsent", "pending", "acked", "failed"}]
      /\ \A i \in 1..sent : msg'[i] = msg[i] /\ outcome'[i] = outcome[i]
      /\ \A i \in 1..sent : ~(/\ msg'[sent'].peer = msg[i].peer
                              /\ msg'[sent'].session = msg[i].session
                              /\ msg'[sent'].counter = msg[i].counter)
      /\ msg'[sent'].counter > 0 /\ outcome'[sent'] = "pending"
      /\ Numbered'
  <2>1. outcome \in [Ids -> {"unsent", "pending", "acked", "failed"}]
        /\ \A i \in Ids : i > sent => outcome[i] = "unsent"
    BY <1>1 DEF TypeOK, Numbered
  <2> QED
    BY <1>1, <1>2, <2>1, Transmitting
<1>4. TypeOK'
  BY <1>1, <1>2, <1>3 DEF TypeOK
<1>5. \A n \in DOMAIN log' : log'[n] \in wire
  BY <1>1, <1>2 DEF AcksTrue
<1>6. AcksTrue'
  BY <1>1, <1>2, <1>3, <1>5, HeardStill
<1>7. AckMatches'
  <2>1. \A i \in 1..sent : outcome'[i] = "acked" /\ Current(msg[i]) => i \in got
    BY <1>1, <1>3 DEF AckMatches
  <2>2. \A i \in 1..sent : (\E n \in DOMAIN log' : AcksIt(log'[n], i)) =>
                            outcome'[i] # "pending"
    BY <1>1, <1>2, <1>3 DEF AckMatches
  <2>3. msg'[sent'].counter \in Nat
    <3>1. sent' \in 1..sent'
      BY <1>1, <1>3, MrpAssumption DEF TypeOK
    <3> QED
      BY <1>3, <3>1 DEF Numbered, Message
  <2> QED
    BY <1>1, <1>2, <1>3, <1>5, <2>1, <2>2, <2>3, Answered
<1> QED
  BY <1>3, <1>4, <1>6, <1>7 DEF AckInv

(* The list of acks and the window of counters keep their types. *)
LEMMA CancelAckType ==
  ASSUME NEW s \in Seq(Packet), NEW c
  PROVE  CancelAck(s, c) \in Seq(Packet)
<1> DEFINE last == Latest({n \in DOMAIN s : s[n].counter = c})
           n == CHOOSE n \in last : TRUE
<1>1. CASE last = {}
  BY <1>1 DEF CancelAck
<1>2. CASE last # {}
  <2>1. n \in DOMAIN s
    BY <1>2 DEF Latest
  <2> HIDE DEF n
  <2>2. RemoveAt(s, n) \in Seq(Packet)
    <3>1. n \in 1..Len(s) /\ Len(s) \in Nat
      BY <2>1
    <3>2. SubSeq(s, 1, n - 1) \in Seq(Packet)
      <4>1. \A i \in 1..(n - 1) : i \in 1..Len(s)
        BY <3>1
      <4> QED
        BY <3>1, <4>1
    <3>3. SubSeq(s, n + 1, Len(s)) \in Seq(Packet)
      <4>1. \A i \in (n + 1)..Len(s) : i \in 1..Len(s)
        BY <3>1
      <4> QED
        BY <3>1, <4>1
    <3> QED
      BY <3>2, <3>3 DEF RemoveAt
  <2> QED
    BY <1>2, <2>2 DEF CancelAck, n
<1> QED
  BY <1>1, <1>2

LEMMA RememberType ==
  ASSUME NEW s \in Seq(Nat), NEW c \in Nat
  PROVE  Remember(s, c) \in Seq(Nat)
BY DEF Remember

(* messageReceived: of the pending messages that may be cleared, the one    *)
(* that is acked on the latest session is the last, and no other of that    *)
(* session is there.                                                       *)
LEMMA Clears ==
  ASSUME TypeOK, Numbered, AcksTrue, NEW k \in wire, Current(k),
         \A p, q \in Peers : Address[p] = Address[q] => p = q,
         NEW i \in 1..sent
  PROVE  /\ i \in Latest(Acked(Address[k.peer], k.ack)) /\ Current(msg[i]) => i \in got
         /\ AcksIt(k, i) /\ outcome[i] = "pending"
              => i \in Latest(Acked(Address[k.peer], k.ack))
<1> DEFINE hits == Acked(Address[k.peer], k.ack)
<1>1. k \in Packet /\ k.peer \in Peers /\ sent \in Nat
  BY MrpAssumption DEF TypeOK, Packet
<1>2. \A j \in hits : /\ j \in 1..sent /\ outcome[j] = "pending"
                      /\ msg[j].peer = k.peer /\ msg[j].counter = k.ack
  <2> SUFFICES ASSUME NEW j \in hits
               PROVE  /\ j \in 1..sent /\ outcome[j] = "pending"
                      /\ msg[j].peer = k.peer /\ msg[j].counter = k.ack
    OBVIOUS
  <2>1. /\ j \in Ids /\ outcome[j] = "pending" /\ msg[j].counter = k.ack
        /\ Address[msg[j].peer] = Address[k.peer]
    BY DEF Acked, Pending
  <2>2. j \in 1..sent
    BY <1>1, <2>1, MrpAssumption DEF Numbered, Ids
  <2>3. msg[j].peer \in Peers
    BY <2>2 DEF Numbered, Message
  <2> QED
    BY <1>1, <2>1, <2>2, <2>3
<1>3. ASSUME i \in Latest(hits), Current(msg[i])
      PROVE  i \in got
  <2>1. msg[i].peer = k.peer /\ msg[i].counter = k.ack
    BY <1>2, <1>3 DEF Latest
  <2>2. AcksIt(k, i)
    BY <1>3, <2>1 DEF AcksIt, Current
  <2> QED
    BY <2>2, Heard
<1>4. ASSUME AcksIt(k, i), outcome[i] = "pending"
      PROVE  i \in Latest(hits)
  <2>1. i \in Ids
    BY <1>1, MrpAssumption DEF TypeOK, Ids
  <2>2. i \in hits
    BY <1>4, <2>1 DEF Acked, Pending, AcksIt
  <2>3. ASSUME NEW j \in hits
        PROVE  j <= i
    <3>1. /\ j \in 1..sent /\ msg[j].peer = msg[i].peer
          /\ msg[j].counter = msg[i].counter
      BY <1>2, <1>4, <2>3 DEF AcksIt
    <3>2. /\ msg[j].session <= session[msg[i].peer]
          /\ msg[i].session = session[msg[i].peer]
      BY <1>4, <3>1 DEF Numbered, AcksIt, Current
    <3>3. /\ msg[i].session \in Nat /\ msg[j].session \in Nat
          /\ msg[i].counter \in Nat
      BY <3>1 DEF Numbered, Message
    <3>4. ~(i < j)
      <4> SUFFICES ASSUME i < j
                   PROVE  FALSE
        OBVIOUS
      <4>1. \/ msg[i].session < msg[j].session
            \/ msg[i].session = msg[j].session /\ msg[i].counter < msg[j].counter
        BY <3>1 DEF Numbered
      <4> QED
        BY <3>1, <3>2, <3>3, <4>1
    <3> QED
      BY <1>1, <3>1, <3>4
  <2> QED
    BY <2>2, <2>3 DEF Latest
<1> QED
  BY <1>3, <1>4

(* readyRead, with the answer of a handler or without one. *)
LEMMA ReceiveKeeps ==
  ASSUME AckInv, NEW k \in wire, NEW answer \in BOOLEAN, Receive(k, answer),
         \A p, q \in Peers : Address[p] = Address[q] => p = q
  PROVE  AckInv'
<1> DEFINE a == Address[k.peer]
           cleared == [i \in Ids |-> IF i \in Latest(Acked(a, k.ack)) THEN "acked"
                                                                     ELSE outcome[i]]
           due == IF k.reliable THEN Append(owed, k) ELSE owed
<1>1. TypeOK /\ Numbered /\ AcksTrue /\ AckMatches
  BY DEF AckInv
<1>2. /\ Current(k)
      /\ seen' = [seen EXCEPT ![a] = Remember(@, k.counter)]
      /\ log' = Append(log, k)
      /\ UNCHANGED <<retries, session, live, wire, peerSent, got>>
  BY DEF Receive, linkVars, peerVars
<1>3. \/ answer /\ Transmit(k.peer, cleared) /\ owed' = CancelAck(due, k.counter)
               /\ acks' = acks \cup {k}
      \/ ~answer /\ outcome' = cleared /\ owed' = due /\ UNCHANGED <<counter, sent, msg, acks>>
  BY DEF Receive, sendVars
<1>4. k \in Packet /\ k.peer \in Peers /\ k.counter \in Nat /\ sent \in Nat
  BY <1>1, MrpAssumption DEF TypeOK, Packet
<1>5. due \in Seq(Packet)
  BY <1>1, <1>4 DEF TypeOK
<1>6. /\ cleared \in [Ids -> {"unsent", "pending", "acked", "failed"}]
      /\ \A i \in Ids : i > sent => cleared[i] = "unsent"
  BY <1>1 DEF TypeOK, Numbered, Latest, Acked, Pending
<1>7. \A i \in 1..sent : i \in Ids
  BY <1>1, <1>4, MrpAssumption DEF TypeOK, Ids
<1>8. \A n \in DOMAIN log' : (n \in DOMAIN log /\ log'[n] = log[n]) \/ log'[n] = k
  BY <1>1, <1>2, <1>4 DEF TypeOK
<1>9. \A i \in 1..sent : cleared[i] = "acked" /\ Current(msg[i]) => i \in got
  BY <1>1, <1>2, <1>7, Clears DEF AckMatches
<1>10. \A i \in 1..sent : (\E n \in DOMAIN log' : AcksIt(log'[n], i)) =>
                            cleared[i] # "pending"
  BY <1>1, <1>2, <1>7, <1>8, Clears DEF AckMatches
<1>11. \A n \in DOMAIN log' : log'[n] \in wire
  BY <1>1, <1>8 DEF AcksTrue
<1>12. seen' \in [{Address[p] : p \in Peers} -> Seq(Nat)] /\ log' \in Seq(Packet)
  <2>1. a \in {Address[p] : p \in Peers} /\ seen[a] \in Seq(Nat)
    BY <1>1, <1>4 DEF TypeOK
  <2>2. Remember(seen[a], k.counter) \in Seq(Nat)
    BY <1>4, <2>1, RememberType
  <2> HIDE DEF a
  <2> QED
    BY <1>1, <1>2, <1>4, <2>1, <2>2 DEF TypeOK
<1> HIDE DEF cleared, due, a
<1>13. CASE answer
  <2>1. /\ Transmit(k.peer, cleared) /\ owed' = CancelAck(due, k.counter)
        /\ acks' = acks \cup {k}
    BY <1>3, <1>13
  <2>2. /\ sent' = sent + 1 /\ sent' \in 0..MaxSent /\ sent' \in Ids
        /\ counter' \in [Peers -> Nat]
        /\ msg' \in [Ids -> Message \cup {None}]
        /\ outcome' \in [Ids -> {"unsent", "pending", "acked", "failed"}]
        /\ \A i \in 1..sent : msg'[i] = msg[i] /\ outcome'[i] = cleared[i]
        /\ \A i \in 1..sent : ~(/\ msg'[sent'].peer = msg[i].peer
                                /\ msg'[sent'].session = msg[i].session
                                /\ msg'[sent'].counter = msg[i].counter)
        /\ msg'[sent'].counter > 0 /\ outcome'[sent'] = "pending"
        /\ Numbered'
    BY <1>1, <1>2, <1>4, <1>6, <2>1, Transmitting
  <2>3. owed' \in Seq(Packet)
    BY <1>5, <2>1, CancelAckType
  <2>4. TypeOK'
    BY <1>1, <1>2, <1>4, <1>12, <2>1, <2>2, <2>3 DEF TypeOK
  <2>5. AcksTrue'
    BY <1>1, <1>2, <1>11, <2>2, HeardStill
  <2>6. msg'[sent'].counter \in Nat
    <3>1. sent' \in 1..sent'
      BY <1>4, <2>2
    <3> QED
      BY <2>2, <3>1 DEF Numbered, Message
  <2>7. AckMatches'
    BY <1>1, <1>2, <1>9, <1>10, <1>11, <2>2, <2>6, Answered
  <2> QED
    BY <2>2, <2>4, <2>5, <2>7 DEF AckInv
<1>14. CASE ~answer
  <2>1. /\ outcome' = cleared /\ owed' = due
        /\ UNCHANGED <<counter, sent, msg, acks>>
    BY <1>3, <1>14
  <2>2. TypeOK'
    BY <1>1, <1>2, <1>5, <1>6, <1>12, <2>1 DEF TypeOK
  <2>3. Numbered'
    BY <1>1, <1>2, <1>6, <2>1 DEF Numbered, Current
  <2>4. AcksTrue'
    BY <1>1, <1>2, <1>11, <2>1 DEF AcksTrue, AcksIt
  <2>5. AckMatches'
    BY <1>2, <1>9, <1>10, <2>1 DEF AckMatches, AcksIt, Current
  <2> QED
    BY <2>2, <2>3, <2>4, <2>5 DEF AckInv
<1> QED
  BY <1>13, <1>14

(* processTimers: counters rise, and what is out of retries is no longer    *)
(* pending; neither touches a message that was sent.                        *)
LEMMA ProcessTimersKeeps ==
  ASSUME AckInv, NEW n \in 0..Len(owed), NEW due \in SUBSET {i \in Ids : Pending(i)},
         ProcessTimers(n, due)
  PROVE  AckInv'
<1> DEFINE ofSession(p) == {i \in 1..n : owed[i].peer = p /\ p \in live /\ Current(owed[i])}
           spent == {i \in due : Spent(i)}
<1>1. TypeOK /\ Numbered /\ AcksTrue /\ AckMatches
  BY DEF AckInv
<1>2. /\ owed' = SubSeq(owed, n + 1, Len(owed))
      /\ acks' = acks \cup {owed[i] : i \in 1..n}
      /\ counter' = [p \in Peers |-> counter[p] + Cardinality(ofSession(p))]
      /\ retries' = [i \in Ids |-> IF i \in due \ spent THEN retries[i] + 1 ELSE retries[i]]
      /\ outcome' = [i \in Ids |-> IF i \in spent THEN "failed" ELSE outcome[i]]
      /\ live' = live \ {msg[i].peer : i \in spent}
      /\ UNCHANGED <<session, sent, msg, seen, log, wire, peerSent, got>>
  BY DEF ProcessTimers, StillOwed, Retried, peerVars
<1>3. owed \in Seq(Packet) /\ Len(owed) \in Nat /\ n \in Nat /\ n <= Len(owed)
  BY <1>1 DEF TypeOK
<1>4. owed' \in Seq(Packet)
  <2>1. \A i \in (n + 1)..Len(owed) : i \in 1..Len(owed)
    BY <1>3
  <2> QED
    BY <1>2, <1>3, <2>1
<1>5. acks' \subseteq Packet
  <2>1. \A i \in 1..n : owed[i] \in Packet
    BY <1>3
  <2> QED
    BY <1>1, <1>2, <2>1 DEF TypeOK
<1>6. /\ counter' \in [Peers -> Nat]
      /\ \A p \in Peers : counter[p] <= counter'[p]
  <2>1. \A p \in Peers : Cardinality(ofSession(p)) \in Nat
    <3> SUFFICES ASSUME NEW p \in Peers
                 PROVE  Cardinality(ofSession(p)) \in Nat
      OBVIOUS
    <3>1. IsFiniteSet(1..n)
      BY <1>3, FS_Interval
    <3>2. ofSession(p) \subseteq 1..n
      OBVIOUS
    <3>3. IsFiniteSet(ofSession(p))
      BY <3>1, <3>2, FS_Subset
    <3> QED
      BY <3>3, FS_CardinalityType
  <2> HIDE DEF ofSession
  <2>2. \A p \in Peers : counter[p] \in Nat
    BY <1>1 DEF TypeOK
  <2> QED
    BY <1>2, <2>1, <2>2
<1>7. \A i \in due : i \in Ids /\ outcome[i] = "pending"
  BY DEF Pending
<1>8. \A i \in Ids : i > sent => outcome'[i] = "unsent"
  BY <1>1, <1>2, <1>7 DEF Numbered
<1>9. retries' \in [Ids -> 0..RetransMax]
  <2>1. \A i \in Ids : retries[i] \in 0..RetransMax
    BY <1>1 DEF TypeOK
  <2>2. \A i \in due \ spent : retries[i] + 1 \in 0..RetransMax
    <3> SUFFICES ASSUME NEW i \in due \ spent
                 PROVE  retries[i] + 1 \in 0..RetransMax
      OBVIOUS
    <3>1. retries[i] \in 0..RetransMax /\ retries[i] # RetransMax
      BY <1>7, <2>1 DEF Spent
    <3> QED
      BY <3>1, MrpAssumption
  <2> HIDE DEF spent
  <2> QED
    BY <1>2, <2>1, <2>2
<1>10. TypeOK'
  <2>1. outcome' \in [Ids -> {"unsent", "pending", "acked", "failed"}]
    BY <1>1, <1>2 DEF TypeOK
  <2>2. live' \subseteq Peers
    BY <1>1, <1>2 DEF TypeOK
  <2> QED
    BY <1>1, <1>2, <1>4, <1>5, <1>6, <1>9, <2>1, <2>2 DEF TypeOK
<1>11. Numbered'
  <2>1. \A i \in 1..sent : msg[i].session = session[msg[i].peer] =>
                             msg[i].counter <= counter'[msg[i].peer]
    <3> SUFFICES ASSUME NEW i \in 1..sent, msg[i].session = session[msg[i].peer]
                 PROVE  msg[i].counter <= counter'[msg[i].peer]
      OBVIOUS
    <3>1. msg[i] \in Message /\ msg[i].counter <= counter[msg[i].peer]
      BY <1>1 DEF Numbered, Current
    <3>2. /\ msg[i].peer \in Peers /\ msg[i].counter \in Nat
          /\ counter[msg[i].peer] \in Nat /\ counter'[msg[i].peer] \in Nat
      BY <1>1, <1>6, <3>1 DEF TypeOK, Message
    <3> QED
      BY <1>6, <3>1, <3>2
  <2>2. session' = session /\ sent' = sent /\ msg' = msg
    BY <1>2
  <2>3. \A i \in 1..sent : /\ msg[i] \in Message /\ msg[i].counter > 0
                           /\ msg[i].session <= session[msg[i].peer]
    BY <1>1 DEF Numbered
  <2>4. \A i, j \in 1..sent :
          i < j /\ msg[i].peer = msg[j].peer =>
            \/ msg[i].session < msg[j].session
            \/ msg[i].session = msg[j].session /\ msg[i].counter < msg[j].counter
    BY <1>1 DEF Numbered
  <2> QED
    BY <1>8, <2>1, <2>2, <2>3, <2>4 DEF Numbered, Current
<1>12. AcksTrue'
  BY <1>1, <1>2 DEF AcksTrue, AcksIt
<1>13. AckMatches'
  <2>1. \A i \in 1..sent : i \in Ids
    BY <1>1, MrpAssumption DEF TypeOK, Ids
  <2> QED
    BY <1>1, <1>2, <2>1 DEF AckMatches, AcksIt, Current
<1> QED
  BY <1>10, <1>11, <1>12, <1>13 DEF AckInv

(* The environment: a peer acks what it was sent on the session it has. *)
LEMMA PeerSendKeeps ==
  ASSUME AckInv, NEW p \in Peers, NEW i \in 0..sent, NEW reliable \in BOOLEAN,
         PeerSend(p, i, reliable)
  PROVE  AckInv'
<1> DEFINE k == [peer |-> p, session |-> session[p],
                 counter |-> FirstCounter[p] + peerSent[p] + 1,
                 reliable |-> reliable, ack |-> IF i = 0 THEN 0 ELSE msg[i].counter]
<1>1. TypeOK /\ Numbered /\ AcksTrue /\ AckMatches
  BY DEF AckInv
<1>2. /\ i # 0 => msg[i].peer = p /\ Current(msg[i])
      /\ peerSent' = [peerSent EXCEPT ![p] = @ + 1]
      /\ wire' = wire \cup {k} /\ got' = got \cup ({i} \ {0})
      /\ UNCHANGED <<session, live, counter, sent, msg, outcome, retries, owed, seen, log, acks>>
  BY DEF PeerSend, mrpVars, sendVars, linkVars
<1>3. sent \in Nat /\ (i # 0 => i \in 1..sent)
  BY <1>1, MrpAssumption DEF TypeOK
<1>4. i # 0 => i \in Ids /\ msg[i].counter \in Nat
  BY <1>1, <1>3, MrpAssumption DEF TypeOK, Ids, Numbered, Message
<1>5. k \in Packet
  <2>1. session[p] \in Nat /\ peerSent[p] \in Nat /\ FirstCounter[p] \in Nat
    BY <1>1, MrpAssumption DEF TypeOK
  <2>2. k.counter \in Nat
    BY <2>1
  <2> QED
    BY <1>4, <2>1, <2>2 DEF Packet
<1>6. k.ack # 0 => i # 0 /\ AcksIt(k, i)
  BY <1>2 DEF AcksIt, Current
<1> HIDE DEF k
<1>7. TypeOK'
  <2>1. peerSent' \in [Peers -> Nat]
    BY <1>1, <1>2 DEF TypeOK
  <2> QED
    BY <1>1, <1>2, <1>4, <1>5, <2>1 DEF TypeOK
<1>8. Numbered'
  BY <1>1, <1>2 DEF Numbered, Current
<1>9. AcksTrue'
  BY <1>1, <1>2, <1>3, <1>6 DEF AcksTrue, AcksIt
<1>10. AckMatches'
  BY <1>1, <1>2 DEF AckMatches, AcksIt, Current
<1> QED
  BY <1>7, <1>8, <1>9, <1>10 DEF AckInv

-----------------------------------------------------------------------------
(* Duplicates.                                                              *)

(* One more message is handed to the handlers: what came after the n-th.    *)
LEMMA BetweenGrows ==
  ASSUME log \in Seq(Packet), NEW k \in Packet, log' = Append(log, k), NEW n \in DOMAIN log
  PROVE  /\ Cardinality(Between(n, Len(log) + 1)) \in Nat
         /\ Cardinality(Between(n, Len(log) + 1)') =
              IF Address[k.peer] = Address[log[n].peer]
              THEN Cardinality(Between(n, Len(log) + 1)) + 1
              ELSE Cardinality(Between(n, Len(log) + 1))
         /\ \A m \in DOMAIN log' : Between(n, m)' = Between(n, m)
<1> DEFINE l == Len(log)
           B == Between(n, l + 1)
<1>1. l \in Nat /\ n \in 1..l /\ Len(log') = l + 1 /\ DOMAIN log' = 1..(l + 1)
  OBVIOUS
<1>2. log'[l + 1] = k /\ \A j \in 1..l : log'[j] = log[j]
  OBVIOUS
<1>3. \A m \in 1..(l + 1) : Between(n, m)' = Between(n, m)
  <2> SUFFICES ASSUME NEW m \in 1..(l + 1)
               PROVE  {j \in n + 1 .. m - 1 : Address[log'[j].peer] = Address[log'[n].peer]}
                        = {j \in n + 1 .. m - 1 : Address[log[j].peer] = Address[log[n].peer]}
    BY DEF Between
  <2>1. \A j \in n + 1 .. m - 1 : log'[j] = log[j]
    BY <1>1, <1>2
  <2> QED
    BY <1>1, <1>2, <2>1
<1>4. IsFiniteSet(B) /\ Cardinality(B) \in Nat /\ (l + 1) \notin B
  <2>1. IsFiniteSet(n + 1 .. l)
    BY <1>1, FS_Interval
  <2>2. B \subseteq n + 1 .. l
    BY <1>1 DEF Between
  <2>3. IsFiniteSet(B)
    BY <2>1, <2>2, FS_Subset
  <2> QED
    BY <1>1, <2>2, <2>3, FS_CardinalityType
<1>5. Between(n, l + 1)' = IF Address[k.peer] = Address[log[n].peer] THEN B \cup {l + 1} ELSE B
  <2>1. Between(n, l + 1)' = {j \in n + 1 .. l + 1 : Address[log'[j].peer] = Address[log[n].peer]}
    BY <1>1, <1>2 DEF Between
  <2>2. B = {j \in n + 1 .. l : Address[log[j].peer] = Address[log[n].peer]}
    BY <1>1 DEF Between
  <2>3. \A j \in n + 1 .. l + 1 : (j \in n + 1 .. l /\ log'[j] = log[j]) \/ (j = l + 1 /\ log'[j] = k)
    BY <1>1, <1>2
  <2>4. n + 1 .. l + 1 = (n + 1 .. l) \cup {l + 1}
    BY <1>1
  <2> DEFINE N == Between(n, l + 1)'
  <2>5. CASE Address[k.peer] = Address[log[n].peer]
    <3>1. \A j : j \in N <=> j \in B \cup {l + 1}
      BY <2>1, <2>2, <2>3, <2>4, <2>5
    <3> QED
      BY <2>5, <3>1
  <2>6. CASE Address[k.peer] # Address[log[n].peer]
    <3>1. \A j : j \in N <=> j \in B
      BY <2>1, <2>2, <2>3, <2>4, <2>6
    <3> QED
      BY <2>6, <3>1
  <2> QED
    BY <2>5, <2>6
<1>6. Cardinality(B \cup {l + 1}) = Cardinality(B) + 1
  BY <1>4, FS_AddElement
<1> QED
  BY <1>1, <1>3, <1>4, <1>5, <1>6

(* The window after one more counter: as many of the latest as it holds.    *)
LEMMA RememberIs ==
  ASSUME NEW s \in Seq(Nat), NEW c \in Nat, Len(s) <= Window
  PROVE  /\ Remember(s, c) \in Seq(Nat)
         /\ 0 < Len(Remember(s, c)) /\ Len(Remember(s, c)) <= Window
         /\ Remember(s, c)[Len(Remember(s, c))] = c
         /\ \A i \in Nat : i < Len(s) /\ i + 1 < Window =>
              /\ i + 1 < Len(Remember(s, c))
              /\ Remember(s, c)[Len(Remember(s, c)) - (i + 1)] = s[Len(s) - i]
<1> DEFINE all == Append(s, c)
<1>1. /\ all \in Seq(Nat) /\ Len(all) = Len(s) + 1 /\ Len(s) \in Nat /\ Window \in Nat \ {0}
      /\ all[Len(s) + 1] = c /\ \A i \in 1..Len(s) : all[i] = s[i]
  BY MrpAssumption
<1> DEFINE r == Remember(s, c)
           L == Len(s)
<1>2. CASE Len(all) > Window
  <2>1. r = Tail(all)
    BY <1>2 DEF Remember
  <2>2. L = Window
    BY <1>1, <1>2
  <2> HIDE DEF all, r
  <2>3. r \in Seq(Nat) /\ Len(r) = L /\ \A i \in 1..L : r[i] = all[i + 1]
    BY <1>1, <1>2, <2>1
  <2> HIDE DEF L
  <2>4. L \in Nat /\ all[L + 1] = c /\ \A i \in 1..L : all[i] = s[i]
    BY <1>1 DEF L
  <2>5. 0 < L /\ r[L] = c
    BY <1>1, <2>2, <2>3, <2>4
  <2>6. \A i \in Nat : i < L /\ i + 1 < Window => i + 1 < L /\ r[L - (i + 1)] = s[L - i]
    <3> SUFFICES ASSUME NEW i \in Nat, i < L, i + 1 < Window
                 PROVE  i + 1 < L /\ r[L - (i + 1)] = s[L - i]
      OBVIOUS
    <3>1. L - (i + 1) \in 1..L /\ L - i \in 1..L /\ (L - (i + 1)) + 1 = L - i
      BY <2>2, <2>4
    <3> QED
      BY <2>2, <2>3, <2>4, <3>1
  <2> QED
    BY <2>2, <2>3, <2>4, <2>5, <2>6 DEF r, L
<1>3. CASE ~(Len(all) > Window)
  <2>1. r = all
    BY <1>3 DEF Remember
  <2>2. L + 1 <= Window
    BY <1>1, <1>3
  <2> HIDE DEF all, r
  <2>3. r \in Seq(Nat) /\ Len(r) = L + 1 /\ r[L + 1] = c /\ \A i \in 1..L : r[i] = s[i]
    BY <1>1, <2>1
  <2> HIDE DEF L
  <2>4. L \in Nat
    BY <1>1 DEF L
  <2>5. \A i \in Nat : i < L => i + 1 < L + 1 /\ r[(L + 1) - (i + 1)] = s[L - i]
    <3> SUFFICES ASSUME NEW i \in Nat, i < L
                 PROVE  i + 1 < L + 1 /\ r[(L + 1) - (i + 1)] = s[L - i]
      OBVIOUS
    <3>1. L - i \in 1..L /\ (L + 1) - (i + 1) = L - i
      BY <2>4
    <3> QED
      BY <2>3, <2>4, <3>1
  <2> QED
    BY <2>2, <2>3, <2>4, <2>5 DEF r, L
<1> QED
  BY <1>2, <1>3

(* readyRead hands k on: the windows move with the log, and k is not among  *)
(* the latest of its address.                                               *)
LEMMA WindowMoves ==
  ASSUME TypeOK, WindowKeeps, RepeatsFar, NEW k \in wire,
         ~IsDuplicate(Address[k.peer], k.counter),
         seen' = [seen EXCEPT ![Address[k.peer]] = Remember(@, k.counter)],
         log' = Append(log, k)
  PROVE  /\ WindowKeeps' /\ RepeatsFar'
         /\ \A m \in DOMAIN log : log[m] = k => Cardinality(Between(m, Len(log) + 1)) >= Window
<1> DEFINE a == Address[k.peer]
           l == Len(log)
           new == Remember(seen[a], k.counter)
           later(n) == Cardinality(Between(n, l + 1))
<1>1. /\ k \in Packet /\ k.peer \in Peers /\ k.counter \in Nat /\ log \in Seq(Packet)
      /\ \A n \in DOMAIN log : Address[log[n].peer] \in DOMAIN seen
      /\ a \in DOMAIN seen /\ seen[a] \in Seq(Nat) /\ Len(seen[a]) <= Window
      /\ Window \in Nat \ {0}
  <2>1. /\ k \in Packet /\ k.peer \in Peers /\ k.counter \in Nat /\ log \in Seq(Packet)
        /\ DOMAIN seen = {Address[p] : p \in Peers}
    BY DEF TypeOK, Packet
  <2>2. \A n \in DOMAIN log : log[n] \in Packet
    BY <2>1
  <2>3. \A n \in DOMAIN log : Address[log[n].peer] \in DOMAIN seen
    BY <2>1, <2>2 DEF Packet
  <2>4. a \in DOMAIN seen
    BY <2>1
  <2>5. seen[a] \in Seq(Nat) /\ Len(seen[a]) <= Window
    BY <2>4 DEF TypeOK, WindowKeeps
  <2> QED
    BY <2>1, <2>3, <2>4, <2>5, MrpAssumption
<1>2. /\ l \in Nat /\ Len(log') = l + 1 /\ DOMAIN log = 1..l /\ DOMAIN log' = 1..(l + 1)
      /\ log'[l + 1] = k /\ \A n \in 1..l : log'[n] = log[n]
  BY <1>1
<1>3. /\ seen'[a] = new /\ DOMAIN seen' = DOMAIN seen
      /\ \A b \in DOMAIN seen : b # a => seen'[b] = seen[b]
  BY <1>1
<1>4. /\ 0 < Len(new) /\ Len(new) <= Window /\ Len(new) \in Nat
      /\ new[Len(new)] = k.counter
      /\ \A i \in Nat : i < Len(seen[a]) /\ i + 1 < Window =>
           i + 1 < Len(new) /\ new[Len(new) - (i + 1)] = seen[a][Len(seen[a]) - i]
  <2> DEFINE s == seen[a]
  <2>1. s \in Seq(Nat) /\ Len(s) <= Window /\ k.counter \in Nat /\ new = Remember(s, k.counter)
    BY <1>1
  <2> HIDE DEF s, new
  <2>2. /\ new \in Seq(Nat) /\ 0 < Len(new) /\ Len(new) <= Window /\ new[Len(new)] = k.counter
        /\ \A i \in Nat : i < Len(s) /\ i + 1 < Window =>
             i + 1 < Len(new) /\ new[Len(new) - (i + 1)] = s[Len(s) - i]
    BY <2>1, RememberIs
  <2> QED
    BY <2>2 DEF s
<1>5. \A n \in 1..l : /\ later(n) \in Nat
                      /\ Cardinality(Between(n, Len(log) + 1)') =
                           IF a = Address[log[n].peer] THEN later(n) + 1 ELSE later(n)
                      /\ \A m \in 1..(l + 1) : Between(n, m)' = Between(n, m)
  BY <1>1, <1>2, BetweenGrows
<1> HIDE DEF a, new
<1>6. \A n \in 1..l :
        LET window == seen[Address[log[n].peer]]
        IN  later(n) < Window => later(n) < Len(window) /\ window[Len(window) - later(n)] = log[n].counter
  BY <1>2 DEF WindowKeeps
<1> HIDE DEF later
<1>7. ASSUME NEW n \in 1..l, log[n] = k
      PROVE  later(n) >= Window
  <2> SUFFICES ASSUME ~(later(n) >= Window) PROVE FALSE
    OBVIOUS
  <2>1. later(n) \in Nat /\ later(n) < Window
    BY <1>1, <1>5
  <2>2. Address[log[n].peer] = a
    BY <1>7 DEF a
  <2>3. later(n) < Len(seen[a]) /\ seen[a][Len(seen[a]) - later(n)] = k.counter
    BY <1>6, <1>7, <2>1, <2>2
  <2>4. Len(seen[a]) - later(n) \in DOMAIN seen[a]
    BY <1>1, <2>1, <2>3
  <2> QED
    BY <2>3, <2>4 DEF IsDuplicate, a
<1>8. \A b \in DOMAIN seen' : Len(seen'[b]) <= Window
  BY <1>3, <1>4 DEF WindowKeeps
<1>9. ASSUME NEW n, n = l + 1
      PROVE  Cardinality(Between(n, Len(log) + 1)') = 0
  <2>1. Between(n, Len(log) + 1)' = {}
    BY <1>2, <1>9 DEF Between
  <2> QED
    BY <2>1, FS_EmptySet
<1>10. ASSUME NEW n \in 1..(l + 1),
              Cardinality(Between(n, Len(log) + 1)') < Window
       PROVE  LET later1 == Cardinality(Between(n, Len(log) + 1)')
                  window == seen'[Address[log'[n].peer]]
              IN  later1 < Len(window) /\ window[Len(window) - later1] = log'[n].counter
  <2> DEFINE later1 == Cardinality(Between(n, Len(log) + 1)')
  <2>1. CASE n = l + 1
    <3>1. later1 = 0 /\ Address[log'[n].peer] = a /\ log'[n].counter = k.counter
      BY <1>2, <1>9, <2>1 DEF a
    <3> HIDE DEF later1
    <3> QED
      BY <1>3, <1>4, <3>1 DEF later1
  <2>2. CASE n \in 1..l
    <3>1. log'[n] = log[n] /\ later(n) \in Nat /\ later1 = IF a = Address[log[n].peer] THEN later(n) + 1 ELSE later(n)
      BY <1>2, <1>5, <2>2
    <3>2. later1 < Window
      BY <1>10
    <3> HIDE DEF later1
    <3>3. CASE a = Address[log[n].peer]
      <4>1. later(n) + 1 < Window /\ later1 = later(n) + 1
        BY <3>1, <3>2, <3>3
      <4>2. later(n) < Window
        BY <1>1, <3>1, <4>1
      <4>3. later(n) < Len(seen[a]) /\ seen[a][Len(seen[a]) - later(n)] = log[n].counter
        BY <1>6, <2>2, <3>3, <4>2
      <4>4. later1 < Len(new) /\ new[Len(new) - later1] = log[n].counter
        BY <1>4, <3>1, <4>1, <4>3
      <4> QED
        BY <1>3, <3>1, <3>3, <4>4 DEF later1
    <3>4. CASE a # Address[log[n].peer]
      <4>1. seen'[Address[log[n].peer]] = seen[Address[log[n].peer]]
        BY <1>1, <1>2, <1>3, <2>2, <3>4
      <4>2. later1 = later(n)
        BY <3>1, <3>4
      <4> QED
        BY <1>6, <2>2, <3>1, <3>2, <4>1, <4>2 DEF later1
    <3> QED
      BY <3>3, <3>4
  <2>3. n = l + 1 \/ n \in 1..l
    BY <1>2
  <2> HIDE DEF later1, l
  <2> QED
    BY <2>1, <2>2, <2>3
<1>11. WindowKeeps'
  BY <1>2, <1>8, <1>10 DEF WindowKeeps
<1>12. RepeatsFar'
  <2> SUFFICES ASSUME NEW m \in 1..(l + 1), NEW n \in 1..(l + 1), m < n, log'[m] = log'[n]
               PROVE  Cardinality(Between(m, n)') >= Window
    BY <1>2 DEF RepeatsFar
  <2>0. m \in 1..l /\ log'[m] = log[m]
    BY <1>2
  <2>1. m \in 1..l /\ log'[m] = log[m] /\ Between(m, n)' = Between(m, n)
    BY <1>5, <2>0
  <2>2. CASE n \in 1..l
    BY <1>2, <2>1, <2>2 DEF RepeatsFar
  <2>3. CASE n = l + 1
    BY <1>2, <1>7, <2>1, <2>3 DEF later
  <2> QED
    BY <1>2, <2>2, <2>3
<1>13. \A m \in DOMAIN log : log[m] = k => Cardinality(Between(m, Len(log) + 1)) >= Window
  BY <1>2, <1>7 DEF later
<1> QED
  BY <1>11, <1>12, <1>13

(* A peer that has not sent more than the window holds is not heard twice:  *)
(* what lies between would be as many messages of it, all different.        *)
LEMMA NotTwice ==
  ASSUME TypeOK, WireNumbered, AcksTrue, WithinWindow, AtMostOnce, NEW k \in wire,
         \A p, q \in Peers : Address[p] = Address[q] => p = q,
         \A m \in DOMAIN log : log[m] = k => Cardinality(Between(m, Len(log) + 1)) >= Window
  PROVE  k \notin ToSet(log)
<1> SUFFICES ASSUME NEW m \in DOMAIN log, log[m] = k PROVE FALSE
  BY DEF ToSet
<1> DEFINE p == k.peer
           B == Between(m, Len(log) + 1)
           S == B \cup {m}
           T == FirstCounter[p] + 1 .. FirstCounter[p] + peerSent[p]
           f == [j \in S |-> log[j].counter]
<1>1. /\ p \in Peers /\ FirstCounter[p] \in Nat /\ peerSent[p] \in Nat /\ peerSent[p] <= Window
      /\ Window \in Nat
  BY MrpAssumption DEF TypeOK, Packet, WithinWindow
<1>2. log \in Seq(Packet) /\ Len(log) \in Nat /\ m \in 1..Len(log)
  BY DEF TypeOK
<1>3. B \subseteq m + 1 .. Len(log) /\ \A j \in B : Address[log[j].peer] = Address[p]
  BY <1>2 DEF Between
<1>4. IsFiniteSet(B) /\ m \notin B
  <2>1. IsFiniteSet(m + 1 .. Len(log))
    BY <1>2, FS_Interval
  <2> QED
    BY <1>2, <1>3, <2>1, FS_Subset
<1>5. IsFiniteSet(S) /\ Cardinality(S) > Window
  <2>1. Cardinality(B) \in Nat /\ Cardinality(B) >= Window
    BY <1>4, FS_CardinalityType
  <2>2. IsFiniteSet(S) /\ Cardinality(S) = Cardinality(B) + 1
    BY <1>4, FS_AddElement
  <2> HIDE DEF S, B
  <2> QED
    BY <1>1, <2>1, <2>2
<1>6. IsFiniteSet(T) /\ Cardinality(T) \in Nat /\ Cardinality(T) <= Window
  <2> DEFINE lo == FirstCounter[p] + 1
             hi == FirstCounter[p] + peerSent[p]
  <2>0. \A x, y \in Nat : x + 1 \in Int /\ x + y \in Int /\ (x + y) - (x + 1) + 1 = y
    OBVIOUS
  <2>1. lo \in Int /\ hi \in Int /\ hi - lo + 1 = peerSent[p]
    BY <1>1, <2>0
  <2> HIDE DEF lo, hi
  <2>2. IsFiniteSet(lo..hi) /\ Cardinality(lo..hi) = IF lo > hi THEN 0 ELSE hi - lo + 1
    BY <2>1, FS_Interval
  <2>3. Cardinality(lo..hi) \in Nat /\ Cardinality(lo..hi) <= Window
    BY <1>1, <2>1, <2>2
  <2> QED
    BY <2>2, <2>3 DEF lo, hi
<1>7. \A j \in S : j \in DOMAIN log /\ log[j] \in wire /\ log[j].peer = p
  <2>0. \A j \in S : j \in DOMAIN log /\ Address[log[j].peer] = Address[p]
    <3>1. DOMAIN log = 1..Len(log) /\ \A j \in m + 1 .. Len(log) : j \in 1..Len(log)
      BY <1>2
    <3> HIDE DEF B
    <3> QED
      BY <1>2, <1>3, <3>1
  <2>1. \A j \in S : j \in DOMAIN log /\ log[j] \in wire /\ Address[log[j].peer] = Address[p]
    BY <2>0 DEF AcksTrue
  <2>2. \A j \in S : log[j].peer \in Peers
    <3>1. wire \subseteq Packet /\ \A w \in Packet : w.peer \in Peers
      BY DEF TypeOK, Packet
    <3> HIDE DEF S
    <3> QED
      BY <2>1, <3>1
  <2> HIDE DEF S
  <2> QED
    BY <1>1, <2>1, <2>2
<1> HIDE DEF S, p
<1>8. f \in [S -> T]
  BY <1>7 DEF WireNumbered
<1> HIDE DEF T
<1>9. Cardinality(T) < Cardinality(S)
  <2>1. Cardinality(S) \in Nat
    BY <1>5, FS_CardinalityType
  <2> QED
    BY <1>1, <1>5, <1>6, <2>1
<1>10. PICK x \in S, y \in S : x # y /\ f[x] = f[y]
  <2> HIDE DEF f
  <2> QED
    BY <1>5, <1>6, <1>8, <1>9, FS_PigeonHole
<1>11. log[x] = log[y]
  BY <1>7, <1>10 DEF WireNumbered
<1> QED
  BY <1>7, <1>10, <1>11 DEF AtMostOnce, IsInjective

(* An answer cancels the ack that its own message just added.               *)
LEMMA CancelsItsOwn ==
  ASSUME NEW s \in Seq(Packet), NEW k \in Packet
  PROVE  CancelAck(Append(s, k), k.counter) = s
<1> DEFINE due == Append(s, k)
           l == Len(s)
           same == {n \in DOMAIN due : due[n].counter = k.counter}
<1>1. /\ l \in Nat /\ due \in Seq(Packet) /\ Len(due) = l + 1 /\ DOMAIN due = 1..(l + 1)
      /\ due[l + 1] = k /\ \A i \in 1..l : due[i] = s[i]
  OBVIOUS
<1> HIDE DEF due
<1>2. Latest(same) = {l + 1}
  <2>1. l + 1 \in same /\ \A j \in same : j \in 1..(l + 1)
    BY <1>1
  <2> HIDE DEF same
  <2>2. \A i : i \in Latest(same) <=> i = l + 1
    <3>1. \A j \in same : j <= l + 1
      BY <1>1, <2>1
    <3>2. \A i \in same : l + 1 <= i => i = l + 1
      BY <1>1, <2>1
    <3> QED
      BY <2>1, <3>1, <3>2 DEF Latest
  <2> QED
    BY <2>2
<1>3. CancelAck(due, k.counter) = RemoveAt(due, l + 1)
  BY <1>2 DEF CancelAck
<1>4. RemoveAt(due, l + 1) = s
  <2>1. RemoveAt(due, l + 1) = SubSeq(due, 1, l) \o SubSeq(due, l + 2, l + 1)
    BY <1>1 DEF RemoveAt
  <2>2. SubSeq(due, l + 2, l + 1) = << >>
    BY <1>1
  <2>3. SubSeq(due, 1, l) \in Seq(Packet) /\ Len(SubSeq(due, 1, l)) = l
        /\ \A i \in 1..l : SubSeq(due, 1, l)[i] = s[i]
    BY <1>1
  <2>4. SubSeq(due, 1, l) = s
    BY <1>1, <2>3
  <2> QED
    BY <2>1, <2>2, <2>3, <2>4
<1> QED
  BY <1>3, <1>4 DEF due

(* What IInv says of duplicates and acks.                                   *)
OnceInv ==
  /\ WireNumbered /\ WindowKeeps /\ RepeatsFar
  /\ WithinWindow => AtMostOnce /\ OwedOnce /\ AckAccounted

LEMMA OnceStarts == Init => OnceInv
<1> SUFFICES ASSUME Init PROVE OnceInv
  OBVIOUS
<1>1. log = << >> /\ owed = << >> /\ acks = {} /\ wire = {}
  BY DEF Init
<1>2. \A a \in DOMAIN seen : Len(seen[a]) <= Window
  BY MrpAssumption DEF Init
<1>3. WireNumbered /\ WindowKeeps /\ RepeatsFar
  BY <1>1, <1>2 DEF WireNumbered, WindowKeeps, RepeatsFar
<1>4. AtMostOnce /\ OwedOnce /\ AckAccounted
  BY <1>1 DEF AtMostOnce, OwedOnce, AckAccounted, IsInjective, ToSet
<1> QED
  BY <1>3, <1>4 DEF OnceInv

LEMMA ReceiveOnce ==
  ASSUME AckInv, OnceInv, NEW k \in wire, NEW answer \in BOOLEAN, Receive(k, answer),
         \A p, q \in Peers : Address[p] = Address[q] => p = q
  PROVE  OnceInv'
<1> DEFINE due == IF k.reliable THEN Append(owed, k) ELSE owed
<1>1. /\ ~IsDuplicate(Address[k.peer], k.counter)
      /\ seen' = [seen EXCEPT ![Address[k.peer]] = Remember(@, k.counter)]
      /\ log' = Append(log, k) /\ UNCHANGED <<wire, peerSent>>
      /\ \/ k.reliable /\ owed' = CancelAck(due, k.counter) /\ acks' = acks \cup {k}
         \/ owed' = due /\ UNCHANGED acks
  BY DEF Receive, peerVars, sendVars
<1>2. TypeOK /\ AcksTrue
  BY DEF AckInv
<1>3. k \in Packet /\ owed \in Seq(Packet) /\ log \in Seq(Packet)
  BY <1>2 DEF TypeOK
<1>4. /\ WindowKeeps' /\ RepeatsFar'
      /\ \A m \in DOMAIN log : log[m] = k => Cardinality(Between(m, Len(log) + 1)) >= Window
  BY <1>1, <1>2, WindowMoves DEF OnceInv
<1>5. WireNumbered'
  BY <1>1 DEF OnceInv, WireNumbered
<1>6. ASSUME WithinWindow'
      PROVE  AtMostOnce' /\ OwedOnce' /\ AckAccounted'
  <2>1. WithinWindow /\ AtMostOnce /\ OwedOnce /\ AckAccounted
    BY <1>1, <1>6 DEF WithinWindow, OnceInv
  <2>2. k \notin ToSet(log)
    BY <1>2, <1>4, <2>1, NotTwice DEF OnceInv
  <2>3. ToSet(log') = ToSet(log) \cup {k}
    <3>1. log' = Append(log, k)
      BY <1>1
    <3> QED
      BY <1>3, <3>1 DEF ToSet
  <2>4. AtMostOnce'
    <3>1. \A n \in DOMAIN log : log[n] # k
      BY <2>2 DEF ToSet
    <3> QED
      BY <1>1, <1>3, <2>1, <3>1 DEF AtMostOnce, IsInjective
  <2>5. k \notin ToSet(owed) /\ k \notin acks
    BY <2>1, <2>2 DEF OwedOnce
  <2>6. CASE k.reliable /\ owed' = CancelAck(due, k.counter) /\ acks' = acks \cup {k}
    <3>1. owed' = owed
      BY <1>3, <2>6, CancelsItsOwn
    <3> QED
      BY <2>1, <2>3, <2>4, <2>5, <2>6, <3>1 DEF OwedOnce, AckAccounted
  <2>7. CASE k.reliable /\ owed' = Append(owed, k) /\ UNCHANGED acks
    <3>1. ToSet(owed') = ToSet(owed) \cup {k}
      BY <1>3, <2>7 DEF ToSet
    <3>2. IsInjective(owed')
      <4>1. IsInjective(owed) /\ \A n \in DOMAIN owed : owed[n] # k
        BY <2>1, <2>5 DEF OwedOnce, ToSet
      <4> QED
        BY <1>3, <2>7, <4>1 DEF IsInjective
    <3> QED
      BY <2>1, <2>2, <2>3, <2>4, <2>5, <2>7, <3>1, <3>2 DEF OwedOnce, AckAccounted
  <2>8. CASE ~k.reliable /\ UNCHANGED <<owed, acks>>
    BY <2>1, <2>3, <2>4, <2>8 DEF OwedOnce, AckAccounted
  <2> QED
    BY <1>1, <2>6, <2>7, <2>8
<1> QED
  BY <1>4, <1>5, <1>6 DEF OnceInv

(* What the window says does not move while nothing is handed over.         *)
LEMMA WindowStays ==
  ASSUME UNCHANGED <<seen, log>>
  PROVE  (WindowKeeps => WindowKeeps') /\ (RepeatsFar => RepeatsFar')
<1>1. log' = log /\ seen' = seen
  OBVIOUS
<1>2. ASSUME NEW m, NEW n
      PROVE  Between(m, n)' = Between(m, n)
  BY <1>1 DEF Between
<1>3. RepeatsFar => RepeatsFar'
  BY <1>1, <1>2, Zenon DEF RepeatsFar
<1>4. ASSUME NEW n
      PROVE  Between(n, Len(log) + 1)' = Between(n, Len(log) + 1)
  BY <1>1 DEF Between
<1>5. WindowKeeps => WindowKeeps'
  BY <1>1, <1>4, Zenon DEF WindowKeeps
<1> QED
  BY <1>3, <1>5

(* processTimers: the acks that are sent are no longer due.                 *)
LEMMA ProcessTimersOnce ==
  ASSUME AckInv, OnceInv, NEW n \in 0..Len(owed), NEW due, ProcessTimers(n, due)
  PROVE  OnceInv'
<1>1. /\ owed' = SubSeq(owed, n + 1, Len(owed)) /\ acks' = acks \cup {owed[i] : i \in 1..n}
      /\ UNCHANGED <<seen, log, wire, peerSent>>
  BY DEF ProcessTimers, StillOwed, peerVars
<1>2. owed \in Seq(Packet) /\ Len(owed) \in Nat /\ n \in Nat /\ n <= Len(owed)
  BY DEF AckInv, TypeOK
<1>3. WireNumbered' /\ WindowKeeps' /\ RepeatsFar'
  BY <1>1, WindowStays DEF OnceInv, WireNumbered
<1>4. /\ DOMAIN owed' = 1..(Len(owed) - n) /\ \A i \in 1..(Len(owed) - n) : owed'[i] = owed[n + i]
      /\ DOMAIN owed = 1..Len(owed)
  BY <1>1, <1>2
<1>5. ToSet(owed') = {owed[i] : i \in n + 1 .. Len(owed)}
  <2>1. \A i \in 1..(Len(owed) - n) : n + i \in n + 1 .. Len(owed)
    BY <1>2
  <2>2. \A i \in n + 1 .. Len(owed) : i - n \in 1..(Len(owed) - n) /\ n + (i - n) = i
    BY <1>2
  <2>3. \A i \in 1..(Len(owed) - n) : owed'[i] \in {owed[j] : j \in n + 1 .. Len(owed)}
    BY <1>4, <2>1
  <2>4. \A i \in n + 1 .. Len(owed) : owed[i] \in {owed'[j] : j \in 1..(Len(owed) - n)}
    <3> SUFFICES ASSUME NEW i \in n + 1 .. Len(owed)
                 PROVE  owed[i] \in {owed'[j] : j \in 1..(Len(owed) - n)}
      OBVIOUS
    <3>1. PICK j \in 1..(Len(owed) - n) : j = i - n /\ n + j = i
      BY <2>2
    <3> QED
      BY <1>4, <3>1
  <2> QED
    BY <1>4, <2>3, <2>4 DEF ToSet
<1>6. ASSUME WithinWindow'
      PROVE  AtMostOnce' /\ OwedOnce' /\ AckAccounted'
  <2>1. WithinWindow /\ AtMostOnce /\ OwedOnce /\ AckAccounted
    BY <1>1, <1>6 DEF WithinWindow, OnceInv
  <2>2. AtMostOnce'
    BY <1>1, <2>1 DEF AtMostOnce
  <2>3. IsInjective(owed')
    <3> SUFFICES ASSUME NEW i \in 1..(Len(owed) - n), NEW j \in 1..(Len(owed) - n), owed'[i] = owed'[j]
                 PROVE  i = j
      BY <1>4 DEF IsInjective
    <3>0. n + i \in 1..Len(owed) /\ n + j \in 1..Len(owed)
      BY <1>2
    <3>1. n + i \in DOMAIN owed /\ n + j \in DOMAIN owed /\ owed[n + i] = owed[n + j]
      <4>1. owed'[i] = owed[n + i] /\ owed'[j] = owed[n + j]
        BY <1>4
      <4> QED
        BY <1>4, <3>0, <4>1
    <3>2. n + i = n + j
      BY <2>1, <3>1 DEF OwedOnce, IsInjective
    <3> QED
      BY <1>2, <3>2
  <2>4. /\ \A i \in 1..n : i \in DOMAIN owed
        /\ \A i \in n + 1 .. Len(owed) : i \in DOMAIN owed
        /\ \A i \in DOMAIN owed : i \in 1..n \/ i \in n + 1 .. Len(owed)
        /\ \A i \in 1..n, j \in n + 1 .. Len(owed) : i # j
    BY <1>2, <1>4
  <2>5. \A x : x \in ToSet(owed) <=> x \in {owed[i] : i \in 1..n} \cup ToSet(owed')
    BY <1>5, <2>4 DEF ToSet
  <2>6. {owed[i] : i \in 1..n} \cap ToSet(owed') = {}
    BY <1>5, <2>1, <2>4 DEF OwedOnce, IsInjective
  <2>7. OwedOnce'
    BY <1>1, <2>1, <2>3, <2>5 DEF OwedOnce
  <2>8. AckAccounted'
    BY <1>1, <2>1, <2>5, <2>6 DEF AckAccounted
  <2> QED
    BY <2>2, <2>7, <2>8
<1> QED
  BY <1>3, <1>6 DEF OnceInv

(* A peer's next message has the next number. *)
LEMMA PeerSendOnce ==
  ASSUME AckInv, OnceInv, NEW p \in Peers, NEW i, NEW reliable \in BOOLEAN, PeerSend(p, i, reliable)
  PROVE  OnceInv'
<1> DEFINE k == [peer |-> p, session |-> session[p],
                 counter |-> FirstCounter[p] + peerSent[p] + 1,
                 reliable |-> reliable, ack |-> IF i = 0 THEN 0 ELSE msg[i].counter]
<1>1. /\ peerSent' = [peerSent EXCEPT ![p] = @ + 1] /\ wire' = wire \cup {k}
      /\ UNCHANGED <<seen, log, owed, acks>>
  BY DEF PeerSend, mrpVars
<1>2. k.peer = p /\ k.counter = FirstCounter[p] + peerSent[p] + 1
  OBVIOUS
<1> HIDE DEF k
<1>3. /\ \A q \in Peers : peerSent[q] \in Nat /\ FirstCounter[q] \in Nat
      /\ peerSent'[p] = peerSent[p] + 1 /\ \A q \in Peers : q # p => peerSent'[q] = peerSent[q]
  BY <1>1, MrpAssumption DEF AckInv, TypeOK
<1>4. \A l \in wire : l.peer \in Peers
  BY DEF AckInv, TypeOK, Packet
<1>5. WireNumbered'
  <2>1. \A l \in wire : /\ l.counter \in FirstCounter[l.peer] + 1 .. FirstCounter[l.peer] + peerSent[l.peer]
                        /\ l.counter \in FirstCounter[l.peer] + 1 .. FirstCounter[l.peer] + peerSent'[l.peer]
    BY <1>3, <1>4 DEF OnceInv, WireNumbered
  <2>2. k.counter \in FirstCounter[p] + 1 .. FirstCounter[p] + peerSent'[p]
    BY <1>2, <1>3
  <2>3. \A l \in wire : l.peer = p => l.counter # k.counter
    BY <1>2, <1>3, <2>1
  <2> QED
    BY <1>1, <1>2, <2>1, <2>2, <2>3 DEF OnceInv, WireNumbered
<1>6. WindowKeeps' /\ RepeatsFar'
  BY <1>1, WindowStays DEF OnceInv
<1>7. WithinWindow' => WithinWindow
  BY <1>3, MrpAssumption DEF WithinWindow
<1>8. WithinWindow' => AtMostOnce' /\ OwedOnce' /\ AckAccounted'
  BY <1>1, <1>7 DEF OnceInv, AtMostOnce, OwedOnce, AckAccounted
<1> QED
  BY <1>5, <1>6, <1>8 DEF OnceInv

-----------------------------------------------------------------------------
(* Peers at addresses of their own: messageReceived tells them apart by it. *)
DistinctAddresses == \A p, q \in Peers : Address[p] = Address[q] => p = q

LEMMA AckInvKept ==
  ASSUME DistinctAddresses, AckInv, [Next]_vars
  PROVE  AckInv'
<1>1. ASSUME NEW p \in Peers, NewSession(p)
      PROVE  AckInv'
  BY <1>1, NewSessionKeeps
<1>2. ASSUME NEW p \in Peers, Send(p)
      PROVE  AckInv'
  BY <1>2, SendKeeps
<1>3. ASSUME NEW k \in wire, NEW answer \in BOOLEAN, Receive(k, answer)
      PROVE  AckInv'
  BY <1>3, ReceiveKeeps DEF DistinctAddresses
<1>4. ASSUME NEW n \in 0..Len(owed), NEW due \in SUBSET {i \in Ids : Pending(i)},
             ProcessTimers(n, due)
      PROVE  AckInv'
  BY <1>4, ProcessTimersKeeps
<1>5. ASSUME NEW p \in Peers, NEW i \in 0..sent, NEW reliable \in BOOLEAN,
             PeerSend(p, i, reliable)
      PROVE  AckInv'
  BY <1>5, PeerSendKeeps
<1>6. CASE UNCHANGED vars
  <2>1. /\ session' = session /\ live' = live /\ counter' = counter /\ sent' = sent
        /\ msg' = msg /\ outcome' = outcome /\ retries' = retries /\ owed' = owed
        /\ seen' = seen /\ log' = log /\ acks' = acks /\ wire' = wire
        /\ peerSent' = peerSent /\ got' = got
    BY <1>6 DEF vars, mrpVars, sendVars, linkVars, peerVars
  <2>2. TypeOK' /\ AcksTrue'
    BY <2>1 DEF AckInv, TypeOK, AcksTrue, AcksIt
  <2>3. Numbered'
    BY <2>1 DEF AckInv, Numbered, Current
  <2>4. AckMatches'
    BY <2>1 DEF AckInv, AckMatches, AcksIt, Current
  <2> QED
    BY <2>2, <2>3, <2>4 DEF AckInv
<1> QED
  BY <1>1, <1>2, <1>3, <1>4, <1>5, <1>6 DEF Next

LEMMA OnceInvKept ==
  ASSUME DistinctAddresses, AckInv, OnceInv, [Next]_vars
  PROVE  OnceInv'
<1>1. ASSUME UNCHANGED <<wire, peerSent, log, seen, owed, acks>>
      PROVE  OnceInv'
  BY <1>1, WindowStays DEF OnceInv, WireNumbered, WithinWindow, AtMostOnce, OwedOnce, AckAccounted
<1>2. ASSUME NEW p \in Peers, NewSession(p) \/ Send(p)
      PROVE  OnceInv'
  BY <1>1, <1>2 DEF NewSession, Send, mrpVars, peerVars
<1>3. ASSUME NEW k \in wire, NEW answer \in BOOLEAN, Receive(k, answer)
      PROVE  OnceInv'
  BY <1>3, ReceiveOnce DEF DistinctAddresses
<1>4. ASSUME NEW n \in 0..Len(owed), NEW due, ProcessTimers(n, due)
      PROVE  OnceInv'
  BY <1>4, ProcessTimersOnce
<1>5. ASSUME NEW p \in Peers, NEW i \in 0..sent, NEW reliable \in BOOLEAN, PeerSend(p, i, reliable)
      PROVE  OnceInv'
  BY <1>5, PeerSendOnce
<1>6. CASE UNCHANGED vars
  BY <1>1, <1>6 DEF vars, mrpVars, peerVars
<1> QED
  BY <1>2, <1>3, <1>4, <1>5, <1>6 DEF Next

(* Of any number of peers at addresses of their own, whatever the network   *)
(* loses, repeats or reorders: an ack reaches the message it is for, and a  *)
(* repetition gets through only when the window has moved past it.          *)
THEOREM Invariant == ASSUME DistinctAddresses PROVE Spec => []IInv
<1>1. Init => AckInv /\ OnceInv
  BY Starts, OnceStarts
<1>2. AckInv /\ OnceInv /\ [Next]_vars => AckInv' /\ OnceInv'
  BY AckInvKept, OnceInvKept
<1>3. AckInv /\ OnceInv => IInv
  BY DEF IInv, OnceInv
<1> QED
  BY <1>1, <1>2, <1>3, PTL DEF Spec

(* messageReceived clears the entry an ack is for and no other of the       *)
(* session the peer has: what counts as delivered was acked by its peer,    *)
(* and what the peer acked is not sent again.                               *)
THEOREM AckAlwaysMatches == ASSUME DistinctAddresses PROVE Spec => []AckMatches
<1>1. IInv => AckMatches
  BY DEF IInv, AckInv
<1> QED
  BY <1>1, Invariant, PTL

(* isDuplicate, however much a peer sends: between two times that a message *)
(* is handed to the handlers, as many others of its address were as the     *)
(* window holds.                                                            *)
THEOREM RepeatsAreFar == ASSUME DistinctAddresses PROVE Spec => []RepeatsFar
<1>1. IInv => RepeatsFar
  BY DEF IInv
<1> QED
  BY <1>1, Invariant, PTL

(* Until a peer has sent more than the window holds, nothing is handed to   *)
(* the handlers twice.                                                      *)
THEOREM HandledOnce ==
  ASSUME DistinctAddresses PROVE Spec => [](WithinWindow => AtMostOnce)
<1>1. IInv => (WithinWindow => AtMostOnce)
  BY DEF IInv
<1> QED
  BY <1>1, Invariant, PTL

(* Until then every reliable message that was handled has its ack due or    *)
(* sent, not both: cancelPendingAck by counter meets the ack of the message *)
(* that is being answered, whoever else has one of that counter due.        *)
THEOREM AcksAccounted ==
  ASSUME DistinctAddresses PROVE Spec => [](WithinWindow => AckAccounted)
<1>1. IInv => (WithinWindow => AckAccounted)
  BY DEF IInv
<1> QED
  BY <1>1, Invariant, PTL

=============================================================================
