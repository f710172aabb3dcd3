-------------------------------- MODULE Mrp --------------------------------
(***************************************************************************)
(* The Message Reliability Protocol of mrp.cpp under its callers in        *)
(* matter.cpp (sendEncrypted, sendStandaloneAck, readyRead and             *)
(* mrpRetransmitFailed), against peers behind a network that loses,        *)
(* duplicates, delays and reorders datagrams.                              *)
(*                                                                         *)
(* Abstractions.  Only encrypted messages: handshake messages differ in a  *)
(* counter of their own that starts at a random value.  A message is known *)
(* by its place in the order of sending, which is the order of             *)
(* m_pendingMessages.  Time is abstract: a timer run finds any messages    *)
(* due, and the acks that are due are the oldest ones, for all wait as     *)
(* long.  What a peer sent stays on the wire for ever: taking it twice is  *)
(* a duplicate, never is a loss.                                           *)
(***************************************************************************)
EXTENDS Naturals, Sequences, SequencesExt

CONSTANTS
  Peers,         \* devices; each is one address and port
  Address,       \* the address of a peer, without its port
  FirstCounter,  \* a peer's message counters start after this value
  RetransMax,    \* MRP_RETRANS_MAX
  Window,        \* COUNTER_WINDOW_SIZE
  MaxSent,       \* bound: messages the controller sends
  MaxReceived,   \* bound: messages a peer sends
  MaxSession,    \* bound: sessions with a peer, one after another
  None           \* no message

ASSUME MrpAssumption ==
  /\ FirstCounter \in [Peers -> Nat]
  /\ RetransMax \in Nat /\ Window \in Nat \ {0}
  /\ MaxSent \in Nat /\ MaxReceived \in [Peers -> Nat] /\ MaxSession \in [Peers -> Nat]
  /\ DOMAIN Address = Peers

Ids == 1..MaxSent

VARIABLES
  session,   \* number of the latest session with a peer, 0 before the first
  live,      \* peers whose latest session is in the session table
  counter,   \* SessionInfo::localMessageCounter of the latest session
  sent,      \* number of messages sent
  msg,       \* what the i-th message was
  outcome,   \* pending while it is in m_pendingMessages, then how it left
  retries,   \* PendingMessage::retryCount
  owed,      \* m_pendingAcks, oldest first
  seen,      \* m_peerCounters: address -> latest counters
  log,       \* history: messages handed to the protocol handlers, in order
  acks,      \* history: messages an ack was sent for
  wire,      \* environment: messages the peers sent
  peerSent,  \* environment: how many a peer sent
  got        \* environment: messages of ours their peer acked

mrpVars == <<outcome, retries, owed, seen>>
sendVars == <<counter, sent, msg>>
linkVars == <<session, live>>
peerVars == <<wire, peerSent, got>>
vars == <<mrpVars, sendVars, linkVars, log, acks, peerVars>>

Message == [peer : Peers, session : Nat, counter : Nat]
Packet == [peer : Peers, session : Nat, counter : Nat, reliable : BOOLEAN, ack : Nat]

-----------------------------------------------------------------------------
Pending(i) == i \in Ids /\ outcome[i] = "pending"

(* The latest session of the peer is the one m was sent on. *)
Current(m) == m.session = session[m.peer]

(* messageReceived: entries an ack c from address a may clear. *)
Acked(a, c) ==
  {i \in Ids : Pending(i) /\ msg[i].counter = c /\ Address[msg[i].peer] = a}

(* Mutant of Latest: the list is searched from its front. *)
Oldest(is) == {i \in is : \A j \in is : i <= j}

(* The one that is cleared, if any: the list is searched from its end. *)
Latest(is) == {i \in is : \A j \in is : j <= i}

(* isDuplicate *)
IsDuplicate(a, c) == \E n \in DOMAIN seen[a] : seen[a][n] = c

(* Mutant of Remember: the window is one counter short. *)
RememberLess(s, c) ==
  LET all == Append(s, c) IN IF Len(all) >= Window THEN Tail(all) ELSE all

(* messageReceived: the window after counter c. *)
Remember(s, c) ==
  LET all == Append(s, c) IN IF Len(all) > Window THEN Tail(all) ELSE all

(* Mutant of CancelAck: the oldest entry with that counter goes. *)
CancelFirstAck(s, c) ==
  LET first == Oldest({n \in DOMAIN s : s[n].counter = c}) IN
  IF first = {} THEN s ELSE RemoveAt(s, CHOOSE n \in first : TRUE)

(* cancelPendingAck: by counter, whoever sent it. *)
CancelAck(s, c) ==
  LET last == Latest({n \in DOMAIN s : s[n].counter = c}) IN
  IF last = {} THEN s ELSE RemoveAt(s, CHOOSE n \in last : TRUE)

(* Mutant of StillOwed: an ack that was sent stays due. *)
StaysOwed(n) == owed

(* processTimers: the acks left when the n oldest are sent. *)
StillOwed(n) == SubSeq(owed, n + 1, Len(owed))

(* Mutant of Spent: one retransmission too many. *)
SpentLate(i) == retries[i] > RetransMax

(* processTimers: the message has had its retransmissions. *)
Spent(i) == retries[i] = RetransMax

(* Mutant of Retried: the count does not move. *)
NotCounted(i) == retries[i]

(* processTimers: the count of a message that is sent again. *)
Retried(i) == retries[i] + 1

(* sendEncrypted and messageSent.  out is the outcome so far in this step. *)
Transmit(p, out) ==
  /\ p \in live
  /\ sent < MaxSent
  /\ sent' = sent + 1
  /\ counter' = [counter EXCEPT ![p] = @ + 1]
  /\ msg' = [msg EXCEPT ![sent + 1] =
               [peer |-> p, session |-> session[p], counter |-> counter[p] + 1]]
  /\ outcome' = [out EXCEPT ![sent + 1] = "pending"]

-----------------------------------------------------------------------------
Init ==
  /\ session = [p \in Peers |-> 0]
  /\ live = {}
  /\ counter = [p \in Peers |-> 0]
  /\ sent = 0
  /\ msg = [i \in Ids |-> None]
  /\ outcome = [i \in Ids |-> "unsent"]
  /\ retries = [i \in Ids |-> 0]
  /\ owed = << >>
  /\ seen = [a \in {Address[p] : p \in Peers} |-> << >>]
  /\ log = << >>
  /\ acks = {}
  /\ wire = {}
  /\ peerSent = [p \in Peers |-> 0]
  /\ got = {}

(* caseEstablished: a new session, with a counter of its own. *)
NewSession(p) ==
  /\ p \notin live
  /\ session[p] < MaxSession[p]
  /\ session' = [session EXCEPT ![p] = @ + 1]
  /\ live' = live \cup {p}
  /\ counter' = [counter EXCEPT ![p] = 0]
  /\ UNCHANGED <<sent, msg, mrpVars, log, acks, peerVars>>

(* A request of the controller's own. *)
Send(p) ==
  /\ Transmit(p, outcome)
  /\ UNCHANGED <<retries, owed, seen, linkVars, log, acks, peerVars>>

(* readyRead: a datagram of a session in the table, with a counter that is  *)
(* not in the window.  A report, which is reliable, is answered at once by  *)
(* a StatusResponse that carries the ack, and is retransmitted until it     *)
(* gets through.                                                            *)
Receive(k, answer) ==
  LET a == Address[k.peer]
      cleared == [i \in Ids |-> IF i \in Latest(Acked(a, k.ack)) THEN "acked" ELSE outcome[i]]
      due == IF k.reliable THEN Append(owed, k) ELSE owed
  IN
  /\ k.peer \in live
  /\ Current(k)
  /\ ~IsDuplicate(a, k.counter)
  /\ seen' = [seen EXCEPT ![a] = Remember(@, k.counter)]
  /\ log' = Append(log, k)
  /\ IF answer
     THEN /\ k.reliable
          /\ Transmit(k.peer, cleared)
          /\ owed' = CancelAck(due, k.counter)
          /\ acks' = acks \cup {k}
     ELSE /\ outcome' = cleared
          /\ owed' = due
          /\ UNCHANGED <<sendVars, acks>>
  /\ UNCHANGED <<retries, linkVars, peerVars>>

(* processTimers: the n oldest acks are due, sendStandaloneAck on their     *)
(* session if it is still there; of the messages that are due those out of  *)
(* retries are reported, and mrpRetransmitFailed drops the session of their *)
(* peer, whichever that is now.                                            *)
ProcessTimers(n, due) ==
  LET acked == {owed[i] : i \in 1..n}
      ofSession(p) == {i \in 1..n : owed[i].peer = p /\ p \in live /\ Current(owed[i])}
      spent == {i \in due : Spent(i)}
  IN
  /\ n > 0 \/ due # {}
  /\ owed' = StillOwed(n)
  /\ acks' = acks \cup acked
  /\ counter' = [p \in Peers |-> counter[p] + Cardinality(ofSession(p))]
  /\ retries' = [i \in Ids |-> IF i \in due \ spent THEN Retried(i) ELSE retries[i]]
  /\ outcome' = [i \in Ids |-> IF i \in spent THEN "failed" ELSE outcome[i]]
  /\ live' = live \ {msg[i].peer : i \in spent}
  /\ UNCHANGED <<session, sent, msg, seen, log, peerVars>>

(* The environment: a peer sends a message on the session it shares with    *)
(* the controller; i is the message of ours it acks with it, 0 for none.    *)
PeerSend(p, i, reliable) ==
  /\ p \in live
  /\ peerSent[p] < MaxReceived[p]
  /\ i # 0 => msg[i].peer = p /\ Current(msg[i])
  /\ i # 0 \/ reliable
  /\ peerSent' = [peerSent EXCEPT ![p] = @ + 1]
  /\ wire' = wire \cup {[peer |-> p, session |-> session[p],
                         counter |-> FirstCounter[p] + peerSent[p] + 1,
                         reliable |-> reliable,
                         ack |-> IF i = 0 THEN 0 ELSE msg[i].counter]}
  /\ got' = got \cup ({i} \ {0})
  /\ UNCHANGED <<mrpVars, sendVars, linkVars, log, acks>>

Next ==
  \/ \E p \in Peers : NewSession(p)
  \/ \E p \in Peers : Send(p)
  \/ \E k \in wire, answer \in BOOLEAN : Receive(k, answer)
  \/ \E n \in 0..Len(owed), due \in SUBSET {i \in Ids : Pending(i)} :
       ProcessTimers(n, due)
  \/ \E p \in Peers, i \in 0..sent, reliable \in BOOLEAN : PeerSend(p, i, reliable)

Spec == Init /\ [][Next]_vars
-----------------------------------------------------------------------------
(* Types, and no more. *)
TypeOK ==
  /\ session \in [Peers -> Nat]
  /\ live \subseteq Peers
  /\ counter \in [Peers -> Nat]
  /\ sent \in 0..MaxSent
  /\ msg \in [Ids -> Message \cup {None}]
  /\ outcome \in [Ids -> {"unsent", "pending", "acked", "failed"}]
  /\ retries \in [Ids -> 0..RetransMax]
  /\ owed \in Seq(Packet)
  /\ seen \in [{Address[p] : p \in Peers} -> Seq(Nat)]
  /\ log \in Seq(Packet)
  /\ acks \subseteq Packet
  /\ wire \subseteq Packet
  /\ peerSent \in [Peers -> Nat]
  /\ got \subseteq Ids

AcksIt(k, i) ==
  k.peer = msg[i].peer /\ k.session = msg[i].session /\ k.ack = msg[i].counter

(* An ack clears the message it is for and no other of the latest session,  *)
(* although every session counts from 1 again and the entries of dead       *)
(* sessions stay in the queue: what is taken for delivered was acked by its *)
(* peer, and what was acked is not sent again.                              *)
AckMatches ==
  \A i \in 1..sent :
    /\ outcome[i] = "acked" /\ Current(msg[i]) => i \in got
    /\ (\E n \in DOMAIN log : AcksIt(log[n], i)) => outcome[i] # "pending"

(* What AckMatches rests on: messages to a peer are numbered in the order of *)
(* its sessions, and a peer acks what it was sent on the session it has.     *)
Numbered ==
  /\ \A i \in 1..sent :
       /\ msg[i] \in Message
       /\ msg[i].counter > 0
       /\ msg[i].session <= session[msg[i].peer]
       /\ Current(msg[i]) => msg[i].counter <= counter[msg[i].peer]
  /\ \A i, j \in 1..sent :
       i < j /\ msg[i].peer = msg[j].peer =>
         \/ msg[i].session < msg[j].session
         \/ msg[i].session = msg[j].session /\ msg[i].counter < msg[j].counter
  /\ \A i \in Ids : i > sent => outcome[i] = "unsent"

AcksTrue ==
  /\ got \subseteq 1..sent
  /\ \A k \in wire : k.ack # 0 => \E i \in got : AcksIt(k, i)
  /\ \A n \in DOMAIN log : log[n] \in wire

AckInv == TypeOK /\ Numbered /\ AcksTrue /\ AckMatches

(* A peer's messages are numbered one by one.                                *)
WireNumbered ==
  /\ \A k \in wire : k.counter \in FirstCounter[k.peer] + 1 .. FirstCounter[k.peer] + peerSent[k.peer]
  /\ \A k, l \in wire : k.peer = l.peer /\ k.counter = l.counter => k = l

(* Between the places m and n of the log: what came from m's address.        *)
Between(m, n) ==
  {j \in m + 1 .. n - 1 : Address[log[j].peer] = Address[log[m].peer]}

(* seen holds the latest counters of an address, the latest one last.        *)
WindowKeeps ==
  /\ \A a \in DOMAIN seen : Len(seen[a]) <= Window
  /\ \A n \in DOMAIN log :
       LET later == Cardinality(Between(n, Len(log) + 1))
           window == seen[Address[log[n].peer]]
       IN later < Window => later < Len(window) /\ window[Len(window) - later] = log[n].counter

(* A message is handed to the handlers again only when as many as the window *)
(* holds came from its address in between.                                   *)
RepeatsFar ==
  \A m, n \in DOMAIN log : m < n /\ log[m] = log[n] => Cardinality(Between(m, n)) >= Window

(* Nothing is handed to the handlers twice while the window is not overrun. *)
AtMostOnce == IsInjective(log)

(* Every reliable message that was handled has its ack either due or sent,  *)
(* never both and never dropped: an answer cancels its own ack only.        *)
AckAccounted ==
  \A k \in ToSet(log) : k.reliable => (k \in acks <=> k \notin ToSet(owed))

(* An ack is due once, for a reliable message that was handled.              *)
OwedOnce ==
  /\ IsInjective(owed)
  /\ \A k \in ToSet(owed) : k \in ToSet(log) /\ k.reliable
  /\ acks \subseteq ToSet(log)

(* No peer has sent more than the window holds.                              *)
WithinWindow == \A p \in Peers : peerSent[p] <= Window

IInv ==
  /\ AckInv
  /\ WireNumbered /\ WindowKeeps /\ RepeatsFar
  /\ WithinWindow => AtMostOnce /\ OwedOnce /\ AckAccounted

(* The 50 ms timer runs and finds whatever is due sooner or later. *)
Due(i) ==
  \E n \in 0..Len(owed), due \in SUBSET {j \in Ids : Pending(j)} :
    i \in due /\ ProcessTimers(n, due)

AckDue ==
  \E n \in 1..Len(owed), due \in SUBSET {j \in Ids : Pending(j)} : ProcessTimers(n, due)

Fairness == (\A i \in Ids : WF_vars(Due(i))) /\ WF_vars(AckDue)

(* No message stays in the queue for ever: it is acked or reported failed. *)
Resolved == \A i \in Ids : outcome[i] = "pending" ~> outcome[i] \in {"acked", "failed"}

(* Every ack that is owed is sent. *)
AcksFlow == owed # << >> ~> owed = << >>
=============================================================================
