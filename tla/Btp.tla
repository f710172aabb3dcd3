--------------------------------- MODULE Btp ---------------------------------
(***************************************************************************)
(* BTP (class BTP of ble.cpp) over one GATT connection after another: the  *)
(* handshake, the cutting of a message into segments and the putting       *)
(* together of the device's.  The device is a peer that closes on anything *)
(* but the next segment, and sends no more than a window without an ack.   *)
(*                                                                         *)
(* Abstractions.  A byte is the connection, the message and its place in   *)
(* it.  Each end waits for the other's message, as PASE and commissioning  *)
(* do.  m_lastAck, m_windowSize, m_rxExpectedLength and m_ackPending are   *)
(* written and never read, m_txQueue is never used, sendAck never called.  *)
(***************************************************************************)
EXTENDS Naturals, Sequences, SequencesExt

CONSTANTS
  Space,           \* sequence numbers: 256 in the code
  Mtus,            \* packet sizes a device may negotiate
  Window,          \* segments without an ack: BTP_DEFAULT_WINDOW
  Lengths,         \* bound: sizes of messages
  MaxMessages,     \* bound: messages each way in a connection
  MaxConnections,  \* bound: connections
  None             \* a field a packet does not have

ASSUME BtpAssumption ==
  /\ Space \in Nat /\ Window \in 2..(Space - 1)
  /\ Mtus \subseteq Nat \ 0..5
  /\ Lengths \subseteq Nat \ {0}
  /\ {MaxMessages, MaxConnections} \subseteq Nat
  /\ None \notin Nat

VARIABLES
  commissioning,  \* Matter::m_bleCommissioning
  ready,          \* BTP::m_ready
  mtu,            \* BTP::m_mtu
  txSequence,     \* BTP::m_txSequence
  rxSequence,     \* BTP::m_rxSequence
  rxBuffer,       \* BTP::m_rxBuffer
  linked,         \* GATT: the connection is up
  out, in,        \* GATT: packets to the device, and to the controller
  peer,           \* the device's end
  connection,     \* connections so far
  said, heard,    \* history of a connection: messages given to sendMessage,
                  \* and taken whole by the device
  replied, got    \* history of a connection: the device's messages, and those
                  \* handed to btpMessageReceived

ownVars == <<ready, mtu, txSequence, rxSequence, rxBuffer>>
btpVars == <<commissioning, ownVars, linked, out, in, peer, connection, said, heard,
          replied, got>>

-----------------------------------------------------------------------------
Smaller(a, b) == IF a < b THEN a ELSE b

(* The bytes of message n of a connection. *)
Message(n, length) == [i \in 1..length |-> <<connection, n, i>>]

Packet(begin, end, ack, sequence, length, payload) ==
  [begin |-> begin, end |-> end, ack |-> ack, sequence |-> sequence,
   length |-> length, payload |-> payload]
AckAlone(sequence) == Packet(FALSE, FALSE, None, sequence, None, <<>>)
Handshake(size) == [handshake |-> size]
IsHandshake(p) == "handshake" \in DOMAIN p

Size(p) == 2 + (IF p.ack = None THEN 0 ELSE 1) + (IF p.begin THEN 2 ELSE 0)
             + Len(p.payload)

(* What the first segment holds, and a later one. *)
FirstRoom == mtu - 5
Room == mtu - 2

(* Segments of a message, in whole packets of some size. *)
Packets(length, size) ==
  IF length <= size - 5 THEN 1
  ELSE 1 + (length - (size - 5) + (size - 3)) \div (size - 2)

(* sendSegments: the k-th packet is filled before the next is begun. *)
Segment(message, k) ==
  LET from == IF k = 1 THEN 1 ELSE FirstRoom + (k - 2) * Room + 1
      to == Smaller(Len(message), FirstRoom + (k - 1) * Room)
  IN Packet(k = 1, to = Len(message), IF k = 1 THEN rxSequence ELSE None,
            (txSequence + k - 1) % Space,
            IF k = 1 THEN Len(message) ELSE None, SubSeq(message, from, to))
Segments(message) == [k \in 1..Packets(Len(message), mtu) |-> Segment(message, k)]

(* The device before the handshake.  It counts its answer as segment 0. *)
Fresh(size) ==
  [mtu |-> size, next |-> 0, sent |-> 0, acked |-> None, buffer |-> <<>>,
   length |-> None, reply |-> <<>>, owes |-> 0, closed |-> FALSE]

-----------------------------------------------------------------------------
BtpInit ==
  /\ commissioning = FALSE
  /\ ready = FALSE
  /\ mtu = 0
  /\ txSequence = 0
  /\ rxSequence = 0
  /\ rxBuffer = <<>>
  /\ linked = FALSE
  /\ out = <<>>
  /\ in = <<>>
  /\ peer = None
  /\ connection = 0
  /\ said = <<>>
  /\ heard = <<>>
  /\ replied = <<>>
  /\ got = <<>>

-----------------------------------------------------------------------------
(* bleConnected and BTP::startHandshake, and the device's answer. *)
Connect ==
  /\ ~linked
  /\ connection < MaxConnections
  /\ connection' = connection + 1
  /\ linked' = TRUE
  /\ \E size \in Mtus :
       /\ peer' = Fresh(size)
       /\ in' = <<Handshake(size)>>
  /\ said' = <<>>
  /\ heard' = <<>>
  /\ replied' = <<>>
  /\ got' = <<>>
  /\ UNCHANGED <<commissioning, ownVars, out>>

(* bleDisconnected, at any moment: the BTP object keeps all it has. *)
Disconnect ==
  /\ linked
  /\ linked' = FALSE
  /\ commissioning' = FALSE
  /\ out' = <<>>
  /\ in' = <<>>
  /\ UNCHANGED <<ownVars, peer, connection, said, heard, replied, got>>

(* BTP::handleData of the handshake response, and btpHandshakeComplete. *)
HandleHandshake ==
  /\ in # <<>>
  /\ IsHandshake(Head(in))
  /\ in' = Tail(in)
  /\ mtu' = Head(in).handshake
  /\ ready' = TRUE
  /\ txSequence' = 0
  /\ rxSequence' = 0
  /\ commissioning' = TRUE
  /\ UNCHANGED <<rxBuffer, linked, out, peer, connection, said, heard, replied, got>>

(* Mutant of Begun: the buffer is not cleared. *)
BegunOn(p) == rxBuffer
Begun(p) == IF p.begin THEN <<>> ELSE rxBuffer

(* Mutant of Received: only the first segment of a message counts. *)
ReceivedFirst(p) == IF p.begin THEN p.sequence ELSE rxSequence
Received(p) == p.sequence

(* BTP::handleData of a segment, and btpMessageReceived of a whole message.  *)
(* An ack alone is a segment with no payload.                                *)
HandleSegment ==
  /\ in # <<>>
  /\ ~IsHandshake(Head(in))
  /\ in' = Tail(in)
  /\ LET p == Head(in)
         buffer == Begun(p) \o p.payload
     IN /\ rxSequence' = Received(p)
        /\ rxBuffer' = IF p.end THEN <<>> ELSE buffer
        /\ got' = IF p.end /\ commissioning THEN Append(got, buffer) ELSE got
  /\ UNCHANGED <<commissioning, ready, mtu, txSequence, linked, out, peer, connection,
                 said, heard, replied>>

(* BTP::sendMessage and sendSegments, called by paseSend... and              *)
(* sendEncryptedBle.  The window is not looked at: a message that is longer  *)
(* than it is not sent here.                                                 *)
SendMessage(length) ==
  LET message == Message(Len(said) + 1, length)
      packets == IF ready THEN Segments(message) ELSE <<>>
  IN
  /\ commissioning
  /\ Len(said) = Len(got)
  /\ Len(said) < MaxMessages
  /\ Packets(length, mtu) < Window
  /\ said' = Append(said, message)
  /\ out' = out \o packets
  /\ txSequence' = (txSequence + Len(packets)) % Space
  /\ UNCHANGED <<commissioning, ready, mtu, rxSequence, rxBuffer, linked, in, peer,
                 connection, heard, replied, got>>

-----------------------------------------------------------------------------
(* Segments of the device that are not acked, the handshake among them. *)
InWindow ==
  IF peer.acked = None THEN 1 + peer.sent
  ELSE (peer.sent + Space - peer.acked) % Space

(* A device accepts the segment that is next, whole, within its window, with *)
(* an ack of something it has sent.                                          *)
Acceptable(p) ==
  /\ Size(p) <= peer.mtu
  /\ p.sequence = peer.next
  /\ p.begin <=> peer.length = None
  /\ peer.owes < Window
  /\ p.ack # None => (peer.sent + Space - p.ack) % Space <= InWindow
  /\ LET length == IF p.begin THEN p.length ELSE peer.length
     IN p.end <=> Len(peer.buffer) + Len(p.payload) = length

(* The device takes a segment, and with the last one makes its answer. *)
DeviceTakes ==
  /\ out # <<>>
  /\ ~peer.closed
  /\ out' = Tail(out)
  /\ LET p == Head(out)
         message == peer.buffer \o p.payload
         taken == [peer EXCEPT !.next = (@ + 1) % Space, !.owes = @ + 1,
                     !.acked = IF p.ack = None THEN @ ELSE p.ack]
     IN IF ~Acceptable(p)
        THEN peer' = [peer EXCEPT !.closed = TRUE] /\ UNCHANGED <<heard, replied>>
        ELSE IF ~p.end
        THEN /\ peer' = [taken EXCEPT !.buffer = message,
                           !.length = IF p.begin THEN p.length ELSE @]
             /\ UNCHANGED <<heard, replied>>
        ELSE \E length \in Lengths :
               /\ Packets(length, peer.mtu) < Window
               /\ peer' = [taken EXCEPT !.buffer = <<>>, !.length = None,
                             !.reply = Message(Len(heard) + 1, length)]
               /\ heard' = Append(heard, message)
               /\ replied' = Append(replied, Message(Len(heard) + 1, length))
  /\ UNCHANGED <<commissioning, ownVars, linked, in, connection, said, got>>

(* The device sends the next segment of its answer. *)
DeviceSends ==
  LET whole == replied[Len(replied)]
      begin == Len(peer.reply) = Len(whole)
      payload == SubSeq(peer.reply, 1,
                   Smaller(Len(peer.reply), IF begin THEN peer.mtu - 5 ELSE peer.mtu - 2))
      sequence == (peer.sent + 1) % Space
  IN
  /\ linked
  /\ peer.reply # <<>>
  /\ InWindow < Window
  /\ peer' = [peer EXCEPT !.sent = sequence, !.owes = 0,
                !.reply = SubSeq(@, Len(payload) + 1, Len(@))]
  /\ in' = Append(in, Packet(begin, Len(payload) = Len(peer.reply), None, sequence,
                             IF begin THEN Len(whole) ELSE None, payload))
  /\ UNCHANGED <<commissioning, ownVars, linked, out, connection, said, heard, replied,
                 got>>

(* The device acks the last segment with one of no payload. *)
DeviceAcks ==
  /\ linked
  /\ out = <<>>
  /\ peer.owes > 1
  /\ InWindow < Window
  /\ peer' = [peer EXCEPT !.sent = (@ + 1) % Space, !.owes = 0]
  /\ in' = Append(in, AckAlone((peer.sent + 1) % Space))
  /\ UNCHANGED <<commissioning, ownVars, linked, out, connection, said, heard, replied,
                 got>>

BtpNext ==
  \/ Connect
  \/ Disconnect
  \/ HandleHandshake
  \/ HandleSegment
  \/ \E length \in Lengths : SendMessage(length)
  \/ DeviceTakes
  \/ DeviceSends
  \/ DeviceAcks

BtpSpec == BtpInit /\ [][BtpNext]_btpVars

-----------------------------------------------------------------------------
(* What either end takes of a connection is what the other gave, message by  *)
(* message and byte for byte, and a device that checks every segment never   *)
(* closes: sequence numbers go round, a message may fill its packets to the  *)
(* last byte, and nothing of a connection that broke off in the middle of a  *)
(* message is taken for part of the next.  Nor is the device left with an    *)
(* answer it may not go on with: what the controller acks with each message  *)
(* makes room for the next answer, though it never acks on its own.  And     *)
(* commissioning over BLE is on only while there is a connection.            *)
MessagesWhole ==
  /\ commissioning => linked
  /\ peer # None =>
       /\ ~peer.closed
       /\ IsPrefix(heard, said)
       /\ IsPrefix(got, replied)
       /\ linked /\ in = <<>> /\ peer.reply # <<>> => InWindow < Window

-----------------------------------------------------------------------------
(* What MessagesWhole rests on.  Packets, and the device's end, typed. *)
Byte == Nat \X Nat \X Nat
Number == 0 .. Space - 1
AnyPacket ==
  [begin : BOOLEAN, end : BOOLEAN, ack : Number \cup {None}, sequence : Number,
   length : Nat \cup {None}, payload : Seq(Byte)]
Device ==
  [mtu : Mtus, next : Number, sent : Number, acked : Number \cup {None},
   buffer : Seq(Byte), length : Nat \cup {None}, reply : Seq(Byte), owes : Nat,
   closed : {FALSE}]

BtpTypes ==
  /\ {commissioning, ready, linked} \subseteq BOOLEAN
  /\ connection \in Nat
  /\ {said, heard, replied, got} \subseteq Seq(Seq(Byte))

(* How much of a message is in its first k packets of some size, what that   *)
(* is, what is left, and the k-th packet.                                    *)
Cut(length, size, k) ==
  IF k = 0 THEN 0 ELSE Smaller(length, (size - 5) + (k - 1) * (size - 2))
Piece(message, from, to) == SubSeq(message, from + 1, to)
FrontOf(message, size, k) == Piece(message, 0, Cut(Len(message), size, k))
Left(message, size, k) == Piece(message, Cut(Len(message), size, k), Len(message))
PacketOf(message, size, k, ack, sequence) ==
  LET length == Len(message)
  IN Packet(k = 1, k = Packets(length, size), ack, sequence,
            IF k = 1 THEN length ELSE None,
            Piece(message, Cut(length, size, k - 1), Cut(length, size, k)))

(* A message goes into less than a window of packets.                        *)
InPackets(message, size) ==
  message \in Seq(Byte) /\ message # <<>> /\ Packets(Len(message), size) < Window

(* The connection is up and the handshake is on its way. *)
Beginning ==
  /\ ~commissioning
  /\ peer = Fresh(peer.mtu)
  /\ in = <<Handshake(peer.mtu)>> /\ out = <<>>
  /\ said = <<>> /\ heard = <<>> /\ replied = <<>> /\ got = <<>>

(* Nothing of a message of the controller's is under way. *)
AtRest == out = <<>> /\ peer.buffer = <<>> /\ peer.length = None /\ txSequence = peer.next

(* Between an answer and the next message.                                   *)
Idle ==
  /\ heard = said /\ replied = got /\ Len(said) = Len(got)
  /\ AtRest
  /\ peer.reply = <<>> /\ peer.owes = 0
  /\ in = <<>> /\ rxSequence = peer.sent

(* The device has taken j packets of a message, and the rest is out.         *)
Sending(message, j) ==
  LET packets == Packets(Len(message), mtu)
  IN /\ InPackets(message, mtu) /\ j < packets
     /\ said = Append(heard, message) /\ replied = got /\ Len(heard) = Len(got)
     /\ Len(out) = packets - j
     /\ \A k \in 1 .. packets - j :
          out[k] = PacketOf(message, mtu, j + k, IF j + k = 1 THEN rxSequence ELSE None,
                            (peer.next + (k - 1)) % Space)
     /\ txSequence = (peer.next + (packets - j)) % Space
     /\ peer.buffer = FrontOf(message, mtu, j)
     /\ peer.length = (IF j = 0 THEN None ELSE Len(message))
     /\ peer.reply = <<>> /\ peer.owes = j /\ (j > 0 => peer.acked = peer.sent)
     /\ in = <<>> /\ rxSequence = peer.sent

(* On the way to the controller: o acks alone, then the packets of a message *)
(* after the h-th, to the s-th.                                              *)
OnTheWay(message, h, s, o) ==
  /\ Len(in) = o + (s - h)
  /\ o = 1 => in[1] = AckAlone(in[1].sequence)
  /\ \A k \in 1 .. s - h :
       in[o + k] = PacketOf(message, mtu, h + k, None, in[o + k].sequence)
  /\ IF in = <<>> THEN rxSequence = peer.sent ELSE in[Len(in)].sequence = peer.sent

(* The device has sent s packets of its answer, h of which are taken, and e  *)
(* acks before, of which o are still to be taken.                            *)
Answering(message, h, s, e, o) ==
  /\ InPackets(message, mtu)
  /\ s <= Packets(Len(message), mtu) /\ h < Packets(Len(message), mtu)
  /\ heard = said /\ replied = Append(got, message) /\ Len(said) = Len(replied)
  /\ AtRest
  /\ peer.reply = Left(message, mtu, s)
  /\ peer.acked # None /\ InWindow = e + s /\ e + s <= Window
  /\ e + s > 0 => peer.owes = 0
  /\ OnTheWay(message, h, s, o)
  /\ o = 1 => h = 0
  /\ h > 0 => rxBuffer = FrontOf(message, mtu, h)

Going ==
  /\ commissioning /\ ready /\ mtu = peer.mtu
  /\ {in, out} \subseteq Seq(AnyPacket)
  /\ \/ Idle
     \/ \E message \in ToSet(said), j \in 0..Window : Sending(message, j)
     \/ \E message \in ToSet(replied), s \in 0..Window, e \in 0..1 :
          \E h \in 0..s, o \in 0..e : Answering(message, h, s, e, o)

BtpInv ==
  /\ BtpTypes
  /\ commissioning => linked
  /\ ~linked => in = <<>> /\ out = <<>>
  /\ peer # None =>
       peer \in Device /\ IsPrefix(heard, said) /\ IsPrefix(got, replied)
  /\ linked => peer \in Device /\ (Beginning \/ Going)
=============================================================================
