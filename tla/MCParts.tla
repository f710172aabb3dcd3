------------------------------ MODULE MCParts ------------------------------
(* The parts that share no state with the others, for TLC: one at a time,  *)
(* the rest of them standing still.                                        *)
EXTENDS Btp, Sharing, Mdns, Codecs, Consumer

CONSTANTS dev1, dev2, host1, host2, adr4, adr6, alt6, op1, op2, com1

VARIABLE part

(* A device alone, with a second of its kind, and with one of another.  Only *)
(* the consumer's part begins with each of them.                             *)
Switch(features, presses) == [values |-> {}, features |-> features, presses |-> presses]
Lamp == [Switch({}, 0) EXCEPT !.values = {"status", "level"}]
Bulb == [Switch({}, 0) EXCEPT !.values = {"colorTemperature", "powerOnStatus"}]
Cover == [Switch({}, 0) EXCEPT !.values = {"lock", "position"}]
Latch == Switch({"LS"}, 0)
Button == Switch({"MS", "MSR"}, 0)
LongButton == Switch({"MS", "MSR", "MSL"}, 0)
DoubleButton == Switch({"MS", "MSR", "MSL", "MSM"}, 2)
ClickButton == Switch({"MS", "MSR", "MSM"}, 4)
Knob == Switch({"MS", "MSR", "MSM"}, 6)
AnyArrangement ==
  {<<Lamp, Lamp>>, <<Lamp, Button>>, <<Bulb, Knob>>, <<Cover, DoubleButton>>,
   <<Latch, LongButton>>, <<Knob, ClickButton>>, <<Knob, Knob>>}

Init ==
  /\ part \in {"BTP", "sharing", "mDNS", "codecs", "consumer"}
  /\ BtpInit
  /\ SharingInit
  /\ MdnsInit
  /\ CodecsInit
  /\ ConsumerInit
  /\ part # "consumer" => kind = <<Lamp, Lamp>>

Next ==
  \/ part = "BTP" /\ BtpNext
     /\ UNCHANGED <<part, sharingVars, mdnsVars, codecsVars, consumerVars>>
  \/ part = "sharing" /\ SharingNext
     /\ UNCHANGED <<part, btpVars, mdnsVars, codecsVars, consumerVars>>
  \/ part = "mDNS" /\ MdnsNext
     /\ UNCHANGED <<part, btpVars, sharingVars, codecsVars, consumerVars>>
  \/ part = "codecs" /\ CodecsNext
     /\ UNCHANGED <<part, btpVars, sharingVars, mdnsVars, consumerVars>>
  \/ part = "consumer" /\ ConsumerNext
     /\ UNCHANGED <<part, btpVars, sharingVars, mdnsVars, codecsVars>>

Spec == Init /\ [][Next]_<<part, btpVars, sharingVars, mdnsVars, codecsVars, consumerVars>>

-----------------------------------------------------------------------------
(* mDNS: one device in two fabrics, another to be commissioned.            *)
TwoFabrics == [i \in Instances |-> IF i = com1 THEN host2 ELSE host1]
AtFirst == [k \in Hosts |-> IF k = host1 THEN adr6 ELSE adr4]

(* Sequences of some things. *)
UpTo(n, some) == UNION {[1..k -> some] : k \in 0..n}

(* TLV: numbers about the limits of every size, strings about 2^8, and a   *)
(* byte, 24, that would be taken for the end of a container.               *)
Numbers ==
  {[k \in 1..8 |-> IF k < n THEN low ELSE IF k = n THEN top ELSE fill] :
     n \in {1, 2, 3, 4, 5, 8}, low \in {0, 255}, top \in {0, 1, 127, 128, 255}, fill \in {0, 255}}
Scalars(tag) ==
  {Element(t, tag, v, <<>>) : t \in {SignedInt, UnsignedInt}, v \in Numbers} \cup
  {Element(t, tag, Repeat(24, n), <<>>) : t \in Strings, n \in {0, 1, 255, 256, 257}} \cup
  {Bool(tag, b) : b \in BOOLEAN} \cup
  {Element(Null, tag, <<>>, <<>>), Element(Float, tag, Repeat(24, 4), <<>>),
   Element(Double, tag, Repeat(24, 8), <<>>)}
Boxes(some) ==
  {Element(t, tag, <<>>, children) :
     t \in Containers, tag \in {NoTag, 24}, children \in UpTo(2, some)}
Some == {Element(ByteString, 24, <<24>>, <<>>), Bool(NoTag, TRUE)}
Nested == {Element(List, 3, <<>>, <<>>)} \cup {Element(Array, NoTag, <<>>, <<b>>) : b \in Some}
AnyElement == UNION {Scalars(tag) : tag \in {NoTag, 0, 24, 255}} \cup Boxes(Some \cup Nested)

(* Requests of one or two paths, and fields of every type that is copied;  *)
(* answers of up to two entries, with or without an error.                 *)
Wide == <<1, 252, 255, 255, 0, 0, 0, 0>>
Paths == {<<Small(0), Small(6), Small(0)>>, <<Small(1), Wide, Small(1)>>}
Fields ==
  {Element(SignedInt, 24, [k \in 1..8 |-> 255], <<>>), Uint(0, Wide), Bool(2, TRUE),
   Element(Null, 3, <<>>, <<>>), Element(UTF8String, 4, <<65>>, <<>>),
   Element(ByteString, 1, Repeat(24, 32), <<>>)}
AnyRequest ==
  {[kind |-> "ReadRequest", paths |-> p] : p \in UpTo(2, Paths)} \cup
  {[kind |-> "WriteRequest", path |-> p, value |-> [v EXCEPT !.tag = 0]] : p \in Paths, v \in Fields} \cup
  {[kind |-> "InvokeRequest", path |-> p, timed |-> timed, fields |-> f] :
     p \in Paths, timed \in BOOLEAN, f \in UpTo(2, Fields)} \cup
  {[kind |-> "SubscribeRequest", min |-> Small(0), max |-> Small(60), paths |-> p, events |-> v] :
     p \in UpTo(2, Paths), v \in UpTo(2, [path : Paths, urgent : BOOLEAN])} \cup
  {[kind |-> "TimedRequest", timeout |-> <<136, 19, 0, 0, 0, 0, 0, 0>>],
   [kind |-> "StatusResponse", status |-> Small(0)]}
AttributeReports ==
  {[path |-> p, hasError |-> failed, status |-> IF failed THEN Small(134) ELSE Zero,
    value |-> IF failed THEN Zero ELSE Wide] : p \in Paths, failed \in BOOLEAN}
EventReports ==
  {[path |-> p, eventNumber |-> Wide, priority |-> Small(1), data |-> d] :
     p \in Paths, d \in {<<>>, <<Uint(0, Small(1)), Uint(1, Small(2))>>}}
Responses ==
  {[path |-> p, status |-> s, data |-> <<>>] : p \in Paths, s \in {Zero, Small(1)}} \cup
  {[path |-> p, status |-> Zero, data |-> <<f>>] : p \in Paths, f \in Fields}
AnyAnswer ==
  {[kind |-> "ReportData", what |-> [attributes |-> x, events |-> v]] :
     x \in UpTo(2, AttributeReports), v \in UpTo(2, EventReports)} \cup
  {[kind |-> "InvokeResponse", what |-> x] : x \in UpTo(2, Responses)} \cup
  {[kind |-> "StatusResponse", what |-> Small(s)] : s \in {0, 1, 198}}

Optional(there, field) == IF there THEN field ELSE <<>>
AnyHeader ==
  {[flags |-> 4 * source + dest, sessionId |-> <<1, 255>>, messageCounter |-> <<0, 1, 2, 255>>,
    securityFlags |-> IF x = <<>> THEN 0 ELSE 4, sourceNodeId |-> Optional(source = 1, Repeat(7, 8)),
    destNodeId |-> Optional(dest = 1, Repeat(8, 8)), destGroupId |-> Optional(dest = 2, <<9, 9>>),
    extensions |-> x, payload |-> rest] :
     source \in 0..1, dest \in 0..2, x \in {<<>>, <<0, 0>>, <<2, 0, 5, 6>>}, rest \in {<<>>, <<1>>}}
AnyProtocolHeader ==
  {[exchangeFlags |-> f, opcode |-> 5, exchangeId |-> <<0, 1>>, protocolId |-> <<1, 0>>,
    protocolVendorId |-> Optional(Bit(f, 16), <<3, 4>>),
    ackCounter |-> Optional(Bit(f, 2), <<1, 2, 3, 4>>), payload |-> rest] :
     f \in (0..7) \cup (16..23), rest \in {<<>>, <<1>>}}

(* Identifiers and signatures that begin with zeros, a serial number that   *)
(* does and then has its first bit set, dates at the limits of two bytes.  *)
AnyCertificates ==
  {[fabric |-> [root |-> Repeat(root, 7) \o <<0>>, fabric |-> Small(1), key |-> <<4, 1>> \o Repeat(0, 63)],
    node |-> <<171, 1, 255, 16, 0, 0, 0, 0>>, key |-> <<4, 2>> \o Repeat(0, 63),
    drawn |-> [i \in 1..2 |-> [serial |-> x, now |-> MatterEpoch + time, r |-> r, s |-> Repeat(255, 32)]]] :
     root \in {0, 200}, x \in {Repeat(0, 8), Repeat(255, 8), <<0, 127>> \o Repeat(0, 6), <<0, 0, 128>> \o Repeat(9, 5)},
     time \in {0, 65535, 65536, 800000000}, r \in {Repeat(9, 32), <<0, 0>> \o Repeat(128, 30)}}

(* A dataset with an ID of another length, or behind an entry of 255 bytes. *)
AnyDataset ==
  UpTo(2, {[type |-> t, value |-> Repeat(2, size)] :
             t \in {0, 2}, size \in {0, 7, 8, 254, 255, 256}})
AnyCode ==
  {[passcode |-> p, discriminator |-> x, vendor |-> 65521, product |-> 32768] :
     p \in {1, 127, 128, 16383, 16384, 20202021, 99999998},
     x \in {0, 255, 256, 1023, 3840, 4095}}
=============================================================================
