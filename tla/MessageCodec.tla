---------------------------- MODULE MessageCodec ----------------------------
(***************************************************************************)
(* The two headers of a message (message.cpp), byte for byte, with the     *)
(* fields that are there or not by their flags, and the walk over a Thread *)
(* dataset to its Extended PAN ID (extractThreadExtPanId).  A field is its *)
(* bytes, the least first; Refused is the result false.                    *)
(***************************************************************************)
EXTENDS Naturals, Sequences, SequencesExt

Refused == [read |-> FALSE]

Bit(flags, weight) == (flags \div weight) % 2 = 1

(* Fields one after the other, each with the bytes it takes. *)
Field(data, from, n) == SubSeq(data, from + 1, from + n)

(* MessageCodec::encodeHeader; the controller has no extensions to write.    *)
EncodeHeader(h) ==
  <<h.flags>> \o h.sessionId \o <<h.securityFlags>> \o h.messageCounter
    \o (IF Bit(h.flags, 4) THEN h.sourceNodeId ELSE <<>>)
    \o (CASE h.flags % 4 = 1 -> h.destNodeId
          [] h.flags % 4 = 2 -> h.destGroupId
          [] OTHER -> <<>>)

(* Mutant of DestSize: a group has eight bytes too. *)
DestSizeNode(flags) == IF flags % 4 \in {1, 2} THEN 8 ELSE 0
DestSize(flags) == CASE flags % 4 = 1 -> 8 [] flags % 4 = 2 -> 2 [] OTHER -> 0

(* MessageCodec::decodeHeader.  Extensions are skipped.                      *)
DecodeHeader(data) ==
  LET flags == data[1]
      dest == 8 + (IF Bit(flags, 4) THEN 8 ELSE 0)
      length == dest + DestSize(flags)
      extended == Bit(data[4], 4)
      extensions == IF Len(data) < length + 2 THEN 0
                    ELSE data[length + 1] + 256 * data[length + 2]
      offset == IF extended THEN length + 2 + extensions ELSE length
  IN IF Len(data) < 8 THEN Refused
     ELSE IF flags \div 16 # 0 \/ Len(data) < length THEN Refused
     ELSE IF extended /\ (Len(data) < length + 2 \/ Len(data) < offset) THEN Refused
     ELSE [read |-> TRUE, offset |-> offset, flags |-> flags,
           sessionId |-> Field(data, 1, 2), securityFlags |-> data[4],
           messageCounter |-> Field(data, 4, 4),
           sourceNodeId |-> Field(data, 8, dest - 8),
           destNodeId |-> IF flags % 4 = 1 THEN Field(data, dest, 8) ELSE <<>>,
           destGroupId |-> IF flags % 4 = 2 THEN Field(data, dest, 2) ELSE <<>>]

(* MessageCodec::encodeProtocolHeader. *)
EncodeProtocolHeader(h) ==
  <<h.exchangeFlags, h.opcode>> \o h.exchangeId \o h.protocolId
    \o (IF Bit(h.exchangeFlags, 16) THEN h.protocolVendorId ELSE <<>>)
    \o (IF Bit(h.exchangeFlags, 2) THEN h.ackCounter ELSE <<>>)

(* MessageCodec::decodeProtocolHeader. *)
DecodeProtocolHeader(data) ==
  LET flags == data[1]
      ack == 6 + (IF Bit(flags, 16) THEN 2 ELSE 0)
      length == ack + (IF Bit(flags, 2) THEN 4 ELSE 0)
  IN IF Len(data) < 6 THEN Refused
     ELSE IF Len(data) < length THEN Refused
     ELSE [read |-> TRUE, offset |-> length, exchangeFlags |-> flags,
           opcode |-> data[2], exchangeId |-> Field(data, 2, 2),
           protocolId |-> Field(data, 4, 2), protocolVendorId |-> Field(data, 6, ack - 6),
           ackCounter |-> Field(data, ack, length - ack)]

(* extractThreadExtPanId: Found[i] is what is found from byte i on.          *)
ExtractThreadExtPanId(data) ==
  LET n == Len(data)
      Found[i \in 1..(n + 1)] ==
        IF i + 1 > n THEN <<>>
        ELSE LET wide == data[i + 1] = 255
                 length == IF ~wide THEN data[i + 1]
                           ELSE IF i + 3 > n THEN n
                           ELSE 256 * data[i + 2] + data[i + 3]
                 value == i + (IF wide THEN 4 ELSE 2)
             IN IF value + length > n + 1 THEN <<>>
                ELSE IF data[i] = 2 /\ length = 8 THEN Field(data, value - 1, 8)
                ELSE Found[value + length]
  IN Found[1]

(* The dataset an OTBR gives: a type, a length of one or three bytes, the    *)
(* value.                                                                    *)
Dataset(entries) ==
  FlattenSeq([i \in DOMAIN entries |->
    LET n == Len(entries[i].value)
    IN <<entries[i].type>>
         \o (IF n < 255 THEN <<n>> ELSE <<255, n \div 256, n % 256>>)
         \o entries[i].value])
=============================================================================
