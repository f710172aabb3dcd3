------------------------------- MODULE Codecs -------------------------------
(***************************************************************************)
(* The encodings of the system, written by one end and read by the other:  *)
(* TLV elements, messages of the Interaction Model, message and protocol   *)
(* headers, certificates, setup codes, and the Thread dataset the           *)
(* controller is given.  One thing is written at a time.                   *)
(***************************************************************************)
EXTENDS InteractionModel, MessageCodec, SetupCode, Certificate

CONSTANTS
  Elements,        \* TLV elements, strings of fewer than 2^16 bytes
  Requests,        \* requests of the controller
  Answers,         \* answers of a device, each with its kind
  Headers,         \* message headers, their extensions, and what follows
  ProtocolHeaders, \* protocol headers, and what follows
  Codes,           \* passcodes with discriminators, a vendor and a product
  Certificates,    \* what goes into the two certificates of a device
  Datasets,        \* entries of Thread datasets
  Unwritten        \* nothing

VARIABLES
  input,  \* what is written
  data,   \* what is sent
  output  \* what is read

codecsVars == <<input, data, output>>

CodecsInit ==
  /\ input = Unwritten
  /\ data = Unwritten
  /\ output = Unwritten

Write(kind, what, bytes) ==
  /\ input = Unwritten
  /\ input' = [kind |-> kind, what |-> what]
  /\ data' = bytes
  /\ UNCHANGED output

Read(kind, what) ==
  /\ input # Unwritten
  /\ input.kind = kind
  /\ output = Unwritten
  /\ output' = what
  /\ UNCHANGED <<input, data>>

WriteElement == \E e \in Elements : Write("TLV", e, Encode(e))
ReadElement == Read("TLV", Decode(data))

WriteRequestOf == \E r \in Requests : Write("request", r, Encode(Request(r)))
ReadRequestBy == Read("request", RequestBy(input.what.kind, Decode(data).element))

WriteAnswer ==
  \E a \in Answers : Write("answer", a, Encode(AnswerOf(a.kind, a.what)))
ReadAnswer == Read("answer", Taken(input.what.kind, Decode(data).element))

(* A device may write extensions, which the controller never does. *)
WriteHeader ==
  \E h \in Headers : Write("header", h, EncodeHeader(h) \o h.extensions \o h.payload)
ReadHeader == Read("header", DecodeHeader(data))

WriteProtocolHeader ==
  \E h \in ProtocolHeaders : Write("protocol", h, EncodeProtocolHeader(h) \o h.payload)
ReadProtocolHeader == Read("protocol", DecodeProtocolHeader(data))

WriteDataset == \E d \in Datasets : Write("dataset", d, Dataset(d))
ReadDataset == Read("dataset", ExtractThreadExtPanId(data))

(* generateFabricCert, twice, for the device that is commissioned.           *)
RootCert(p) == GenerateX509Cert(p.fabric, p.drawn[1], <<>>, p.fabric.key, TRUE)
NodeCert(p) == GenerateX509Cert(p.fabric, p.drawn[2], p.node, p.key, FALSE)

WriteCertificates ==
  \E p \in Certificates :
    Write("certificates", p, [rcac |-> X509DerToMatterTLV(RootCert(p)),
                              noc |-> X509DerToMatterTLV(NodeCert(p))])
(* The device that verifies them. *)
ReadCertificates ==
  Read("certificates", [rcac |-> CertificateBy(Decode(data.rcac).element),
                        noc |-> CertificateBy(Decode(data.noc).element)])

(* shareDevice here, or what a device has printed on it. *)
WriteCode ==
  \E c \in Codes :
    Write("code", c,
      [manual |-> GenerateManualCode(c.passcode, c.discriminator),
       long |-> LongManualCode(c.passcode, c.discriminator, c.vendor, c.product),
       qr |-> GenerateQRCode(c.passcode, c.discriminator)])
(* connectDevice. *)
ReadCode ==
  Read("code", [manual |-> ParseManualCode(data.manual),
                long |-> ParseManualCode(data.long), qr |-> ParseQRCode(data.qr)])

CodecsNext ==
  \/ WriteElement \/ ReadElement
  \/ WriteRequestOf \/ ReadRequestBy
  \/ WriteAnswer \/ ReadAnswer
  \/ WriteHeader \/ ReadHeader
  \/ WriteProtocolHeader \/ ReadProtocolHeader
  \/ WriteDataset \/ ReadDataset
  \/ WriteCertificates \/ ReadCertificates
  \/ WriteCode \/ ReadCode

CodecsSpec == CodecsInit /\ [][CodecsNext]_codecsVars

-----------------------------------------------------------------------------
Same(h, fields) == \A f \in fields : output[f] = input.what[f]

(* The Extended PAN ID of a dataset, by its entries. *)
ExtPanId(entries) ==
  LET its == {i \in DOMAIN entries : entries[i].type = 2 /\ Len(entries[i].value) = 8}
  IN IF its = {} THEN <<>>
     ELSE entries[CHOOSE i \in its : \A j \in its : i <= j].value

(* A serial number that begins with a bit set goes without the zero that DER *)
(* puts before it.                                                           *)
Signed(c) ==
  {c} \cup IF Head(c.serial) = 0 THEN {[c EXCEPT !.serial = Tail(@)]} ELSE {}

ReadAs(what) ==
  CASE input.kind = "TLV" ->
         output.element = Known(what) /\ output.rest = <<>>
    [] input.kind = "request" -> output = what
    [] input.kind = "answer" -> output = what.what
    [] input.kind = "header" ->
         /\ output.read
         /\ Same(what, {"flags", "sessionId", "securityFlags", "messageCounter",
                        "sourceNodeId", "destNodeId", "destGroupId"})
         /\ SubSeq(data, output.offset + 1, Len(data)) = what.payload
    [] input.kind = "protocol" ->
         /\ output.read
         /\ Same(what, {"exchangeFlags", "opcode", "exchangeId", "protocolId",
                        "protocolVendorId", "ackCounter"})
         /\ SubSeq(data, output.offset + 1, Len(data)) = what.payload
    [] input.kind = "certificates" ->
         /\ output.rcac \in Signed(RootCert(what))
         /\ output.noc \in Signed(NodeCert(what))
         /\ Chained(output.noc, output.rcac)
    [] input.kind = "dataset" -> output = ExtPanId(what)
    [] input.kind = "code" ->
         /\ \A search \in {output.manual, output.long, output.qr} :
              search.passcode = what.passcode /\ Matches(search, what.discriminator)
         /\ \A digits \in Mistyped(data.manual) : Checked(digits) => digits = data.manual

(* What is read is what was written, and what follows it begins where it     *)
(* ends: integers at the limits of their sizes and of either sign, strings   *)
(* of 255 bytes and of 256, containers in containers, requests and answers   *)
(* with none, one and two entries, successes and failures mixed, headers     *)
(* with any of their optional fields, entries that are longer than a byte    *)
(* can say, and codes from either end of their ranges.  A device that makes   *)
(* its certificates again from TLV has, but for some serial numbers, what    *)
(* was signed, and one that the other vouches for.  And whoever looks at the *)
(* check digit of a manual code can tell a slip in it, as ParseManualCode    *)
(* does not.                                                                 *)
ReadBack == output # Unwritten => ReadAs(input.what)
=============================================================================
