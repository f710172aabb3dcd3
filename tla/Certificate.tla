----------------------------- MODULE Certificate -----------------------------
(***************************************************************************)
(* The certificates of the fabric (crypto.cpp): generateX509Cert makes and *)
(* signs an X.509 certificate, x509DerToMatterTLV writes what a device is  *)
(* sent of it, from which the device makes the certificate again to verify *)
(* the signature.                                                          *)
(*                                                                         *)
(* Abstractions.  An X.509 certificate is its fields and extensions in     *)
(* order, each as DER distinguishes them; a date is its Unix time, past    *)
(* 2000; Sha1 of two keys differs.  A number of DER and of BIGNUM is its   *)
(* bytes, the most significant first; an identifier has eight, the least   *)
(* first.                                                                  *)
(***************************************************************************)
EXTENDS Tlv

(* BN_bin2bn and BN_bn2bin: the bytes without the zeros in front. *)
Significant(bytes) ==
  LET first == SelectInSeq(bytes, LAMBDA b : b # 0)
  IN IF first = 0 THEN <<>> ELSE After(bytes, first - 1)
(* DER has a sign, which takes a zero where the first bit is set. *)
DerInteger(number) ==
  IF number = <<>> \/ Negative(Head(number)) THEN <<0>> \o number ELSE number
Padded(number, n) == Repeat(0, n - Len(number)) \o number

Sha1(key) == Repeat(key[2], 20)

(* The last number of the identifier of a name, and its tag. *)
NodeId == 1
RootId == 4
FabricId == 5
MatterTag(name) == 16 + name

(* addMatterDNEntry: sixteen hexadecimal digits. *)
Hex(id) ==
  [i \in 1..16 |-> LET b == id[8 - (i - 1) \div 2]
                   IN IF i % 2 = 1 THEN b \div 16 ELSE b % 16]
FromHex(text) == [k \in 1..8 |-> 16 * text[17 - 2 * k] + text[18 - 2 * k]]
Entry(name, id) == [name |-> name, text |-> Hex(id)]

Extension(name, critical, value) ==
  [name |-> name, critical |-> critical, value |-> value]

Validity == 3650 * 86400
MatterEpoch == 946684800

(* The constraint cA is left out of DER where it is FALSE. *)
Constraints(ca) == IF ca THEN <<TRUE>> ELSE <<>>

(* Crypto::generateX509Cert: the certificate of the root, or of a node.      *)
(* fabric has the identifiers and the key that signs.                        *)
GenerateX509Cert(fabric, draw, node, subjectKey, isRCAC) ==
  [serial |-> DerInteger(Significant([draw.serial EXCEPT ![1] = @ % 128])),
   issuer |-> <<Entry(RootId, fabric.root)>>,
   notBefore |-> draw.now,
   notAfter |-> draw.now + Validity,
   subject |-> IF isRCAC THEN <<Entry(RootId, fabric.root)>>
               ELSE <<Entry(NodeId, node), Entry(FabricId, fabric.fabric)>>,
   publicKey |-> subjectKey,
   extensions |->
     <<Extension("basicConstraints", TRUE, Constraints(isRCAC)),
       Extension("keyUsage", TRUE, IF isRCAC THEN {5, 6} ELSE {0})>>
       \o (IF isRCAC THEN <<>>
           ELSE <<Extension("extKeyUsage", TRUE, <<"serverAuth", "clientAuth">>)>>)
       \o <<Extension("subjectKeyId", FALSE, Sha1(subjectKey)),
            Extension("authorityKeyId", FALSE, Sha1(fabric.key))>>,
   signature |-> <<Significant(draw.r), Significant(draw.s)>>]

-----------------------------------------------------------------------------
BytesOf(tag, value) == Encode(Element(ByteString, tag, value, <<>>))
NumberOf(tag, n) ==
  Encode(Element(UnsignedInt, tag,
    [k \in 1..8 |-> IF k > 4 THEN 0 ELSE (n \div 256^(k - 1)) % 256], <<>>))
Contained(type, tag, bytes) == Control(type, tag) \o bytes \o <<EndOfContainer>>

(* convertDNToMatterTLV: an integer of eight bytes, however small. *)
ConvertDN(entries) ==
  FlattenSeq([i \in DOMAIN entries |->
    Control(UnsignedInt + 3, MatterTag(entries[i].name)) \o FromHex(entries[i].text)])

Weight(bits) == (IF 0 \in bits THEN 1 ELSE 0) + (IF 5 \in bits THEN 32 ELSE 0)
                  + (IF 6 \in bits THEN 64 ELSE 0)

(* The extensions, each by its name. *)
ConvertExtension(x) ==
  CASE x.name = "basicConstraints" ->
         Contained(Structure, 1,
           Encode(Element(Boolean, 1, Truth(x.value = <<TRUE>>), <<>>)))
    [] x.name = "keyUsage" -> Control(UnsignedInt + 1, 2) \o <<Weight(x.value), 0>>
    [] x.name = "extKeyUsage" ->
         Contained(Array, 3, FlattenSeq([i \in DOMAIN x.value |->
           NumberOf(NoTag, IF x.value[i] = "serverAuth" THEN 1 ELSE 2)]))
    [] x.name = "subjectKeyId" -> BytesOf(4, x.value)
    [] x.name = "authorityKeyId" -> BytesOf(5, x.value)
ExtensionNames ==
  <<"basicConstraints", "keyUsage", "extKeyUsage", "subjectKeyId", "authorityKeyId">>
ConvertExtensions(extensions) ==
  FlattenSeq([i \in DOMAIN ExtensionNames |->
    LET at == SelectInSeq(extensions, LAMBDA x : x.name = ExtensionNames[i])
    IN IF at = 0 THEN <<>> ELSE ConvertExtension(extensions[at])])

(* Crypto::x509DerToMatterTLV.  Algorithms and curve are 1. *)
X509DerToMatterTLV(c) ==
  Contained(Structure, NoTag,
    BytesOf(1, Significant(c.serial))
      \o NumberOf(2, 1)
      \o Contained(List, 3, ConvertDN(c.issuer))
      \o NumberOf(4, c.notBefore - MatterEpoch)
      \o NumberOf(5, c.notAfter - MatterEpoch)
      \o Contained(List, 6, ConvertDN(c.subject))
      \o NumberOf(7, 1) \o NumberOf(8, 1)
      \o BytesOf(9, c.publicKey)
      \o Contained(List, 10, ConvertExtensions(c.extensions))
      \o BytesOf(11, Padded(c.signature[1], 32) \o Padded(c.signature[2], 32)))

-----------------------------------------------------------------------------
(* The device: the certificate of a TLV structure.  A serial number is the   *)
(* content of the DER integer, and which extensions are critical is fixed.   *)
ValueOf(e, tag) == e.children[SelectInSeq(e.children, LAMBDA x : x.tag = tag)].value
PartOf(e, tag) == e.children[SelectInSeq(e.children, LAMBDA x : x.tag = tag)].children
Seconds(value) == value[1] + 256 * value[2] + 65536 * value[3] + 16777216 * value[4]
NameBy(entries) == [i \in DOMAIN entries |-> Entry(entries[i].tag - 16, entries[i].value)]

ExtensionBy(e) ==
  CASE e.tag = 1 -> Extension(ExtensionNames[1], TRUE, Constraints(ValueOf(e, 1) = <<1>>))
    [] e.tag = 2 -> Extension(ExtensionNames[2], TRUE,
                      {i \in 0..7 : (e.value[1] \div 2^i) % 2 = 1})
    [] e.tag = 3 -> Extension(ExtensionNames[3], TRUE,
                      [i \in DOMAIN e.children |->
                         IF e.children[i].value[1] = 1 THEN "serverAuth" ELSE "clientAuth"])
    [] e.tag \in {4, 5} -> Extension(ExtensionNames[e.tag], FALSE, e.value)

CertificateBy(e) ==
  [serial |-> ValueOf(e, 1),
   issuer |-> NameBy(PartOf(e, 3)),
   notBefore |-> Seconds(ValueOf(e, 4)) + MatterEpoch,
   notAfter |-> Seconds(ValueOf(e, 5)) + MatterEpoch,
   subject |-> NameBy(PartOf(e, 6)),
   publicKey |-> ValueOf(e, 9),
   extensions |-> [i \in DOMAIN PartOf(e, 10) |-> ExtensionBy(PartOf(e, 10)[i])],
   signature |-> <<Significant(Start(ValueOf(e, 11), 32)),
                   Significant(After(ValueOf(e, 11), 32))>>]

(* A device takes the certificate of a node that the root has signed. *)
Chained(noc, rcac) ==
  LET KeyId(c, name) ==
        {c.extensions[i].value : i \in {j \in DOMAIN c.extensions : c.extensions[j].name = name}}
  IN /\ noc.issuer = rcac.subject
     /\ rcac.issuer = rcac.subject
     /\ KeyId(noc, "authorityKeyId") = KeyId(rcac, "subjectKeyId")
=============================================================================
