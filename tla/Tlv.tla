--------------------------------- MODULE Tlv ---------------------------------
(***************************************************************************)
(* The TLV encoding of tlv.cpp, byte for byte: what the Encoder appends    *)
(* for an element and its children, and the element the Decoder returns.   *)
(*                                                                         *)
(* An integer is its 64 bits as eight bytes, the least first, in two's     *)
(* complement; a string is its bytes, fewer than 2^16 of them, as messages *)
(* are; a Boolean is one byte, 0 or 1.  NoTag is the tag -1 of none.       *)
(***************************************************************************)
EXTENDS Integers, Sequences, SequencesExt

SignedInt == 0
UnsignedInt == 4
Boolean == 8
Float == 10
Double == 11
UTF8String == 12
ByteString == 16
Null == 20
Structure == 21
Array == 22
List == 23
EndOfContainer == 24

NoTag == -1
Truth(b) == <<IF b THEN 1 ELSE 0>>
ContextSpecific == 32

Strings == {UTF8String, ByteString}
Containers == {Structure, Array, List}

Element(type, tag, value, children) ==
  [type |-> type, tag |-> tag, value |-> value, children |-> children]

Start(s, n) == SubSeq(s, 1, n)
After(s, n) == SubSeq(s, n + 1, Len(s))
Repeat(c, n) == [i \in 1..n |-> c]

-----------------------------------------------------------------------------
(* The code of the size 1, 2, 4 or 8: the least of those that hold the number. *)
Fits(sizes) == CHOOSE c \in 0..3 : 2^c = Min(sizes \cup {8})

Negative(c) == c >= 128
Filler(c) == IF Negative(c) THEN 255 ELSE 0

(* Mutant of SignedSize: the sign is forgotten. *)
SignedSizeLoose(v) ==
  Fits({n \in {1, 2, 4} : \A k \in (n + 1)..8 : v[k] = Filler(v[8])})
SignedSize(v) ==
  Fits({n \in {1, 2, 4} : /\ Negative(v[n]) = Negative(v[8])
                          /\ \A k \in (n + 1)..8 : v[k] = Filler(v[8])})
UnsignedSize(v) == Fits({n \in {1, 2, 4} : \A k \in (n + 1)..8 : v[k] = 0})

Control(code, tag) ==
  IF tag = NoTag THEN <<code>> ELSE <<code + ContextSpecific, tag>>

Integer(type, size, e) == Control(type + size, e.tag) \o Start(e.value, 2^size)

EncodeLength(n) == IF n < 256 THEN <<n>> ELSE <<n % 256, n \div 256>>

(* encodeSignedInt ... encodeNull, open... and closeContainer. *)
RECURSIVE Encode(_)
Encode(e) ==
  CASE e.type = SignedInt -> Integer(SignedInt, SignedSize(e.value), e)
    [] e.type = UnsignedInt -> Integer(UnsignedInt, UnsignedSize(e.value), e)
    [] e.type = Boolean -> Control(Boolean + Head(e.value), e.tag)
    [] e.type \in {Float, Double} -> Control(e.type, e.tag) \o e.value
    [] e.type \in Strings ->
         Control(e.type + (IF Len(e.value) < 256 THEN 0 ELSE 1), e.tag)
           \o EncodeLength(Len(e.value)) \o e.value
    [] e.type = Null -> Control(Null, e.tag)
    [] e.type \in Containers ->
         Control(e.type, e.tag)
           \o FlattenSeq([i \in DOMAIN e.children |-> Encode(e.children[i])])
           \o <<EndOfContainer>>

-----------------------------------------------------------------------------
(* readByte gives 0 at the end, readBytes nothing where too little is left. *)
ReadByte(data) == IF data = <<>> THEN 0 ELSE Head(data)
ReadBytes(data, n) == IF n > Len(data) THEN <<>> ELSE Start(data, n)
ReadInteger(data, size, filler) ==
  [k \in 1..8 |-> IF k <= size THEN (IF k <= Len(data) THEN data[k] ELSE 0) ELSE filler]

(* A length is the first four bytes at most, of which strings use two. *)
Length(data, size) ==
  LET v == ReadInteger(data, size, 0) IN v[1] + 256 * v[2]

(* Decoder::decode: the element at the start of data, and what is left.      *)
(* An element without a tag has tag 0 from now on.                           *)
RECURSIVE Decode(_), DecodeChildren(_)
DecodeChildren(data) ==
  IF data = <<>> THEN [children |-> <<>>, rest |-> <<>>]
  ELSE IF Head(data) % 32 = EndOfContainer THEN [children |-> <<>>, rest |-> Tail(data)]
  ELSE LET first == Decode(data)
           others == DecodeChildren(first.rest)
       IN [children |-> <<first.element>> \o others.children, rest |-> others.rest]

Decode(data) ==
  LET code == Head(data) % 32
      tagged == Head(data) \div 32 = 1
      tag == IF tagged THEN ReadByte(Tail(data)) ELSE 0
      body == After(data, IF tagged THEN 2 ELSE 1)
      size == 2^(code % 4)
      sign == IF size \in DOMAIN body THEN Filler(body[size]) ELSE 0
      Is(type, value, n) ==
        [element |-> Element(type, tag, value, <<>>), rest |-> After(body, n)]
      String(type) ==
        LET n == Length(body, size)
            value == ReadBytes(After(body, size), n)
        IN Is(type, value, size + Len(value))
  IN CASE code \in 0..3 -> Is(SignedInt, ReadInteger(body, size, sign), size)
       [] code \in 4..7 -> Is(UnsignedInt, ReadInteger(body, size, 0), size)
       [] code \in {8, 9} -> Is(Boolean, Truth(code = 9), 0)
       [] code = Float -> Is(Float, ReadBytes(body, 4), 4)
       [] code = Double -> Is(Double, ReadBytes(body, 8), 8)
       [] code \in 12..15 -> String(UTF8String)
       [] code \in 16..19 -> String(ByteString)
       [] code \in Containers ->
            LET inner == DecodeChildren(body)
            IN [element |-> Element(code, tag, <<>>, inner.children), rest |-> inner.rest]
       [] code = EndOfContainer ->
            [element |-> Element(EndOfContainer, 0, <<>>, <<>>), rest |-> body]
       [] OTHER -> [element |-> Element(Null, IF code = Null THEN tag ELSE 0, <<>>, <<>>),
                    rest |-> body]

(* What a reader may know of an element: its tag, or 0. *)
RECURSIVE Known(_)
Known(e) ==
  [e EXCEPT !.tag = IF @ = NoTag THEN 0 ELSE @,
            !.children = [i \in DOMAIN @ |-> Known(@[i])]]
=============================================================================
