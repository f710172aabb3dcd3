------------------------------ MODULE SetupCode ------------------------------
(***************************************************************************)
(* The setup codes of matter.cpp: a passcode and a discriminator written   *)
(* as a manual code of 11 digits or as a QR code, what connectDevice reads *)
(* from either, and which devices it then takes for the one meant.         *)
(*                                                                         *)
(* A QR payload is its 88 bits, the least first, and a base 38 character   *)
(* its value; "MT:" and the dashes in a manual code are left out.          *)
(***************************************************************************)
EXTENDS Naturals, Sequences, SequencesExt

(* A number in n digits of a base, the least first, what does not fit left   *)
(* out; and the number that some digits are.                                 *)
InBase(v, base, n) ==
  LET Rest[k \in 0..n] == IF k = 0 THEN v ELSE Rest[k - 1] \div base
  IN [i \in 1..n |-> Rest[i - 1] % base]
FromBase(digits, base) ==
  LET n == Len(digits)
      Upper[k \in 0..n] == IF k = 0 THEN 0 ELSE digits[n + 1 - k] + base * Upper[k - 1]
  IN Upper[n]

Bits(v, n) == InBase(v, 2, n)
Unsigned(bits) == FromBase(bits, 2)
Digits(v, n) == Reverse(InBase(v, 10, n))
Decimal(digits) == FromBase(Reverse(digits), 10)
Part(s, from, n) == SubSeq(s, from, from + n - 1)

Least(a, b) == IF a < b THEN a ELSE b

(* In chunks of three bytes, and of the five characters they make. *)
Chunks(s, n) == [k \in 1..((Len(s) + n - 1) \div n) |->
                   SubSeq(s, (k - 1) * n + 1, Least(k * n, Len(s)))]
Characters(bits) ==
  LET n == CASE Len(bits) = 24 -> 5 [] Len(bits) = 16 -> 4 [] OTHER -> 2
  IN InBase(Unsigned(bits), 38, n)
Base38Encode(bits) == FlattenSeq([k \in DOMAIN Chunks(bits, 24) |->
                                    Characters(Chunks(bits, 24)[k])])

Bytes(characters) ==
  LET n == CASE Len(characters) = 5 -> 3 [] Len(characters) = 4 -> 2 [] OTHER -> 1
  IN Bits(FromBase(characters, 38), 8 * n)
Base38Decode(text) == FlattenSeq([k \in DOMAIN Chunks(text, 5) |->
                                    Bytes(Chunks(text, 5)[k])])

(* Version, vendor and product 0, commissioning flow 2, rendezvous flags 4.  *)
GenerateQRCode(passcode, discriminator) ==
  Base38Encode(Bits(0, 3) \o Bits(0, 16) \o Bits(0, 16) \o Bits(2, 2)
                 \o Bits(4, 8) \o Bits(discriminator, 12)
                 \o Bits(passcode, 7) \o Bits(passcode \div 128, 20) \o Bits(0, 4))

LastPasscode == 99999998
Nothing == [passcode |-> 0, discriminator |-> 0, short |-> FALSE]
Search(passcode, discriminator, short) ==
  IF passcode \in 1..LastPasscode
  THEN [passcode |-> passcode, discriminator |-> discriminator, short |-> short]
  ELSE Nothing

ParseQRCode(text) ==
  LET bits == Base38Decode(text)
  IN IF Len(bits) < 88 THEN Nothing
     ELSE Search(Unsigned(Part(bits, 58, 27)), Unsigned(Part(bits, 46, 12)), FALSE)

-----------------------------------------------------------------------------
(* The dihedral group of ten, and the permutation of a place: verhoeffD,     *)
(* verhoeffInv and verhoeffP by what makes them.                             *)
Times(a, b) ==
  CASE a < 5 /\ b < 5 -> (a + b) % 5
    [] a < 5 /\ b >= 5 -> 5 + ((a + b) % 5)
    [] a >= 5 /\ b < 5 -> 5 + ((a - b) % 5)
    [] OTHER -> (a - b) % 5
Inverted(a) == IF a \in 1..4 THEN 5 - a ELSE a
First == <<1, 5, 7, 6, 2, 8, 3, 0, 9, 4>>
Permuted[place \in 0..7] ==
  [c \in 0..9 |-> IF place = 0 THEN c ELSE First[Permuted[place - 1][c] + 1]]

(* The place of the i-th of n digits. *)
Place(i, n) == (n - i + 1) % 8

VerhoeffChecksum(digits) ==
  LET n == Len(digits)
      Sum[i \in 0..n] ==
        IF i = 0 THEN 0
        ELSE Times(Sum[i - 1], Permuted[Place(n - i + 1, n)][digits[n - i + 1]])
  IN Inverted(Sum[n])

(* One digit mistyped, or two neighbours that changed places. *)
Mistyped(digits) ==
  {[digits EXCEPT ![i] = c] : i \in DOMAIN digits, c \in 0..9} \cup
  {[digits EXCEPT ![i] = digits[i + 1], ![i + 1] = digits[i]] : i \in 1..(Len(digits) - 1)}

Checked(digits) ==
  digits[Len(digits)] = VerhoeffChecksum(SubSeq(digits, 1, Len(digits) - 1))

(* The two upper bits of the short discriminator, the two lower with the     *)
(* lower 14 bits of the passcode, and the upper 13.                          *)
GenerateManualCode(passcode, discriminator) ==
  LET short == discriminator \div 256
      digits == Digits(short \div 4, 1)
                  \o Digits((short % 4) * 16384 + (passcode % 16384), 5)
                  \o Digits(passcode \div 16384, 4)
  IN Append(digits, VerhoeffChecksum(digits))

(* The check digit is not looked at, nor the vendor and product of a long    *)
(* code, whose first digit has a bit more.                                   *)
ParseManualCode(digits) ==
  LET chunk1 == Decimal(Part(digits, 1, 1))
      chunk2 == Decimal(Part(digits, 2, 5))
      chunk3 == Decimal(Part(digits, 7, 4))
  IN IF Len(digits) \notin {11, 21} THEN Nothing
     ELSE Search((chunk2 % 16384) + chunk3 * 16384,
                 (chunk1 % 4) * 4 + ((chunk2 \div 16384) % 4), TRUE)

(* A device that has its vendor and product in the code. *)
LongManualCode(passcode, discriminator, vendor, product) ==
  LET short == GenerateManualCode(passcode, discriminator)
      digits == <<short[1] + 4>> \o Part(short, 2, 9)
                  \o Digits(vendor, 5) \o Digits(product, 5)
  IN Append(digits, VerhoeffChecksum(digits))

(* bleDeviceFound and mdnsServiceFound: the device that is looked for. *)
Matches(search, discriminator) ==
  search.discriminator = IF search.short THEN discriminator \div 256 ELSE discriminator
=============================================================================
