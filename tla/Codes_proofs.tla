---------------------------- MODULE Codes_proofs ----------------------------
(***************************************************************************)
(* Proofs about SetupCode, for every number that is written and every code *)
(* that is mistyped: the manual code and the QR code are read as they were *)
(* written, and the check digit shows one mistyped digit or one swap.      *)
(*                                                                         *)
(* The recursive functions of SetupCode are CHOOSE expressions until it is *)
(* shown that such a function exists: StepByStep, from which each of them  *)
(* has its lemma ...StepByStep.  Numbers that a prover would count up to   *)
(* are hidden in definitions or named by PICK.                             *)
(***************************************************************************)
EXTENDS SetupCode, SequenceTheorems, WellFoundedInduction, TLAPS

(* A set of numbers has a least one.                                         *)
LEMMA LeastNumber ==
  ASSUME NEW T, T \subseteq Nat, T # {}
  PROVE  \E x \in T : \A y \in T : x <= y
  <1> DEFINE R == {p \in Nat \X Nat : p[1] < p[2]}
  <1>1. IsWellFoundedOn(R, Nat)
    BY NatLessThanWellFounded DEF OpToRel
  <1>2. \E x \in T : \A y \in T : <<y, x>> \notin R
    <2> HIDE DEF R
    <2> QED BY <1>1, WFMin
  <1>3. PICK x \in T : \A y \in T : <<y, x>> \notin R BY <1>2
  <1>4. ASSUME NEW y \in T PROVE x <= y
    <2>1. x \in Nat /\ y \in Nat OBVIOUS
    <2>2. <<y, x>> \notin R BY <1>3
    <2>3. ~(y < x) BY <2>1, <2>2
    <2> QED BY <2>1, <2>3
  <1> QED BY <1>4

(* What holds of 0 and goes on to the next number holds of every number.  The *)
(* library states it for an operator, here it is for a set.                  *)
LEMMA EveryNumber ==
  ASSUME NEW S, 0 \in S, \A n \in Nat : n \in S => n + 1 \in S
  PROVE  \A n \in Nat : n \in S
  <1> SUFFICES ASSUME NEW m \in Nat, m \notin S PROVE FALSE OBVIOUS
  <1> DEFINE T == Nat \ S
  <1>1. T \subseteq Nat /\ T # {} OBVIOUS
  <1>2. \E x \in T : \A y \in T : x <= y
    <2> HIDE DEF T
    <2> QED BY <1>1, LeastNumber
  <1>3. PICK x \in T : \A y \in T : x <= y BY <1>2
  <1>4. x \in Nat /\ x # 0 OBVIOUS
  <1>5. x - 1 \in Nat /\ x = (x - 1) + 1 BY <1>4
  <1>6. x - 1 \in S
    <2> SUFFICES ASSUME x - 1 \notin S PROVE FALSE OBVIOUS
    <2>1. x <= x - 1 BY <1>3, <1>5
    <2> QED BY <2>1, <1>4
  <1>7. (x - 1) + 1 \in S BY <1>5, <1>6
  <1>8. x \notin S OBVIOUS
  <1> QED BY <1>5, <1>7, <1>8

(* A function made from the one before at each number, up to the last.       *)
Built(f, b, N, G) == f[0] = b /\ \A n \in 1..N : f[n] = G[<<f[n - 1], n>>]

(* There is one for every beginning and every step.                          *)
LEMMA StepByStep ==
  ASSUME NEW V, NEW b \in V, NEW N \in Nat, NEW G \in [V \X (1..N) -> V]
  PROVE  \E f \in [0..N -> V] : Built(f, b, N, G)
  <1> DEFINE Upto(m, f) == f[0] = b /\ \A n \in 1..m : f[n] = G[<<f[n - 1], n>>]
             S == {m \in Nat : m <= N => \E f \in [0..m -> V] : Upto(m, f)}
  <1>1. 0 \in S
    <2>1. [n \in 0..0 |-> b] \in [0..0 -> V] OBVIOUS
    <2>2. Upto(0, [n \in 0..0 |-> b]) OBVIOUS
    <2> QED BY <2>1, <2>2
  <1>2. ASSUME NEW m \in Nat, m \in S PROVE m + 1 \in S
    <2> SUFFICES ASSUME m + 1 <= N
                 PROVE  \E f \in [0..(m + 1) -> V] : Upto(m + 1, f)
      OBVIOUS
    <2>0. m <= N OBVIOUS
    <2>1. PICK f \in [0..m -> V] : Upto(m, f) BY <1>2, <2>0
    <2> DEFINE g == [n \in 0..(m + 1) |-> IF n = m + 1 THEN G[<<f[m], m + 1>>] ELSE f[n]]
    <2>2. f[m] \in V OBVIOUS
    <2>3. m + 1 \in 1..N OBVIOUS
    <2>4. G[<<f[m], m + 1>>] \in V BY <2>2, <2>3
    <2>5. g \in [0..(m + 1) -> V] BY <2>4
    <2>6. g[0] = b BY <2>1
    <2>7. ASSUME NEW n \in 1..(m + 1) PROVE g[n] = G[<<g[n - 1], n>>]
      <3>1. CASE n = m + 1
        <4>1. n - 1 = m /\ m \in 0..(m + 1) /\ m # m + 1 BY <3>1
        <4>2. g[m] = f[m] BY <4>1
        <4> QED BY <3>1, <4>1, <4>2
      <3>2. CASE n # m + 1
        <4>1. n \in 1..m /\ n - 1 \in 0..m /\ n - 1 # m + 1 BY <3>2
        <4>2. g[n] = f[n] /\ g[n - 1] = f[n - 1] BY <4>1, <3>2
        <4>3. f[n] = G[<<f[n - 1], n>>] BY <2>1, <4>1
        <4> QED BY <4>2, <4>3
      <3> QED BY <3>1, <3>2
    <2>8. Upto(m + 1, g) BY <2>6, <2>7
    <2> QED BY <2>5, <2>8
  <1>3. \A n \in Nat : n \in S
    <2> HIDE DEF S
    <2> QED BY <1>1, <1>2, EveryNumber
  <1>4. N \in S BY <1>3
  <1>5. PICK f \in [0..N -> V] : Upto(N, f) BY <1>4
  <1> QED BY <1>5 DEF Built

-----------------------------------------------------------------------------
(* What is left of a number after each of its digits.                        *)
Remains(rest, v, base, n) ==
  /\ rest \in [0..n -> Nat]
  /\ rest[0] = v
  /\ \A k \in 1..n : rest[k] = rest[k - 1] \div base

(* InBase takes its digits from what is left.                                *)
LEMMA InBaseStepByStep ==
  ASSUME NEW v \in Nat, NEW base \in Nat \ {0}, NEW n \in Nat
  PROVE  \E rest : Remains(rest, v, base, n)
                   /\ InBase(v, base, n) = [i \in 1..n |-> rest[i - 1] % base]
  <1> DEFINE Is(f) == f = [k \in 0..n |-> IF k = 0 THEN v ELSE f[k - 1] \div base]
             G == [p \in Nat \X (1..n) |-> p[1] \div base]
             rest == CHOOSE f : Is(f)
  <1>1. \A m \in Nat : m \div base \in Nat OBVIOUS
  <1>2. G \in [Nat \X (1..n) -> Nat] BY <1>1
  <1>3. PICK f \in [0..n -> Nat] : Built(f, v, n, G)
    <2> HIDE DEF G
    <2> QED BY <1>2, StepByStep
  <1>4. ASSUME NEW k \in 1..n PROVE f[k] = f[k - 1] \div base
    <2>1. f[k - 1] \in Nat BY <1>3
    <2>2. G[<<f[k - 1], k>>] = f[k - 1] \div base BY <2>1
    <2> QED BY <1>3, <2>2 DEF Built
  <1>5. Is(f)
    <2>1. f = [k \in 0..n |-> f[k]] BY <1>3
    <2>2. ASSUME NEW k \in 0..n PROVE f[k] = IF k = 0 THEN v ELSE f[k - 1] \div base
      BY <1>3, <1>4 DEF Built
    <2> QED BY <2>1, <2>2
  <1>6. Is(rest)
    <2> HIDE DEF Is
    <2> QED BY <1>5
  <1>7. InBase(v, base, n) = [i \in 1..n |-> rest[i - 1] % base] BY DEF InBase
  <1> HIDE DEF rest
  <1>8. rest[0] = v /\ \A k \in 1..n : rest[k] = rest[k - 1] \div base BY <1>6
  <1>9. \A k \in 0..n : rest[k] \in Nat
    <2> DEFINE S == {k \in Nat : k <= n => rest[k] \in Nat}
    <2>1. 0 \in S BY <1>8
    <2>2. ASSUME NEW k \in Nat, k \in S PROVE k + 1 \in S
      <3> SUFFICES ASSUME k + 1 <= n PROVE rest[k + 1] \in Nat OBVIOUS
      <3>1. rest[k] \in Nat BY <2>2
      <3>2. k + 1 \in 1..n /\ (k + 1) - 1 = k OBVIOUS
      <3>3. rest[k + 1] = rest[k] \div base BY <1>8, <3>2
      <3> QED BY <1>1, <3>1, <3>3
    <2>3. \A k \in Nat : k \in S
      <3> HIDE DEF S
      <3> QED BY <2>1, <2>2, EveryNumber
    <2> QED BY <2>3
  <1>10. rest = [k \in 0..n |-> rest[k]] BY <1>6
  <1>11. Remains(rest, v, base, n) BY <1>8, <1>9, <1>10 DEF Remains
  <1> QED BY <1>7, <1>11

(* What the upper digits of a number are.                                    *)
Uppers(upper, s, base) ==
  /\ upper \in [0..Len(s) -> Nat]
  /\ upper[0] = 0
  /\ \A k \in 1..Len(s) : upper[k] = s[Len(s) + 1 - k] + base * upper[k - 1]

(* FromBase adds the digits up, the upper ones first.                        *)
LEMMA NumberStepByStep ==
  ASSUME NEW base \in Nat \ {0}, NEW s \in Seq(Nat)
  PROVE  \E upper : Uppers(upper, s, base) /\ FromBase(s, base) = upper[Len(s)]
  <1>0. Len(s) \in Nat /\ \A i \in 1..Len(s) : s[i] \in Nat OBVIOUS
  <1>a. \A m \in Nat : base * m \in Nat OBVIOUS
  <1> DEFINE n == Len(s)
             Is(f) == f = [k \in 0..n |-> IF k = 0 THEN 0 ELSE s[n + 1 - k] + base * f[k - 1]]
             G == [p \in Nat \X (1..n) |-> s[n + 1 - p[2]] + base * p[1]]
             upper == CHOOSE f : Is(f)
  <1>1. \A m \in Nat, k \in 1..n : s[n + 1 - k] + base * m \in Nat
    <2> TAKE m \in Nat, k \in 1..n
    <2>1. n + 1 - k \in 1..n BY <1>0
    <2>2. s[n + 1 - k] \in Nat BY <1>0, <2>1
    <2> QED BY <1>a, <2>2
  <1>2. G \in [Nat \X (1..n) -> Nat]
    <2> HIDE DEF n
    <2> QED BY <1>1
  <1>3. PICK f \in [0..n -> Nat] : Built(f, 0, n, G)
    <2>0. n \in Nat BY <1>0
    <2> HIDE DEF G, n
    <2>1. PICK b : b = 0 OBVIOUS
    <2>2. b \in Nat BY <2>1
    <2>3. \E f \in [0..n -> Nat] : Built(f, b, n, G) BY ONLY <2>0, <2>2, <1>2, StepByStep
    <2> QED BY <2>1, <2>3, Zenon
  <1>4. ASSUME NEW k \in 1..n PROVE f[k] = s[n + 1 - k] + base * f[k - 1]
    <2>0. n \in Nat BY <1>0
    <2> HIDE DEF n
    <2>1. f[k - 1] \in Nat BY <2>0
    <2>2. G[<<f[k - 1], k>>] = s[n + 1 - k] + base * f[k - 1] BY <2>1
    <2> QED BY <1>3, <2>2 DEF Built
  <1>5. Is(f)
    <2>1. f = [k \in 0..n |-> f[k]] BY <1>3
    <2>2. ASSUME NEW k \in 0..n
          PROVE  f[k] = IF k = 0 THEN 0 ELSE s[n + 1 - k] + base * f[k - 1]
      BY <1>0, <1>3, <1>4 DEF Built
    <2> HIDE DEF n
    <2> QED BY <2>1, <2>2
  <1>6. Is(upper)
    <2> HIDE DEF Is
    <2> QED BY <1>5
  <1>7. FromBase(s, base) = upper[n] BY DEF FromBase
  <1> HIDE DEF upper
  <1>8. upper[0] = 0 /\ \A k \in 1..n : upper[k] = s[n + 1 - k] + base * upper[k - 1]
    <2>1. n \in Nat BY <1>0
    <2>2. upper = [k \in 0..n |-> IF k = 0 THEN 0 ELSE s[n + 1 - k] + base * upper[k - 1]] BY <1>6
    <2> HIDE DEF n
    <2>3. \A k \in 0..n : upper[k] = IF k = 0 THEN 0 ELSE s[n + 1 - k] + base * upper[k - 1]
      BY <2>2, Zenon
    <2> QED BY <2>1, <2>3
  <1>9. \A k \in 0..n : upper[k] \in Nat
    <2> DEFINE S == {k \in Nat : k <= n => upper[k] \in Nat}
    <2>1. 0 \in S BY <1>8
    <2>2. ASSUME NEW k \in Nat, k \in S PROVE k + 1 \in S
      <3> SUFFICES ASSUME k + 1 <= n PROVE upper[k + 1] \in Nat OBVIOUS
      <3>1. upper[k] \in Nat BY <1>0, <2>2
      <3>2. k + 1 \in 1..n /\ (k + 1) - 1 = k BY <1>0
      <3>3. upper[k + 1] = s[n + 1 - (k + 1)] + base * upper[k] BY <1>8, <3>2
      <3> QED BY <1>1, <3>1, <3>2, <3>3
    <2>3. \A k \in Nat : k \in S
      <3> HIDE DEF S
      <3> QED BY <2>1, <2>2, EveryNumber
    <2> QED BY <2>3, <1>0
  <1>10. upper = [k \in 0..n |-> upper[k]] BY <1>6
  <1>11. Uppers(upper, s, base) BY <1>8, <1>9, <1>10 DEF Uppers
  <1> QED BY <1>7, <1>11

(* Division, its remainder, and bounds.                                      *)
LEMMA DividedAgain ==
  ASSUME NEW m \in Nat, NEW base \in Nat \ {0}
  PROVE  /\ m % base \in 0..(base - 1)
         /\ m \div base \in Nat
         /\ m = (m % base) + base * (m \div base)
  OBVIOUS

(* A number with a digit put below it is got back by dividing.               *)
LEMMA DividedUp ==
  ASSUME NEW c \in Nat, NEW base \in Nat \ {0}, c < base, NEW m \in Nat
  PROVE  (c + base * m) \div base = m /\ (c + base * m) % base = c
  <1> DEFINE x == c + base * m
             q == x \div base
             r == x % base
  <1>0. base * m \in Nat OBVIOUS
  <1>1. x \in Nat BY <1>0
  <1> HIDE DEF x
  <1>2. r \in 0..(base - 1) /\ q \in Nat /\ x = r + base * q BY <1>1, DividedAgain
  <1> HIDE DEF q, r
  <1>3. q = m
    <2>1. ASSUME q < m PROVE FALSE
      <3>1. base * q + base <= base * m BY <1>2, <2>1
      <3> QED BY <1>2, <3>1 DEF x
    <2>2. ASSUME m < q PROVE FALSE
      <3>1. base * m + base <= base * q BY <1>2, <2>2
      <3> QED BY <1>2, <3>1 DEF x
    <2> QED BY <1>2, <2>1, <2>2
  <1>4. r = c BY <1>2, <1>3 DEF x
  <1> QED BY <1>3, <1>4 DEF q, r, x

(* Dividing by the base takes one factor from a bound.                       *)
LEMMA DividedBelow ==
  ASSUME NEW m \in Nat, NEW base \in Nat \ {0}, NEW y \in Nat, m < base * y
  PROVE  m \div base < y
  <1> DEFINE q == m \div base
             r == m % base
  <1>1. r \in 0..(base - 1) /\ q \in Nat /\ m = r + base * q BY DividedAgain
  <1> HIDE DEF q, r
  <1>2. ASSUME y <= q PROVE FALSE
    <2>1. base * y <= base * q BY <1>1, <1>2
    <2> QED BY <1>1, <2>1
  <1> QED BY <1>1, <1>2 DEF q

(* A digit put below a number adds one factor to its bound.                  *)
LEMMA DigitBelow ==
  ASSUME NEW c \in Nat, NEW base \in Nat \ {0}, c < base, NEW m \in Nat, NEW y \in Nat, m < y
  PROVE  c + base * m < base * y
  <1>1. base * m + base <= base * y OBVIOUS
  <1> QED BY <1>1

(* The powers of a base, and the numbers below the last of them.             *)
Powers(power, base, n) ==
  /\ power \in [0..n -> Nat]
  /\ power[0] = 1
  /\ \A k \in 1..n : power[k] = base * power[k - 1]
(* A number that has no more than n digits.                                  *)
Fits(v, base, n) == \A power : Powers(power, base, n) => v < power[n]

(* The powers of a base are there.                                           *)
LEMMA PowersThere ==
  ASSUME NEW base \in Nat \ {0}, NEW n \in Nat
  PROVE  \E power : Powers(power, base, n)
  <1> DEFINE G == [p \in Nat \X (1..n) |-> base * p[1]]
  <1>1. \A m \in Nat : base * m \in Nat OBVIOUS
  <1>2. G \in [Nat \X (1..n) -> Nat] BY <1>1
  <1>3. PICK f \in [0..n -> Nat] : Built(f, 1, n, G)
    <2> HIDE DEF G
    <2>1. PICK b : b = 1 OBVIOUS
    <2>2. b \in Nat BY <2>1
    <2>3. \E f \in [0..n -> Nat] : Built(f, b, n, G) BY <2>2, <1>2, StepByStep
    <2> QED BY <2>1, <2>3, Zenon
  <1>4. ASSUME NEW k \in 1..n PROVE f[k] = base * f[k - 1]
    <2>1. f[k - 1] \in Nat BY <1>3
    <2>2. G[<<f[k - 1], k>>] = base * f[k - 1] BY <2>1
    <2> QED BY <1>3, <2>2 DEF Built
  <1> QED BY <1>3, <1>4 DEF Built, Powers

(* Digits are digits of the base, as many as were asked for.                 *)
LEMMA InBaseType ==
  ASSUME NEW v \in Nat, NEW base \in Nat \ {0}, NEW n \in Nat
  PROVE  InBase(v, base, n) \in [1..n -> 0..(base - 1)]
  <1>1. PICK rest : Remains(rest, v, base, n)
                    /\ InBase(v, base, n) = [i \in 1..n |-> rest[i - 1] % base]
    BY InBaseStepByStep
  <1>2. ASSUME NEW i \in 1..n PROVE rest[i - 1] % base \in 0..(base - 1)
    <2>1. rest[i - 1] \in Nat BY <1>1 DEF Remains
    <2> QED BY <2>1, DividedAgain
  <1> QED BY <1>1, <1>2

(* A number that fits is the one that is written.                            *)
LEMMA NumberWritten ==
  ASSUME NEW v \in Nat, NEW base \in Nat \ {0}, NEW n \in Nat, Fits(v, base, n)
  PROVE  FromBase(InBase(v, base, n), base) = v
  <1>1. PICK rest : Remains(rest, v, base, n)
                    /\ InBase(v, base, n) = [i \in 1..n |-> rest[i - 1] % base]
    BY InBaseStepByStep
  <1>2. PICK power : Powers(power, base, n) BY PowersThere
  <1>3. v < power[n] BY <1>2 DEF Fits
  <1>4. \A k \in 0..n : rest[k] < power[n - k]
    <2> DEFINE S == {k \in Nat : k <= n => rest[k] < power[n - k]}
    <2>1. 0 \in S BY <1>1, <1>3 DEF Remains
    <2>2. ASSUME NEW k \in Nat, k \in S PROVE k + 1 \in S
      <3> SUFFICES ASSUME k + 1 <= n PROVE rest[k + 1] < power[n - (k + 1)] OBVIOUS
      <3>1. rest[k] < power[n - k] BY <2>2
      <3>2. n - k \in 1..n /\ (n - k) - 1 = n - (k + 1) /\ k \in 0..n
            /\ k + 1 \in 1..n /\ (k + 1) - 1 = k /\ n - (k + 1) \in 0..n
        OBVIOUS
      <3>3. power[n - k] = base * power[n - (k + 1)] BY <1>2, <3>2 DEF Powers
      <3>4. rest[k + 1] = rest[k] \div base BY <1>1, <3>2 DEF Remains
      <3>5. rest[k] \in Nat /\ power[n - (k + 1)] \in Nat
        BY <1>1, <1>2, <3>2 DEF Remains, Powers
      <3> QED BY <3>1, <3>3, <3>4, <3>5, DividedBelow
    <2>3. \A k \in Nat : k \in S
      <3> HIDE DEF S
      <3> QED BY <2>1, <2>2, EveryNumber
    <2> QED BY <2>3
  <1>5. rest[n] = 0
    <2>1. rest[n] < power[0] BY <1>4
    <2>2. rest[n] \in Nat /\ power[0] = 1 BY <1>1, <1>2 DEF Remains, Powers
    <2> QED BY <2>1, <2>2
  <1> DEFINE s == InBase(v, base, n)
  <1>6. s \in [1..n -> 0..(base - 1)] BY InBaseType
  <1>7. s \in Seq(Nat) /\ Len(s) = n
    <2> HIDE DEF s
    <2> QED BY <1>6
  <1>8. PICK upper : Uppers(upper, s, base) /\ FromBase(s, base) = upper[Len(s)]
    <2> HIDE DEF s
    <2> QED BY <1>7, NumberStepByStep
  <1>9. \A i \in 1..n : s[i] = rest[i - 1] % base BY <1>1
  <1> HIDE DEF s
  <1>10. \A k \in 0..n : upper[k] = rest[n - k]
    <2> DEFINE S == {k \in Nat : k <= n => upper[k] = rest[n - k]}
    <2>1. 0 \in S BY <1>5, <1>8 DEF Uppers
    <2>2. ASSUME NEW k \in Nat, k \in S PROVE k + 1 \in S
      <3> SUFFICES ASSUME k + 1 <= n PROVE upper[k + 1] = rest[n - (k + 1)] OBVIOUS
      <3>1. upper[k] = rest[n - k] BY <2>2
      <3>2. n - k \in 1..n /\ (n - k) - 1 = n - (k + 1) /\ k + 1 \in 1..n
            /\ (k + 1) - 1 = k /\ n + 1 - (k + 1) = n - k
        OBVIOUS
      <3>3. upper[k + 1] = s[n - k] + base * upper[k] BY <1>7, <1>8, <3>2 DEF Uppers
      <3>4. s[n - k] = rest[n - (k + 1)] % base BY <1>9, <3>2
      <3>5. rest[n - k] = rest[n - (k + 1)] \div base BY <1>1, <3>2 DEF Remains
      <3>6. rest[n - (k + 1)] \in Nat BY <1>1, <3>2 DEF Remains
      <3> QED BY <3>1, <3>3, <3>4, <3>5, <3>6, DividedAgain
    <2>3. \A k \in Nat : k \in S
      <3> HIDE DEF S
      <3> QED BY <2>1, <2>2, EveryNumber
    <2> QED BY <2>3
  <1>11. upper[n] = rest[0] BY <1>10
  <1> QED BY <1>1, <1>7, <1>8, <1>11 DEF s, Remains

(* What some digits are has those digits.                                    *)
LEMMA DigitsRead ==
  ASSUME NEW base \in Nat \ {0}, NEW n \in Nat, NEW s \in [1..n -> 0..(base - 1)]
  PROVE  /\ FromBase(s, base) \in Nat
         /\ Fits(FromBase(s, base), base, n)
         /\ InBase(FromBase(s, base), base, n) = s
  <1>1. s \in Seq(Nat) /\ Len(s) = n OBVIOUS
  <1>2. PICK upper : Uppers(upper, s, base) /\ FromBase(s, base) = upper[Len(s)]
    BY <1>1, NumberStepByStep
  <1> DEFINE v == FromBase(s, base)
  <1>3. v = upper[n] /\ v \in Nat BY <1>1, <1>2 DEF Uppers
  <1>4. Fits(v, base, n)
    <2> SUFFICES ASSUME NEW power, Powers(power, base, n) PROVE upper[n] < power[n]
      BY <1>3 DEF Fits
    <2> DEFINE S == {k \in Nat : k <= n => upper[k] < power[k]}
    <2>1. 0 \in S BY <1>2 DEF Uppers, Powers
    <2>2. ASSUME NEW k \in Nat, k \in S PROVE k + 1 \in S
      <3> SUFFICES ASSUME k + 1 <= n PROVE upper[k + 1] < power[k + 1] OBVIOUS
      <3>1. upper[k] < power[k] BY <2>2
      <3>2. k + 1 \in 1..n /\ (k + 1) - 1 = k /\ n + 1 - (k + 1) \in 1..n OBVIOUS
      <3>3. upper[k + 1] = s[n + 1 - (k + 1)] + base * upper[k] BY <1>1, <1>2, <3>2 DEF Uppers
      <3>4. power[k + 1] = base * power[k] BY <3>2 DEF Powers
      <3>5. s[n + 1 - (k + 1)] \in Nat /\ s[n + 1 - (k + 1)] < base BY <3>2
      <3>6. /\ k \in 0..n
            /\ upper \in [0..n -> Nat]
            /\ power \in [0..n -> Nat]
        <4>1. upper \in [0..n -> Nat] BY <1>1, <1>2, Zenon DEF Uppers
        <4>2. power \in [0..n -> Nat] BY Zenon DEF Powers
        <4> QED BY <4>1, <4>2
      <3>7. upper[k] \in Nat /\ power[k] \in Nat BY <3>6
      <3> QED BY <3>1, <3>3, <3>4, <3>5, <3>7, DigitBelow
    <2>3. \A k \in Nat : k \in S
      <3> HIDE DEF S
      <3> QED BY <2>1, <2>2, EveryNumber
    <2> QED BY <2>3
  <1> HIDE DEF v
  <1>5. PICK rest : Remains(rest, v, base, n)
                    /\ InBase(v, base, n) = [i \in 1..n |-> rest[i - 1] % base]
    BY <1>3, InBaseStepByStep
  <1>6. ASSUME NEW k \in Nat, k + 1 <= n
        PROVE  /\ upper[n - k] \div base = upper[n - (k + 1)]
               /\ upper[n - k] % base = s[k + 1]
    <2>1. n - k \in 1..n /\ (n - k) - 1 = n - (k + 1) /\ n + 1 - (n - k) = k + 1 BY <1>6
    <2>2. upper[n - k] = s[k + 1] + base * upper[n - (k + 1)]
      BY <1>1, <1>2, <2>1 DEF Uppers
    <2>3. s[k + 1] \in Nat /\ s[k + 1] < base BY <1>6
    <2>4. upper[n - (k + 1)] \in Nat BY <1>1, <1>2, <2>1 DEF Uppers
    <2>5. PICK c, m : c = s[k + 1] /\ m = upper[n - (k + 1)] OBVIOUS
    <2>6. c \in Nat /\ c < base /\ m \in Nat BY <2>3, <2>4, <2>5
    <2>7. (c + base * m) \div base = m /\ (c + base * m) % base = c
      BY ONLY <2>6, base \in Nat \ {0}, DividedUp
    <2>8. upper[n - k] = c + base * m BY ONLY <2>2, <2>5, Zenon
    <2> QED BY ONLY <2>5, <2>7, <2>8, Zenon
  <1>7. \A k \in 0..n : rest[k] = upper[n - k]
    <2> DEFINE S == {k \in Nat : k <= n => rest[k] = upper[n - k]}
    <2>1. 0 \in S BY <1>3, <1>5 DEF Remains
    <2>2. ASSUME NEW k \in Nat, k \in S PROVE k + 1 \in S
      <3> SUFFICES ASSUME k + 1 <= n PROVE rest[k + 1] = upper[n - (k + 1)] OBVIOUS
      <3>1. rest[k] = upper[n - k] BY <2>2
      <3>2. k + 1 \in 1..n /\ (k + 1) - 1 = k OBVIOUS
      <3>3. rest[k + 1] = rest[k] \div base BY <1>5, <3>2 DEF Remains
      <3> QED BY <1>6, <3>1, <3>3
    <2>3. \A k \in Nat : k \in S
      <3> HIDE DEF S
      <3> QED BY <2>1, <2>2, EveryNumber
    <2> QED BY <2>3
  <1>8. ASSUME NEW i \in 1..n PROVE rest[i - 1] % base = s[i]
    <2>1. i - 1 \in Nat /\ (i - 1) + 1 = i /\ i - 1 \in 0..n OBVIOUS
    <2>2. rest[i - 1] = upper[n - (i - 1)] BY <1>7, <2>1
    <2>3. PICK k : k = i - 1 OBVIOUS
    <2>4. k \in Nat /\ k + 1 <= n /\ k + 1 = i BY <2>1, <2>3
    <2>5. upper[n - k] % base = s[k + 1] BY <1>6, <2>4
    <2>6. rest[i - 1] = rest[k] /\ rest[k] = upper[n - k] BY <2>2, <2>3
    <2> QED BY <2>4, <2>5, <2>6
  <1>9. s = [i \in 1..n |-> s[i]] OBVIOUS
  <1>10. InBase(v, base, n) = s BY <1>5, <1>8, <1>9
  <1> QED BY <1>3, <1>4, <1>10 DEF v

(* The decimal digits.                                                       *)
Ten == 0..9

(* A part of a sequence is what its places say it is.                        *)
LEMMA PartIs ==
  ASSUME NEW S, NEW w \in Seq(S), NEW b \in Seq(S), NEW from \in Nat \ {0},
         from + Len(b) - 1 <= Len(w), \A i \in 1..Len(b) : w[from - 1 + i] = b[i]
  PROVE  Part(w, from, Len(b)) = b
  <1> DEFINE x == SubSeq(w, from, from + Len(b) - 1)
  <1>1. Len(b) \in Nat /\ Len(w) \in Nat OBVIOUS
  <1>2. \A i \in from..(from + Len(b) - 1) : w[i] \in S BY <1>1
  <1>3. Len(x) = Len(b) /\ x \in Seq(S) /\ \A i \in 1..Len(b) : x[i] = w[from + i - 1]
    BY <1>1, <1>2
  <1>4. \A i \in 1..Len(x) : x[i] = b[i] BY <1>1, <1>3
  <1>5. Len(x) = Len(b) /\ x \in Seq(S) BY <1>3
  <1> HIDE DEF x
  <1>6. x = b BY <1>4, <1>5, SeqEqual
  <1> QED BY <1>6 DEF Part, x

(* What is turned round twice is as it was.                                  *)
LEMMA Reversed ==
  ASSUME NEW S, NEW s \in Seq(S)
  PROVE  Reverse(s) \in Seq(S) /\ Len(Reverse(s)) = Len(s) /\ Reverse(Reverse(s)) = s
  <1>1. Len(s) \in Nat OBVIOUS
  <1>2. Reverse(s) = [i \in 1..Len(s) |-> s[(Len(s) - i) + 1]] BY DEF Reverse
  <1>3. \A i \in 1..Len(s) : (Len(s) - i) + 1 \in 1..Len(s) BY <1>1
  <1>4. Reverse(s) \in Seq(S) /\ Len(Reverse(s)) = Len(s) BY <1>1, <1>2, <1>3
  <1>5. Reverse(Reverse(s)) = [i \in 1..Len(s) |-> Reverse(s)[(Len(s) - i) + 1]]
    BY <1>4 DEF Reverse
  <1>6. ASSUME NEW i \in 1..Len(s) PROVE Reverse(s)[(Len(s) - i) + 1] = s[i]
    <2>1. (Len(s) - ((Len(s) - i) + 1)) + 1 = i BY <1>1
    <2> QED BY <1>2, <1>3, <2>1
  <1>7. s = [i \in 1..Len(s) |-> s[i]] OBVIOUS
  <1> QED BY <1>4, <1>5, <1>6, <1>7

(* A number that is written in enough decimal digits is read again.          *)
LEMMA DecimalOfDigits ==
  ASSUME NEW v \in Nat, NEW n \in Nat, Fits(v, 10, n)
  PROVE  Digits(v, n) \in Seq(Ten) /\ Len(Digits(v, n)) = n /\ Decimal(Digits(v, n)) = v
  <1>0. PICK base : base = 10 OBVIOUS
  <1>a. base \in Nat \ {0} BY <1>0
  <1>b. Fits(v, base, n) BY <1>0, Zenon
  <1>c. InBase(v, base, n) \in [1..n -> 0..(base - 1)] BY <1>a, InBaseType
  <1>d. FromBase(InBase(v, base, n), base) = v BY <1>a, <1>b, NumberWritten
  <1> DEFINE s == InBase(v, 10, n)
  <1>1. s \in [1..n -> 0..(10 - 1)] BY <1>c, <1>0, Zenon
  <1>2. FromBase(s, 10) = v BY <1>d, <1>0, Zenon
  <1> HIDE DEF s
  <1>3. s \in Seq(0..9) /\ Len(s) = n BY <1>1
  <1>4. Reverse(s) \in Seq(0..9) /\ Len(Reverse(s)) = Len(s) /\ Reverse(Reverse(s)) = s
    BY <1>3, Reversed
  <1> QED BY <1>2, <1>3, <1>4 DEF Digits, Decimal, s, Ten

(* A power of a base.                                                        *)
IsPower(p, base, n) == p \in Nat /\ \A power : Powers(power, base, n) => power[n] = p

(* To fit is to be below the power.                                          *)
LEMMA FitsIs ==
  ASSUME NEW base \in Nat \ {0}, NEW n \in Nat, NEW p, IsPower(p, base, n), NEW v
  PROVE  Fits(v, base, n) <=> v < p
  <1>1. PICK power : Powers(power, base, n) BY PowersThere
  <1>2. \A other : Powers(other, base, n) => other[n] = p BY DEF IsPower
  <1> QED BY <1>1, <1>2, Zenon DEF Fits

(* The powers the setup codes need, other than those of two.                 *)
LEMMA ThesePowers ==
  /\ IsPower(10, 10, 1)
  /\ IsPower(10000, 10, 4)
  /\ IsPower(100000, 10, 5)
  /\ IsPower(2085136, 38, 4)
  /\ IsPower(79235168, 38, 5)
  <1>1. ASSUME NEW power, Powers(power, 10, 1) PROVE power[1] = 10
    BY <1>1, SMT DEF Powers
  <1>2. ASSUME NEW power, Powers(power, 10, 4) PROVE power[4] = 10000
    BY <1>2, SMT DEF Powers
  <1>3. ASSUME NEW power, Powers(power, 10, 5) PROVE power[5] = 100000
    BY <1>3, SMT DEF Powers
  <1>4. ASSUME NEW power, Powers(power, 38, 4) PROVE power[4] = 2085136
    BY <1>4, SMT DEF Powers
  <1>5. ASSUME NEW power, Powers(power, 38, 5) PROVE power[5] = 79235168
    BY <1>5, SMT DEF Powers
  <1>6. IsPower(10, 10, 1) BY <1>1, SMT DEF IsPower
  <1>7. IsPower(10000, 10, 4) BY <1>2, SMT DEF IsPower
  <1>8. IsPower(100000, 10, 5) BY <1>3, SMT DEF IsPower
  <1>9. IsPower(2085136, 38, 4) BY <1>4, SMT DEF IsPower
  <1>10. IsPower(79235168, 38, 5) BY <1>5, SMT DEF IsPower
  <1> QED BY <1>6, <1>7, <1>8, <1>9, <1>10, SMT

(* Four doublings at once.                                                   *)
LEMMA Doubled ==
  ASSUME NEW n \in Nat, NEW power, Powers(power, 2, n), NEW k \in Nat, k + 4 <= n
  PROVE  power[k] \in Nat /\ power[k + 4] = 16 * power[k]
  <1>0. power \in [0..n -> Nat] BY Zenon DEF Powers
  <1>a. \A j \in 1..n : power[j] = 2 * power[j - 1] BY DEF Powers
  <1>1. power[k] \in Nat BY <1>0
  <1>2. power[k + 1] = 2 * power[k] /\ power[k + 1] \in Nat
    <2>1. (k + 1) - 1 = k /\ k + 1 \in 1..n /\ k + 1 \in 0..n OBVIOUS
    <2> QED BY <1>0, <1>a, <2>1
  <1>3. power[k + 2] = 2 * power[k + 1] /\ power[k + 2] \in Nat
    <2>1. (k + 2) - 1 = k + 1 /\ k + 2 \in 1..n /\ k + 2 \in 0..n OBVIOUS
    <2> QED BY <1>0, <1>a, <2>1
  <1>4. power[k + 3] = 2 * power[k + 2] /\ power[k + 3] \in Nat
    <2>1. (k + 3) - 1 = k + 2 /\ k + 3 \in 1..n /\ k + 3 \in 0..n OBVIOUS
    <2> QED BY <1>0, <1>a, <2>1
  <1>5. power[k + 4] = 2 * power[k + 3]
    <2>1. (k + 4) - 1 = k + 3 /\ k + 4 \in 1..n OBVIOUS
    <2> QED BY <1>a, <2>1
  <1> QED BY <1>1, <1>2, <1>3, <1>4, <1>5

(* The powers of two the setup codes need.                                   *)
LEMMA PowersOfTwo ==
  /\ IsPower(4096, 2, 12)
  /\ IsPower(65536, 2, 16)
  /\ IsPower(16777216, 2, 24)
  /\ IsPower(134217728, 2, 27)
  <1>1. ASSUME NEW n \in Nat, NEW power, Powers(power, 2, n)
        PROVE  /\ n >= 12 => power[12] = 4096
               /\ n >= 16 => power[16] = 65536
               /\ n >= 24 => power[24] = 16777216
               /\ n >= 27 => power[27] = 134217728
    <2>a. \A j \in 1..n : power[j] = 2 * power[j - 1] BY <1>1 DEF Powers
    <2>b. \A k \in Nat : k + 4 <= n => power[k + 4] = 16 * power[k] BY <1>1, Doubled
    <2>0. power[0] = 1 BY <1>1 DEF Powers
    <2>1. n >= 4 => power[4] = 16
      <3>1. n >= 4 => power[0 + 4] = 16 * power[0] BY <2>b
      <3> QED BY <2>0, <3>1
    <2>2. n >= 8 => power[8] = 256
      <3>1. n >= 8 => power[4 + 4] = 16 * power[4] BY <2>b, SMT
      <3> QED BY <2>1, <3>1, SMT
    <2>3. n >= 12 => power[12] = 4096
      <3>1. n >= 12 => power[8 + 4] = 16 * power[8] BY <2>b, SMT
      <3> QED BY <2>2, <3>1, SMT
    <2>4. n >= 16 => power[16] = 65536
      <3>1. n >= 16 => power[12 + 4] = 16 * power[12] BY <2>b, SMT
      <3> QED BY <2>3, <3>1, SMT
    <2>5. n >= 20 => power[20] = 1048576
      <3>1. n >= 20 => power[16 + 4] = 16 * power[16] BY <2>b, SMT
      <3> QED BY <2>4, <3>1, SMT
    <2>6. n >= 24 => power[24] = 16777216
      <3>1. n >= 24 => power[20 + 4] = 16 * power[20] BY <2>b, SMT
      <3> QED BY <2>5, <3>1, SMT
    <2>7. n >= 25 => power[25] = 33554432 BY <2>a, <2>6, SMT
    <2>8. n >= 26 => power[26] = 67108864 BY <2>a, <2>7, SMT
    <2>9. n >= 27 => power[27] = 134217728 BY <2>a, <2>8, SMT
    <2> QED BY <2>3, <2>4, <2>6, <2>9, SMT
  <1>2. ASSUME NEW power, Powers(power, 2, 12) PROVE power[12] = 4096
    BY <1>1, <1>2, SMT
  <1>3. ASSUME NEW power, Powers(power, 2, 16) PROVE power[16] = 65536
    BY <1>1, <1>3, SMT
  <1>4. ASSUME NEW power, Powers(power, 2, 24) PROVE power[24] = 16777216
    BY <1>1, <1>4, SMT
  <1>5. ASSUME NEW power, Powers(power, 2, 27) PROVE power[27] = 134217728
    BY <1>1, <1>5, SMT
  <1>6. IsPower(4096, 2, 12) BY <1>2, SMT DEF IsPower
  <1>7. IsPower(65536, 2, 16) BY <1>3, SMT DEF IsPower
  <1>8. IsPower(16777216, 2, 24) BY <1>4, SMT DEF IsPower
  <1>9. IsPower(134217728, 2, 27) BY <1>5, SMT DEF IsPower
  <1> QED BY <1>6, <1>7, <1>8, <1>9, SMT

(* Which numbers fit into the digits, characters and bits of a setup code.   *)
LEMMA Fitting ==
  /\ \A v : Fits(v, 10, 1) <=> v < 10
  /\ \A v : Fits(v, 10, 4) <=> v < 10000
  /\ \A v : Fits(v, 10, 5) <=> v < 100000
  /\ \A v : Fits(v, 38, 4) <=> v < 2085136
  /\ \A v : Fits(v, 38, 5) <=> v < 79235168
  /\ \A v : Fits(v, 2, 12) <=> v < 4096
  /\ \A v : Fits(v, 2, 16) <=> v < 65536
  /\ \A v : Fits(v, 2, 24) <=> v < 16777216
  /\ \A v : Fits(v, 2, 27) <=> v < 134217728
  <1>1. \A base \in Nat \ {0}, n \in Nat : \A p :
          IsPower(p, base, n) => \A v : Fits(v, base, n) <=> v < p
    BY FitsIs
  <1> QED BY ONLY <1>1, ThesePowers, PowersOfTwo, SMT

-----------------------------------------------------------------------------
(* The product of two digits is a digit.                                     *)
LEMMA TimesType == \A a, b \in Ten : Times(a, b) \in Ten
  BY DEF Ten, Times

(* The products of digits are those of a group, Inverted its inverse.        *)
LEMMA TimesGroup ==
  ASSUME NEW a \in Ten, NEW b \in Ten, NEW c \in Ten
  PROVE  /\ Times(Times(a, b), c) = Times(a, Times(b, c))
         /\ Times(a, b) = Times(a, c) => b = c
         /\ Times(b, a) = Times(c, a) => b = c
         /\ Times(0, a) = a
         /\ Inverted(a) \in Ten
         /\ Times(Inverted(a), a) = 0
         /\ Inverted(a) = Inverted(b) => a = b
  <1>1. Times(Times(a, b), c) = Times(a, Times(b, c)) BY SMTT(60) DEF Ten, Times
  <1>2. Times(a, b) = Times(a, c) => b = c BY SMTT(60) DEF Ten, Times
  <1>3. Times(b, a) = Times(c, a) => b = c BY SMTT(60) DEF Ten, Times
  <1>4. Times(0, a) = a BY DEF Ten, Times
  <1>5. Inverted(a) \in Ten BY DEF Ten, Inverted
  <1>6. Times(Inverted(a), a) = 0 BY SMTT(60) DEF Ten, Times, Inverted
  <1>7. Inverted(a) = Inverted(b) => a = b BY DEF Ten, Inverted
  <1> QED BY <1>1, <1>2, <1>3, <1>4, <1>5, <1>6, <1>7

(* The first permutation, value by value.                                    *)
LEMMA FirstIs ==
  /\ First[1] = 1 /\ First[2] = 5 /\ First[3] = 7 /\ First[4] = 6 /\ First[5] = 2
  /\ First[6] = 8 /\ First[7] = 3 /\ First[8] = 0 /\ First[9] = 9 /\ First[10] = 4
  BY DEF First

(* It is a permutation of the digits.                                        *)
LEMMA FirstType ==
  /\ \A a \in Ten : First[a + 1] \in Ten
  /\ \A a, b \in Ten : First[a + 1] = First[b + 1] => a = b
  BY FirstIs DEF Ten

(* The product of two different digits changes when they change places, the  *)
(* permutation going with the place: what makes a swap show.                 *)
LEMMA Unlike ==
  ASSUME NEW a \in Ten, NEW b \in Ten, Times(a, First[b + 1]) = Times(b, First[a + 1])
  PROVE  a = b
  BY FirstIs, SMTT(120) DEF Ten, Times

(* The permutation of a place, place by place.                               *)
LEMMA PermutedStepByStep ==
  /\ Permuted \in [0..7 -> [Ten -> Ten]]
  /\ \A c \in Ten : Permuted[0][c] = c
  /\ \A place \in 1..7, c \in Ten : Permuted[place][c] = First[Permuted[place - 1][c] + 1]
  <1> DEFINE V == [Ten -> Ten]
             G == [p \in V \X (1..7) |-> [c \in Ten |-> First[p[1][c] + 1]]]
             Is(P) == P = [place \in 0..7 |->
                [c \in 0..9 |-> IF place = 0 THEN c ELSE First[P[place - 1][c] + 1]]]
  <1>1. [c \in Ten |-> c] \in V OBVIOUS
  <1>2. G \in [V \X (1..7) -> V]
    <2>1. ASSUME NEW p \in V \X (1..7), NEW c \in Ten PROVE First[p[1][c] + 1] \in Ten
      <3>1. p[1][c] \in Ten OBVIOUS
      <3> QED BY <3>1, FirstType
    <2> QED BY <2>1
  <1>3. PICK f \in [0..7 -> V] : Built(f, [c \in Ten |-> c], 7, G)
    <2> HIDE DEF G, V
    <2>1. PICK n : n = 7 OBVIOUS
    <2>2. n \in Nat BY <2>1
    <2>3. G \in [V \X (1..n) -> V] BY <1>2, <2>1, Zenon
    <2>4. \E f \in [0..n -> V] : Built(f, [c \in Ten |-> c], n, G)
      BY ONLY <1>1, <2>2, <2>3, StepByStep
    <2> QED BY <2>1, <2>4, Zenon
  <1>4. \A c \in Ten : f[0][c] = c BY <1>3 DEF Built
  <1>5. ASSUME NEW place \in 1..7, NEW c \in Ten
        PROVE  f[place][c] = First[f[place - 1][c] + 1]
    <2>1. place - 1 \in 0..7 OBVIOUS
    <2>2. f[place - 1] \in V BY <1>3, <2>1
    <2>3. f[place] = G[<<f[place - 1], place>>] BY <1>3 DEF Built
    <2>4. G[<<f[place - 1], place>>] = [d \in Ten |-> First[f[place - 1][d] + 1]] BY <2>2
    <2> QED BY <2>3, <2>4
  <1>6. Is(f)
    <2>1. ASSUME NEW place \in 0..7, NEW c \in 0..9
          PROVE  f[place][c] = IF place = 0 THEN c ELSE First[f[place - 1][c] + 1]
      <3>0. c \in Ten BY DEF Ten
      <3>1. CASE place = 0 BY <1>4, <3>0, <3>1
      <3>2. CASE place # 0
        <4>1. place \in 1..7 BY <3>2
        <4> QED BY <1>5, <3>0, <3>2, <4>1
      <3> QED BY <3>1, <3>2
    <2>2. f \in [0..7 -> [0..9 -> Ten]] BY <1>3 DEF Ten
    <2>3. \A place \in 0..7 :
            f[place] = [c \in 0..9 |-> IF place = 0 THEN c ELSE First[f[place - 1][c] + 1]]
      BY <2>1, <2>2
    <2> QED BY <2>2, <2>3
  <1>7. Is(Permuted)
    <2> DEFINE Q == CHOOSE P : Is(P)
    <2>1. Permuted = Q BY DEF Permuted
    <2>2. Is(Q)
      <3> HIDE DEF Is
      <3> QED BY <1>6
    <2> HIDE DEF Q, Is
    <2> QED BY <2>1, <2>2, Zenon
  <1>8. \A place \in 0..7, c \in Ten :
          Permuted[place][c] = IF place = 0 THEN c ELSE First[Permuted[place - 1][c] + 1]
    <2>1. \A place \in 0..7 : Permuted[place] =
            [c \in 0..9 |-> IF place = 0 THEN c ELSE First[Permuted[place - 1][c] + 1]]
      BY <1>7, Zenon
    <2> QED BY <2>1, Zenon DEF Ten
  <1>9. ASSUME NEW c \in Ten
        PROVE  \A place \in 0..7 : Permuted[place][c] \in Ten
    <2>0. Permuted[0][c] \in Ten BY <1>8
    <2>1. Permuted[1][c] \in Ten BY <1>8, <2>0, FirstType
    <2>2. Permuted[2][c] \in Ten BY <1>8, <2>1, FirstType
    <2>3. Permuted[3][c] \in Ten BY <1>8, <2>2, FirstType
    <2>4. Permuted[4][c] \in Ten BY <1>8, <2>3, FirstType
    <2>5. Permuted[5][c] \in Ten BY <1>8, <2>4, FirstType
    <2>6. Permuted[6][c] \in Ten BY <1>8, <2>5, FirstType
    <2>7. Permuted[7][c] \in Ten BY <1>8, <2>6, FirstType
    <2>8. \A place \in 0..7 : place = 0 \/ place = 1 \/ place = 2 \/ place = 3
                              \/ place = 4 \/ place = 5 \/ place = 6 \/ place = 7 OBVIOUS
    <2> QED BY <2>0, <2>1, <2>2, <2>3, <2>4, <2>5, <2>6, <2>7, <2>8
  <1>10. \A place \in 0..7 : Permuted[place] = [c \in Ten |-> Permuted[place][c]]
    BY <1>7 DEF Ten
  <1>11. Permuted = [place \in 0..7 |-> Permuted[place]] BY <1>7 DEF Ten
  <1>12. \A place \in 0..7 : Permuted[place] \in [Ten -> Ten] BY <1>9, <1>10
  <1>13. Permuted \in [0..7 -> [Ten -> Ten]] BY <1>11, <1>12
  <1>14. \A c \in Ten : Permuted[0][c] = c BY <1>8
  <1>15. \A place \in 1..7, c \in Ten : Permuted[place][c] = First[Permuted[place - 1][c] + 1]
    BY <1>8
  <1> QED BY <1>13, <1>14, <1>15

(* Digits that differ are different at every place; the eighth permutation   *)
(* would change nothing.                                                     *)
LEMMA PermutedUnlike ==
  /\ \A place \in 0..7, a, b \in Ten : Permuted[place][a] = Permuted[place][b] => a = b
  /\ \A place \in 0..7, a \in Ten :
       Permuted[(place + 1) % 8][a] = First[Permuted[place][a] + 1]
  <1> DEFINE P(place, c) == Permuted[place][c]
  <1>1. \A place \in 0..7, c \in Ten : P(place, c) \in Ten BY PermutedStepByStep
  <1>2. \A c \in Ten : P(0, c) = c BY PermutedStepByStep
  <1>3. \A place \in 1..7, c \in Ten : P(place, c) = First[P(place - 1, c) + 1]
    BY PermutedStepByStep
  <1> HIDE DEF P
  <1>4. ASSUME NEW a \in Ten, NEW b \in Ten
        PROVE  \A place \in 0..7 : P(place, a) = P(place, b) => a = b
    <2>0. P(0, a) = P(0, b) => a = b BY <1>2
    <2>1. ASSUME NEW place \in 1..7, P(place - 1, a) = P(place - 1, b) => a = b
          PROVE  P(place, a) = P(place, b) => a = b
      <3>1. P(place - 1, a) \in Ten /\ P(place - 1, b) \in Ten BY <1>1
      <3> QED BY <1>3, <2>1, <3>1, FirstType
    <2>2. P(1, a) = P(1, b) => a = b BY <2>0, <2>1
    <2>3. P(2, a) = P(2, b) => a = b BY <2>2, <2>1
    <2>4. P(3, a) = P(3, b) => a = b BY <2>3, <2>1
    <2>5. P(4, a) = P(4, b) => a = b BY <2>4, <2>1
    <2>6. P(5, a) = P(5, b) => a = b BY <2>5, <2>1
    <2>7. P(6, a) = P(6, b) => a = b BY <2>6, <2>1
    <2>8. P(7, a) = P(7, b) => a = b BY <2>7, <2>1
    <2> QED BY <2>0, <2>2, <2>3, <2>4, <2>5, <2>6, <2>7, <2>8
  <1>5. ASSUME NEW a \in Ten PROVE First[P(7, a) + 1] = a
    <2>1. P(1, a) = First[a + 1] /\ P(1, a) \in Ten BY <1>1, <1>2, <1>3
    <2>2. P(2, a) = First[P(1, a) + 1] /\ P(2, a) \in Ten BY <1>1, <1>3
    <2>3. P(3, a) = First[P(2, a) + 1] /\ P(3, a) \in Ten BY <1>1, <1>3
    <2>4. P(4, a) = First[P(3, a) + 1] /\ P(4, a) \in Ten BY <1>1, <1>3
    <2>5. P(5, a) = First[P(4, a) + 1] /\ P(5, a) \in Ten BY <1>1, <1>3
    <2>6. P(6, a) = First[P(5, a) + 1] /\ P(6, a) \in Ten BY <1>1, <1>3
    <2>7. P(7, a) = First[P(6, a) + 1] /\ P(7, a) \in Ten BY <1>1, <1>3
    <2> QED BY FirstIs, <2>1, <2>2, <2>3, <2>4, <2>5, <2>6, <2>7, SMTT(60) DEF Ten
  <1>6. ASSUME NEW place \in 0..7, NEW a \in Ten
        PROVE  P((place + 1) % 8, a) = First[P(place, a) + 1]
    <2>1. CASE place = 7
      <3>1. (place + 1) % 8 = 0 BY <2>1
      <3> QED BY <1>2, <1>5, <2>1, <3>1
    <2>2. CASE place # 7
      <3>1. (place + 1) % 8 = place + 1 /\ place + 1 \in 1..7 /\ (place + 1) - 1 = place BY <2>2
      <3> QED BY <1>3, <3>1
    <2> QED BY <2>1, <2>2
  <1> QED BY <1>4, <1>6 DEF P

(* The products of a checksum, from the last digit on.                       *)
Products(sum, digits) ==
  /\ sum \in [0..Len(digits) -> Ten]
  /\ sum[0] = 0
  /\ \A i \in 1..Len(digits) :
       sum[i] = Times(sum[i - 1], Permuted[i % 8][digits[Len(digits) - i + 1]])

(* The checksum is the inverse of the last product.                          *)
LEMMA ChecksumStepByStep ==
  ASSUME NEW s \in Seq(Ten)
  PROVE  \E sum : Products(sum, s) /\ VerhoeffChecksum(s) = Inverted(sum[Len(s)])
  <1>0. Len(s) \in Nat /\ \A i \in 1..Len(s) : s[i] \in Ten OBVIOUS
  <1> DEFINE n == Len(s)
             Factor(i) == Permuted[Place(n - i + 1, n)][s[n - i + 1]]
             Is(f) == f = [i \in 0..n |-> IF i = 0 THEN 0
                       ELSE Times(f[i - 1], Permuted[Place(n - i + 1, n)][s[n - i + 1]])]
             G == [p \in Ten \X (1..n) |-> Times(p[1], Factor(p[2]))]
             sum == CHOOSE f : Is(f)
  <1>1. \A i \in 1..n : /\ Place(n - i + 1, n) = i % 8
                        /\ Factor(i) = Permuted[i % 8][s[n - i + 1]]
                        /\ Factor(i) \in Ten
    <2> TAKE i \in 1..n
    <2>1. n - (n - i + 1) + 1 = i BY <1>0
    <2>2. Place(n - i + 1, n) = i % 8 BY <2>1 DEF Place
    <2>3. i % 8 \in 0..7 BY <1>0
    <2>4. n - i + 1 \in 1..n BY <1>0
    <2>5. s[n - i + 1] \in Ten BY <1>0, <2>4
    <2> HIDE DEF n
    <2> QED BY <2>2, <2>3, <2>5, PermutedStepByStep
  <1>2. G \in [Ten \X (1..n) -> Ten]
    <2> HIDE DEF n, Factor
    <2> QED BY <1>1, TimesType
  <1>3. PICK f \in [0..n -> Ten] : Built(f, 0, n, G)
    <2>0. n \in Nat BY <1>0
    <2> HIDE DEF G, n
    <2>1. PICK b : b = 0 OBVIOUS
    <2>2. b \in Ten BY <2>1 DEF Ten
    <2>3. \E f \in [0..n -> Ten] : Built(f, b, n, G) BY ONLY <2>0, <2>2, <1>2, StepByStep
    <2> QED BY <2>1, <2>3, Zenon
  <1>4. ASSUME NEW i \in 1..n PROVE f[i] = Times(f[i - 1], Factor(i))
    <2>0. n \in Nat BY <1>0
    <2> HIDE DEF n, Factor
    <2>1. f[i - 1] \in Ten BY <2>0
    <2>2. G[<<f[i - 1], i>>] = Times(f[i - 1], Factor(i)) BY <2>1
    <2> QED BY <1>3, <2>2 DEF Built
  <1>5. Is(f)
    <2>1. f = [i \in 0..n |-> f[i]] BY <1>3
    <2>2. ASSUME NEW i \in 0..n PROVE f[i] = IF i = 0 THEN 0 ELSE Times(f[i - 1], Factor(i))
      <3>1. CASE i = 0 BY <1>3, <3>1 DEF Built
      <3>2. CASE i # 0
        <4>1. i \in 1..n BY <1>0, <3>2
        <4> HIDE DEF n, Factor
        <4> QED BY <1>4, <3>2, <4>1
      <3> HIDE DEF Factor
      <3> QED BY <3>1, <3>2
    <2> HIDE DEF n
    <2> QED BY <2>1, <2>2
  <1>6. Is(sum)
    <2> HIDE DEF Is
    <2> QED BY <1>5
  <1>7. VerhoeffChecksum(s) = Inverted(sum[n]) BY DEF VerhoeffChecksum
  <1> HIDE DEF sum
  <1>8. sum[0] = 0 /\ \A i \in 1..n : sum[i] = Times(sum[i - 1], Factor(i))
    <2>1. n \in Nat BY <1>0
    <2>2. sum = [i \in 0..n |-> IF i = 0 THEN 0 ELSE Times(sum[i - 1], Factor(i))] BY <1>6
    <2> HIDE DEF n, Factor
    <2>3. \A i \in 0..n : sum[i] = IF i = 0 THEN 0 ELSE Times(sum[i - 1], Factor(i))
      BY <2>2, Zenon
    <2> QED BY <2>1, <2>3
  <1>9. \A i \in 0..n : sum[i] \in Ten
    <2>0. n \in Nat BY <1>0
    <2> DEFINE S == {i \in Nat : i <= n => sum[i] \in Ten}
    <2>1. 0 \in S BY <1>8 DEF Ten
    <2> HIDE DEF n, Factor
    <2>2. ASSUME NEW i \in Nat, i \in S PROVE i + 1 \in S
      <3> SUFFICES ASSUME i + 1 <= n PROVE sum[i + 1] \in Ten OBVIOUS
      <3>1. sum[i] \in Ten BY <2>0, <2>2
      <3>2. i + 1 \in 1..n /\ (i + 1) - 1 = i BY <2>0
      <3>3. sum[i + 1] = Times(sum[i], Factor(i + 1)) BY <1>8, <3>2
      <3> QED BY <1>1, <3>1, <3>2, <3>3, TimesType
    <2>3. \A i \in Nat : i \in S
      <3> HIDE DEF S
      <3> QED BY <2>1, <2>2, EveryNumber
    <2> QED BY <2>0, <2>3
  <1>10. sum = [i \in 0..n |-> sum[i]] BY <1>6
  <1>11. Products(sum, s)
    <2>1. sum \in [0..n -> Ten]
      <3> HIDE DEF n
      <3> QED BY <1>9, <1>10
    <2>2. \A i \in 1..n : sum[i] = Times(sum[i - 1], Permuted[i % 8][s[n - i + 1]])
      <3> HIDE DEF Factor, n
      <3> QED BY <1>1, <1>8
    <2> QED BY <1>8, <2>1, <2>2, Zenon DEF Products
  <1> QED BY <1>7, <1>11

(* The three facts of TimesGroup that are needed, by name.                   *)
LEMMA Associative == \A a, b, c \in Ten : Times(Times(a, b), c) = Times(a, Times(b, c))
  BY TimesGroup
LEMMA LeftCancelled == \A a, b, c \in Ten : Times(a, b) = Times(a, c) => b = c
  BY TimesGroup
LEMMA RightCancelled == \A a, b, c \in Ten : Times(b, a) = Times(c, a) => b = c
  BY TimesGroup

(* The product of a code and its check digit, from the check digit on.       *)
CodeProducts(full, s, n) ==
  /\ full \in [0..(n - 1) -> Ten]
  /\ full[0] = s[n]
  /\ \A i \in 1..(n - 1) : full[i] = Times(full[i - 1], Permuted[i % 8][s[n - i]])

(* A code with its check digit has the product 0.                            *)
LEMMA CheckedProduct ==
  ASSUME NEW n \in Nat \ {0}, NEW s \in [1..n -> Ten], Checked(s)
  PROVE  \E full : CodeProducts(full, s, n) /\ full[n - 1] = 0
  <1> DEFINE p == SubSeq(s, 1, n - 1)
  <1>1. Len(s) = n /\ s[n] \in Ten OBVIOUS
  <1>2. p \in Seq(Ten) /\ Len(p) = n - 1 /\ \A i \in 1..(n - 1) : p[i] = s[i] OBVIOUS
  <1>3. s[n] = VerhoeffChecksum(p) BY <1>1 DEF Checked
  <1> HIDE DEF p
  <1>4. PICK sum : Products(sum, p) /\ VerhoeffChecksum(p) = Inverted(sum[n - 1])
    BY <1>2, ChecksumStepByStep
  <1>5. /\ sum \in [0..(n - 1) -> Ten]
        /\ sum[0] = 0
        /\ \A i \in 1..(n - 1) : sum[i] = Times(sum[i - 1], Permuted[i % 8][p[(n - 1) - i + 1]])
    BY <1>2, <1>4 DEF Products
  <1>6. ASSUME NEW i \in 1..(n - 1)
        PROVE  /\ sum[i] = Times(sum[i - 1], Permuted[i % 8][s[n - i]])
               /\ sum[i - 1] \in Ten /\ Permuted[i % 8][s[n - i]] \in Ten
    <2>1. (n - 1) - i + 1 = n - i /\ n - i \in 1..(n - 1) /\ i - 1 \in 0..(n - 1) OBVIOUS
    <2>2. p[n - i] = s[n - i] BY <1>2, <2>1
    <2>3. sum[i] = Times(sum[i - 1], Permuted[i % 8][s[n - i]]) BY <1>5, <2>1, <2>2
    <2>4. i % 8 \in 0..7 OBVIOUS
    <2>5. s[n - i] \in Ten BY <2>1
    <2>6. Permuted[i % 8][s[n - i]] \in Ten BY <2>4, <2>5, PermutedStepByStep
    <2>7. sum[i - 1] \in Ten BY <1>5, <2>1
    <2> QED BY <2>3, <2>6, <2>7
  <1> DEFINE full == [i \in 0..(n - 1) |-> Times(s[n], sum[i])]
  <1>7. full \in [0..(n - 1) -> Ten] BY <1>1, <1>5, TimesType
  <1>8. full[0] = s[n]
    <2>1. \A a \in Ten : Times(a, 0) = a BY DEF Ten, Times
    <2> QED BY <1>1, <1>5, <2>1
  <1>9. ASSUME NEW i \in 1..(n - 1)
        PROVE  full[i] = Times(full[i - 1], Permuted[i % 8][s[n - i]])
    <2>1. i \in 0..(n - 1) /\ i - 1 \in 0..(n - 1) OBVIOUS
    <2>2. full[i] = Times(s[n], sum[i]) /\ full[i - 1] = Times(s[n], sum[i - 1]) BY <2>1
    <2> HIDE DEF full
    <2> QED BY <1>1, <1>6, <2>2, Associative
  <1>10. full[n - 1] = 0
    <2>1. sum[n - 1] \in Ten BY <1>5
    <2>2. full[n - 1] = Times(Inverted(sum[n - 1]), sum[n - 1]) BY <1>3, <1>4
    <2> HIDE DEF full
    <2> QED BY <2>1, <2>2, TimesGroup
  <1> QED BY <1>7, <1>8, <1>9, <1>10 DEF CodeProducts

(* Where the last digits are the same so are the products of them.           *)
LEMMA SameAfter ==
  ASSUME NEW n \in Nat \ {0}, NEW s, NEW t, NEW f, NEW g,
         CodeProducts(f, s, n), CodeProducts(g, t, n)
  PROVE  \A i \in 0..(n - 1) : (\A k \in (n - i)..n : s[k] = t[k]) => f[i] = g[i]
  <1> DEFINE S == {i \in Nat : i <= n - 1 /\ (\A k \in (n - i)..n : s[k] = t[k]) => f[i] = g[i]}
  <1>1. 0 \in S BY DEF CodeProducts
  <1>2. ASSUME NEW i \in Nat, i \in S PROVE i + 1 \in S
    <2> SUFFICES ASSUME i + 1 <= n - 1, \A k \in (n - (i + 1))..n : s[k] = t[k]
                 PROVE  f[i + 1] = g[i + 1]
      OBVIOUS
    <2>1. \A k \in (n - i)..n : s[k] = t[k] OBVIOUS
    <2>2. f[i] = g[i] BY <1>2, <2>1
    <2>3. i + 1 \in 1..(n - 1) /\ (i + 1) - 1 = i OBVIOUS
    <2>4. s[n - (i + 1)] = t[n - (i + 1)] OBVIOUS
    <2>5. f[i + 1] = Times(f[i], Permuted[(i + 1) % 8][s[n - (i + 1)]]) BY <2>3 DEF CodeProducts
    <2>6. g[i + 1] = Times(g[i], Permuted[(i + 1) % 8][t[n - (i + 1)]]) BY <2>3 DEF CodeProducts
    <2> QED BY <2>2, <2>4, <2>5, <2>6
  <1>3. \A i \in Nat : i \in S
    <2> HIDE DEF S
    <2> QED BY <1>1, <1>2, EveryNumber
  <1> QED BY <1>3

(* Where the first digits and the whole product are the same, so is the      *)
(* product of the rest.                                                      *)
SameUntil(s, t, d) == \A k \in 1..d : s[k] = t[k]

LEMMA SameBefore ==
  ASSUME NEW n \in Nat \ {0}, NEW s \in [1..n -> Ten], NEW t \in [1..n -> Ten], NEW f, NEW g,
         CodeProducts(f, s, n), CodeProducts(g, t, n), f[n - 1] = g[n - 1]
  PROVE  \A d \in 0..(n - 1) : SameUntil(s, t, d) => f[(n - 1) - d] = g[(n - 1) - d]
  <1> DEFINE S == {d \in Nat : d <= n - 1 /\ (\A k \in 1..d : s[k] = t[k])
                               => f[(n - 1) - d] = g[(n - 1) - d]}
  <1>1. 0 \in S OBVIOUS
  <1>2. ASSUME NEW d \in Nat, d \in S PROVE d + 1 \in S
    <2> SUFFICES ASSUME d + 1 <= n - 1, \A k \in 1..(d + 1) : s[k] = t[k]
                 PROVE  f[(n - 1) - (d + 1)] = g[(n - 1) - (d + 1)]
      OBVIOUS
    <2>1. \A k \in 1..d : s[k] = t[k] OBVIOUS
    <2>2. PICK i : i = (n - 1) - d OBVIOUS
    <2>3. f[i] = g[i] BY <1>2, <2>1, <2>2
    <2>4. i \in 1..(n - 1) /\ i - 1 = (n - 1) - (d + 1) /\ n - i = d + 1 /\ i - 1 \in 0..(n - 1)
      BY <2>2
    <2>5. f[i] = Times(f[i - 1], Permuted[i % 8][s[d + 1]]) BY <2>4 DEF CodeProducts
    <2>6. g[i] = Times(g[i - 1], Permuted[i % 8][s[d + 1]]) BY <2>4 DEF CodeProducts
    <2>7. f[i - 1] \in Ten /\ g[i - 1] \in Ten BY <2>4 DEF CodeProducts
    <2>8. Permuted[i % 8][s[d + 1]] \in Ten
      <3>1. i % 8 \in 0..7 BY <2>4
      <3>2. s[d + 1] \in Ten OBVIOUS
      <3> QED BY <3>1, <3>2, PermutedStepByStep
    <2>9. f[i - 1] = g[i - 1] BY ONLY <2>3, <2>5, <2>6, <2>7, <2>8, RightCancelled
    <2> QED BY <2>4, <2>9
  <1>3. \A d \in Nat : d \in S
    <2> HIDE DEF S
    <2> QED BY <1>1, <1>2, EveryNumber
  <1> QED BY <1>3 DEF SameUntil

(* Two codes of one product differ in more than one digit.                   *)
LEMMA OneWrong ==
  ASSUME NEW n \in Nat \ {0}, NEW s \in [1..n -> Ten], NEW t \in [1..n -> Ten], NEW f, NEW g,
         CodeProducts(f, s, n), CodeProducts(g, t, n), f[n - 1] = g[n - 1],
         NEW k \in 1..n, \A j \in (1..n) \ {k} : s[j] = t[j]
  PROVE  s[k] = t[k]
  <1>1. f[n - k] = g[n - k]
    <2>1. PICK d : d = k - 1 OBVIOUS
    <2>2. d \in 0..(n - 1) /\ (n - 1) - d = n - k BY <2>1
    <2>3. SameUntil(s, t, d) BY <2>1 DEF SameUntil
    <2>4. \A m \in 0..(n - 1) : SameUntil(s, t, m) => f[(n - 1) - m] = g[(n - 1) - m]
      BY SameBefore
    <2>5. f[(n - 1) - d] = g[(n - 1) - d] BY <2>2, <2>3, <2>4
    <2> QED BY <2>2, <2>5
  <1>2. CASE k = n
    <2>1. f[0] = g[0] BY <1>1, <1>2
    <2> QED BY <1>2, <2>1 DEF CodeProducts
  <1>3. CASE k # n
    <2>1. n - k \in 1..(n - 1) /\ n - (n - k) = k /\ (n - k) - 1 \in 0..(n - 1) BY <1>3
    <2>2. f[(n - k) - 1] = g[(n - k) - 1]
      <3>1. \A j \in (n - ((n - k) - 1))..n : s[j] = t[j] BY <1>3
      <3> QED BY <2>1, <3>1, SameAfter
    <2>3. f[n - k] = Times(f[(n - k) - 1], Permuted[(n - k) % 8][s[k]]) BY <2>1 DEF CodeProducts
    <2>4. g[n - k] = Times(g[(n - k) - 1], Permuted[(n - k) % 8][t[k]]) BY <2>1 DEF CodeProducts
    <2>5. f[(n - k) - 1] \in Ten BY <2>1 DEF CodeProducts
    <2>6. (n - k) % 8 \in 0..7 BY <2>1
    <2>7. s[k] \in Ten /\ t[k] \in Ten OBVIOUS
    <2>8. Permuted[(n - k) % 8][s[k]] \in Ten /\ Permuted[(n - k) % 8][t[k]] \in Ten
      BY <2>6, <2>7, PermutedStepByStep
    <2>9. Permuted[(n - k) % 8][s[k]] = Permuted[(n - k) % 8][t[k]]
      BY ONLY <1>1, <2>2, <2>3, <2>4, <2>5, <2>8, LeftCancelled
    <2> QED BY <2>6, <2>7, <2>9, PermutedUnlike
  <1> QED BY <1>2, <1>3

(* Two codes of one product do not differ by neighbours that changed places. *)
LEMMA TwoSwapped ==
  ASSUME NEW n \in Nat \ {0}, NEW s \in [1..n -> Ten], NEW t \in [1..n -> Ten], NEW f, NEW g,
         CodeProducts(f, s, n), CodeProducts(g, t, n), f[n - 1] = g[n - 1],
         NEW k \in 1..(n - 1), t[k] = s[k + 1], t[k + 1] = s[k],
         \A j \in (1..n) \ {k, k + 1} : s[j] = t[j]
  PROVE  s[k] = s[k + 1]
  <1>0. n - k \in 1..(n - 1) /\ n - (n - k) = k /\ (n - k) - 1 \in 0..(n - 1)
        /\ s[k] \in Ten /\ s[k + 1] \in Ten
    OBVIOUS
  <1>1. f[n - k] = g[n - k]
    <2>1. PICK d : d = k - 1 OBVIOUS
    <2>2. d \in 0..(n - 1) /\ (n - 1) - d = n - k BY <2>1
    <2>3. SameUntil(s, t, d) BY <2>1 DEF SameUntil
    <2>4. \A m \in 0..(n - 1) : SameUntil(s, t, m) => f[(n - 1) - m] = g[(n - 1) - m]
      BY SameBefore
    <2>5. f[(n - 1) - d] = g[(n - 1) - d] BY <2>2, <2>3, <2>4
    <2> QED BY <2>2, <2>5
  <1>2. f[n - k] = Times(f[(n - k) - 1], Permuted[(n - k) % 8][s[k]]) BY <1>0 DEF CodeProducts
  <1>3. g[n - k] = Times(g[(n - k) - 1], Permuted[(n - k) % 8][s[k + 1]]) BY <1>0 DEF CodeProducts
  <1>4. PICK place \in 0..7 : place = ((n - k) - 1) % 8 BY <1>0
  <1>5. (n - k) % 8 = (place + 1) % 8 BY <1>0, <1>4
  <1> DEFINE x == Permuted[place][s[k]]
             y == Permuted[place][s[k + 1]]
  <1>6. x \in Ten /\ y \in Ten BY <1>0, PermutedStepByStep
  <1>7. Permuted[(n - k) % 8][s[k]] = First[x + 1]
        /\ Permuted[(n - k) % 8][s[k + 1]] = First[y + 1]
    <2>1. Permuted[(n - k) % 8] = Permuted[(place + 1) % 8] BY <1>5
    <2>2. /\ Permuted[(place + 1) % 8][s[k]] = First[Permuted[place][s[k]] + 1]
          /\ Permuted[(place + 1) % 8][s[k + 1]] = First[Permuted[place][s[k + 1]] + 1]
      BY <1>0, PermutedUnlike
    <2> QED BY <2>1, <2>2
  <1>8. x = y => s[k] = s[k + 1] BY <1>0, PermutedUnlike
  <1>9. First[x + 1] \in Ten /\ First[y + 1] \in Ten BY <1>6, FirstType
  <1>10. CASE k = n - 1
    <2>1. (n - k) - 1 = 0 /\ k + 1 = n BY <1>10
    <2>2. f[0] = s[k + 1] /\ g[0] = s[k] BY <2>1 DEF CodeProducts
    <2>3. place = 0 BY <1>4, <2>1
    <2>4. x = s[k] /\ y = s[k + 1] BY <1>0, <2>3, PermutedStepByStep
    <2> HIDE DEF x, y
    <2>5. Times(y, First[x + 1]) = Times(x, First[y + 1])
      BY <1>1, <1>2, <1>3, <1>7, <2>1, <2>2, <2>4
    <2> QED BY <1>6, <1>8, <2>5, Unlike
  <1>11. CASE k # n - 1
    <2>1. (n - k) - 1 \in 1..(n - 1) /\ n - ((n - k) - 1) = k + 1
          /\ ((n - k) - 1) - 1 \in 0..(n - 1)
      BY <1>11
    <2> DEFINE i == (n - k) - 1
    <2>2. f[i - 1] = g[i - 1]
      <3>1. \A j \in (n - (i - 1))..n : s[j] = t[j] BY <1>11
      <3> QED BY <2>1, <3>1, SameAfter
    <2>3. f[i] = Times(f[i - 1], Permuted[i % 8][s[k + 1]]) BY <2>1 DEF CodeProducts
    <2>4. g[i] = Times(g[i - 1], Permuted[i % 8][s[k]]) BY <2>1 DEF CodeProducts
    <2>5. f[i - 1] \in Ten BY <2>1 DEF CodeProducts
    <2>6. f[i] = Times(f[i - 1], y) /\ g[i] = Times(f[i - 1], x) BY <1>4, <2>2, <2>3, <2>4
    <2>7. Times(f[i], First[x + 1]) = Times(g[i], First[y + 1]) BY <1>1, <1>2, <1>3, <1>7
    <2> HIDE DEF x, y, i
    <2>8. Times(f[i], First[x + 1]) = Times(f[i - 1], Times(y, First[x + 1]))
          /\ Times(g[i], First[y + 1]) = Times(f[i - 1], Times(x, First[y + 1]))
      BY ONLY <1>6, <1>9, <2>5, <2>6, Associative
    <2>9. Times(y, First[x + 1]) \in Ten /\ Times(x, First[y + 1]) \in Ten
      BY <1>6, <1>9, TimesType
    <2>10. Times(y, First[x + 1]) = Times(x, First[y + 1])
      BY ONLY <2>5, <2>7, <2>8, <2>9, LeftCancelled
    <2> QED BY <1>6, <1>8, <2>10, Unlike
  <1> QED BY <1>10, <1>11

(* For a code of any length whose check digit is right, mistyping one digit or *)
(* letting two neighbours change places makes the check digit wrong, unless the *)
(* code is as it was: what the check digit generateManualCode appends        *)
(* (matter.cpp:3350, 3360) is for, though parseManualCode does not look at it. *)
THEOREM MistypedCaught ==
  ASSUME NEW n \in Nat, NEW digits \in [1..n -> 0..9], Checked(digits),
         NEW other \in Mistyped(digits), Checked(other)
  PROVE  other = digits
  <1>1. Len(digits) = n /\ DOMAIN digits = 1..n OBVIOUS
  <1>2. digits \in [1..n -> Ten] BY DEF Ten
  <1>3. CASE \E i \in 1..n, c \in 0..9 : other = [digits EXCEPT ![i] = c]
    <2>1. PICK i \in 1..n, c \in 0..9 : other = [digits EXCEPT ![i] = c] BY <1>3
    <2>2. other \in [1..n -> Ten] /\ \A j \in (1..n) \ {i} : digits[j] = other[j]
      BY <2>1 DEF Ten
    <2>3. n \in Nat \ {0} OBVIOUS
    <2>4. PICK f : CodeProducts(f, digits, n) /\ f[n - 1] = 0 BY <1>2, <2>3, CheckedProduct
    <2>5. PICK g : CodeProducts(g, other, n) /\ g[n - 1] = 0 BY <2>2, <2>3, CheckedProduct
    <2>6. digits[i] = other[i] BY <1>2, <2>2, <2>3, <2>4, <2>5, OneWrong
    <2>7. \A j \in 1..n : other[j] = digits[j] BY <2>2, <2>6
    <2> QED BY <1>2, <2>2, <2>7
  <1>4. CASE \E i \in 1..(n - 1) :
               other = [digits EXCEPT ![i] = digits[i + 1], ![i + 1] = digits[i]]
    <2>1. PICK i \in 1..(n - 1) :
            other = [digits EXCEPT ![i] = digits[i + 1], ![i + 1] = digits[i]]
      BY <1>4
    <2>2. i \in 1..n /\ i + 1 \in 1..n /\ i # i + 1 /\ n \in Nat \ {0} OBVIOUS
    <2>3. other \in [1..n -> Ten] /\ \A j \in (1..n) \ {i, i + 1} : digits[j] = other[j]
      BY <1>2, <2>1, <2>2
    <2>4. other[i] = digits[i + 1] /\ other[i + 1] = digits[i] BY <2>1, <2>2
    <2>5. PICK f : CodeProducts(f, digits, n) /\ f[n - 1] = 0 BY <1>2, <2>2, CheckedProduct
    <2>6. PICK g : CodeProducts(g, other, n) /\ g[n - 1] = 0 BY <2>2, <2>3, CheckedProduct
    <2>7. digits[i] = digits[i + 1] BY <1>2, <2>2, <2>3, <2>4, <2>5, <2>6, TwoSwapped
    <2>8. \A j \in 1..n : other[j] = digits[j] BY <2>3, <2>4, <2>7
    <2> QED BY <1>2, <2>3, <2>8
  <1> QED BY <1>1, <1>3, <1>4 DEF Mistyped

(* A check digit is a digit.                                                 *)
LEMMA ChecksumType ==
  ASSUME NEW s \in Seq(Ten)
  PROVE  VerhoeffChecksum(s) \in Ten
  <1>1. PICK sum : Products(sum, s) /\ VerhoeffChecksum(s) = Inverted(sum[Len(s)])
    BY ChecksumStepByStep
  <1>2. sum[Len(s)] \in Ten BY <1>1 DEF Products
  <1> QED BY <1>1, <1>2, TimesGroup

-----------------------------------------------------------------------------
(* One sequence after another.                                               *)
Cat(s, t) == s \o t

(* What is where in one sequence after another.                              *)
LEMMA CatIs ==
  ASSUME NEW S, NEW s \in Seq(S), NEW t \in Seq(S)
  PROVE  /\ Cat(s, t) \in Seq(S)
         /\ Len(Cat(s, t)) = Len(s) + Len(t)
         /\ \A i \in 1..(Len(s) + Len(t)) :
              Cat(s, t)[i] = IF i <= Len(s) THEN s[i] ELSE t[i - Len(s)]
  <1>1. /\ s \o t \in Seq(S)
        /\ Len(s \o t) = Len(s) + Len(t)
        /\ \A i \in 1..(Len(s) + Len(t)) :
             (s \o t)[i] = IF i <= Len(s) THEN s[i] ELSE t[i - Len(s)]
    BY ConcatProperties
  <1> QED BY <1>1, Zenon DEF Cat

(* A part of a sequence is between the others.                               *)
LEMMA PartBetween ==
  ASSUME NEW S, NEW w \in Seq(S), NEW m \in Nat, NEW b \in Seq(S), NEW n \in Nat,
         Len(b) = n, m + n <= Len(w), \A i \in (m + 1)..(m + n) : w[i] = b[i - m]
  PROVE  Part(w, m + 1, n) = b
  <1>1. \A i \in 1..Len(b) : w[(m + 1) - 1 + i] = b[i]
    <2> TAKE i \in 1..Len(b)
    <2>1. m + i \in (m + 1)..(m + n) /\ (m + i) - m = i /\ (m + 1) - 1 + i = m + i OBVIOUS
    <2> QED BY <2>1
  <1>2. m + 1 \in Nat \ {0} /\ (m + 1) + Len(b) - 1 <= Len(w) BY SMT
  <1> QED BY <1>1, <1>2, PartIs

(* A manual code, of its parts and its check digit.                          *)
Manual(a, b, c, d) == Append(Cat(Cat(a, b), c), d)

(* Each part of a manual code is found where ParseManualCode looks for it.   *)
LEMMA ManualParts ==
  ASSUME NEW a \in Seq(Ten), NEW b \in Seq(Ten), NEW c \in Seq(Ten), NEW d \in Ten,
         Len(a) = 1, Len(b) = 5, Len(c) = 4
  PROVE  /\ Len(Manual(a, b, c, d)) = 11
         /\ Part(Manual(a, b, c, d), 1, 1) = a
         /\ Part(Manual(a, b, c, d), 2, 5) = b
         /\ Part(Manual(a, b, c, d), 7, 4) = c
  <1> DEFINE x == Cat(a, b)
             y == Cat(x, c)
             code == Manual(a, b, c, d)
  <1>1. x \in Seq(Ten) /\ Len(x) = Len(a) + Len(b)
        /\ \A i \in 1..(Len(a) + Len(b)) : x[i] = IF i <= Len(a) THEN a[i] ELSE b[i - Len(a)]
    BY CatIs
  <1> HIDE DEF x
  <1>2. y \in Seq(Ten) /\ Len(y) = Len(x) + Len(c)
        /\ \A i \in 1..(Len(x) + Len(c)) : y[i] = IF i <= Len(x) THEN x[i] ELSE c[i - Len(x)]
    <2>1. x \in Seq(Ten) BY <1>1
    <2> QED BY ONLY <2>1, c \in Seq(Ten), CatIs
  <1>3. code = Append(y, d) BY Zenon DEF x, Manual
  <1> HIDE DEF y, code
  <1>4. code \in Seq(Ten) /\ Len(code) = Len(y) + 1 /\ \A i \in 1..Len(y) : code[i] = y[i]
    BY <1>2, <1>3, AppendProperties
  <1>5. Len(x) = 6 /\ Len(y) = 10 /\ Len(code) = 11 BY <1>1, <1>2, <1>4
  <1>6. x[1] = a[1] /\ \A i \in 2..6 : x[i] = b[i - 1] BY ONLY <1>1, Len(a) = 1, Len(b) = 5
  <1>7. (\A i \in 1..6 : y[i] = x[i]) /\ \A i \in 7..10 : y[i] = c[i - 6]
    BY ONLY <1>2, <1>5, Len(c) = 4
  <1>8. (\A i \in 1..10 : code[i] = y[i]) BY ONLY <1>4, <1>5
  <1>9. \A i \in 2..6 : code[i] = b[i - 1] BY ONLY <1>6, <1>7, <1>8
  <1>10. \A i \in 7..10 : code[i] = c[i - 6] BY ONLY <1>7, <1>8
  <1>11. \A i \in 1..1 : code[i] = a[i] BY ONLY <1>6, <1>7, <1>8
  <1>p. ASSUME NEW m \in Nat, NEW s \in Seq(Ten), NEW n \in Nat,
               Len(s) = n, m + n <= Len(code), \A i \in (m + 1)..(m + n) : code[i] = s[i - m]
        PROVE  Part(code, m + 1, n) = s
    BY <1>4, <1>p, PartBetween
  <1>12. Part(code, 1, 1) = a
    <2>1. PICK m, n : m = 0 /\ n = 1 OBVIOUS
    <2>2. /\ m \in Nat /\ n \in Nat /\ Len(a) = n /\ m + n <= Len(code)
          /\ \A i \in (m + 1)..(m + n) : code[i] = a[i - m]
      BY <2>1, <1>5, <1>11
    <2>3. Part(code, m + 1, n) = a BY <1>p, <2>2
    <2>4. m + 1 = 1 BY <2>1
    <2> QED BY <2>1, <2>3, <2>4
  <1>13. Part(code, 2, 5) = b
    <2>1. PICK m, n : m = 1 /\ n = 5 OBVIOUS
    <2>2. /\ m \in Nat /\ n \in Nat /\ Len(b) = n /\ m + n <= Len(code)
          /\ \A i \in (m + 1)..(m + n) : code[i] = b[i - m]
      BY <2>1, <1>5, <1>9
    <2>3. Part(code, m + 1, n) = b BY <1>p, <2>2
    <2>4. m + 1 = 2 BY <2>1
    <2> QED BY <2>1, <2>3, <2>4
  <1>14. Part(code, 7, 4) = c
    <2>1. PICK m, n : m = 6 /\ n = 4 OBVIOUS
    <2>2. /\ m \in Nat /\ n \in Nat /\ Len(c) = n /\ m + n <= Len(code)
          /\ \A i \in (m + 1)..(m + n) : code[i] = c[i - m]
      <3>1. \A i \in (m + 1)..(m + n) : code[i] = c[i - m] BY ONLY <2>1, <1>10
      <3>2. m \in Nat /\ n \in Nat /\ Len(c) = n /\ m + n <= Len(code) BY <2>1, <1>5
      <3> QED BY ONLY <3>1, <3>2, Zenon
    <2>3. Part(code, m + 1, n) = c BY <1>p, <2>2
    <2>4. m + 1 = 7 BY <2>1
    <2> QED BY <2>1, <2>3, <2>4
  <1> QED BY <1>5, <1>12, <1>13, <1>14, Zenon DEF code

-----------------------------------------------------------------------------
(* What a manual code is made of.                                            *)
LEMMA ManualNumbers ==
  ASSUME NEW p \in Nat, p <= LastPasscode, NEW d \in Nat, d < 4096
  PROVE  \E short \in Nat, va \in Nat, vb \in Nat, vc \in Nat :
           /\ short = d \div 256
           /\ va = short \div 4
           /\ vb = (short % 4) * 16384 + (p % 16384)
           /\ vc = p \div 16384
           /\ Fits(va, 10, 1) /\ Fits(vb, 10, 5) /\ Fits(vc, 10, 4)
           /\ (vb % 16384) + vc * 16384 = p
           /\ (va % 4) * 4 + ((vb \div 16384) % 4) = short
  <1>1. PICK short \in Nat : short = d \div 256 BY SMT
  <1>2. PICK k \in Nat, va \in Nat : k = short % 4 /\ va = short \div 4 BY SMT
  <1>3. PICK x \in Nat, vc \in Nat : x = p % 16384 /\ vc = p \div 16384 BY SMT
  <1>4. PICK vb \in Nat : vb = k * 16384 + x BY SMT
  <1>5. short < 16 BY <1>1, SMT
  <1>6. va < 4 /\ k < 4 /\ va * 4 + k = short BY <1>2, <1>5, SMT
  <1>7. x < 16384 /\ vc < 10000 /\ x + vc * 16384 = p BY <1>3, SMT DEF LastPasscode
  <1>8. vb < 100000 /\ vb % 16384 = x /\ vb \div 16384 = k BY <1>4, <1>6, <1>7, SMT
  <1>9. Fits(va, 10, 1) BY <1>6, Fitting, SMT
  <1>10. Fits(vb, 10, 5) BY <1>8, Fitting, SMT
  <1>11. Fits(vc, 10, 4) BY <1>7, Fitting, SMT
  <1>12. (vb % 16384) + vc * 16384 = p BY <1>7, <1>8, SMT
  <1>13. (va % 4) * 4 + ((vb \div 16384) % 4) = short
    <2>1. va % 4 = va /\ k % 4 = k BY <1>6, SMT
    <2> QED BY <2>1, <1>6, <1>8, SMT
  <1> QED BY <1>1, <1>2, <1>3, <1>4, <1>9, <1>10, <1>11, <1>12, <1>13, SMT

(* DecimalOfDigits, for a sequence that has a name.                          *)
LEMMA DigitsOf ==
  ASSUME NEW v \in Nat, NEW n \in Nat, Fits(v, 10, n), NEW s, s = Digits(v, n)
  PROVE  s \in Seq(Ten) /\ Len(s) = n /\ Decimal(s) = v
  BY DecimalOfDigits

(* What is looked for after a manual code, and after its three numbers.      *)
ShortSearch(passcode, discriminator) == Search(passcode, discriminator, TRUE)

Composed(x, y, z) ==
  ShortSearch((y % 16384) + z * 16384, (x % 4) * 4 + ((y \div 16384) % 4))

(* Every passcode a device may have, with every discriminator, is read from its *)
(* manual code as it was written, the discriminator in its upper four bits   *)
(* (matter.cpp:3360 and 3524).                                               *)
THEOREM ManualRead ==
  ASSUME NEW p \in Nat, p # 0, p <= LastPasscode, NEW d \in Nat, d < 4096
  PROVE  ParseManualCode(GenerateManualCode(p, d))
           = [passcode |-> p, discriminator |-> d \div 256, short |-> TRUE]
  <1>1. PICK short \in Nat, va \in Nat, vb \in Nat, vc \in Nat :
           /\ short = d \div 256
           /\ va = short \div 4
           /\ vb = (short % 4) * 16384 + (p % 16384)
           /\ vc = p \div 16384
           /\ Fits(va, 10, 1) /\ Fits(vb, 10, 5) /\ Fits(vc, 10, 4)
           /\ (vb % 16384) + vc * 16384 = p
           /\ (va % 4) * 4 + ((vb \div 16384) % 4) = short
    BY ManualNumbers, SMT
  <1>2. PICK a, b, c : a = Digits(va, 1) /\ b = Digits(vb, 5) /\ c = Digits(vc, 4) OBVIOUS
  <1>3. PICK one, five, four : one = 1 /\ five = 5 /\ four = 4 OBVIOUS
  <1>4. one \in Nat /\ five \in Nat /\ four \in Nat BY <1>3
  <1>5. /\ Fits(va, 10, one) /\ a = Digits(va, one)
        /\ Fits(vb, 10, five) /\ b = Digits(vb, five)
        /\ Fits(vc, 10, four) /\ c = Digits(vc, four)
    BY ONLY <1>1, <1>2, <1>3, SMT
  <1>6. a \in Seq(Ten) /\ Len(a) = one /\ Decimal(a) = va
    BY ONLY va \in Nat, <1>4, <1>5, DigitsOf
  <1>7. b \in Seq(Ten) /\ Len(b) = five /\ Decimal(b) = vb
    BY ONLY vb \in Nat, <1>4, <1>5, DigitsOf
  <1>8. c \in Seq(Ten) /\ Len(c) = four /\ Decimal(c) = vc
    BY ONLY vc \in Nat, <1>4, <1>5, DigitsOf
  <1> DEFINE last == VerhoeffChecksum(Cat(Cat(a, b), c))
             text == Manual(a, b, c, last)
  <1>9. last \in Ten
    <2>1. Cat(a, b) \in Seq(Ten) BY ONLY <1>6, <1>7, CatIs
    <2>2. Cat(Cat(a, b), c) \in Seq(Ten) BY ONLY <2>1, <1>8, CatIs
    <2> QED BY ONLY <2>2, ChecksumType
  <1>10. text = GenerateManualCode(p, d)
    <2>1. GenerateManualCode(p, d) = Append((a \o b) \o c, VerhoeffChecksum((a \o b) \o c))
      BY ONLY <1>1, <1>2, SMT DEF GenerateManualCode
    <2> QED BY ONLY <2>1, Zenon DEF Manual, Cat
  <1> HIDE DEF last
  <1>11. Len(text) = 11 /\ Part(text, 1, 1) = a /\ Part(text, 2, 5) = b /\ Part(text, 7, 4) = c
    <2>1. Len(a) = 1 /\ Len(b) = 5 /\ Len(c) = 4 BY ONLY <1>3, <1>6, <1>7, <1>8, SMT
    <2> QED BY ONLY <1>6, <1>7, <1>8, <1>9, <2>1, ManualParts
  <1> HIDE DEF text
  <1>12. ParseManualCode(text) = ShortSearch((vb % 16384) + vc * 16384,
                                             (va % 4) * 4 + ((vb \div 16384) % 4))
    <2>1. Decimal(Part(text, 1, 1)) = va /\ Decimal(Part(text, 2, 5)) = vb
          /\ Decimal(Part(text, 7, 4)) = vc
      BY ONLY <1>6, <1>7, <1>8, <1>11, Zenon
    <2>2. Len(text) \in {11, 21} BY ONLY <1>11
    <2>3. ParseManualCode(text) = Composed(Decimal(Part(text, 1, 1)), Decimal(Part(text, 2, 5)),
                                           Decimal(Part(text, 7, 4)))
      BY ONLY <2>2, SMT DEF ParseManualCode, ShortSearch, Composed
    <2>4. ParseManualCode(text) = Composed(va, vb, vc) BY ONLY <2>1, <2>3, Zenon
    <2> QED BY ONLY <2>4, SMT DEF Composed
  <1>13. ParseManualCode(text) = ShortSearch(p, short) BY <1>1, <1>12, SMT
  <1>14. LastPasscode \in Nat BY SMT DEF LastPasscode
  <1>15. p \in 1..LastPasscode BY <1>14, SMT
  <1>16. ShortSearch(p, short) = [passcode |-> p, discriminator |-> short, short |-> TRUE]
    BY <1>15, SMT DEF Search, ShortSearch
  <1> QED BY <1>1, <1>10, <1>13, <1>16, SMT

-----------------------------------------------------------------------------
(* The digits of a number, in two parts.                                     *)
LEMMA DigitsSplit ==
  ASSUME NEW v \in Nat, NEW base \in Nat \ {0}, NEW m \in Nat, NEW n \in Nat,
         NEW u \in Nat, \A rest : Remains(rest, v, base, m) => rest[m] = u
  PROVE  Cat(InBase(v, base, m), InBase(u, base, n)) = InBase(v, base, m + n)
  <1>1. m + n \in Nat OBVIOUS
  <1>2. PICK all : Remains(all, v, base, m + n)
                   /\ InBase(v, base, m + n) = [i \in 1..(m + n) |-> all[i - 1] % base]
    BY <1>1, InBaseStepByStep
  <1>3. PICK low : Remains(low, v, base, m)
                   /\ InBase(v, base, m) = [i \in 1..m |-> low[i - 1] % base]
    BY InBaseStepByStep
  <1>4. PICK high : Remains(high, u, base, n)
                    /\ InBase(u, base, n) = [i \in 1..n |-> high[i - 1] % base]
    BY InBaseStepByStep
  <1>5. \A k \in 0..m : low[k] = all[k]
    <2> DEFINE S == {k \in Nat : k <= m => low[k] = all[k]}
    <2>1. 0 \in S BY <1>2, <1>3 DEF Remains
    <2>2. ASSUME NEW k \in Nat, k \in S PROVE k + 1 \in S
      <3> SUFFICES ASSUME k + 1 <= m PROVE low[k + 1] = all[k + 1] OBVIOUS
      <3>1. low[k] = all[k] BY <2>2
      <3>2. k + 1 \in 1..m /\ k + 1 \in 1..(m + n) /\ (k + 1) - 1 = k OBVIOUS
      <3>3. low[k + 1] = low[k] \div base BY <1>3, <3>2 DEF Remains
      <3>4. all[k + 1] = all[k] \div base BY <1>2, <3>2 DEF Remains
      <3> QED BY <3>1, <3>3, <3>4
    <2>3. \A k \in Nat : k \in S
      <3> HIDE DEF S
      <3> QED BY <2>1, <2>2, EveryNumber
    <2> QED BY <2>3
  <1>6. all[m] = u
    <2>1. low[m] = u BY <1>3
    <2> QED BY <1>5, <2>1
  <1>7. \A k \in 0..n : high[k] = all[m + k]
    <2> DEFINE S == {k \in Nat : k <= n => high[k] = all[m + k]}
    <2>1. 0 \in S BY <1>4, <1>6 DEF Remains
    <2>2. ASSUME NEW k \in Nat, k \in S PROVE k + 1 \in S
      <3> SUFFICES ASSUME k + 1 <= n PROVE high[k + 1] = all[m + (k + 1)] OBVIOUS
      <3>1. high[k] = all[m + k] BY <2>2
      <3>2. k + 1 \in 1..n /\ m + (k + 1) \in 1..(m + n) /\ (k + 1) - 1 = k
            /\ (m + (k + 1)) - 1 = m + k
        OBVIOUS
      <3>3. high[k + 1] = high[k] \div base BY <1>4, <3>2 DEF Remains
      <3>4. all[m + (k + 1)] = all[m + k] \div base BY <1>2, <3>2 DEF Remains
      <3> QED BY <3>1, <3>3, <3>4
    <2>3. \A k \in Nat : k \in S
      <3> HIDE DEF S
      <3> QED BY <2>1, <2>2, EveryNumber
    <2> QED BY <2>3
  <1> DEFINE a == InBase(v, base, m)
             b == InBase(u, base, n)
             c == InBase(v, base, m + n)
             D == 0..(base - 1)
  <1>8. a \in [1..m -> D] /\ b \in [1..n -> D] /\ c \in [1..(m + n) -> D]
    <2>1. InBase(v, base, m) \in [1..m -> 0..(base - 1)] BY InBaseType
    <2>2. InBase(u, base, n) \in [1..n -> 0..(base - 1)] BY InBaseType
    <2>3. InBase(v, base, m + n) \in [1..(m + n) -> 0..(base - 1)] BY <1>1, InBaseType
    <2> QED BY <2>1, <2>2, <2>3
  <1>9. \A i \in 1..m : a[i] = all[i - 1] % base
    <2> TAKE i \in 1..m
    <2>1. i - 1 \in 0..m OBVIOUS
    <2>2. a[i] = low[i - 1] % base BY <1>3
    <2> QED BY <1>5, <2>1, <2>2
  <1>10. \A i \in 1..n : b[i] = all[m + (i - 1)] % base
    <2> TAKE i \in 1..n
    <2>1. i - 1 \in 0..n OBVIOUS
    <2>2. b[i] = high[i - 1] % base BY <1>4
    <2> QED BY <1>7, <2>1, <2>2
  <1>11. \A i \in 1..(m + n) : c[i] = all[i - 1] % base BY <1>2
  <1> HIDE DEF a, b, c, D
  <1>12. a \in Seq(D) /\ Len(a) = m /\ b \in Seq(D) /\ Len(b) = n /\ c \in Seq(D) /\ Len(c) = m + n
    BY <1>8
  <1>13. /\ Cat(a, b) \in Seq(D)
         /\ Len(Cat(a, b)) = Len(a) + Len(b)
         /\ \A i \in 1..(Len(a) + Len(b)) :
              Cat(a, b)[i] = IF i <= Len(a) THEN a[i] ELSE b[i - Len(a)]
    BY <1>12, CatIs
  <1>14. ASSUME NEW i \in 1..(m + n) PROVE Cat(a, b)[i] = c[i]
    <2>1. CASE i <= m
      <3>1. Cat(a, b)[i] = a[i] BY <1>12, <1>13, <2>1
      <3>2. i \in 1..m BY <2>1
      <3> QED BY <1>9, <1>11, <3>1, <3>2
    <2>2. CASE ~(i <= m)
      <3>1. Cat(a, b)[i] = b[i - m] BY <1>12, <1>13, <2>2
      <3>2. i - m \in 1..n /\ m + ((i - m) - 1) = i - 1 BY <2>2
      <3> QED BY <1>10, <1>11, <3>1, <3>2
    <2> QED BY <2>1, <2>2
  <1>15. Cat(a, b) = c BY <1>12, <1>13, <1>14, SeqEqual
  <1> QED BY <1>15 DEF a, b, c

(* Seven bits less are a division by 128.                                    *)
LEMMA SevenHalves ==
  ASSUME NEW v \in Nat, NEW rest, Remains(rest, v, 2, 7)
  PROVE  rest[7] = v \div 128
  <1>1. \A k \in 1..7 : rest[k] = rest[k - 1] \div 2 BY DEF Remains
  <1>2. rest[0] = v BY DEF Remains
  <1>3. rest[1] = v \div 2 BY <1>1, <1>2
  <1>4. rest[2] = v \div 4 BY <1>1, <1>3
  <1>5. rest[3] = v \div 8 BY <1>1, <1>4
  <1>6. rest[4] = v \div 16 BY <1>1, <1>5
  <1>7. rest[5] = v \div 32 BY <1>1, <1>6
  <1>8. rest[6] = v \div 64 BY <1>1, <1>7
  <1> QED BY <1>1, <1>8

(* The bits.                                                                 *)
Bit == 0..1

(* Bits are bits, as many as were asked for.                                 *)
LEMMA BitsType ==
  ASSUME NEW v \in Nat, NEW n \in Nat
  PROVE  Bits(v, n) \in Seq(Bit) /\ Len(Bits(v, n)) = n
  <1>1. PICK base : base = 2 OBVIOUS
  <1>2. base \in Nat \ {0} /\ 0..(base - 1) = Bit BY <1>1 DEF Bit
  <1>3. InBase(v, base, n) \in [1..n -> 0..(base - 1)]
    BY ONLY v \in Nat, n \in Nat, <1>2, InBaseType
  <1>4. Bits(v, n) \in [1..n -> Bit] BY ONLY <1>1, <1>2, <1>3, Zenon DEF Bits
  <1> QED BY <1>4

(* A number that is written in enough bits is read again.                    *)
LEMMA BitsRead ==
  ASSUME NEW v \in Nat, NEW n \in Nat, Fits(v, 2, n)
  PROVE  Unsigned(Bits(v, n)) = v
  <1>1. PICK base : base = 2 OBVIOUS
  <1>2. base \in Nat \ {0} BY <1>1
  <1>3. Fits(v, base, n) BY <1>1, Zenon
  <1>4. FromBase(InBase(v, base, n), base) = v
    BY ONLY v \in Nat, n \in Nat, <1>2, <1>3, NumberWritten
  <1> QED BY ONLY <1>1, <1>4, Zenon DEF Bits, Unsigned

(* The passcode of a QR code is in two parts.                                *)
LEMMA PasscodeBits ==
  ASSUME NEW v \in Nat, NEW w, w = v \div 128
  PROVE  Cat(Bits(v, 7), Bits(w, 20)) = Bits(v, 27)
  <1>1. PICK base, m, n : base = 2 /\ m = 7 /\ n = 20 OBVIOUS
  <1>2. base \in Nat \ {0} /\ m \in Nat /\ n \in Nat /\ m + n = 27 BY <1>1
  <1>3. w \in Nat OBVIOUS
  <1>4. \A rest : Remains(rest, v, base, m) => rest[m] = w BY <1>1, SevenHalves
  <1>5. Cat(InBase(v, base, m), InBase(w, base, n)) = InBase(v, base, m + n)
    BY ONLY v \in Nat, <1>2, <1>3, <1>4, DigitsSplit
  <1> QED BY ONLY <1>1, <1>2, <1>5, Zenon DEF Bits

(* One sequence after another has the length of both.                        *)
LEMMA CatType ==
  ASSUME NEW S, NEW s \in Seq(S), NEW t \in Seq(S)
  PROVE  Cat(s, t) \in Seq(S) /\ Len(Cat(s, t)) = Len(s) + Len(t)
  BY CatIs

(* It does not matter which two of three are put together first.             *)
LEMMA CatAssociative ==
  ASSUME NEW S, NEW s \in Seq(S), NEW t \in Seq(S), NEW u \in Seq(S)
  PROVE  Cat(Cat(s, t), u) = Cat(s, Cat(t, u))
  <1>1. (s \o t) \o u = s \o (t \o u) BY ConcatAssociative
  <1> QED BY <1>1, Zenon DEF Cat

(* What is in the middle of three.                                           *)
LEMMA PartMiddle ==
  ASSUME NEW S, NEW a \in Seq(S), NEW b \in Seq(S), NEW c \in Seq(S)
  PROVE  Part(Cat(Cat(a, b), c), Len(a) + 1, Len(b)) = b
  <1> DEFINE x == Cat(a, b)
             w == Cat(x, c)
  <1>0. Len(a) \in Nat /\ Len(b) \in Nat /\ Len(c) \in Nat OBVIOUS
  <1>1. /\ x \in Seq(S) /\ Len(x) = Len(a) + Len(b)
        /\ \A i \in 1..(Len(a) + Len(b)) : x[i] = IF i <= Len(a) THEN a[i] ELSE b[i - Len(a)]
    BY CatIs
  <1> HIDE DEF x
  <1>2. /\ w \in Seq(S) /\ Len(w) = Len(x) + Len(c)
        /\ \A i \in 1..(Len(x) + Len(c)) : w[i] = IF i <= Len(x) THEN x[i] ELSE c[i - Len(x)]
    <2>1. x \in Seq(S) BY <1>1
    <2> QED BY ONLY <2>1, c \in Seq(S), CatIs
  <1> HIDE DEF w
  <1>3. PICK m, n : m = Len(a) /\ n = Len(b) OBVIOUS
  <1>4. m \in Nat /\ n \in Nat /\ Len(b) = n /\ m + n <= Len(w) BY <1>0, <1>1, <1>2, <1>3
  <1>5. \A i \in (m + 1)..(m + n) : w[i] = b[i - m]
    <2> TAKE i \in (m + 1)..(m + n)
    <2>1. i \in 1..(Len(a) + Len(b)) /\ ~(i <= Len(a)) BY <1>0, <1>3, <1>4
    <2>2. x[i] = b[i - m] BY <1>1, <1>3, <2>1
    <2>3. i \in 1..(Len(x) + Len(c)) /\ i <= Len(x) BY <1>0, <1>1, <2>1
    <2>4. w[i] = x[i] BY <1>2, <2>3
    <2> QED BY <2>2, <2>4
  <1>6. Part(w, m + 1, n) = b BY ONLY <1>2, <1>4, <1>5, b \in Seq(S), PartBetween
  <1> QED BY <1>3, <1>6 DEF w, x

(* A QR code's bits, of those before the discriminator, of it, of the        *)
(* passcode in two parts, and of those after it.                             *)
QRBits(before, d, p, q, after) == Cat(Cat(Cat(Cat(before, d), p), q), after)

(* The discriminator and the passcode are found where ParseQRCode looks for  *)
(* them, and all the bits are 88.                                            *)
LEMMA QRParts ==
  ASSUME NEW before \in Seq(Bit), NEW d \in Seq(Bit), NEW p \in Seq(Bit), NEW q \in Seq(Bit),
         NEW after \in Seq(Bit), Len(before) = 45, Len(d) = 12, Len(p) = 7, Len(q) = 20,
         Len(after) = 4
  PROVE  /\ QRBits(before, d, p, q, after) \in Seq(Bit)
         /\ Len(QRBits(before, d, p, q, after)) = 88
         /\ Part(QRBits(before, d, p, q, after), 46, 12) = d
         /\ Part(QRBits(before, d, p, q, after), 58, 27) = Cat(p, q)
  <1> DEFINE x == Cat(before, d)
             pq == Cat(p, q)
             y == Cat(x, p)
             z == Cat(y, q)
             w == Cat(z, after)
  <1>1. x \in Seq(Bit) /\ Len(x) = Len(before) + Len(d) BY CatType
  <1>2. pq \in Seq(Bit) /\ Len(pq) = Len(p) + Len(q) BY CatType
  <1> HIDE DEF x
  <1>3. y \in Seq(Bit) /\ Len(y) = Len(x) + Len(p) BY ONLY <1>1, p \in Seq(Bit), CatType
  <1>4. z = Cat(x, pq) BY ONLY <1>1, p \in Seq(Bit), q \in Seq(Bit), CatAssociative
  <1> HIDE DEF y
  <1>5. z \in Seq(Bit) /\ Len(z) = Len(y) + Len(q) BY ONLY <1>3, q \in Seq(Bit), CatType
  <1> HIDE DEF z, pq
  <1>6. w \in Seq(Bit) /\ Len(w) = Len(z) + Len(after) BY ONLY <1>5, after \in Seq(Bit), CatType
  <1>7. w = Cat(x, Cat(pq, after))
    BY ONLY <1>1, <1>2, <1>4, after \in Seq(Bit), CatAssociative
  <1>8. Part(w, Len(x) + 1, Len(pq)) = pq
    <2>1. Part(Cat(Cat(x, pq), after), Len(x) + 1, Len(pq)) = pq
      BY ONLY <1>1, <1>2, after \in Seq(Bit), PartMiddle
    <2> QED BY ONLY <1>4, <2>1, Zenon
  <1>9. Part(w, Len(before) + 1, Len(d)) = d
    <2>1. Cat(pq, after) \in Seq(Bit) BY ONLY <1>2, after \in Seq(Bit), CatType
    <2>2. Part(Cat(Cat(before, d), Cat(pq, after)), Len(before) + 1, Len(d)) = d
      BY ONLY before \in Seq(Bit), d \in Seq(Bit), <2>1, PartMiddle
    <2> QED BY ONLY <1>7, <2>2, Zenon DEF x
  <1> HIDE DEF w
  <1>10. Len(x) + 1 = 58 /\ Len(pq) = 27 /\ Len(before) + 1 = 46 /\ Len(w) = 88
    BY <1>1, <1>2, <1>3, <1>5, <1>6
  <1>11. Part(w, 46, 12) = d /\ Part(w, 58, 27) = pq
    <2>1. Part(w, 58, 27) = pq BY ONLY <1>8, <1>10, Zenon
    <2>2. Len(d) = 12 OBVIOUS
    <2>3. Part(w, 46, 12) = d BY ONLY <1>9, <1>10, <2>2, Zenon
    <2> QED BY <2>1, <2>3
  <1>12. w = QRBits(before, d, p, q, after) BY ONLY Zenon DEF x, y, z, w, QRBits
  <1> QED BY ONLY <1>6, <1>10, <1>11, <1>12, Zenon DEF pq

-----------------------------------------------------------------------------
(* A part of a sequence, place by place.                                     *)
LEMMA PieceIs ==
  ASSUME NEW S, NEW s \in Seq(S), NEW m \in Nat, NEW k \in Nat, m + k <= Len(s)
  PROVE  /\ SubSeq(s, m + 1, m + k) \in Seq(S)
         /\ Len(SubSeq(s, m + 1, m + k)) = k
         /\ \A i \in 1..k : SubSeq(s, m + 1, m + k)[i] = s[m + i]
  <1>0. Len(s) \in Nat /\ \A i \in 1..Len(s) : s[i] \in S OBVIOUS
  <1>1. \A i \in (m + 1)..(m + k) : s[i] \in S BY <1>0
  <1> DEFINE x == SubSeq(s, m + 1, m + k)
  <1>2. x \in Seq(S) /\ Len(x) = k /\ \A i \in 1..k : x[i] = s[m + 1 + i - 1] BY <1>0, <1>1
  <1> HIDE DEF x
  <1>3. \A i \in 1..k : x[i] = s[m + i]
    <2> TAKE i \in 1..k
    <2>1. m + 1 + i - 1 = m + i OBVIOUS
    <2> QED BY <1>2, <2>1
  <1> QED BY <1>2, <1>3 DEF x

(* Four sequences, one after another.                                        *)
Four(a, b, c, d) == Cat(Cat(Cat(a, b), c), d)

(* Flattening four sequences puts them one after another.                    *)
LEMMA FlattenFour ==
  ASSUME NEW q, Len(q) = 4
  PROVE  FlattenSeq(q) = Four(q[1], q[2], q[3], q[4])
  <1> DEFINE Is(f) == f = [i \in 1..4 |-> IF i = 1 THEN q[i] ELSE f[i - 1] \o q[i]]
             flat == CHOOSE f : Is(f)
             one == q[1]
             two == one \o q[2]
             three == two \o q[3]
             four == three \o q[4]
  <1>1. FlattenSeq(q) = flat[4] BY DEF FlattenSeq
  <1>2. PICK x, y, z : x = two /\ y = three /\ z = four OBVIOUS
  <1> DEFINE w == [i \in 1..4 |->
                    IF i = 1 THEN q[1] ELSE IF i = 2 THEN x ELSE IF i = 3 THEN y ELSE z]
  <1>3. w[1] = q[1] /\ w[2] = x /\ w[3] = y /\ w[4] = z OBVIOUS
  <1>4. x = w[1] \o q[2] /\ y = w[2] \o q[3] /\ z = w[3] \o q[4] BY ONLY <1>2, <1>3, Zenon
  <1>5. w = [i \in 1..4 |-> w[i]] OBVIOUS
  <1> HIDE DEF w
  <1>6. ASSUME NEW i \in 1..4 PROVE w[i] = IF i = 1 THEN q[i] ELSE w[i - 1] \o q[i]
    <2>1. CASE i = 1 BY <1>3, <2>1
    <2>2. CASE i = 2
      <3>1. i - 1 = 1 /\ i # 1 BY <2>2
      <3> QED BY ONLY <1>3, <1>4, <2>2, <3>1, Zenon
    <2>3. CASE i = 3
      <3>1. i - 1 = 2 /\ i # 1 BY <2>3
      <3> QED BY ONLY <1>3, <1>4, <2>3, <3>1, Zenon
    <2>4. CASE i = 4
      <3>1. i - 1 = 3 /\ i # 1 BY <2>4
      <3> QED BY ONLY <1>3, <1>4, <2>4, <3>1, Zenon
    <2> QED BY <2>1, <2>2, <2>3, <2>4
  <1>7. Is(w)
    <2>1. [i \in 1..4 |-> w[i]] = [i \in 1..4 |-> IF i = 1 THEN q[i] ELSE w[i - 1] \o q[i]]
      BY ONLY <1>6, Zenon
    <2> QED BY ONLY <1>5, <2>1, Zenon
  <1>8. Is(flat)
    <2> HIDE DEF Is
    <2> QED BY ONLY <1>7, Zenon
  <1> HIDE DEF flat
  <1>9. \A i \in 1..4 : flat[i] = IF i = 1 THEN q[i] ELSE flat[i - 1] \o q[i]
    BY ONLY <1>8, Zenon
  <1> HIDE DEF Is
  <1>10. flat[1] = q[1]
    <2>1. 1 \in 1..4 OBVIOUS
    <2> QED BY ONLY <1>9, <2>1, Zenon
  <1>11. flat[2] = flat[1] \o q[2]
    <2>1. 2 \in 1..4 /\ 2 # 1 /\ 2 - 1 = 1 OBVIOUS
    <2>2. flat[2] = flat[2 - 1] \o q[2] BY ONLY <1>9, <2>1, Zenon
    <2> QED BY ONLY <2>1, <2>2, Zenon
  <1>12. flat[3] = flat[2] \o q[3]
    <2>1. 3 \in 1..4 /\ 3 # 1 /\ 3 - 1 = 2 OBVIOUS
    <2>2. flat[3] = flat[3 - 1] \o q[3] BY ONLY <1>9, <2>1, Zenon
    <2> QED BY ONLY <2>1, <2>2, Zenon
  <1>13. flat[4] = flat[3] \o q[4]
    <2>1. 4 \in 1..4 /\ 4 # 1 /\ 4 - 1 = 3 OBVIOUS
    <2>2. flat[4] = flat[4 - 1] \o q[4] BY ONLY <1>9, <2>1, Zenon
    <2> QED BY ONLY <2>1, <2>2, Zenon
  <1> QED BY ONLY <1>1, <1>10, <1>11, <1>12, <1>13, Zenon DEF Four, Cat

(* What is where in four sequences, three of them as long as each other.     *)
Placed(s, n, a, b, c, d) ==
  /\ Len(s) = 3 * n + Len(d)
  /\ \A i \in 1..n : s[i] = a[i] /\ s[n + i] = b[i] /\ s[2 * n + i] = c[i]
  /\ \A i \in 1..Len(d) : s[3 * n + i] = d[i]

(* Four sequences, one after another, are where Placed says.                 *)
LEMMA FourIs ==
  ASSUME NEW S, NEW n \in Nat, NEW a \in Seq(S), NEW b \in Seq(S), NEW c \in Seq(S),
         NEW d \in Seq(S), Len(a) = n, Len(b) = n, Len(c) = n
  PROVE  Four(a, b, c, d) \in Seq(S) /\ Placed(Four(a, b, c, d), n, a, b, c, d)
  <1> DEFINE x == Cat(a, b)
             y == Cat(x, c)
             z == Cat(y, d)
  <1>0. Len(d) \in Nat OBVIOUS
  <1>1. x \in Seq(S) /\ Len(x) = Len(a) + Len(b)
        /\ \A i \in 1..(Len(a) + Len(b)) : x[i] = IF i <= Len(a) THEN a[i] ELSE b[i - Len(a)]
    BY CatIs
  <1> HIDE DEF x
  <1>2. y \in Seq(S) /\ Len(y) = Len(x) + Len(c)
        /\ \A i \in 1..(Len(x) + Len(c)) : y[i] = IF i <= Len(x) THEN x[i] ELSE c[i - Len(x)]
    <2>1. x \in Seq(S) BY <1>1
    <2> QED BY ONLY <2>1, c \in Seq(S), CatIs
  <1> HIDE DEF y
  <1>3. z \in Seq(S) /\ Len(z) = Len(y) + Len(d)
        /\ \A i \in 1..(Len(y) + Len(d)) : z[i] = IF i <= Len(y) THEN y[i] ELSE d[i - Len(y)]
    <2>1. y \in Seq(S) BY <1>2
    <2> QED BY ONLY <2>1, d \in Seq(S), CatIs
  <1> HIDE DEF z
  <1>4. Len(x) = 2 * n /\ Len(y) = 3 * n /\ Len(z) = 3 * n + Len(d) BY <1>1, <1>2, <1>3
  <1>5. ASSUME NEW i \in 1..n PROVE z[i] = a[i] /\ z[n + i] = b[i] /\ z[2 * n + i] = c[i]
    <2>1. x[i] = a[i]
      <3>1. i \in 1..(Len(a) + Len(b)) /\ i <= Len(a) OBVIOUS
      <3> QED BY <1>1, <3>1
    <2>2. x[n + i] = b[i]
      <3>1. n + i \in 1..(Len(a) + Len(b)) /\ ~(n + i <= Len(a)) /\ (n + i) - Len(a) = i OBVIOUS
      <3> QED BY <1>1, <3>1
    <2>3. \A j \in 1..(2 * n) : y[j] = x[j]
      <3> TAKE j \in 1..(2 * n)
      <3>1. j \in 1..(Len(x) + Len(c)) /\ j <= Len(x) BY <1>4
      <3> QED BY <1>2, <3>1
    <2>4. y[2 * n + i] = c[i]
      <3>1. 2 * n + i \in 1..(Len(x) + Len(c)) /\ ~(2 * n + i <= Len(x))
            /\ (2 * n + i) - Len(x) = i
        BY <1>4
      <3> QED BY <1>2, <3>1
    <2>5. \A j \in 1..(3 * n) : z[j] = y[j]
      <3> TAKE j \in 1..(3 * n)
      <3>1. j \in 1..(Len(y) + Len(d)) /\ j <= Len(y) BY <1>0, <1>4
      <3> QED BY <1>3, <3>1
    <2>6. i \in 1..(2 * n) /\ n + i \in 1..(2 * n) /\ i \in 1..(3 * n)
          /\ n + i \in 1..(3 * n) /\ 2 * n + i \in 1..(3 * n)
      OBVIOUS
    <2> QED BY <2>1, <2>2, <2>3, <2>4, <2>5, <2>6
  <1>6. ASSUME NEW i \in 1..Len(d) PROVE z[3 * n + i] = d[i]
    <2>1. 3 * n + i \in 1..(Len(y) + Len(d)) /\ ~(3 * n + i <= Len(y)) /\ (3 * n + i) - Len(y) = i
      BY <1>0, <1>4
    <2> QED BY <1>3, <2>1
  <1>7. z = Four(a, b, c, d) BY ONLY Zenon DEF x, y, z, Four
  <1>8. Placed(z, n, a, b, c, d) BY <1>4, <1>5, <1>6 DEF Placed
  <1> QED BY <1>3, <1>7, <1>8

(* Three whole chunks and one that may be shorter.                           *)
InChunks(s, n, a, b, c, d) ==
  /\ s = Four(a, b, c, d)
  /\ Len(a) = n /\ Len(b) = n /\ Len(c) = n /\ Len(d) = Len(s) - 3 * n
  /\ Len(Chunks(s, n)) = 4
  /\ Chunks(s, n)[1] = a /\ Chunks(s, n)[2] = b /\ Chunks(s, n)[3] = c /\ Chunks(s, n)[4] = d

(* A sequence that needs four chunks is four chunks.                         *)
LEMMA FourChunks ==
  ASSUME NEW S, NEW n \in Nat \ {0}, NEW s \in Seq(S), 3 * n < Len(s), Len(s) <= 4 * n
  PROVE  \E a \in Seq(S), b \in Seq(S), c \in Seq(S), d \in Seq(S) : InChunks(s, n, a, b, c, d)
  <1>0. PICK m \in Nat : m = Len(s) OBVIOUS
  <1>1. PICK r \in Nat : r = m - (3 * n + 1)
    <2>1. m - (3 * n + 1) \in Nat BY <1>0
    <2> QED BY <2>1
  <1>2. (m + n - 1) \div n = 4
    <2>1. PICK k \in Nat : k = 4 OBVIOUS
    <2>2. r < n BY <1>0, <1>1
    <2>3. n \in Nat \ {0} OBVIOUS
    <2>4. (r + n * k) \div n = k BY ONLY <2>1, <2>2, <2>3, r \in Nat, k \in Nat, DividedUp
    <2>5. r + n * k = m + n - 1 BY ONLY <1>1, <2>1, <2>3, m \in Nat, 3 * n < m, SMT
    <2> QED BY ONLY <2>1, <2>4, <2>5, Zenon
  <1> DEFINE a == SubSeq(s, 0 + 1, 0 + n)
             b == SubSeq(s, n + 1, n + n)
             c == SubSeq(s, 2 * n + 1, 2 * n + n)
             d == SubSeq(s, 3 * n + 1, 3 * n + (m - 3 * n))
  <1>3. a \in Seq(S) /\ Len(a) = n /\ \A i \in 1..n : a[i] = s[0 + i]
    <2>1. 0 \in Nat /\ 0 + n <= Len(s) BY <1>0
    <2>2. PICK z : z = 0 OBVIOUS
    <2>3. z \in Nat /\ z + n <= Len(s) BY <2>1, <2>2
    <2>4. /\ SubSeq(s, z + 1, z + n) \in Seq(S)
          /\ Len(SubSeq(s, z + 1, z + n)) = n
          /\ \A i \in 1..n : SubSeq(s, z + 1, z + n)[i] = s[z + i]
      BY ONLY <2>3, n \in Nat, s \in Seq(S), PieceIs
    <2> QED BY ONLY <2>2, <2>4, Zenon
  <1>4. b \in Seq(S) /\ Len(b) = n /\ \A i \in 1..n : b[i] = s[n + i]
    <2>1. n \in Nat /\ n + n <= Len(s) OBVIOUS
    <2> QED BY ONLY <2>1, s \in Seq(S), PieceIs
  <1>5. c \in Seq(S) /\ Len(c) = n /\ \A i \in 1..n : c[i] = s[2 * n + i]
    <2>1. n \in Nat /\ 2 * n \in Nat /\ 2 * n + n <= Len(s) OBVIOUS
    <2> QED BY ONLY <2>1, s \in Seq(S), PieceIs
  <1>6. d \in Seq(S) /\ Len(d) = m - 3 * n /\ \A i \in 1..(m - 3 * n) : d[i] = s[3 * n + i]
    <2>1. m - 3 * n \in Nat /\ 3 * n \in Nat /\ 3 * n + (m - 3 * n) <= Len(s) BY <1>0
    <2> QED BY ONLY <2>1, s \in Seq(S), PieceIs
  <1> HIDE DEF a, b, c, d
  <1> DEFINE z == Four(a, b, c, d)
  <1>p. z \in Seq(S) /\ Placed(z, n, a, b, c, d)
    <2>1. n \in Nat OBVIOUS
    <2> QED BY ONLY <1>3, <1>4, <1>5, <1>6, <2>1, FourIs
  <1>7. /\ z \in Seq(S)
        /\ Len(z) = 3 * n + Len(d)
        /\ \A i \in 1..n : z[i] = a[i] /\ z[n + i] = b[i] /\ z[2 * n + i] = c[i]
        /\ \A i \in 1..Len(d) : z[3 * n + i] = d[i]
    BY ONLY <1>p, Zenon DEF Placed
  <1> HIDE DEF z
  <1>8. z \in Seq(S) /\ Len(z) = Len(s) BY <1>0, <1>6, <1>7
  <1>9. ASSUME NEW i \in 1..Len(z) PROVE z[i] = s[i]
    <2>1. CASE i \in 1..n
      <3>1. a[i] = s[i] BY <1>3, <2>1
      <3> QED BY <1>7, <2>1, <3>1
    <2>2. CASE i \in (n + 1)..(2 * n)
      <3>1. PICK j : j = i - n OBVIOUS
      <3>2. j \in 1..n /\ n + j = i BY <2>2, <3>1
      <3> QED BY <1>4, <1>7, <3>2
    <2>3. CASE i \in (2 * n + 1)..(3 * n)
      <3>1. PICK j : j = i - 2 * n OBVIOUS
      <3>2. j \in 1..n /\ 2 * n + j = i BY <2>3, <3>1
      <3> QED BY <1>5, <1>7, <3>2
    <2>4. CASE i \in (3 * n + 1)..m
      <3>1. PICK j : j = i - 3 * n OBVIOUS
      <3>2. j \in 1..(m - 3 * n) /\ 3 * n + j = i BY <2>4, <3>1
      <3>3. d[j] = s[i] /\ z[i] = d[j] BY <1>6, <1>7, <3>2
      <3> QED BY <3>3
    <2> QED BY <1>0, <1>8, <2>1, <2>2, <2>3, <2>4
  <1>10. z = s BY <1>8, <1>9, SeqEqual
  <1> DEFINE q == Chunks(s, n)
  <1>11. q = [k \in 1..4 |-> SubSeq(s, (k - 1) * n + 1, Least(k * n, m))]
    BY ONLY <1>0, <1>2, Zenon DEF Chunks
  <1> HIDE DEF q
  <1>12. Len(q) = 4 BY <1>11
  <1>k. \A k \in 1..4 : q[k] = SubSeq(s, (k - 1) * n + 1, Least(k * n, m)) BY ONLY <1>11, Zenon
  <1>13. q[1] = a
    <2>0. 1 \in 1..4 OBVIOUS
    <2>1. q[1] = SubSeq(s, (1 - 1) * n + 1, Least(1 * n, m)) BY ONLY <1>k, <2>0, Zenon
    <2>2. (1 - 1) * n + 1 = 0 + 1 /\ Least(1 * n, m) = 0 + n BY <1>0 DEF Least
    <2> QED BY ONLY <2>1, <2>2, Zenon DEF a
  <1>14. q[2] = b
    <2>0. 2 \in 1..4 OBVIOUS
    <2>1. q[2] = SubSeq(s, (2 - 1) * n + 1, Least(2 * n, m)) BY ONLY <1>k, <2>0, Zenon
    <2>2. (2 - 1) * n + 1 = n + 1 /\ Least(2 * n, m) = n + n BY <1>0 DEF Least
    <2> QED BY ONLY <2>1, <2>2, Zenon DEF b
  <1>15. q[3] = c
    <2>0. 3 \in 1..4 OBVIOUS
    <2>1. q[3] = SubSeq(s, (3 - 1) * n + 1, Least(3 * n, m)) BY ONLY <1>k, <2>0, Zenon
    <2>2. (3 - 1) * n + 1 = 2 * n + 1 /\ Least(3 * n, m) = 2 * n + n BY <1>0 DEF Least
    <2> QED BY ONLY <2>1, <2>2, Zenon DEF c
  <1>16. q[4] = d
    <2>0. 4 \in 1..4 OBVIOUS
    <2>1. q[4] = SubSeq(s, (4 - 1) * n + 1, Least(4 * n, m)) BY ONLY <1>k, <2>0, Zenon
    <2>2. (4 - 1) * n + 1 = 3 * n + 1 /\ Least(4 * n, m) = 3 * n + (m - 3 * n) BY <1>0 DEF Least
    <2> QED BY ONLY <2>1, <2>2, Zenon DEF d
  <1>17. InChunks(s, n, a, b, c, d)
    BY <1>0, <1>3, <1>4, <1>5, <1>6, <1>10, <1>12, <1>13, <1>14, <1>15, <1>16
    DEF InChunks, z, q
  <1> QED BY <1>3, <1>4, <1>5, <1>6, <1>17

(* Four sequences, put together, are its chunks.                             *)
LEMMA ChunksOfFour ==
  ASSUME NEW S, NEW n \in Nat \ {0}, NEW a \in Seq(S), NEW b \in Seq(S), NEW c \in Seq(S),
         NEW d \in Seq(S), Len(a) = n, Len(b) = n, Len(c) = n, Len(d) \in 1..n
  PROVE  InChunks(Four(a, b, c, d), n, a, b, c, d)
  <1> DEFINE s == Four(a, b, c, d)
  <1>0. n \in Nat OBVIOUS
  <1>p. s \in Seq(S) /\ Placed(s, n, a, b, c, d) BY <1>0, FourIs
  <1>1. /\ s \in Seq(S)
        /\ Len(s) = 3 * n + Len(d)
        /\ \A i \in 1..n : s[i] = a[i] /\ s[n + i] = b[i] /\ s[2 * n + i] = c[i]
        /\ \A i \in 1..Len(d) : s[3 * n + i] = d[i]
    BY ONLY <1>p, Zenon DEF Placed
  <1> HIDE DEF s
  <1>2. 3 * n < Len(s) /\ Len(s) <= 4 * n BY <1>1
  <1>3. PICK e \in Seq(S), f \in Seq(S), g \in Seq(S), h \in Seq(S) : InChunks(s, n, e, f, g, h)
    BY <1>1, <1>2, FourChunks
  <1>4. s = Four(e, f, g, h) /\ Len(e) = n /\ Len(f) = n /\ Len(g) = n /\ Len(h) = Len(d)
    BY <1>1, <1>3 DEF InChunks
  <1>5. /\ \A i \in 1..n : s[i] = e[i] /\ s[n + i] = f[i] /\ s[2 * n + i] = g[i]
        /\ \A i \in 1..Len(h) : s[3 * n + i] = h[i]
    <2>1. Placed(Four(e, f, g, h), n, e, f, g, h)
      BY ONLY <1>0, e \in Seq(S), f \in Seq(S), g \in Seq(S), h \in Seq(S), <1>4, FourIs
    <2>2. Placed(s, n, e, f, g, h) BY ONLY <1>4, <2>1, Zenon
    <2> QED BY ONLY <2>2, Zenon DEF Placed
  <1>6. e = a
    <2>1. \A i \in 1..Len(e) : e[i] = a[i] BY <1>1, <1>4, <1>5
    <2> QED BY <1>4, <2>1, SeqEqual
  <1>7. f = b
    <2>1. \A i \in 1..Len(f) : f[i] = b[i] BY <1>1, <1>4, <1>5
    <2> QED BY <1>4, <2>1, SeqEqual
  <1>8. g = c
    <2>1. \A i \in 1..Len(g) : g[i] = c[i] BY <1>1, <1>4, <1>5
    <2> QED BY <1>4, <2>1, SeqEqual
  <1>9. h = d
    <2>1. \A i \in 1..Len(h) : h[i] = d[i] BY <1>1, <1>4, <1>5
    <2> QED BY <1>4, <2>1, SeqEqual
  <1>10. InChunks(s, n, a, b, c, d) BY ONLY <1>3, <1>6, <1>7, <1>8, <1>9, Zenon
  <1> QED BY <1>10 DEF s

-----------------------------------------------------------------------------
(* The base 38 characters.                                                   *)
Character == 0..37

(* Bits as characters, when there are enough characters.                     *)
LEMMA BitsAsCharacters ==
  ASSUME NEW n \in Nat, NEW c \in Seq(Bit), Len(c) = n, NEW m \in Nat,
         \A v \in Nat : Fits(v, 2, n) => Fits(v, 38, m)
  PROVE  /\ InBase(Unsigned(c), 38, m) \in Seq(Character)
         /\ Len(InBase(Unsigned(c), 38, m)) = m
         /\ Bits(FromBase(InBase(Unsigned(c), 38, m), 38), n) = c
  <1>1. PICK two, base : two = 2 /\ base = 38 OBVIOUS
  <1>2. two \in Nat \ {0} /\ base \in Nat \ {0} /\ 0..(two - 1) = Bit /\ 0..(base - 1) = Character
    BY <1>1 DEF Bit, Character
  <1>3. c \in [1..n -> Bit] OBVIOUS
  <1>4. c \in [1..n -> 0..(two - 1)] BY ONLY <1>2, <1>3, Zenon
  <1> DEFINE v == FromBase(c, two)
             t == InBase(v, base, m)
  <1>5. v \in Nat /\ Fits(v, two, n) /\ InBase(v, two, n) = c
    BY ONLY n \in Nat, <1>2, <1>4, DigitsRead
  <1>6. v = Unsigned(c) BY ONLY <1>1, Zenon DEF Unsigned
  <1> HIDE DEF v
  <1>7. Fits(v, base, m) BY ONLY <1>1, <1>5, (\A w \in Nat : Fits(w, 2, n) => Fits(w, 38, m)), Zenon
  <1>8. t \in [1..m -> 0..(base - 1)] BY ONLY m \in Nat, <1>2, <1>5, InBaseType
  <1>9. FromBase(t, base) = v BY ONLY m \in Nat, <1>2, <1>5, <1>7, NumberWritten
  <1> HIDE DEF t
  <1>10. t \in [1..m -> Character] BY ONLY <1>2, <1>8, Zenon
  <1>11. t \in Seq(Character) /\ Len(t) = m BY <1>10
  <1>12. t = InBase(Unsigned(c), 38, m) BY ONLY <1>1, <1>6, Zenon DEF t
  <1>13. Bits(FromBase(t, 38), n) = c BY ONLY <1>1, <1>5, <1>9, Zenon DEF Bits
  <1> QED BY ONLY <1>11, <1>12, <1>13, Zenon

(* Three bytes are five characters and the other way round.                  *)
LEMMA WholeChunk ==
  ASSUME NEW c \in Seq(Bit), Len(c) = 24
  PROVE  Characters(c) \in Seq(Character) /\ Len(Characters(c)) = 5 /\ Bytes(Characters(c)) = c
  <1>1. PICK n, m : n = 24 /\ m = 5 OBVIOUS
  <1>2. n \in Nat /\ m \in Nat /\ Len(c) = n BY <1>1
  <1>3. \A v \in Nat : Fits(v, 2, 24) => Fits(v, 38, 5)
    <2> TAKE v \in Nat
    <2>1. Fits(v, 2, 24) => v < 16777216 BY Fitting, SMT
    <2>2. v < 79235168 => Fits(v, 38, 5) BY Fitting, SMT
    <2> QED BY <2>1, <2>2, SMT
  <1>4. \A v \in Nat : Fits(v, 2, n) => Fits(v, 38, m) BY ONLY <1>1, <1>3, Zenon
  <1> DEFINE t == InBase(Unsigned(c), 38, m)
  <1>5. t \in Seq(Character) /\ Len(t) = m /\ Bits(FromBase(t, 38), n) = c
    BY ONLY c \in Seq(Bit), <1>2, <1>4, BitsAsCharacters
  <1>6. Characters(c) = t BY ONLY <1>1, Len(c) = 24, SMT DEF Characters
  <1> HIDE DEF t
  <1>7. Len(t) = 5 BY ONLY <1>1, <1>5, Zenon
  <1>8. Bytes(t) = Bits(FromBase(t, 38), 24)
    <2>1. 8 * 3 = 24 OBVIOUS
    <2> QED BY ONLY <1>7, <2>1, SMT DEF Bytes
  <1> QED BY ONLY <1>1, <1>5, <1>6, <1>7, <1>8, Zenon

(* The two bytes that are left are four characters and the other way round.  *)
LEMMA LastChunk ==
  ASSUME NEW c \in Seq(Bit), Len(c) = 16
  PROVE  Characters(c) \in Seq(Character) /\ Len(Characters(c)) = 4 /\ Bytes(Characters(c)) = c
  <1>1. PICK n, m : n = 16 /\ m = 4 OBVIOUS
  <1>2. n \in Nat /\ m \in Nat /\ Len(c) = n BY <1>1
  <1>3. \A v \in Nat : Fits(v, 2, 16) => Fits(v, 38, 4)
    <2> TAKE v \in Nat
    <2>1. Fits(v, 2, 16) => v < 65536 BY Fitting, SMT
    <2>2. v < 2085136 => Fits(v, 38, 4) BY Fitting, SMT
    <2> QED BY <2>1, <2>2, SMT
  <1>4. \A v \in Nat : Fits(v, 2, n) => Fits(v, 38, m) BY ONLY <1>1, <1>3, Zenon
  <1> DEFINE t == InBase(Unsigned(c), 38, m)
  <1>5. t \in Seq(Character) /\ Len(t) = m /\ Bits(FromBase(t, 38), n) = c
    BY ONLY c \in Seq(Bit), <1>2, <1>4, BitsAsCharacters
  <1>6. Characters(c) = t BY ONLY <1>1, Len(c) = 16, SMT DEF Characters
  <1> HIDE DEF t
  <1>7. Len(t) = 4 BY ONLY <1>1, <1>5, Zenon
  <1>8. Bytes(t) = Bits(FromBase(t, 38), 16)
    <2>1. 8 * 2 = 16 OBVIOUS
    <2> QED BY ONLY <1>7, <2>1, SMT DEF Bytes
  <1> QED BY ONLY <1>1, <1>5, <1>6, <1>7, <1>8, Zenon

(* The 88 bits of a payload are got back from their 19 characters.           *)
LEMMA Base38Read ==
  ASSUME NEW bits \in Seq(Bit), Len(bits) = 88
  PROVE  Base38Decode(Base38Encode(bits)) = bits
  <1>1. PICK a \in Seq(Bit), b \in Seq(Bit), c \in Seq(Bit), d \in Seq(Bit) :
          InChunks(bits, 24, a, b, c, d)
    <2>1. PICK n : n = 24 OBVIOUS
    <2>2. n \in Nat \ {0} /\ 3 * n < Len(bits) /\ Len(bits) <= 4 * n BY <2>1
    <2>3. \E a \in Seq(Bit), b \in Seq(Bit), c \in Seq(Bit), d \in Seq(Bit) :
            InChunks(bits, n, a, b, c, d)
      BY ONLY bits \in Seq(Bit), <2>2, FourChunks
    <2> QED BY ONLY <2>1, <2>3, Zenon
  <1>2. /\ bits = Four(a, b, c, d)
        /\ Len(a) = 24 /\ Len(b) = 24 /\ Len(c) = 24 /\ Len(d) = Len(bits) - 3 * 24
        /\ Len(Chunks(bits, 24)) = 4
        /\ Chunks(bits, 24)[1] = a /\ Chunks(bits, 24)[2] = b
        /\ Chunks(bits, 24)[3] = c /\ Chunks(bits, 24)[4] = d
    BY ONLY <1>1, Zenon DEF InChunks
  <1>3. Len(d) = 16 BY <1>2
  <1>4. DOMAIN Chunks(bits, 24) = 1..4
    <2>1. DOMAIN Chunks(bits, 24) = 1..((Len(bits) + 24 - 1) \div 24) BY ONLY Zenon DEF Chunks
    <2>2. (Len(bits) + 24 - 1) \div 24 = 4 BY ONLY Len(bits) = 88, SMT
    <2> QED BY ONLY <2>1, <2>2, Zenon
  <1>5. PICK e, f, g, h : e = Characters(a) /\ f = Characters(b) /\ g = Characters(c)
                          /\ h = Characters(d)
    OBVIOUS
  <1>6. e \in Seq(Character) /\ Len(e) = 5 /\ Bytes(e) = a
    BY ONLY <1>2, <1>5, a \in Seq(Bit), WholeChunk
  <1>7. f \in Seq(Character) /\ Len(f) = 5 /\ Bytes(f) = b
    BY ONLY <1>2, <1>5, b \in Seq(Bit), WholeChunk
  <1>8. g \in Seq(Character) /\ Len(g) = 5 /\ Bytes(g) = c
    BY ONLY <1>2, <1>5, c \in Seq(Bit), WholeChunk
  <1>9. h \in Seq(Character) /\ Len(h) = 4 /\ Bytes(h) = d
    BY ONLY <1>3, <1>5, d \in Seq(Bit), LastChunk
  <1> DEFINE q == [k \in DOMAIN Chunks(bits, 24) |-> Characters(Chunks(bits, 24)[k])]
             text == Four(e, f, g, h)
  <1>10. Base38Encode(bits) = text
    <2>1. Base38Encode(bits) = FlattenSeq(q) BY ONLY Zenon DEF Base38Encode
    <2>2. q = [k \in 1..4 |-> Characters(Chunks(bits, 24)[k])] BY ONLY <1>4, Zenon
    <2> HIDE DEF q
    <2>3. Len(q) = 4 BY ONLY <2>2
    <2>4. 1 \in 1..4 /\ 2 \in 1..4 /\ 3 \in 1..4 /\ 4 \in 1..4 OBVIOUS
    <2>5. q[1] = e /\ q[2] = f /\ q[3] = g /\ q[4] = h
      <3>1. \A k \in 1..4 : q[k] = Characters(Chunks(bits, 24)[k]) BY ONLY <2>2, Zenon
      <3> QED BY ONLY <1>2, <1>5, <2>4, <3>1, Zenon
    <2>6. FlattenSeq(q) = Four(q[1], q[2], q[3], q[4]) BY ONLY <2>3, FlattenFour
    <2> QED BY ONLY <2>1, <2>5, <2>6, Zenon
  <1> HIDE DEF text, q
  <1>11. InChunks(text, 5, e, f, g, h)
    <2>1. PICK n : n = 5 OBVIOUS
    <2>2. n \in Nat \ {0} /\ Len(e) = n /\ Len(f) = n /\ Len(g) = n /\ Len(h) \in 1..n
      BY <2>1, <1>6, <1>7, <1>8, <1>9
    <2>3. InChunks(Four(e, f, g, h), n, e, f, g, h)
      BY ONLY <1>6, <1>7, <1>8, <1>9, <2>2, ChunksOfFour
    <2> QED BY ONLY <2>1, <2>3, Zenon DEF text
  <1>12. /\ Len(h) = Len(text) - 3 * 5
         /\ Chunks(text, 5)[1] = e /\ Chunks(text, 5)[2] = f
         /\ Chunks(text, 5)[3] = g /\ Chunks(text, 5)[4] = h
    BY ONLY <1>11, Zenon DEF InChunks
  <1>13. Len(text) = 19
    <2>1. PICK n : n = 5 OBVIOUS
    <2>2. n \in Nat /\ Len(e) = n /\ Len(f) = n /\ Len(g) = n BY <2>1, <1>6, <1>7, <1>8
    <2>3. Placed(Four(e, f, g, h), n, e, f, g, h) BY ONLY <1>6, <1>7, <1>8, <1>9, <2>2, FourIs
    <2>4. Len(text) = 3 * n + Len(h) BY ONLY <2>3, Zenon DEF Placed, text
    <2> QED BY ONLY <1>9, <2>1, <2>4
  <1>14. DOMAIN Chunks(text, 5) = 1..4
    <2>1. DOMAIN Chunks(text, 5) = 1..((Len(text) + 5 - 1) \div 5) BY ONLY Zenon DEF Chunks
    <2>2. (Len(text) + 5 - 1) \div 5 = 4 BY ONLY <1>13, SMT
    <2> QED BY ONLY <2>1, <2>2, Zenon
  <1> DEFINE r == [k \in DOMAIN Chunks(text, 5) |-> Bytes(Chunks(text, 5)[k])]
  <1>15. Base38Decode(text) = Four(a, b, c, d)
    <2>1. Base38Decode(text) = FlattenSeq(r) BY ONLY Zenon DEF Base38Decode
    <2>2. r = [k \in 1..4 |-> Bytes(Chunks(text, 5)[k])] BY ONLY <1>14, Zenon
    <2> HIDE DEF r
    <2>3. Len(r) = 4 BY ONLY <2>2
    <2>4. 1 \in 1..4 /\ 2 \in 1..4 /\ 3 \in 1..4 /\ 4 \in 1..4 OBVIOUS
    <2>5. r[1] = a /\ r[2] = b /\ r[3] = c /\ r[4] = d
      <3>1. \A k \in 1..4 : r[k] = Bytes(Chunks(text, 5)[k]) BY ONLY <2>2, Zenon
      <3> QED BY ONLY <1>6, <1>7, <1>8, <1>9, <1>12, <2>4, <3>1, Zenon
    <2>6. FlattenSeq(r) = Four(r[1], r[2], r[3], r[4]) BY ONLY <2>3, FlattenFour
    <2> QED BY ONLY <2>1, <2>5, <2>6, Zenon
  <1> QED BY ONLY <1>2, <1>10, <1>15, Zenon

-----------------------------------------------------------------------------
(* The version, the vendor, the product, the flow and the rendezvous flags.  *)
QRHeader == Cat(Cat(Cat(Cat(Bits(0, 3), Bits(0, 16)), Bits(0, 16)), Bits(2, 2)), Bits(4, 8))

(* The header is 45 bits.                                                    *)
LEMMA QRHeaderType ==
  QRHeader \in Seq(Bit) /\ Len(QRHeader) = 45
  <1>1. PICK o, v, f, r, n3, n16, n2, n8 :
          o = 0 /\ v = 2 /\ f = 4 /\ n3 = 3 /\ n16 = 16 /\ n2 = 2 /\ n8 = 8
    OBVIOUS
  <1>2. o \in Nat /\ v \in Nat /\ f \in Nat /\ n3 \in Nat /\ n16 \in Nat /\ n2 \in Nat /\ n8 \in Nat
    BY <1>1
  <1>3. PICK a, b, c, d : a = Bits(o, n3) /\ b = Bits(o, n16) /\ c = Bits(v, n2) /\ d = Bits(f, n8)
    OBVIOUS
  <1>4. a \in Seq(Bit) /\ Len(a) = n3 BY ONLY <1>2, <1>3, BitsType
  <1>5. b \in Seq(Bit) /\ Len(b) = n16 BY ONLY <1>2, <1>3, BitsType
  <1>6. c \in Seq(Bit) /\ Len(c) = n2 BY ONLY <1>2, <1>3, BitsType
  <1>7. d \in Seq(Bit) /\ Len(d) = n8 BY ONLY <1>2, <1>3, BitsType
  <1> DEFINE x == Cat(a, b)
             y == Cat(x, b)
             z == Cat(y, c)
             w == Cat(z, d)
  <1>8. x \in Seq(Bit) /\ Len(x) = Len(a) + Len(b) BY ONLY <1>4, <1>5, CatType
  <1> HIDE DEF x
  <1>9. y \in Seq(Bit) /\ Len(y) = Len(x) + Len(b) BY ONLY <1>8, <1>5, CatType
  <1> HIDE DEF y
  <1>10. z \in Seq(Bit) /\ Len(z) = Len(y) + Len(c) BY ONLY <1>9, <1>6, CatType
  <1> HIDE DEF z
  <1>11. w \in Seq(Bit) /\ Len(w) = Len(z) + Len(d) BY ONLY <1>10, <1>7, CatType
  <1> HIDE DEF w
  <1>12. Len(w) = 45
    BY ONLY <1>1, <1>4, <1>5, <1>6, <1>7, <1>8, <1>9, <1>10, <1>11, SMT
  <1>13. w = QRHeader BY ONLY <1>1, <1>3, Zenon DEF x, y, z, w, QRHeader
  <1> QED BY ONLY <1>11, <1>12, <1>13, Zenon

(* What is looked for after a QR code.                                       *)
LongSearch(passcode, discriminator) == Search(passcode, discriminator, FALSE)

(* Every such passcode and discriminator is read from its QR code as it was  *)
(* written: 88 bits in 19 base 38 characters and back (matter.cpp:3379 and 3270). *)
THEOREM QRRead ==
  ASSUME NEW p \in Nat, p # 0, p <= LastPasscode, NEW d \in Nat, d < 4096
  PROVE  ParseQRCode(GenerateQRCode(p, d))
           = [passcode |-> p, discriminator |-> d, short |-> FALSE]
  <1>1. PICK n12, n7, n20, n27, n4, q, z :
          n12 = 12 /\ n7 = 7 /\ n20 = 20 /\ n27 = 27 /\ n4 = 4 /\ q = p \div 128 /\ z = 0
    BY SMT
  <1>2. n12 \in Nat /\ n7 \in Nat /\ n20 \in Nat /\ n27 \in Nat /\ n4 \in Nat
        /\ q \in Nat /\ z \in Nat
    BY <1>1, SMT
  <1>3. PICK e, f, g, h : e = Bits(d, n12) /\ f = Bits(p, n7) /\ g = Bits(q, n20) /\ h = Bits(z, n4)
    BY ONLY Zenon
  <1>4. e \in Seq(Bit) /\ Len(e) = n12 BY ONLY <1>2, <1>3, d \in Nat, BitsType
  <1>5. f \in Seq(Bit) /\ Len(f) = n7 BY ONLY <1>2, <1>3, p \in Nat, BitsType
  <1>6. g \in Seq(Bit) /\ Len(g) = n20 BY ONLY <1>2, <1>3, BitsType
  <1>7. h \in Seq(Bit) /\ Len(h) = n4 BY ONLY <1>2, <1>3, BitsType
  <1> DEFINE bits == QRBits(QRHeader, e, f, g, h)
  <1>8. bits \in Seq(Bit) /\ Len(bits) = 88 /\ Part(bits, 46, 12) = e
        /\ Part(bits, 58, 27) = Cat(f, g)
    <2>1. Len(e) = 12 /\ Len(f) = 7 /\ Len(g) = 20 /\ Len(h) = 4
      BY ONLY <1>1, <1>4, <1>5, <1>6, <1>7, Zenon
    <2> QED BY ONLY <1>4, <1>5, <1>6, <1>7, <2>1, QRHeaderType, QRParts
  <1>9. GenerateQRCode(p, d) = Base38Encode(bits)
    BY ONLY <1>1, <1>3, Zenon DEF GenerateQRCode, QRBits, QRHeader, Cat
  <1> HIDE DEF bits
  <1>10. Base38Decode(GenerateQRCode(p, d)) = bits
    <2>1. Base38Decode(Base38Encode(bits)) = bits BY ONLY <1>8, Base38Read
    <2> QED BY ONLY <1>9, <2>1, Zenon
  <1>11. Unsigned(e) = d
    <2>1. Fits(d, 2, 12) BY Fitting, SMT
    <2>2. Fits(d, 2, n12) BY ONLY <1>1, <2>1, Zenon
    <2>3. Unsigned(Bits(d, n12)) = d BY ONLY d \in Nat, <1>2, <2>2, BitsRead
    <2> QED BY ONLY <1>3, <2>3, Zenon
  <1>12. Unsigned(Cat(f, g)) = p
    <2>1. p < 134217728 BY SMT DEF LastPasscode
    <2>2. Fits(p, 2, 27) BY <2>1, Fitting, SMT
    <2>3. Fits(p, 2, n27) BY ONLY <1>1, <2>2, Zenon
    <2>4. Unsigned(Bits(p, n27)) = p BY ONLY p \in Nat, <1>2, <2>3, BitsRead
    <2>5. Cat(Bits(p, 7), Bits(q, 20)) = Bits(p, 27) BY ONLY p \in Nat, <1>1, PasscodeBits
    <2> QED BY ONLY <1>1, <1>3, <2>4, <2>5, Zenon
  <1>13. ParseQRCode(GenerateQRCode(p, d)) = LongSearch(Unsigned(Part(bits, 58, 27)),
                                                        Unsigned(Part(bits, 46, 12)))
    <2>1. ~(Len(bits) < 88) BY ONLY <1>8
    <2>2. ~(Len(Base38Decode(GenerateQRCode(p, d))) < 88) BY ONLY <1>10, <2>1, Zenon
    <2>3. ParseQRCode(GenerateQRCode(p, d))
            = LongSearch(Unsigned(Part(Base38Decode(GenerateQRCode(p, d)), 58, 27)),
                         Unsigned(Part(Base38Decode(GenerateQRCode(p, d)), 46, 12)))
      BY ONLY <2>2, Zenon DEF ParseQRCode, LongSearch
    <2> QED BY ONLY <1>10, <2>3, Zenon
  <1>14. ParseQRCode(GenerateQRCode(p, d)) = LongSearch(p, d)
    BY ONLY <1>8, <1>11, <1>12, <1>13, Zenon
  <1>15. LastPasscode \in Nat BY SMT DEF LastPasscode
  <1>16. p \in 1..LastPasscode BY <1>15, SMT
  <1>17. LongSearch(p, d) = [passcode |-> p, discriminator |-> d, short |-> FALSE]
    BY ONLY <1>16, SMT DEF Search, LongSearch
  <1> QED BY ONLY <1>14, <1>17, Zenon
=============================================================================
