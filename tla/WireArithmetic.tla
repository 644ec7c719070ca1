--------------------------- MODULE WireArithmetic ---------------------------
(***************************************************************************)
(* Remainders by a fixed n, as uint24_t subtraction and the slot masks of  *)
(* ReliabilityLayer use them, and induction over the natural numbers for a *)
(* set of them, which the proofs about sequences use.                      *)
(***************************************************************************)
EXTENDS Integers, TLAPS, WellFoundedInduction

(* A remainder lies below the divisor.                                     *)
LEMMA ModRange ==
  ASSUME NEW n \in Nat \ {0}, NEW a \in Int PROVE a % n \in 0 .. n - 1
  OBVIOUS

(* Division with remainder.                                                *)
LEMMA ModDivision ==
  ASSUME NEW n \in Nat \ {0}, NEW a \in Int
  PROVE a \div n \in Int /\ a % n \in 0 .. n - 1 /\ a = (a \div n) * n + (a % n)
  OBVIOUS

(* Two remainders that differ by a multiple of n are equal.                *)
LEMMA MultipleGap ==
  ASSUME NEW n \in Nat \ {0}, NEW q \in Int, NEW r \in 0 .. n - 1, NEW s \in 0 .. n - 1,
         r = q * n + s
  PROVE r = s
  <1>1. q >= 1 => q * n >= n OBVIOUS
  <1>2. q <= -1 => q * n <= -n OBVIOUS
  <1> QED BY <1>1, <1>2

(* The remainder is the only number below n at a multiple of n from a.     *)
LEMMA ModUnique ==
  ASSUME NEW n \in Nat \ {0}, NEW a \in Int, NEW q \in Int, NEW r \in 0 .. n - 1, a = q * n + r
  PROVE a % n = r
  <1>1. a = (a \div n) * n + (a % n) /\ (a % n) \in 0 .. n - 1 /\ a \div n \in Int BY ModDivision
  <1>2. (a % n) = (q - (a \div n)) * n + r BY <1>1
  <1>3. q - (a \div n) \in Int BY <1>1
  <1> QED BY ZenonT(60), <1>1, <1>2, <1>3, MultipleGap

(* The difference of two wrapped numbers is their distance, when the first *)
(* is not behind and less than a span ahead ...                            *)
LEMMA ModAhead ==
  ASSUME NEW n \in Nat \ {0}, NEW a \in Int, NEW b \in Int, a - b \in 0 .. n - 1
  PROVE ((a % n) - (b % n)) % n = a - b
  <1>1. a = (a \div n) * n + (a % n) /\ a \div n \in Int /\ (a % n) \in Int BY ModDivision
  <1>2. b = (b \div n) * n + (b % n) /\ b \div n \in Int /\ (b % n) \in Int BY ModDivision
  <1> DEFINE q == (b \div n) - (a \div n)
  <1>3. q \in Int BY <1>1, <1>2
  <1>4. (a % n) - (b % n) = q * n + (a - b) BY <1>1, <1>2
  <1>5. (a % n) - (b % n) \in Int BY <1>1, <1>2
  <1> HIDE DEF q
  <1> QED BY <1>3, <1>4, <1>5, ModUnique

(* ... and the distance plus a span when it is behind.                     *)
LEMMA ModBehind ==
  ASSUME NEW n \in Nat \ {0}, NEW a \in Int, NEW b \in Int, b - a \in 1 .. n - 1
  PROVE ((a % n) - (b % n)) % n = a - b + n
  <1>1. a = (a \div n) * n + (a % n) /\ a \div n \in Int /\ (a % n) \in Int BY ModDivision
  <1>2. b = (b \div n) * n + (b % n) /\ b \div n \in Int /\ (b % n) \in Int BY ModDivision
  <1> DEFINE p == (b \div n) - (a \div n)
             q == p - 1
  <1>3. p \in Int BY <1>1, <1>2
  <1>4. (a % n) - (b % n) = p * n + (a - b) BY <1>1, <1>2
  <1>5. (a % n) - (b % n) \in Int BY <1>1, <1>2
  <1> HIDE DEF p
  <1>6. q \in Int /\ p * n = q * n + n BY <1>3
  <1>7. (a % n) - (b % n) = q * n + (a - b + n)
    <2>1. q * n \in Int BY <1>6
    <2> HIDE DEF q
    <2> QED BY <1>4, <1>6, <2>1
  <1>8. a - b + n \in 0 .. n - 1 OBVIOUS
  <1> HIDE DEF q
  <1> QED BY <1>5, <1>6, <1>7, <1>8, ModUnique

(* Numbers less than a span apart differ on the wire.                      *)
LEMMA ModEqual ==
  ASSUME NEW n \in Nat \ {0}, NEW a \in Int, NEW b \in Int, a - b \in 1 - n .. n - 1,
         (a % n) = (b % n)
  PROVE a = b
  <1>1. (a % n) \in Int /\ (b % n) \in Int BY ModRange
  <1>2. (a % n) - (b % n) = 0 /\ (b % n) - (a % n) = 0 BY <1>1
  <1>3. (0 % n) = 0
    <2>1. 0 = 0 * n + 0 /\ 0 \in 0 .. n - 1 OBVIOUS
    <2> QED BY <2>1, ModUnique
  <1>4. CASE a >= b
    <2>1. a - b \in 0 .. n - 1 BY <1>4
    <2>2. ((a % n) - (b % n)) % n = a - b BY <2>1, ModAhead
    <2>3. a - b = 0 BY <1>2, <1>3, <2>2
    <2> QED BY <2>3
  <1>5. CASE a < b
    <2>1. b - a \in 0 .. n - 1 BY <1>5
    <2>2. ((b % n) - (a % n)) % n = b - a BY <2>1, ModAhead
    <2>3. b - a = 0 BY <1>2, <1>3, <2>2
    <2> QED BY <2>3
  <1> QED BY <1>4, <1>5

(* A span that is a multiple of n does not change the remainder by n.      *)
LEMMA ModMod ==
  ASSUME NEW n \in Nat \ {0}, NEW span \in Nat \ {0}, (span % n) = 0, NEW a \in Int
  PROVE ((a % span) % n) = (a % n)
  <1> DEFINE s == span \div n
             x == a \div span
             t == a % span
             y == t \div n
             r == t % n
  <1>1. s \in Int /\ span = s * n BY ModDivision
  <1>2. x \in Int /\ t \in Int /\ a = x * span + t BY ModDivision
  <1>3. y \in Int /\ r \in 0 .. n - 1 /\ t = y * n + r BY <1>2, ModDivision
  <1> HIDE DEF s, x, t, y, r
  <1>4. x * span = (x * s) * n BY <1>1, <1>2
  <1>5. x * s \in Int /\ (x * s) * n + y * n = (x * s + y) * n BY <1>1, <1>2, <1>3
  <1>6. a = (x * s + y) * n + r
    <2>1. (x * s) * n \in Int /\ y * n \in Int /\ r \in Int BY <1>3, <1>5
    <2>2. a = (x * s) * n + (y * n + r) BY <1>2, <1>3, <1>4
    <2> QED BY <1>5, <2>1, <2>2
  <1>7. x * s + y \in Int BY <1>3, <1>5
  <1>8. (a % n) = r BY <1>3, <1>6, <1>7, ModUnique
  <1> QED BY <1>8 DEF r, t

(* A set of natural numbers has a least element: what induction over the   *)
(* length of a queue or a buffer rests on.                                 *)
LEMMA LeastNumber ==
  ASSUME NEW T \in SUBSET Nat, T # {}
  PROVE  \E n \in T : \A m \in T : n <= m
  <1> DEFINE R == OpToRel(<, Nat)
  <1>1. IsWellFoundedOn(R, Nat) BY NatLessThanWellFounded
  <1>2. R = {ss \in Nat \X Nat : ss[1] < ss[2]} BY DEF OpToRel
  <1> HIDE DEF R
  <1>3. PICK n \in T : \A m \in T : ~(<<m, n>> \in R) BY <1>1, WFMin, Zenon
  <1>4. ASSUME NEW m \in T PROVE n <= m
    <2>1. <<m, n>> \in Nat \X Nat OBVIOUS
    <2>2. ~(m < n) BY <2>1, <1>2, <1>3
    <2> QED BY <2>2
  <1> QED BY <1>4

(* Induction over the natural numbers, for a set of them.                  *)
LEMMA Induction ==
  ASSUME NEW S, 0 \in S, \A n \in Nat : n \in S => n + 1 \in S
  PROVE  Nat \subseteq S
  <1> SUFFICES ASSUME NEW x \in Nat, x \notin S PROVE FALSE OBVIOUS
  <1> DEFINE T == {n \in Nat : n \notin S}
  <1>1. PICK n \in T : \A m \in T : n <= m
    <2>1. T \in SUBSET Nat /\ T # {} OBVIOUS
    <2> HIDE DEF T
    <2> QED BY <2>1, LeastNumber
  <1>2. CASE n = 0 BY <1>2
  <1>3. CASE n # 0
    <2>1. n - 1 \in Nat BY <1>3
    <2>2. n - 1 \in S BY <1>1, <2>1
    <2> QED BY <2>1, <2>2
  <1> QED BY <1>2, <1>3
=============================================================================
