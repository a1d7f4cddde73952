---------------------------- MODULE DivisionLemmas ----------------------------
(***************************************************************************)
(* Facts about division that the proofs on pages of a flash chip and on    *)
(* buffers of a package share: the provers do not find them by themselves, *)
(* for none of the divisors is a number.                                   *)
(***************************************************************************)
EXTENDS Integers, TLAPS

(* TLA+'s division and remainder, for every sign of the dividend.           *)
LEMMA Division ==
    ASSUME NEW a \in Int, NEW b \in Int, b > 0
    PROVE  a \div b \in Int /\ a % b \in 0..(b - 1) /\ a = b * (a \div b) + (a % b)
<1>1. a = b * (a \div b) + (a % b)
  BY Z3
<1>2. a \div b \in Int /\ a % b \in 0..(b - 1)
  OBVIOUS
<1> QED BY <1>1, <1>2

LEMMA SmallMod ==
    ASSUME NEW a \in Nat, NEW b \in Nat, a < b
    PROVE  a % b = a
OBVIOUS

LEMMA Multiples ==
    ASSUME NEW m \in Nat, NEW n \in Nat, NEW b \in Nat, m <= n
    PROVE  b * m <= b * n
OBVIOUS

(* A remainder is told from its sum with a multiple.                       *)
LEMMA Remainder ==
    ASSUME NEW b \in Nat \ {0}, NEW d \in Int, NEW r \in 0..(b - 1)
    PROVE  (b * d + r) % b = r
<1> DEFINE a == b * d + r
           e == a \div b
           x == a % b
<1>1. a \in Int /\ e \in Int /\ x \in 0..(b - 1) /\ a = b * e + x
  <2>1. a \in Int /\ b > 0
    OBVIOUS
  <2> HIDE DEF a
  <2> QED BY <2>1, Division
<1>2. b * d + r = b * e + x
  BY <1>1
<1> HIDE DEF e, x
<1>3. ~(d < e)
  <2> SUFFICES ASSUME d < e PROVE FALSE
    OBVIOUS
  <2>1. b * 1 <= b * (e - d)
    BY <1>1, Multiples
  <2>2. b * 1 = b /\ b * (e - d) = b * e - b * d
    BY <1>1
  <2> QED BY <1>1, <1>2, <2>1, <2>2
<1>4. ~(e < d)
  <2> SUFFICES ASSUME e < d PROVE FALSE
    OBVIOUS
  <2>1. b * 1 <= b * (d - e)
    BY <1>1, Multiples
  <2>2. b * 1 = b /\ b * (d - e) = b * d - b * e
    BY <1>1
  <2> QED BY <1>1, <1>2, <2>1, <2>2
<1>5. e = d
  BY <1>1, <1>3, <1>4
<1>6. x = r
  BY <1>1, <1>2, <1>5
<1> QED BY <1>6 DEF x
=============================================================================
