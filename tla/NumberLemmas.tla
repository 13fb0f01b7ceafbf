------------------------------ MODULE NumberLemmas ------------------------------
(***************************************************************************)
(* Arithmetic modulo a positive number and the least and greatest member   *)
(* of a set of numbers: what the proofs about rings, counters that wrap    *)
(* and logs keep needing.                                                  *)
(***************************************************************************)
EXTENDS Integers, FiniteSetsExt, FiniteSetTheorems, WellFoundedInduction, TLAPS

(* Quotient and remainder by any positive divisor.                          *)
LEMMA ModDef ==
  ASSUME NEW a \in Nat, NEW b \in Nat \ {0}
  PROVE  /\ a \div b \in Nat /\ a % b \in 0..(b - 1)
         /\ a = b * (a \div b) + (a % b)
  OBVIOUS

LEMMA IntModDef ==
  ASSUME NEW a \in Int, NEW b \in Nat \ {0}
  PROVE  /\ a \div b \in Int /\ a % b \in 0..(b - 1)
         /\ a = b * (a \div b) + (a % b)
  OBVIOUS

LEMMA MultipleApart ==
  ASSUME NEW b \in Nat, NEW p \in Int, NEW q \in Int, p < q
  PROVE  b * p \in Int /\ b * q \in Int /\ b * p + b <= b * q
  <1>1. PICK k \in Nat : q = p + 1 + k  BY q - p - 1 \in Nat
  <1>2. b * q = b * p + b + b * k  BY <1>1
  <1>3. b * p \in Int /\ b * k \in Nat  OBVIOUS
  <1> QED  BY <1>2, <1>3

LEMMA DivModUnique ==
  ASSUME NEW b \in Nat \ {0}, NEW q \in Int, NEW r \in 0..(b - 1)
  PROVE  (b * q + r) \div b = q /\ (b * q + r) % b = r
  <1> DEFINE a == b * q + r
             d == a \div b
             m == a % b
  <1>1. a \in Int  OBVIOUS
  <1>2. d \in Int /\ m \in 0..(b - 1) /\ a = b * d + m  BY <1>1, IntModDef
  <1>3. a = b * q + r /\ b * q \in Int /\ b * d \in Int  BY <1>2
  <1> HIDE DEF a, d, m
  <1>4. ~(d < q)  BY <1>2, <1>3, MultipleApart
  <1>5. ~(q < d)  BY <1>2, <1>3, MultipleApart
  <1>6. d = q /\ m = r  BY <1>2, <1>3, <1>4, <1>5
  <1> QED  BY <1>6 DEF a, d, m

LEMMA ModSmall ==
  ASSUME NEW b \in Nat \ {0}, NEW a \in 0..(b - 1)
  PROVE  a % b = a /\ a \div b = 0
  <1>1. a = b * 0 + a  OBVIOUS
  <1> QED  BY <1>1, DivModUnique

(* Counting up: the remainder goes up by one, or the quotient does.         *)
LEMMA ModSucc ==
  ASSUME NEW a \in Nat, NEW b \in Nat \ {0}
  PROVE  \/ /\ a % b < b - 1
            /\ (a + 1) % b = (a % b) + 1 /\ (a + 1) \div b = a \div b
         \/ /\ a % b = b - 1
            /\ (a + 1) % b = 0 /\ (a + 1) \div b = a \div b + 1
  <1> DEFINE q == a \div b
             r == a % b
  <1>1. q \in Nat /\ r \in 0..(b - 1) /\ a = b * q + r  BY ModDef
  <1> HIDE DEF q, r
  <1>2. CASE r < b - 1
    <2>1. a + 1 = b * q + (r + 1) /\ r + 1 \in 0..(b - 1)  BY <1>1, <1>2
    <2>2. (a + 1) % b = r + 1 /\ (a + 1) \div b = q  BY <1>1, <2>1, DivModUnique
    <2> QED  BY <1>2, <2>2 DEF q, r
  <1>3. CASE r = b - 1
    <2>1. b * (q + 1) = b * q + b  BY <1>1
    <2>2. a + 1 = b * (q + 1) + 0 /\ 0 \in 0..(b - 1) /\ q + 1 \in Int
      BY <1>1, <1>3, <2>1
    <2>3. (b * (q + 1) + 0) % b = 0 /\ (b * (q + 1) + 0) \div b = q + 1
      BY <2>2, DivModUnique
    <2>4. (a + 1) % b = 0 /\ (a + 1) \div b = q + 1  BY <2>2, <2>3
    <2> QED  BY <1>3, <2>4 DEF q, r
  <1> QED  BY <1>1, <1>2, <1>3

LEMMA ModCount ==
  ASSUME NEW a \in Nat, NEW b \in Nat \ {0}
  PROVE  ((a % b) + 1) % b = (a + 1) % b
  <1> DEFINE r == a % b
             t == (a + 1) % b
  <1>1. r \in 0..(b - 1)  BY ModDef
  <1>2. \/ r < b - 1 /\ t = r + 1
        \/ r = b - 1 /\ t = 0
    BY ModSucc
  <1> HIDE DEF r, t
  <1>3. ASSUME r < b - 1 PROVE (r + 1) % b = t
    BY <1>1, <1>2, <1>3, ModSmall, r + 1 \in 0..(b - 1)
  <1>4. ASSUME r = b - 1 PROVE (r + 1) % b = t
    <2>1. (b * 1 + 0) % b = 0  BY DivModUnique, 1 \in Nat, 0 \in 0..(b - 1)
    <2>2. b * 1 + 0 = r + 1  BY <1>4
    <2> QED  BY <1>2, <1>4, <2>1, <2>2
  <1>5. (r + 1) % b = t  BY <1>1, <1>2, <1>3, <1>4
  <1> QED  BY <1>5 DEF r, t

(* One turn up or down.                                                     *)
LEMMA ModTurn ==
  ASSUME NEW b \in Nat \ {0}, NEW a \in Int
  PROVE  /\ a \in b..(2 * b - 1) => a % b = a - b
         /\ a \in (-b)..(-1) => a % b = a + b
  <1>1. ASSUME a \in b..(2 * b - 1) PROVE a % b = a - b
    <2>1. a - b \in 0..(b - 1) /\ b * 1 + (a - b) = a  BY <1>1
    <2>2. (b * 1 + (a - b)) % b = a - b  BY <2>1, DivModUnique, 1 \in Int
    <2> QED  BY <2>1, <2>2
  <1>2. ASSUME a \in (-b)..(-1) PROVE a % b = a + b
    <2>1. a + b \in 0..(b - 1) /\ b * (-1) + (a + b) = a  BY <1>2
    <2>2. (b * (-1) + (a + b)) % b = a + b  BY <2>1, DivModUnique, -1 \in Int
    <2> QED  BY <2>1, <2>2
  <1> QED  BY <1>1, <1>2

--------------------------------------------------------------------------------
(* The smallest of a set of naturals is its Min.                            *)
LEMMA MinIs ==
  ASSUME NEW S \in SUBSET Nat, NEW x \in S, \A y \in S : x <= y
  PROVE  Min(S) = x
  <1>1. Min(S) \in S /\ \A y \in S : Min(S) <= y
    BY DEF Min
  <1>2. x \in Nat /\ Min(S) \in Nat /\ x <= Min(S) /\ Min(S) <= x
    BY <1>1
  <1> QED  BY <1>2

(* There is one: of the intervals from 0 to a member, finite sets all, none *)
(* is within all others but the least.                                      *)
LEMMA MinMember ==
  ASSUME NEW S \in SUBSET Nat, S # {}
  PROVE  Min(S) \in S /\ \A y \in S : Min(S) <= y
  <1> DEFINE T == {0..k : k \in S}
             R == StrictSubsetOrdering(Nat)
  <1>1. ASSUME NEW k \in S
        PROVE  0..k \in SUBSET Nat /\ IsFiniteSet(0..k)
    BY FS_Interval
  <1>2. T \subseteq FiniteSubsetsOf(Nat) /\ T # {}
    BY <1>1 DEF FiniteSubsetsOf
  <1>3. IsWellFoundedOn(R, FiniteSubsetsOf(Nat))
    BY FS_StrictSubsetOrderingWellFounded
  <1>4. PICK t \in T : \A u \in T : ~(<<u, t>> \in R)
    <2> HIDE DEF T, R
    <2> QED  BY <1>2, <1>3, WFMin
  <1>5. PICK x \in S : t = 0..x  BY <1>4
  <1>6. \A y \in S : x <= y
    <2> SUFFICES ASSUME NEW y \in S, y < x PROVE FALSE
      BY <1>5
    <2>1. 0..y \in T /\ <<0..y, 0..x>> \in R
      BY <1>1, <1>5 DEF StrictSubsetOrdering
    <2> HIDE DEF T, R
    <2> QED  BY <1>4, <1>5, <2>1
  <1> QED  BY <1>6, MinIs

(* The greatest of a set of integers is its Max.                            *)
LEMMA MaxIs ==
  ASSUME NEW S \in SUBSET Int, NEW x \in S, \A y \in S : y <= x
  PROVE  Max(S) = x
  <1>1. Max(S) \in S /\ \A y \in S : y <= Max(S)
    BY DEF Max
  <1>2. x \in Int /\ Max(S) \in Int /\ x <= Max(S) /\ Max(S) <= x
    BY <1>1
  <1> QED  BY <1>2
================================================================================
