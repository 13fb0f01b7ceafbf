---------------------------- MODULE FeedbackPIProofs ----------------------------
(***************************************************************************)
(* Safety of the rate controller for every level of the ring, every time   *)
(* between two updates and every choice of gains with an integrator that   *)
(* is weaker than the clamp.                                               *)
(***************************************************************************)
EXTENDS FeedbackPI, TLAPS

--------------------------------------------------------------------------------
(* C's division: it rounds toward zero, keeps the sign and never moves away *)
(* from zero.                                                               *)
LEMMA DivFloor ==
  ASSUME NEW a \in Nat, NEW b \in Nat \ {0}
  PROVE  /\ a \div b \in Nat
         /\ b * (a \div b) <= a /\ a < b * (a \div b) + b
  OBVIOUS

LEMMA ProductMono ==
  ASSUME NEW a \in Nat, NEW b \in Nat, NEW c \in Nat, a <= b
  PROVE  c * a \in Nat /\ c * a <= c * b
  OBVIOUS

LEMMA QuotType ==
  ASSUME NEW a \in Int, NEW b \in Nat \ {0}
  PROVE  /\ Quot(a, b) \in Int
         /\ a >= 0 => Quot(a, b) >= 0
         /\ a <= 0 => Quot(a, b) <= 0
  <1>1. CASE a >= 0  BY <1>1, DivFloor DEF Quot
  <1>2. CASE a < 0
    <2>1. -a \in Nat  BY <1>2
    <2>2. (-a) \div b \in Nat  BY <2>1, DivFloor
    <2> QED  BY <1>2, <2>2 DEF Quot
  <1> QED  BY <1>1, <1>2

(* At most q times the divisor gives at most q.                             *)
LEMMA QuotAtMost ==
  ASSUME NEW a \in Int, NEW b \in Nat \ {0}, NEW q \in Nat, a <= b * q
  PROVE  Quot(a, b) <= q
  <1>1. CASE a < 0  BY <1>1, QuotType
  <1>2. CASE a >= 0
    <2> DEFINE d == a \div b
    <2>1. d \in Nat /\ b * d <= a  BY <1>2, DivFloor
    <2>2. SUFFICES ASSUME d >= q + 1 PROVE FALSE
      BY <1>2, <2>1 DEF Quot
    <2>3. b * (q + 1) <= b * d  BY <2>1, <2>2, ProductMono
    <2>4. b * (q + 1) = b * q + b  OBVIOUS
    <2>5. b * q \in Nat /\ b * d \in Nat  BY <2>1
    <2> HIDE DEF d
    <2> QED  BY <2>1, <2>3, <2>4, <2>5
  <1> QED  BY <1>1, <1>2

LEMMA QuotNegated ==
  ASSUME NEW a \in Int, NEW b \in Nat \ {0}
  PROVE  Quot(-a, b) = -Quot(a, b)
  <1>1. CASE a > 0  BY <1>1, DivFloor DEF Quot
  <1>2. CASE a = 0  BY <1>2, DivFloor DEF Quot
  <1>3. CASE a < 0  BY <1>3, DivFloor DEF Quot
  <1> QED  BY <1>1, <1>2, <1>3

(* A quotient of at least q > 0 takes at least q times the divisor.         *)
LEMMA QuotAtLeast ==
  ASSUME NEW a \in Int, NEW b \in Nat \ {0}, NEW q \in Nat \ {0}, Quot(a, b) >= q
  PROVE  a >= b * q
  <1>1. a > 0  BY QuotType
  <1> DEFINE d == a \div b
  <1>2. d \in Nat /\ b * d <= a /\ d >= q  BY <1>1, DivFloor DEF Quot
  <1>3. b * q <= b * d  BY <1>2, ProductMono
  <1>4. b * q \in Nat /\ b * d \in Nat  BY <1>2
  <1> HIDE DEF d
  <1> QED  BY <1>2, <1>3, <1>4

(* A dividend of at least q times the divisor gives at least q.             *)
LEMMA QuotReaches ==
  ASSUME NEW a \in Nat, NEW b \in Nat \ {0}, NEW q \in Nat \ {0}, a >= b * q
  PROVE  Quot(a, b) >= q
  <1> DEFINE d == a \div b
  <1>1. d \in Nat /\ a < b * d + b /\ Quot(a, b) = d  BY DivFloor DEF Quot
  <1>2. SUFFICES ASSUME d <= q - 1 PROVE FALSE
    BY <1>1
  <1>3. b * d <= b * (q - 1)  BY <1>1, <1>2, ProductMono
  <1>4. b * (q - 1) = b * q - b /\ b * q \in Nat /\ b * d \in Nat  BY <1>1
  <1> HIDE DEF d
  <1> QED  BY <1>1, <1>3, <1>4

(* Nothing is divided away beyond the dividend: c parts out of b, c <= b,   *)
(* of a difference lie between nothing and the difference.                  *)
LEMMA QuotPart ==
  ASSUME NEW a \in Int, NEW b \in Nat \ {0}, NEW c \in 0..b
  PROVE  /\ a >= 0 => Quot(a * c, b) \in 0..a
         /\ a <= 0 => Quot(a * c, b) \in a..0
  <1>1. ASSUME NEW n \in Nat
        PROVE  Quot(n * c, b) \in 0..n
    <2>1. n * c \in Nat /\ n * c <= b * n
      <3>1. n * c <= n * b  BY ProductMono
      <3>2. n * b = b * n /\ n * c \in Nat  OBVIOUS
      <3> QED  BY <3>1, <3>2
    <2>2. Quot(n * c, b) \in Int /\ Quot(n * c, b) >= 0  BY <2>1, QuotType
    <2>3. Quot(n * c, b) <= n  BY <2>1, QuotAtMost
    <2> QED  BY <2>2, <2>3
  <1>2. CASE a >= 0  BY <1>1, <1>2, QuotType
  <1>3. CASE a < 0
    <2>1. (-a) * c = -(a * c) /\ a * c \in Int  OBVIOUS
    <2>2. Quot((-a) * c, b) = -Quot(a * c, b)  BY <2>1, QuotNegated
    <2>3. Quot((-a) * c, b) \in 0..(-a)  BY <1>1, <1>3
    <2>4. Quot(a * c, b) \in Int  BY <2>1, QuotType
    <2> QED  BY <1>3, <2>2, <2>3, <2>4
  <1> QED  BY <1>2, <1>3

--------------------------------------------------------------------------------
(* One update.                                                              *)

(* The integrator keeps its limit and the output its band.                  *)
LEMMA LimitType ==
  /\ I_MAX \in Nat
  /\ \A x \in Int : Limited(x) \in -Clamp..Clamp
  /\ \A x \in Int : Within(x, -I_MAX, I_MAX) \in -I_MAX..I_MAX
  <1>1. I_MAX \in Nat  BY FeedbackAssumption DEF FeedbackAssumption, I_MAX
  <1> QED
    BY <1>1, FeedbackAssumption DEF FeedbackAssumption, Limited, Within

LEMMA ErrorType ==
  ASSUME NEW f \in Int
  PROVE  /\ Error(f) \in Int
         /\ Error(f) # 0 => Error(f) = Target - f
  BY FeedbackAssumption DEF FeedbackAssumption, Error

LEMMA IntegratedType ==
  ASSUME istate \in -I_MAX..I_MAX, NEW e \in Int, NEW dt \in Nat
  PROVE  Integrated(e, dt) \in -I_MAX..I_MAX
  <1>1. istate + e * dt \in Int  BY LimitType
  <1> QED  BY <1>1, LimitType DEF Integrated

LEMMA FilteredType ==
  ASSUME lvl_filt \in Int, NEW l \in Nat, NEW dt \in Nat
  PROVE  Filtered(l, dt) \in Int
  <1>1. (l - lvl_filt) * dt \in Int  OBVIOUS
  <1>2. Quot((l - lvl_filt) * dt, FDiv) \in Int
    BY <1>1, QuotType, FeedbackAssumption DEF FeedbackAssumption
  <1> QED  BY <1>2 DEF Filtered

LEMMA OpenLoopType ==
  ASSUME NEW e \in Int, NEW i \in Int
  PROVE  OpenLoop(e, i) \in Int /\ OpenLoop(-e, -i) = -OpenLoop(e, i)
  <1>1. Quot(e, PDiv) \in Int /\ Quot(i, IDiv) \in Int
    BY QuotType, FeedbackAssumption DEF FeedbackAssumption
  <1>2. Quot(-e, PDiv) = -Quot(e, PDiv) /\ Quot(-i, IDiv) = -Quot(i, IDiv)
    BY QuotNegated, FeedbackAssumption DEF FeedbackAssumption
  <1> QED  BY <1>1, <1>2 DEF OpenLoop

(* A greater error gives at least the same output.                          *)
LEMMA OpenLoopMono ==
  ASSUME NEW d \in Nat, NEW e \in Nat, d <= e, NEW i \in Int, OpenLoop(d, i) >= Clamp
  PROVE  OpenLoop(e, i) >= Clamp
  <1> USE FeedbackAssumption DEF FeedbackAssumption
  <1> DEFINE q == Quot(d, PDiv)
  <1>1. q \in Int /\ q >= 0 /\ Quot(e, PDiv) \in Int /\ Quot(e, PDiv) >= 0
        /\ Quot(i, IDiv) \in Int
    BY QuotType
  <1>2. Quot(e, PDiv) >= q
    <2>1. CASE q = 0  BY <1>1, <2>1
    <2>2. CASE q # 0
      <3>1. q \in Nat \ {0}  BY <1>1, <2>2
      <3>2. d >= PDiv * q /\ PDiv * q \in Nat
        <4> HIDE DEF q
        <4>1. Quot(d, PDiv) >= q  BY <1>1 DEF q
        <4> QED  BY <3>1, <4>1, QuotAtLeast
      <3>3. e >= PDiv * q
        <4> HIDE DEF q
        <4> QED  BY <3>2
      <3> HIDE DEF q
      <3> QED  BY <3>1, <3>3, QuotReaches
    <2> QED  BY <2>1, <2>2
  <1> HIDE DEF q
  <1>3. OpenLoop(d, i) = q + Quot(i, IDiv) /\ OpenLoop(e, i) = Quot(e, PDiv) + Quot(i, IDiv)
    BY DEF OpenLoop, q
  <1> QED  BY <1>1, <1>2, <1>3

(* What the integrator cannot give the proportional part has to.            *)
LEMMA RailError ==
  ASSUME NEW e \in Int, NEW i \in -I_MAX..I_MAX, OpenLoop(e, i) >= Clamp
  PROVE  e > 0 /\ e >= PDiv * (Clamp - IOut)
  <1> USE FeedbackAssumption DEF FeedbackAssumption
  <1>1. i \in Int /\ i <= IDiv * IOut  BY LimitType DEF I_MAX
  <1>2. Quot(i, IDiv) \in Int /\ Quot(i, IDiv) <= IOut
    BY <1>1, QuotType, QuotAtMost
  <1>3. Quot(e, PDiv) \in Int  BY QuotType
  <1>4. Quot(e, PDiv) >= Clamp - IOut /\ Clamp - IOut \in Nat \ {0}
    BY <1>2, <1>3 DEF OpenLoop
  <1>5. e >= PDiv * (Clamp - IOut)  BY <1>4, QuotAtLeast
  <1>6. e > 0  BY <1>3, <1>4, QuotType
  <1> QED  BY <1>5, <1>6

(* The output is on a rail because the last error and the integral put it   *)
(* there.                                                                   *)
OnRail ==
  /\ rate = Clamp => OpenLoop(Error(lvl_filt), istate) >= Clamp
  /\ rate = -Clamp => OpenLoop(Error(lvl_filt), istate) <= -Clamp

(* An update keeps types and bands, and its rail is the open loop's.        *)
LEMMA UpdateStep ==
  ASSUME TypeOK, NEW dt \in 0..DtMax, Update(dt)
  PROVE  /\ lvl_filt' \in Int /\ istate' \in -I_MAX..I_MAX /\ rate' \in -Clamp..Clamp
         /\ late' \in 0..MaxLate
         /\ late' = 0 => lvl_filt' \in 0..RingSize
         /\ OnRail'
  <1> DEFINE f == Filtered(level, dt)
             e == Error(f)
             i == Integrated(e, dt)
             x == OpenLoop(e, i)
  <1>1. dt \in Nat /\ level \in Nat
    BY FeedbackAssumption DEF FeedbackAssumption, TypeOK
  <1>2. f \in Int  BY <1>1, FilteredType DEF TypeOK
  <1>3. e \in Int  BY <1>2, ErrorType
  <1>4. i \in -I_MAX..I_MAX  BY <1>1, <1>3, IntegratedType DEF TypeOK
  <1>5. i \in Int  BY <1>4, LimitType
  <1>6. x \in Int  BY <1>3, <1>5, OpenLoopType
  <1>7. lvl_filt' = f /\ istate' = i /\ rate' = Limited(x)  BY DEF Update
  <1>8. late' \in 0..MaxLate
    BY FeedbackAssumption DEF FeedbackAssumption, Update, Fresh, TypeOK
  <1>9. ASSUME late' = 0 PROVE f \in 0..RingSize
    <2>1. dt \in 0..FDiv /\ late = 0
      BY <1>1, <1>9, FeedbackAssumption
      DEF FeedbackAssumption, Update, Fresh, TypeOK
    <2>2. lvl_filt \in 0..RingSize /\ level \in 0..RingSize /\ RingSize \in Nat
      BY <2>1, FeedbackAssumption DEF FeedbackAssumption, TypeOK
    <2>3. level - lvl_filt \in Int  BY <2>2
    <2>4. f = lvl_filt + Quot((level - lvl_filt) * dt, FDiv)  BY DEF Filtered
    <2>5. /\ level - lvl_filt >= 0 =>
                Quot((level - lvl_filt) * dt, FDiv) \in 0..(level - lvl_filt)
          /\ level - lvl_filt <= 0 =>
                Quot((level - lvl_filt) * dt, FDiv) \in (level - lvl_filt)..0
      BY <2>1, <2>3, QuotPart, FeedbackAssumption DEF FeedbackAssumption
    <2> HIDE DEF f
    <2> QED  BY <2>2, <2>4, <2>5
  <1>10. rate' \in -Clamp..Clamp  BY <1>6, <1>7, LimitType
  <1>11. /\ rate' = Clamp => x >= Clamp
         /\ rate' = -Clamp => x <= -Clamp
    <2> HIDE DEF x
    <2> QED
      BY <1>6, <1>7, FeedbackAssumption DEF FeedbackAssumption, Limited, Within
  <1>12. OpenLoop(Error(lvl_filt), istate)' = x
    BY <1>7 DEF OpenLoop, Error, Quot
  <1>13. OnRail'
    <2> HIDE DEF x
    <2> QED  BY <1>11, <1>12 DEF OnRail
  <1> HIDE DEF f, e, i, x
  <1> QED  BY <1>2, <1>4, <1>7, <1>8, <1>9, <1>10, <1>13

LEMMA MeasuredType ==
  ASSUME TypeOK, NEW w \in Waits
  PROVE  Measured(w) \in 0..DtMax
  BY FeedbackAssumption DEF FeedbackAssumption, TypeOK, Measured, Within

--------------------------------------------------------------------------------
IInv == TypeOK /\ OnRail

(* The engine is stopped, the output is nominal.                            *)
LEMMA InitInv == Init => IInv
  <1> SUFFICES ASSUME Init PROVE IInv  OBVIOUS
  <1> USE FeedbackAssumption DEF FeedbackAssumption, Init
  <1>1. playing \in BOOLEAN /\ timed \in BOOLEAN  BY Zenon
  <1>2. 0 \in -I_MAX..I_MAX  BY LimitType
  <1>3. TypeOK  BY <1>1, <1>2 DEF TypeOK
  <1>4. OnRail  BY DEF OnRail
  <1> QED  BY <1>3, <1>4 DEF IInv

LEMMA Step ==
  ASSUME IInv, Next
  PROVE  IInv'
  <1> USE DEF IInv
  <1>1. ASSUME NEW w \in Waits, WakePlaying(w)
        PROVE  IInv'
    <2>1. Measured(w) \in 0..DtMax  BY MeasuredType
    <2>2. CASE Measured(w) >= 1
      <3>1. Update(Measured(w)) /\ since' = 0  BY <1>1, <2>2 DEF WakePlaying
      <3>2. /\ lvl_filt' \in Int /\ istate' \in -I_MAX..I_MAX
            /\ rate' \in -Clamp..Clamp /\ late' \in 0..MaxLate
            /\ late' = 0 => lvl_filt' \in 0..RingSize
            /\ OnRail'
        BY <2>1, <3>1, UpdateStep
      <3>3. playing' \in BOOLEAN /\ timed' \in BOOLEAN  BY <1>1, Zenon DEF WakePlaying, TypeOK
      <3>4. since' \in 0..DtMax /\ level' \in 0..RingSize
        BY <1>1, <3>1, FeedbackAssumption DEF FeedbackAssumption, WakePlaying, TypeOK
      <3>5. TypeOK'  BY <3>2, <3>3, <3>4 DEF TypeOK, I_MAX
      <3> QED  BY <3>2, <3>5
    <2>3. CASE ~(Measured(w) >= 1)
      <3>1. UNCHANGED <<lvl_filt, istate, rate, late, playing, level>>
            /\ since' = Measured(w) /\ timed' = TRUE
        BY <1>1, <2>3 DEF WakePlaying
      <3>2. TypeOK'  BY <2>1, <3>1 DEF TypeOK, I_MAX
      <3>3. OnRail'  BY <3>1 DEF OnRail, OpenLoop, Error, Quot
      <3> QED  BY <3>2, <3>3
    <2> QED  BY <2>2, <2>3
  <1>2. ASSUME NEW w \in Waits, WakeIdle(w)
        PROVE  IInv'
    <2>1. Measured(w) \in 0..DtMax  BY MeasuredType
    <2>2. /\ UNCHANGED <<playing, timed, level, late>>
          /\ since' = Measured(w) /\ lvl_filt' = 0 /\ istate' = 0 /\ rate' = 0
      BY <1>2 DEF WakeIdle
    <2>3. 0 \in -I_MAX..I_MAX /\ 0 \in -Clamp..Clamp
      BY LimitType, FeedbackAssumption DEF FeedbackAssumption
    <2>4. TypeOK'
      BY <2>1, <2>2, <2>3, FeedbackAssumption DEF FeedbackAssumption, TypeOK, I_MAX
    <2>5. OnRail'
      BY <2>2, FeedbackAssumption DEF FeedbackAssumption, OnRail
    <2> QED  BY <2>4, <2>5
  <1>3. CASE RingMoves
    <2>1. level' \in 0..RingSize  BY <1>3, FeedbackAssumption DEF FeedbackAssumption, RingMoves
    <2>2. TypeOK'  BY <1>3, <2>1 DEF RingMoves, TypeOK, I_MAX
    <2>3. OnRail'  BY <1>3 DEF RingMoves, OnRail, OpenLoop, Error, Quot
    <2> QED  BY <2>2, <2>3
  <1>4. CASE StartStop
    <2>1. playing' \in BOOLEAN  BY <1>4, Zenon DEF StartStop
    <2>2. TypeOK'  BY <1>4, <2>1 DEF StartStop, TypeOK, I_MAX
    <2>3. OnRail'  BY <1>4 DEF StartStop, OnRail, OpenLoop, Error, Quot
    <2> QED  BY <2>2, <2>3
  <1> QED  BY <1>1, <1>2, <1>3, <1>4 DEF Next, Wake

LEMMA Invariance == Spec => []IInv
  <1>1. IInv /\ UNCHANGED vars => IInv'
    BY DEF IInv, TypeOK, OnRail, vars, I_MAX, OpenLoop, Error, Quot
  <1>2. IInv /\ [Next]_vars => IInv'  BY Step, <1>1
  <1> QED  BY InitInv, <1>2, PTL DEF Spec

--------------------------------------------------------------------------------
(* Every variable keeps its type: the integral within what it may           *)
(* contribute and the rate within the authority of the loop, for every      *)
(* level and however late an update comes; the filtered level within what   *)
(* the ring can hold, as long as no update came late.                       *)
THEOREM TypeCorrect == Spec => []TypeOK
  <1>1. IInv => TypeOK  BY DEF IInv
  <1> QED  BY Invariance, <1>1, PTL

(* No wind-up: on the rail the filtered level is far off the target on the  *)
(* side the rail corrects, whatever the integrator has gathered.            *)
THEOREM NoWindUp == Spec => []RailMeansError
  <1>1. ASSUME IInv PROVE RailMeansError
    <2> DEFINE e == Error(lvl_filt)
    <2>1. /\ lvl_filt \in Int /\ e \in Int /\ (e # 0 => e = Target - lvl_filt)
          /\ istate \in -I_MAX..I_MAX /\ istate \in Int /\ -istate \in -I_MAX..I_MAX
      BY <1>1, ErrorType, LimitType DEF IInv, TypeOK
    <2>2. OpenLoop(e, istate) \in Int /\ OpenLoop(-e, -istate) = -OpenLoop(e, istate)
      BY <2>1, OpenLoopType
    <2>3. Target \in Nat /\ Clamp \in Nat  BY FeedbackAssumption DEF FeedbackAssumption
    <2>4. /\ rate = Clamp => OpenLoop(e, istate) >= Clamp
          /\ rate = -Clamp => OpenLoop(e, istate) <= -Clamp
      BY <1>1 DEF IInv, OnRail
    <2> HIDE DEF e
    <2>5. ASSUME rate = Clamp PROVE Target - lvl_filt >= PDiv * (Clamp - IOut)
      <3>1. e > 0 /\ e >= PDiv * (Clamp - IOut)  BY <2>1, <2>4, <2>5, RailError
      <3> QED  BY <2>1, <3>1
    <2>6. ASSUME rate = -Clamp PROVE lvl_filt - Target >= PDiv * (Clamp - IOut)
      <3>1. -e \in Int /\ OpenLoop(-e, -istate) >= Clamp  BY <2>1, <2>2, <2>3, <2>4, <2>6
      <3>2. -e > 0 /\ -e >= PDiv * (Clamp - IOut)  BY <2>1, <3>1, RailError
      <3>3. lvl_filt - Target = -e  BY <2>1, <2>3, <3>2
      <3> QED  BY <3>2, <3>3
    <2> QED  BY <2>5, <2>6 DEF RailMeansError
  <1> QED  BY Invariance, <1>1, PTL

(* On a rail with an error that grows no smaller the integrator stands      *)
(* still: the freeze test sees the new error and the old integral, and the  *)
(* open loop only grows with the error.                                     *)
THEOREM RailHolds == Spec => HoldsOnRail
  <1> DEFINE Held == /\ (rate = Clamp /\ lvl_filt' <= lvl_filt) => UNCHANGED istate
                     /\ (rate = -Clamp /\ lvl_filt' >= lvl_filt) => UNCHANGED istate
  <1>1. ASSUME IInv, NEW dt \in 0..DtMax, Update(dt)
        PROVE  Held
    <2> DEFINE e == Error(lvl_filt)
               f == Filtered(level, dt)
               d == Error(f)
    <2>1. lvl_filt' = f /\ istate' = Integrated(d, dt)  BY <1>1 DEF Update
    <2>2. lvl_filt \in Int /\ istate \in Int /\ istate \in -I_MAX..I_MAX
          /\ -istate \in Int /\ -istate \in -I_MAX..I_MAX
      BY <1>1, LimitType DEF IInv, TypeOK
    <2>3. f \in Int
      <3>1. dt \in Nat /\ level \in Nat
        BY <1>1, FeedbackAssumption DEF FeedbackAssumption, IInv, TypeOK
      <3> QED  BY <2>2, <3>1, FilteredType
    <2>4. e \in Int /\ d \in Int  BY <2>2, <2>3, ErrorType
    <2>5. /\ OpenLoop(e, istate) \in Int /\ OpenLoop(-e, -istate) = -OpenLoop(e, istate)
          /\ OpenLoop(d, istate) \in Int /\ OpenLoop(-d, -istate) = -OpenLoop(d, istate)
      BY <2>2, <2>4, OpenLoopType
    <2>6. /\ rate = Clamp => OpenLoop(e, istate) >= Clamp
          /\ rate = -Clamp => OpenLoop(e, istate) <= -Clamp
      BY <1>1 DEF IInv, OnRail
    <2>7. /\ (e > 0 /\ f <= lvl_filt) => d >= e
          /\ (e < 0 /\ f >= lvl_filt) => d <= e
      <3> HIDE DEF f
      <3> QED
        BY <2>2, <2>3, FeedbackAssumption DEF FeedbackAssumption, Error
    <2>8. Clamp \in Nat  BY FeedbackAssumption DEF FeedbackAssumption
    <2> HIDE DEF e, f, d
    <2>9. ASSUME rate = Clamp, f <= lvl_filt PROVE Frozen(d)
      <3>1. e > 0  BY <2>2, <2>4, <2>6, <2>9, RailError
      <3>2. d >= e /\ d \in Nat /\ e \in Nat  BY <2>4, <2>7, <2>9, <3>1
      <3>3. OpenLoop(d, istate) >= Clamp  BY <2>2, <2>6, <2>9, <3>2, OpenLoopMono
      <3> QED  BY <2>4, <3>1, <3>2, <3>3 DEF Frozen
    <2>10. ASSUME rate = -Clamp, f >= lvl_filt PROVE Frozen(d)
      <3>1. -e \in Int /\ OpenLoop(-e, -istate) >= Clamp  BY <2>4, <2>5, <2>6, <2>8, <2>10
      <3>2. -e > 0  BY <2>2, <3>1, RailError
      <3>3. -d >= -e /\ -d \in Nat /\ -e \in Nat  BY <2>4, <2>7, <2>10, <3>2
      <3>4. OpenLoop(-d, -istate) >= Clamp  BY <2>2, <3>1, <3>3, OpenLoopMono
      <3>5. OpenLoop(d, istate) <= -Clamp /\ d < 0  BY <2>4, <2>5, <2>8, <3>2, <3>3, <3>4
      <3> QED  BY <3>5 DEF Frozen
    <2>11. Frozen(d) => istate' = istate  BY <2>1 DEF Integrated
    <2> QED  BY <2>1, <2>9, <2>10, <2>11
  <1>2. IInv /\ [Next]_vars => [playing => Held]_vars
    <2> SUFFICES ASSUME IInv, Next, playing PROVE Held
      OBVIOUS
    <2>1. ASSUME NEW w \in Waits, WakePlaying(w) PROVE Held
      <3>1. Measured(w) \in 0..DtMax  BY MeasuredType DEF IInv
      <3>2. CASE Measured(w) >= 1  BY <1>1, <2>1, <3>1, <3>2 DEF WakePlaying
      <3>3. CASE ~(Measured(w) >= 1)  BY <2>1, <3>3 DEF WakePlaying
      <3> QED  BY <3>2, <3>3
    <2>2. CASE \E w \in Waits : WakeIdle(w)  BY <2>2 DEF WakeIdle
    <2>3. CASE RingMoves \/ StartStop  BY <2>3 DEF RingMoves, StartStop
    <2> QED  BY <2>1, <2>2, <2>3 DEF Next, Wake
  <1> QED  BY Invariance, <1>2, PTL DEF Spec, HoldsOnRail

(* An update in time moves the filtered level toward the level and not past *)
(* it.                                                                      *)
THEOREM NoOvershoot == Spec => FilterNoOvershoot
  <1> DEFINE Between == \/ lvl_filt <= lvl_filt' /\ lvl_filt' <= level
                        \/ level <= lvl_filt' /\ lvl_filt' <= lvl_filt
                        \/ UNCHANGED lvl_filt
  <1>1. ASSUME IInv, NEW w \in Waits, WakePlaying(w), UNCHANGED late
        PROVE  Between
    <2> DEFINE dt == Measured(w)
    <2>1. dt \in 0..DtMax  BY <1>1, MeasuredType DEF IInv
    <2>2. CASE ~(dt >= 1)  BY <1>1, <2>2 DEF WakePlaying
    <2>3. CASE dt >= 1
      <3>1. Update(dt)  BY <1>1, <2>3 DEF WakePlaying
      <3>2. dt \in 0..FDiv
        BY <1>1, <2>1, <3>1, FeedbackAssumption
        DEF FeedbackAssumption, Update, Fresh, IInv, TypeOK
      <3>3. lvl_filt' = lvl_filt + Quot((level - lvl_filt) * dt, FDiv)
        BY <3>1 DEF Update, Filtered
      <3>4. level - lvl_filt \in Int /\ lvl_filt \in Int /\ level \in Int
        BY <1>1 DEF IInv, TypeOK
      <3>5. /\ level - lvl_filt >= 0 =>
                  Quot((level - lvl_filt) * dt, FDiv) \in 0..(level - lvl_filt)
            /\ level - lvl_filt <= 0 =>
                  Quot((level - lvl_filt) * dt, FDiv) \in (level - lvl_filt)..0
        <4> HIDE DEF dt
        <4> QED  BY <3>2, <3>4, QuotPart, FeedbackAssumption DEF FeedbackAssumption
      <3> HIDE DEF dt
      <3> QED  BY <3>3, <3>4, <3>5
    <2> QED  BY <2>2, <2>3
  <1>2. IInv /\ [Next]_vars
          => [(playing /\ playing' /\ UNCHANGED late) => Between]_vars
    <2> SUFFICES ASSUME IInv, Next, playing, playing', UNCHANGED late
                 PROVE  Between
      OBVIOUS
    <2>1. CASE \E w \in Waits : WakePlaying(w)  BY <1>1, <2>1
    <2>2. CASE \E w \in Waits : WakeIdle(w)  BY <2>2 DEF WakeIdle
    <2>3. CASE RingMoves  BY <2>3 DEF RingMoves
    <2>4. CASE StartStop  BY <2>4 DEF StartStop
    <2> QED  BY <2>1, <2>2, <2>3, <2>4 DEF Next, Wake
  <1> QED  BY Invariance, <1>2, PTL DEF Spec, FilterNoOvershoot
================================================================================
