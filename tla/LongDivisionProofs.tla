-------------------------- MODULE LongDivisionProofs --------------------------
(* Long division is correct for numbers of every size.                     *)
EXTENDS LongDivision, TLAPS

\* The product of naturals is a natural.
LEMMA TimesNat == ASSUME NEW x \in Nat, NEW y \in Nat PROVE x * y \in Nat
  OBVIOUS

\* A larger factor makes the product larger by the other factor at least.
LEMMA NextMultiple ==
  ASSUME NEW x \in Nat, NEW y \in Nat, NEW z \in Nat, x < y
  PROVE  x * z + z <= y * z
<1>1. PICK k \in Nat : y = x + 1 + k
  <2>1. y - x - 1 \in Nat /\ y = x + 1 + (y - x - 1)
    OBVIOUS
  <2> QED BY <2>1
<1>2. y * z = x * z + z + k * z
  BY <1>1, SMT
<1>3. x * z \in Nat /\ k * z \in Nat /\ y * z \in Nat
  BY <1>1, TimesNat
<1> QED
  BY <1>2, <1>3

\* Doubling a factor doubles the product.
LEMMA DoubleTimes == ASSUME NEW x \in Nat, NEW y \in Nat PROVE (2 * x) * y = 2 * (x * y)
  OBVIOUS

\* A quotient and remainder are determined by dividend and divisor.
LEMMA DivisionUnique ==
  ASSUME NEW r0 \in Nat, NEW q1 \in Nat, NEW m1 \in Nat, NEW q2 \in Nat, NEW m2 \in Nat,
         q1 * r0 + m1 = q2 * r0 + m2, m1 < r0, m2 < r0
  PROVE  q1 = q2 /\ m1 = m2
<1>0. q1 * r0 \in Nat /\ q2 * r0 \in Nat
  BY TimesNat
<1>1. CASE q1 < q2
  <2>1. q1 * r0 + r0 <= q2 * r0
    BY <1>1, NextMultiple
  <2> QED BY <1>0, <2>1
<1>2. CASE q2 < q1
  <2>1. q2 * r0 + r0 <= q1 * r0
    BY <1>2, NextMultiple
  <2> QED BY <1>0, <2>1
<1>3. CASE q1 = q2
  BY <1>0, <1>3
<1> QED
  BY <1>1, <1>2, <1>3

\* The loop invariant of divmod256's algorithm holds throughout.
THEOREM LoopInvariantHolds == Spec => []LoopInvariant
<1>1. Init => LoopInvariant
  <2> SUFFICES ASSUME Init PROVE LoopInvariant
    OBVIOUS
  <2>1. l \in Nat /\ r \in Nat
    BY NumberAssumption DEF Init
  <2>2. quotient * r + remainder = l
    BY <2>1 DEF Init
  <2> QED
    BY <2>1, <2>2 DEF Init, LoopInvariant
<1>2. LoopInvariant /\ [Next]_vars => LoopInvariant'
  <2> SUFFICES ASSUME LoopInvariant, [Next]_vars PROVE LoopInvariant'
    OBVIOUS
  <2>t. l \in Nat /\ r \in Nat /\ weight \in Nat /\ quotient \in Nat /\ remainder \in Nat
    BY NumberAssumption DEF LoopInvariant
  <2>p. weight * r \in Nat /\ quotient * r \in Nat
    BY <2>t, TimesNat
  <2>1. CASE Iterate
    <3>1. l' = l /\ r' = r /\ weight' \in Number /\ weight' \in Nat
      BY <2>1, NumberAssumption DEF Iterate
    <3>2. weight' * r \in Nat
      BY <3>1, <2>t, TimesNat
    <3>3. weight * r = 2 * (weight' * r) \/ (weight * r = r /\ weight' * r = 0)
      <4>1. CASE weight = 2 * weight'
        BY <4>1, <3>1, <2>t, DoubleTimes
      <4>2. CASE weight = 1 /\ weight' = 0
        BY <4>2, <2>t
      <4> QED BY <4>1, <4>2, <2>1 DEF Iterate
    <3>4. CASE remainder >= weight * r
      <4>1. remainder' = remainder - weight * r /\ quotient' = quotient + weight
        BY <3>4, <2>1 DEF Iterate
      <4>2. quotient' * r = quotient * r + weight * r
        BY <4>1, <2>t, SMT
      <4>3. remainder' \in Nat /\ quotient' \in Nat
        BY <4>1, <3>4, <2>t, <2>p
      <4>4. l = quotient' * r + remainder'
        BY <4>1, <4>2, <2>t, <2>p DEF LoopInvariant
      <4>5. remainder < 2 * (weight * r)
        BY <2>1, <2>t, <2>p DEF LoopInvariant, Iterate
      <4>6. remainder' < 2 * (weight' * r) \/ remainder' < r
        BY <4>1, <4>5, <3>3, <3>2, <2>t, <2>p
      <4> QED
        BY <3>1, <4>3, <4>4, <4>6 DEF LoopInvariant
    <3>5. CASE ~(remainder >= weight * r)
      <4>1. remainder' = remainder /\ quotient' = quotient
        BY <3>5, <2>1 DEF Iterate
      <4>2. remainder < 2 * (weight' * r) \/ remainder < r
        BY <3>5, <3>3, <3>2, <2>t, <2>p
      <4> QED
        BY <3>1, <4>1, <4>2 DEF LoopInvariant
    <3> QED
      BY <3>4, <3>5
  <2>2. CASE UNCHANGED vars
    BY <2>2 DEF LoopInvariant, vars
  <2> QED
    BY <2>1, <2>2 DEF Next
<1> QED
  BY <1>1, <1>2, PTL DEF Spec

\* When divmod256's loop is left, it has found the quotient and the remainder.
THEOREM DivisionIsCorrect == Spec => []DivisionCorrect
<1>1. LoopInvariant => DivisionCorrect
  <2> SUFFICES ASSUME LoopInvariant, remainder < r, NEW q \in Number, NEW m \in Number,
                      l = q * r + m, m < r
               PROVE  q = quotient /\ m = remainder
    BY DEF DivisionCorrect
  <2>1. r \in Nat /\ quotient \in Nat /\ remainder \in Nat /\ q \in Nat /\ m \in Nat
    BY NumberAssumption DEF LoopInvariant
  <2>2. q * r + m = quotient * r + remainder
    BY DEF LoopInvariant
  <2> QED
    BY <2>1, <2>2, DivisionUnique
<1> QED
  BY <1>1, LoopInvariantHolds, PTL

\* The loop of divmod256 never turns with a weight that has been shifted out.
THEOREM WeightAlwaysLasts == Spec => []WeightLasts
<1>1. LoopInvariant => WeightLasts
  <2> SUFFICES ASSUME LoopInvariant, remainder >= r, ~(weight > 0) PROVE FALSE
    BY DEF WeightLasts
  <2>1. weight \in Nat /\ r \in Nat /\ remainder \in Nat
    BY NumberAssumption DEF LoopInvariant
  <2>2. weight * r = 0
    BY <2>1
  <2> QED
    BY <2>1, <2>2 DEF LoopInvariant
<1> QED
  BY <1>1, LoopInvariantHolds, PTL
=============================================================================
