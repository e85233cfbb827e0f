----------------------------- MODULE LongDivision -----------------------------
(***************************************************************************)
(* Binary long division of natural numbers: the algorithm that divmod256   *)
(* (uint256.c) carries out on limbs.  The divisor times a weight is taken  *)
(* off the remainder when it fits, and the weight is halved, until the     *)
(* remainder is below the divisor.                                         *)
(***************************************************************************)
EXTENDS Integers

CONSTANT Number             \* the numbers that are divided
ASSUME NumberAssumption == Number \subseteq Nat

VARIABLES l, r,             \* dividend and divisor
          quotient, remainder,
          weight            \* the quotient bit about to be decided
vars == << l, r, quotient, remainder, weight >>

\* The weight at the start is the leading bit of the quotient.
Init ==
    /\ l \in Number /\ r \in Number \ {0} /\ weight \in Number
    /\ quotient = 0 /\ remainder = l
    /\ weight * r <= l
    /\ l < 2 * (weight * r) \/ l < r

\* Mutant: a divisor that fits exactly is not taken off.
IterateStrict ==
    /\ remainder >= r
    /\ IF remainder > weight * r
       THEN remainder' = remainder - weight * r /\ quotient' = quotient + weight
       ELSE UNCHANGED << remainder, quotient >>
    /\ weight' \in Number
    /\ weight = 2 * weight' \/ (weight = 1 /\ weight' = 0)
    /\ UNCHANGED << l, r >>

\* Mutant: the quotient bit is set after the weight has been halved.
IterateLate ==
    /\ remainder >= r
    /\ weight' \in Number
    /\ weight = 2 * weight' \/ (weight = 1 /\ weight' = 0)
    /\ IF remainder >= weight * r
       THEN remainder' = remainder - weight * r /\ quotient' = quotient + weight'
       ELSE UNCHANGED << remainder, quotient >>
    /\ UNCHANGED << l, r >>

\* One turn of the loop.
Iterate ==
    /\ remainder >= r
    /\ IF remainder >= weight * r
       THEN remainder' = remainder - weight * r /\ quotient' = quotient + weight
       ELSE UNCHANGED << remainder, quotient >>
    /\ weight' \in Number
    /\ weight = 2 * weight' \/ (weight = 1 /\ weight' = 0)
    /\ UNCHANGED << l, r >>

Next == Iterate
Spec == Init /\ [][Next]_vars

\* What has been taken off and what is left make up the dividend, and what is
\* left is decided by the bits still to come.
LoopInvariant ==
    /\ l \in Number /\ r \in Number \ {0} /\ weight \in Number
    /\ quotient \in Nat /\ remainder \in Nat
    /\ l = quotient * r + remainder
    /\ remainder < 2 * (weight * r) \/ remainder < r

\* When the loop of divmod256 is left, with a remainder below the divisor, the
\* quotient and the remainder are the only ones there are.
DivisionCorrect ==
    remainder < r =>
        \A q, m \in Number :
            l = q * r + m /\ m < r => q = quotient /\ m = remainder

\* The loop never turns with a weight that has been shifted out: each turn
\* decides a bit of the quotient, so that there are at most as many turns as
\* the quotient has bits.
WeightLasts == remainder >= r => weight > 0
=============================================================================
