------------------------------ MODULE DivMod256 ------------------------------
(***************************************************************************)
(* divmod256 of uint256.c as it runs: the code in front of the loop, each  *)
(* turn of the loop, and the stores at its end, for every divisor, zero    *)
(* included.                                                               *)
(***************************************************************************)
EXTENDS UInt256Inputs

VARIABLES l, r,          \* the operands
          diffBits,      \* by how much the dividend is longer
          d,             \* resDiv, resMod, copyd, adder
          pc             \* "call", "align", "adjust", "loop", "done"
vars == << l, r, diffBits, d, pc >>

Init ==
    /\ l \in Inputs /\ r \in Inputs
    /\ diffBits = 0
    /\ d = [ resDiv |-> Zero256, resMod |-> l, copyd |-> Zero256, adder |-> Zero256 ]
    /\ pc = "call"

\* A larger divisor is answered at once: the remainder is l, the quotient 0.
Call ==
    /\ pc = "call"
    /\ IF gt256(r, l) THEN pc' = "done" /\ UNCHANGED diffBits
       ELSE pc' = "align" /\ diffBits' = diff_bits(l, r)
    /\ UNCHANGED << l, r, d >>

Align ==
    /\ pc = "align" /\ pc' = "adjust"
    /\ d' = div_align(l, r, diffBits)
    /\ UNCHANGED << l, r, diffBits >>

Adjust ==
    /\ pc = "adjust" /\ pc' = "loop"
    /\ d' = div_adjust(d)
    /\ UNCHANGED << l, r, diffBits >>

Turn ==
    /\ pc = "loop" /\ div_more(d, r)
    /\ d' = div_step(d)
    /\ UNCHANGED << l, r, diffBits, pc >>

Exit ==
    /\ pc = "loop" /\ ~div_more(d, r)
    /\ pc' = "done"
    /\ UNCHANGED << l, r, diffBits, d >>

Returned == pc = "done" /\ UNCHANGED vars

Step == Call \/ Align \/ Adjust \/ Turn \/ Exit
Next == Step \/ Returned
Spec == Init /\ [][Next]_vars /\ WF_vars(Step)

-----------------------------------------------------------------------------
\* The types of the locals of divmod256.
TypeOK == /\ l \in uint256 /\ r \in uint256 /\ d \in DivState
          /\ diffBits \in 0..Bits256
          /\ pc \in {"call", "align", "adjust", "loop", "done"}

\* From the loop on, the limbs carry out long division of the numbers they
\* stand for: no bit is lost when the divisor is shifted up to the dividend,
\* and setting a bit of the quotient with or256 is adding it.
Numbers == INSTANCE LongDivision WITH
    Number <- 0..(Modulus - 1), l <- Val(l), r <- Val(r),
    quotient <- Val(d.resDiv), remainder <- Val(d.resMod), weight <- Val(d.adder)
LoopDivides ==
    [][ pc = "loop" /\ pc' = "loop" /\ ~zero256(r) => Numbers!Iterate ]_vars

\* In every turn the loop invariant of long division holds of the limbs, and
\* the weight has not been shifted out.
LoopKeepsInvariant ==
    pc = "loop" /\ ~zero256(r) => Numbers!LoopInvariant /\ Numbers!WeightLasts

\* The shifted divisor and the shifted weight stay in step until the last bit
\* of the quotient, although they are shifted independently.
InStep == pc = "loop" /\ ~zero256(r) /\ ~zero256(d.adder) =>
             Val(d.copyd) = Val(d.adder) * Val(r)

\* A division by a nonzero number returns.
Returns == ~zero256(r) ~> pc = "done"
=============================================================================
