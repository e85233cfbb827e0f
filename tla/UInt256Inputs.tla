---------------------------- MODULE UInt256Inputs ----------------------------
(***************************************************************************)
(* The operands for which the arithmetic of UInt256 is examined.           *)
(***************************************************************************)
EXTENDS UInt256Numbers

CONSTANT InputLimbs      \* the limbs the operands are built from
ASSUME InputLimbsAssumption == InputLimbs \subseteq uint64 /\ 0 \in InputLimbs

Inputs == (InputLimbs \X InputLimbs) \X (InputLimbs \X InputLimbs)
=============================================================================
