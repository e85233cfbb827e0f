---------------------------- MODULE UInt256Numbers ----------------------------
(***************************************************************************)
(* The numbers that the words of UInt256 stand for: their moduli, and the  *)
(* law of the powers of two, up to the width of a word.                    *)
(***************************************************************************)
EXTENDS UInt256

HalfModulus == Base * Base                  \* a uint128 is a number modulo 2^128
Modulus == HalfModulus * HalfModulus        \* a uint256 is a number modulo 2^256

\* The powers of two up to 2^256.
ASSUME PowersAssumption ==
    \A n \in 0..(Bits256 - 1) : 2^n \in Nat \ {0} /\ 2^(n + 1) = 2 * 2^n
=============================================================================
