--------------------------- MODULE MCLongDivision ---------------------------
(* LongDivision for TLC: numbers of six bits.                              *)
EXTENDS LongDivision

Numbers64 == 0..63
=============================================================================
