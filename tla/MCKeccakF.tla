------------------------------ MODULE MCKeccakF ------------------------------
(* Messages for TLC: those with a known digest, and one with a last byte   *)
(* in each lane of a block.                                                *)
EXTENDS KeccakF
MCMessages ==
    { [bytes |-> k.bytes, pad |-> k.pad] : k \in Known }
    \cup { [bytes |-> [i \in 1..(8 * l + (l % 8)) |-> (37 * i) % 256], pad |-> 1] : l \in 1..16 }
=============================================================================
