------------------------------- MODULE Sponge -------------------------------
(***************************************************************************)
(* What a hash function of the Keccak family promises: its result depends  *)
(* on the bytes that were given to it, not on the calls they came in.      *)
(*                                                                         *)
(* The permutation is not interpreted: a state is the sequence of blocks   *)
(* that were absorbed into the zero state, and a byte of output is known   *)
(* by its place j in a state h.  A byte is the set of its bits.            *)
(***************************************************************************)
EXTENDS Naturals, Sequences

CONSTANTS
    Byte,       \* the bytes of messages
    Rate,       \* bytes in a block
    Suffix,     \* for each kind of output the domain bits and the first
                \* bit of the padding, a byte
    Most        \* the most bytes of output

VARIABLES
    input,      \* the message so far
    out,        \* the bytes of output so far
    phase       \* "absorb", then the kind of output asked for

Offsets == 0..(Rate - 1)

\* Block k of the message m with the padding 10*1 behind it, which s begins.
Padded(s, m, k) ==
    [j \in Offsets |->
        LET i == k * Rate + j
        IN  IF i < Len(m) THEN m[i + 1]
            ELSE (IF i = Len(m) THEN s ELSE {}) \cup
                 (IF j = Rate - 1 THEN {7} ELSE {})]
Blocks(s, m) == [k \in 1..((Len(m) \div Rate) + 1) |-> Padded(s, m, k - 1)]

\* n bytes of output for the message m.
Output(s, m, n) ==
    [i \in 1..n |->
        [h |-> Blocks(s, m) \o [k \in 1..((i - 1) \div Rate) |-> [j \in Offsets |-> {}]],
         j |-> (i - 1) % Rate]]

Init == input = << >> /\ out = << >> /\ phase = "absorb"

Absorb ==
    /\ phase = "absorb" /\ phase' = "absorb" /\ out' = << >>
    /\ Len(input') >= Len(input) /\ SubSeq(input', 1, Len(input)) = input

Squeeze ==
    /\ phase' \in DOMAIN Suffix /\ phase \in {"absorb", phase'} /\ input' = input
    /\ \E n \in Len(out)..Most : out' = Output(Suffix[phase'], input, n)

Restart == input' = << >> /\ out' = << >> /\ phase' = "absorb"

Spec == Init /\ [][Absorb \/ Squeeze \/ Restart]_<< input, out, phase >>
=============================================================================
