----------------------------- MODULE HashStreams -----------------------------
(***************************************************************************)
(* The two hash implementations side by side: the same message, given to   *)
(* both in the same chunks, and what each makes of it.                     *)
(***************************************************************************)
EXTENDS Keccak256, SHA3

CONSTANTS
    Byte,           \* bytes of messages, sets of bits
    MaxInput,       \* bytes in a message
    MaxChunk,       \* bytes in a call of the update functions
    MaxOut          \* bytes of output

ASSUME HashStreamsAssumption ==
    /\ Byte \subseteq SUBSET (0..7) /\ MaxInput \in Nat /\ MaxChunk \in Nat /\ MaxOut \in Nat
    /\ mdlen <= MaxOut /\ digest_length <= MaxOut
    /\ mdlen <= rsiz /\ digest_length <= BLOCK_SIZE    \* digests are read from one state

VARIABLES
    input,          \* the message so far
    phase           \* "absorb", "final" or "xof"
vars == << keccakVars, sha3Vars, input, phase >>

Init ==
    /\ hash = << >> /\ message = Zero /\ rest = 0 /\ result = << >>
    /\ ctx = Context(<< >>, NoDelta, 0) /\ md = << >>
    /\ input = << >> /\ phase = "absorb"

Update ==
    /\ phase = "absorb"
    /\ \E n \in 0..MaxChunk :
         /\ Len(input) + n <= MaxInput
         /\ \E c \in [1..n -> Byte] :
              keccak_update(c) /\ sha3_update(c) /\ input' = input \o c
    /\ UNCHANGED phase

Final ==
    /\ phase = "absorb" /\ phase' = "final"
    /\ keccak_final /\ sha3_final
    /\ UNCHANGED input

Xof ==
    /\ phase = "absorb" /\ phase' = "xof"
    /\ keccak_final /\ shake_xof
    /\ UNCHANGED input

Out ==
    /\ phase = "xof"
    /\ \E n \in 1..(MaxOut - Len(md)) : shake_out(n)
    /\ UNCHANGED << keccakVars, input, phase >>

\* The next message.
Again ==
    /\ phase # "absorb" /\ phase' = "absorb"
    /\ keccak_init /\ sha3_init /\ input' = << >>

Next == Update \/ Final \/ Xof \/ Out \/ Again
Spec == Init /\ [][Next]_vars

-----------------------------------------------------------------------------
(* Properties.                                                             *)

\* The types of the contexts: rest stays inside a block, and pt runs at most up
\* to the rate, so that neither implementation leaves its buffer.
TypeOK ==
    /\ message \in [Index -> SUBSET (0..7)] /\ rest \in Index
    /\ \A k \in 1..Len(hash) : hash[k] \in [Index -> SUBSET (0..7)]
    /\ ctx.pt \in 0..rsiz /\ ctx.delta \in [Rated -> SUBSET (0..7)]
    /\ \A k \in 1..Len(ctx.st) : ctx.st[k] \in [Rated -> SUBSET (0..7)]
    /\ input \in Seq(Byte) /\ phase \in {"absorb", "final", "xof"}

K == INSTANCE Sponge WITH Rate <- BLOCK_SIZE, Most <- MaxOut, out <- result,
                          Suffix <- [p \in {"final", "xof"} |-> {0}]

\* keccak256.c computes Keccak: the result is that of the whole message, padded
\* with 0x01, however keccak_update was given it: the buffer holds the bytes of
\* the unfinished block and keccak_final hashes no byte that an earlier block
\* left in it.
KeccakIsSponge == K!Spec

S == INSTANCE Sponge WITH Rate <- rsiz, Most <- MaxOut, out <- md,
                          Suffix <- [final |-> {1, 2}, xof |-> 0..4]

\* sha3.c computes SHA-3 and SHAKE of the whole message, and the calls of
\* shake_out together give the bytes that one call would give.
Sha3IsSponge == S!Spec
=============================================================================
