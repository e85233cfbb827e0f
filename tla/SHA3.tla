-------------------------------- MODULE SHA3 --------------------------------
(***************************************************************************)
(* sha3.c: SHA-3 and the extendable-output functions SHAKE.  Every byte is *)
(* added to the state as it comes.  The state is what the permutation made *)
(* of the blocks st, with the bytes delta added to it since.               *)
(***************************************************************************)
EXTENDS Naturals, Sequences

CONSTANTS mdlen,        \* length of the digest, from which the rate follows
          StateSize     \* 200

ASSUME SHA3Assumption == mdlen \in Nat /\ StateSize \in Nat /\ 2 * mdlen < StateSize

VARIABLES
    ctx,            \* sha3_ctx_t: [st, delta, pt], pt the next byte to be added or read
    md              \* the bytes stored by sha3_final or shake_out
sha3Vars == << ctx, md >>

rsiz == StateSize - 2 * mdlen
Rated == 0..(rsiz - 1)
NoDelta == [i \in Rated |-> {}]

Context(s, d, p) == [st |-> s, delta |-> d, pt |-> p]
sha3_init == ctx' = Context(<< >>, NoDelta, 0) /\ md' = << >>

\* sha3_keccakf: what has been added since the last time is absorbed.
Permuted(c, p) == Context(Append(c.st, c.delta), NoDelta, p)

\* A byte of the state is xor-ed with b.
xor(a, b) == (a \ b) \cup (b \ a)
Add(c, i, b) == [c EXCEPT !.delta[i] = xor(@, b)]

\* A turn of the loops of sha3_update and shake_out.
UpdateByte(c, b) ==
    LET added == Add(c, c.pt, b)
    IN  IF c.pt + 1 >= rsiz THEN Permuted(added, 0) ELSE [added EXCEPT !.pt = c.pt + 1]

\* Mutant: the block is permuted one byte late, after its last byte was read.
OutByte_late(c, o) ==
    LET full == IF c.pt > rsiz THEN Permuted(c, 0) ELSE c
    IN  [c |-> [full EXCEPT !.pt = full.pt + 1],
         o |-> Append(o, [h |-> full.st, j |-> full.pt])]

OutByte(c, o) ==
    LET full == IF c.pt >= rsiz THEN Permuted(c, 0) ELSE c
    IN  [c |-> [full EXCEPT !.pt = full.pt + 1],
         o |-> Append(o, [h |-> full.st, j |-> full.pt])]

\* (The singletons make TLC evaluate a turn once.)
sha3_update(data) ==
    LET turn[i \in 0..Len(data)] ==
            IF i = 0 THEN ctx ELSE CHOOSE d \in { UpdateByte(c, data[i]) : c \in {turn[i - 1]} } : TRUE
    IN  ctx' = turn[Len(data)] /\ UNCHANGED md

\* The domain bits behind the message, the last bit of the padding at the end
\* of the block.
Finished(suffix, p) == Permuted(Add(Add(ctx, ctx.pt, suffix), rsiz - 1, {7}), p)

\* sha3_final leaves pt alone.
sha3_final ==
    /\ ctx' = Finished({1, 2}, ctx.pt)
    /\ md' = [i \in 1..mdlen |-> [h |-> ctx'.st, j |-> i - 1]]

shake_xof == ctx' = Finished({0, 1, 2, 3, 4}, 0) /\ UNCHANGED md

shake_out(len) ==
    LET turn[i \in 0..len] ==
            IF i = 0 THEN [c |-> ctx, o |-> md]
            ELSE CHOOSE r \in { OutByte(t.c, t.o) : t \in {turn[i - 1]} } : TRUE
    IN  ctx' = turn[len].c /\ md' = turn[len].o
=============================================================================
