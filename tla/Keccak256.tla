------------------------------ MODULE Keccak256 ------------------------------
(***************************************************************************)
(* keccak256.c: the hash of the SHA3 instruction.  A message comes in      *)
(* chunks; whole blocks are absorbed where they lie, the bytes of a block  *)
(* that is not complete are kept in a buffer.  The permutation is that of  *)
(* KeccakF; here a state is the sequence of blocks absorbed (see Sponge).  *)
(***************************************************************************)
EXTENDS Naturals, Sequences

CONSTANTS
    BLOCK_SIZE,     \* 136
    StateBytes      \* 200

ASSUME Keccak256Assumption ==
    /\ BLOCK_SIZE \in Nat \ {0} /\ StateBytes \in Nat /\ BLOCK_SIZE < StateBytes

VARIABLES
    hash,           \* SHA3_CTX.hash
    message,        \* SHA3_CTX.message, the part of it that a block takes
    rest,           \* SHA3_CTX.rest, bytes in the buffer
    result          \* what keccak_final stored
keccakVars == << hash, message, rest, result >>

Index == 0..(BLOCK_SIZE - 1)

\* memset of the context; get_keccak256 does the same when it is done.
Zero == [i \in Index |-> {}]
keccak_init == hash' = << >> /\ message' = Zero /\ rest' = 0 /\ result' = << >>

\* memcpy of the bytes s into the buffer b from offset at on.
memcpy(b, at, s) == [i \in Index |-> IF i \in at..(at + Len(s) - 1) THEN s[i - at + 1] ELSE b[i]]

Whole(s) == Len(s) \div BLOCK_SIZE
Block(s, k) == [i \in Index |-> s[(k - 1) * BLOCK_SIZE + i + 1]]
Leftover(s) == SubSeq(s, Whole(s) * BLOCK_SIZE + 1, Len(s))

\* The blocks of s are absorbed, the first ones before them; blocks that are
\* not aligned go through the buffer b.
AbsorbBlocks(first, b, s) ==
    /\ hash' = hash \o first \o [k \in 1..Whole(s) |-> Block(s, k)]
    /\ \E aligned \in BOOLEAN :
         message' = memcpy(IF aligned \/ Whole(s) = 0 THEN b ELSE Block(s, Whole(s)),
                           0, Leftover(s))

keccak_update(msg) ==
    LET left == BLOCK_SIZE - rest
        filled == memcpy(message, rest, SubSeq(msg, 1, left))
    IN  /\ rest' = (rest + Len(msg)) % BLOCK_SIZE
        /\ IF rest = 0 THEN AbsorbBlocks(<< >>, message, msg)
           ELSE IF Len(msg) < left
           THEN message' = memcpy(message, rest, msg) /\ UNCHANGED hash
           ELSE AbsorbBlocks(<< filled >>, filled, SubSeq(msg, left + 1, Len(msg)))
        /\ UNCHANGED result

digest_length == (StateBytes \div 2) - (BLOCK_SIZE \div 2)

\* The bits that keccak_final sets in the block b of a message: 0x01 behind its
\* last byte, at offset at, and 0x80 in the last byte of the block.
padding(b, at) ==
    LET begun == [b EXCEPT ![at] = @ \cup {0}]
    IN  [begun EXCEPT ![BLOCK_SIZE - 1] = @ \cup {7}]

\* Mutant: the rest of the buffer is not cleared.
keccak_final_stale ==
    /\ message' = padding(message, rest)
    /\ hash' = Append(hash, message')
    /\ result' = [i \in 1..digest_length |-> [h |-> hash', j |-> i - 1]]
    /\ UNCHANGED rest

\* The buffer is cleared behind the message and padded.  rest stays as it is.
keccak_final ==
    /\ message' = padding([i \in Index |-> IF i >= rest THEN {} ELSE message[i]], rest)
    /\ hash' = Append(hash, message')
    /\ result' = [i \in 1..digest_length |-> [h |-> hash', j |-> i - 1]]
    /\ UNCHANGED rest
=============================================================================
