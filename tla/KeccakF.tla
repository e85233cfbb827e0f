------------------------------- MODULE KeccakF -------------------------------
(***************************************************************************)
(* The permutation Keccak-f[1600], as keccak256.c and sha3.c compute it    *)
(* and as FIPS 202 defines it: the three run through the rounds side by    *)
(* side, from the block of a padded message.                               *)
(*                                                                         *)
(* A state is 25 lanes of 64 bits; a lane is the set of its bits that are  *)
(* one.  Lane x + 5 y is the lane (x, y) of the standard.                  *)
(***************************************************************************)
EXTENDS Naturals, Sequences, FiniteSets

CONSTANTS Messages     \* sequences of bytes, each with the first byte of its padding

Lanes == 0..24
Bits == 0..63
xor(a, b) == (a \ b) \cup (b \ a)
andnot(a, b) == b \ a                                       \* ~a & b

VARIABLES
    message,    \* what is hashed
    A,          \* the state in keccak256.c
    st,         \* the state in sha3.c
    F,          \* the state in FIPS 202
    round,
    step        \* what comes next in the round
vars == << message, A, st, F, round, step >>

-----------------------------------------------------------------------------
(* keccak256.c                                                             *)

\* ROTL64, of 1..63 bits.
ROTL64(q, n) == xor({ b + n : b \in { i \in q : i + n < 64 } },
                    { b - (64 - n) : b \in { i \in q : i >= 64 - n } })

\* The table of constants, in its three parts.
round_info == << 1, 26, 94, 112, 31, 33, 121, 85, 14, 12, 53, 38,
                 63, 79, 93, 83, 82, 72, 22, 102, 121, 88, 33, 116 >>
pi_transform == << 1, 6, 9, 22, 14, 20, 2, 12, 13, 19, 23, 15,
                   4, 24, 21, 8, 16, 5, 3, 18, 17, 11, 7, 10 >>
rho_transform == << 1, 62, 28, 27, 36, 44, 6, 55, 20, 3, 10, 43,
                    25, 39, 41, 45, 15, 21, 8, 18, 2, 61, 56, 14 >>

\* Mutant: the highest bit is lost in a shift that is not one of 64 bits.
get_round_constant_narrow(r) ==
    { (2 ^ i) - 1 : i \in { k \in 0..5 : (round_info[r + 1] \div (2 ^ k)) % 2 = 1 } }

\* get_round_constant: seven bits of a byte say which of the bits 2^i - 1 are set.
get_round_constant(r) ==
    { (2 ^ i) - 1 : i \in { k \in 0..6 : (round_info[r + 1] \div (2 ^ k)) % 2 = 1 } }

keccak_theta(a) ==
    LET C == [i \in 0..4 |-> xor(a[i], xor(a[i + 5], xor(a[i + 10], xor(a[i + 15], a[i + 20]))))]
        D == [i \in 0..4 |-> xor(ROTL64(C[(i + 1) % 5], 1), C[(i + 4) % 5])]
    IN  [l \in Lanes |-> xor(a[l], D[l % 5])]

keccak_rho(a) == [l \in Lanes |-> IF l = 0 THEN a[0] ELSE ROTL64(a[l], rho_transform[l])]

\* keccak_pi: the lanes move along one cycle, from the saved lane 1 round to 10.
keccak_pi(a) ==
    LET From(l) == CHOOSE i \in 1..24 : pi_transform[i] = l
    IN  [l \in Lanes |-> IF l = 0 THEN a[0]
                         ELSE IF l = 10 THEN a[1] ELSE a[pi_transform[From(l) + 1]]]

keccak_chi(a) ==
    [l \in Lanes |-> LET i == l - (l % 5)
                     IN  xor(a[l], andnot(a[i + ((l + 1) % 5)], a[i + ((l + 2) % 5)]))]

-----------------------------------------------------------------------------
(* sha3.c                                                                  *)

keccakf_rndc == <<
    {0}, {1, 7, 15}, {1, 3, 7, 15, 63}, {15, 31, 63},
    {0, 1, 3, 7, 15}, {0, 31}, {0, 7, 15, 31, 63}, {0, 3, 15, 63},
    {1, 3, 7}, {3, 7}, {0, 3, 15, 31}, {1, 3, 31},
    {0, 1, 3, 7, 15, 31}, {0, 1, 3, 7, 63}, {0, 3, 7, 15, 63}, {0, 1, 15, 63},
    {1, 15, 63}, {7, 63}, {1, 3, 15}, {1, 3, 31, 63},
    {0, 7, 15, 31, 63}, {7, 15, 63}, {0, 31}, {3, 15, 31, 63} >>
keccakf_rotc == << 1, 3, 6, 10, 15, 21, 28, 36, 45, 55, 2, 14,
                   27, 41, 56, 8, 25, 43, 62, 18, 39, 61, 20, 44 >>
keccakf_piln == << 10, 7, 11, 17, 18, 3, 5, 16, 8, 21, 24, 4,
                   15, 23, 19, 13, 12, 2, 20, 14, 22, 9, 6, 1 >>

Theta(s) ==
    LET bc == [i \in 0..4 |-> xor(s[i], xor(s[i + 5], xor(s[i + 10], xor(s[i + 15], s[i + 20]))))]
    IN  [l \in Lanes |-> xor(s[l], xor(bc[((l % 5) + 4) % 5], ROTL64(bc[((l % 5) + 1) % 5], 1)))]

\* Mutant: the lane is rotated after it is taken along, not before it is put.
RhoPi_shifted(s) ==
    LET At(l) == CHOOSE i \in 1..24 : keccakf_piln[i] = l
        Taken(i) == IF i = 1 THEN s[1] ELSE s[keccakf_piln[i - 1]]
    IN  [l \in Lanes |-> IF l = 0 THEN s[0]
                         ELSE ROTL64(Taken(At(l)), keccakf_rotc[(At(l) % 24) + 1])]

\* Each lane of the chain is put, rotated, where the next one is taken from.
RhoPi(s) ==
    LET At(l) == CHOOSE i \in 1..24 : keccakf_piln[i] = l
        Taken(i) == IF i = 1 THEN s[1] ELSE s[keccakf_piln[i - 1]]
    IN  [l \in Lanes |-> IF l = 0 THEN s[0] ELSE ROTL64(Taken(At(l)), keccakf_rotc[At(l)])]

Chi(s) ==
    [l \in Lanes |-> LET j == l - (l % 5)
                     IN  xor(s[l], s[j + ((l + 2) % 5)] \ s[j + ((l + 1) % 5)])]

-----------------------------------------------------------------------------
(* FIPS 202, section 3.2.                                                  *)

Lane(x, y) == (x % 5) + 5 * (y % 5)
X(l) == l % 5
Y(l) == l \div 5

\* Theta: a bit is flipped by the parities of two columns.
Ones(s, x, z) == Cardinality({ y \in 0..4 : z \in s[Lane(x, y)] })
StandardTheta(s) ==
    [l \in Lanes |-> { z \in Bits :
        ((IF z \in s[l] THEN 1 ELSE 0) + Ones(s, X(l) + 4, z) + Ones(s, X(l) + 1, (z + 63) % 64)) % 2 = 1 }]

\* Rho: the lane that the walk (x, y) -> (y, 2 x + 3 y) from (1, 0) comes to
\* after t moves is rotated by (t + 1)(t + 2) / 2.  Pi: (x, y) comes from
\* (x + 3 y, x).
Walked[t \in 0..23] == IF t = 0 THEN Lane(1, 0)
                       ELSE CHOOSE m \in { Lane(Y(l), 2 * X(l) + 3 * Y(l)) : l \in {Walked[t - 1]} } : TRUE
Offset == [l \in Lanes |-> IF l = 0 THEN 0
                           ELSE LET t == CHOOSE u \in 0..23 : Walked[u] = l
                                IN  (((t + 1) * (t + 2)) \div 2) % 64]
StandardRhoPi(s) ==
    [l \in Lanes |-> LET m == Lane(X(l) + 3 * Y(l), X(l))
                     IN  { (z + Offset[m]) % 64 : z \in s[m] }]

\* Chi and iota.  The bits of the round constants come from a shift register.
Register[t \in 0..167] ==
    IF t = 0 THEN {0}
    ELSE CHOOSE q \in { { c \in 0..7 : (c - 1 \in r) # (7 \in r /\ c \in {0, 4, 5, 6}) }
                        : r \in {Register[t - 1]} } : TRUE
RoundConstants == [r \in 0..23 |-> { (2 ^ j) - 1 : j \in { k \in 0..6 : 0 \in Register[k + 7 * r] } }]
StandardChiIota(s, r) ==
    [l \in Lanes |-> { z \in Bits :
        (z \in s[l]) # (   (z \notin s[Lane(X(l) + 1, Y(l))] /\ z \in s[Lane(X(l) + 2, Y(l))])
                         # (l = 0 /\ z \in RoundConstants[r])) }]

-----------------------------------------------------------------------------
\* The bits of a byte, and the first block of a message that is shorter.
BitsOf(b) == { i \in 0..7 : (b \div (2 ^ i)) % 2 = 1 }
BLOCK_SIZE == 136
ByteAt(m, i) ==
    IF i < Len(m.bytes) THEN BitsOf(m.bytes[i + 1])
    ELSE (IF i = Len(m.bytes) THEN BitsOf(m.pad) ELSE {})
         \cup (IF i = BLOCK_SIZE - 1 THEN {7} ELSE {})
Absorbed(m) ==
    [l \in Lanes |-> IF l >= 17 THEN {}
                     ELSE UNION { { 8 * k + i : i \in ByteAt(m, 8 * l + k) } : k \in 0..7 }]

Init ==
    /\ message \in Messages
    /\ A = Absorbed(message) /\ st = A /\ F = A
    /\ round = 0 /\ step = "theta"

ThetaStep ==
    /\ step = "theta" /\ round < 24 /\ step' = "rho pi"
    /\ A' = keccak_theta(A) /\ st' = Theta(st) /\ F' = StandardTheta(F)
    /\ UNCHANGED << message, round >>

RhoPiStep ==
    /\ step = "rho pi" /\ step' = "chi"
    /\ A' = keccak_pi(keccak_rho(A)) /\ st' = RhoPi(st) /\ F' = StandardRhoPi(F)
    /\ UNCHANGED << message, round >>

ChiIotaStep ==
    /\ step = "chi" /\ step' = "theta" /\ round' = round + 1
    /\ A' = [keccak_chi(A) EXCEPT ![0] = xor(@, get_round_constant(round))]
    /\ st' = [Chi(st) EXCEPT ![0] = xor(@, keccakf_rndc[round + 1])]
    /\ F' = StandardChiIota(F, round)
    /\ UNCHANGED message

Next == ThetaStep \/ RhoPiStep \/ ChiIotaStep
Spec == Init /\ [][Next]_vars

-----------------------------------------------------------------------------
(* Properties.                                                             *)

\* keccak256.c and sha3.c compute the permutation of the standard, every step
\* of every round: the tables that each packs its constants in agree.
StepsOfStandard == A = F /\ st = F

\* Keccak-256 of the empty message and of "abc", SHA3-256 of the empty message.
Known == {
    [bytes |-> << >>, pad |-> 1, digest |-> <<
        197, 210, 70, 1, 134, 247, 35, 60, 146, 126, 125, 178, 220, 199, 3, 192,
        229, 0, 182, 83, 202, 130, 39, 59, 123, 250, 216, 4, 93, 133, 164, 112 >>],
    [bytes |-> << 97, 98, 99 >>, pad |-> 1, digest |-> <<
        78, 3, 101, 122, 234, 69, 169, 79, 199, 212, 123, 168, 38, 200, 214, 103,
        192, 209, 230, 227, 58, 100, 160, 54, 236, 68, 245, 143, 161, 45, 108, 69 >>],
    [bytes |-> << >>, pad |-> 6, digest |-> <<
        167, 255, 198, 248, 191, 30, 215, 102, 81, 193, 71, 86, 160, 97, 214, 98,
        245, 128, 255, 77, 228, 59, 73, 250, 130, 216, 10, 75, 128, 248, 67, 74 >>] }

\* After the last round the state of keccak256.c begins with the published
\* digest of the message, where it is one of the three above.
DigestsKnown ==
    round = 24 => \A k \in Known : k.bytes = message.bytes /\ k.pad = message.pad =>
        \A i \in 0..31 : BitsOf(k.digest[i + 1]) =
            { b \in 0..7 : 8 * (i % 8) + b \in A[i \div 8] }
=============================================================================
