------------------------------- MODULE UInt256 -------------------------------
(***************************************************************************)
(* uint256.c / uint256.h: 256-bit unsigned arithmetic on four 64-bit limbs.*)
(*                                                                         *)
(* A uint128 is a pair of limbs and a uint256 a pair of uint128, most      *)
(* significant first, as in the structs of uint256.h.  The width of a limb *)
(* is the parameter LimbBits (64 in the code); the thresholds 64, 128 and  *)
(* 256 of the code are LimbBits, Bits128 and Bits256 here.  A C function   *)
(* that fills *target is an operator that returns the value it stores.     *)
(* Every limb operation that can wrap is taken modulo Base.                *)
(***************************************************************************)
EXTENDS Integers, Sequences, FiniteSetsExt, SequencesExt

CONSTANT LimbBits     \* width of a limb (uint64_t), 64 in the code

Base == 2^LimbBits                 \* number of values of a limb
HalfBase == 2^(LimbBits \div 2)    \* 2^32: mul128 splits limbs in halves

\* A limb has an even, positive number of bits.
ASSUME LimbBitsAssumption ==
    /\ LimbBits \in Nat \ {0}
    /\ Base \in Nat /\ HalfBase \in Nat
    /\ HalfBase > 1
    /\ HalfBase * HalfBase = Base

Bits128 == 2 * LimbBits
Bits256 == 4 * LimbBits

uint64 == 0..(Base - 1)
uint128 == uint64 \X uint64
uint256 == uint128 \X uint128

UPPER(x) == x[1]
LOWER(x) == x[2]

\* The numbers that limbs stand for.
Val128(n) == UPPER(n) * Base + LOWER(n)
Val(n) == Val128(UPPER(n)) * (Base * Base) + Val128(LOWER(n))

Zero128 == <<0, 0>>
One128 == <<0, 1>>
Zero256 == <<Zero128, Zero128>>
One256 == <<Zero128, One128>>

-----------------------------------------------------------------------------
(* The C operators <<, >>, |, &, ^, ~ on one limb (0 < v < LimbBits).      *)

shl64(x, v) == (x % 2^(LimbBits - v)) * 2^v
shr64(x, v) == x \div 2^v

BitOf(x, i) == (x \div 2^i) % 2

\* The bits of x that are set, and the limb in which just the bits in I are set.
Ones(x) == {i \in 0..(LimbBits - 1) : BitOf(x, i) = 1}
LimbOf(I) ==
    LET low[i \in 0..LimbBits] ==     \* its i low bits
            IF i = 0 THEN 0 ELSE low[i - 1] + (IF i - 1 \in I THEN 2^(i - 1) ELSE 0)
    IN  low[LimbBits]

or64(x, y) == LimbOf(Ones(x) \cup Ones(y))
and64(x, y) == LimbOf(Ones(x) \cap Ones(y))
xor64(x, y) == LimbOf((Ones(x) \ Ones(y)) \cup (Ones(y) \ Ones(x)))
not64(x) == Base - 1 - x

-----------------------------------------------------------------------------
(* Tests and comparisons.                                                  *)

zero128(n) == LOWER(n) = 0 /\ UPPER(n) = 0
zero256(n) == zero128(LOWER(n)) /\ zero128(UPPER(n))

equal128(m, n) == UPPER(m) = UPPER(n) /\ LOWER(m) = LOWER(n)
equal256(m, n) == equal128(UPPER(m), UPPER(n)) /\ equal128(LOWER(m), LOWER(n))

gt128(m, n) == IF UPPER(m) = UPPER(n) THEN LOWER(m) > LOWER(n)
                                      ELSE UPPER(m) > UPPER(n)

\* Mutant: the lower half decides although the upper halves differ.
gt256_low_first(m, n) == gt128(LOWER(m), LOWER(n)) \/ gt128(UPPER(m), UPPER(n))

gt256(m, n) == IF equal128(UPPER(m), UPPER(n)) THEN gt128(LOWER(m), LOWER(n))
                                               ELSE gt128(UPPER(m), UPPER(n))

gte128(m, n) == gt128(m, n) \/ equal128(m, n)
gte256(m, n) == gt256(m, n) \/ equal256(m, n)

-----------------------------------------------------------------------------
(* Addition and subtraction: the carry out of a half is recovered by       *)
(* comparing the wrapped result with an operand.                           *)

\* Mutant: a difference below zero does not wrap.
minus64_signed(x, y) == x - y

add64(x, y) == (x + y) % Base
minus64(x, y) == (x - y) % Base

\* 1 or 0, the C value of a comparison.
Flag(p) == IF p THEN 1 ELSE 0

add128(m, n) ==
    LET carry == Flag(add64(LOWER(m), LOWER(n)) < LOWER(m))
    IN  << add64(add64(UPPER(m), UPPER(n)), carry),
           add64(LOWER(m), LOWER(n)) >>

\* Mutant: the carry of the low limbs only is propagated to the upper half.
add256_limb_carry(m, n) ==
    LET low == add128(LOWER(m), LOWER(n))
        high == add128(UPPER(m), UPPER(n))
    IN  << IF LOWER(LOWER(m)) > LOWER(low) THEN add128(high, One128) ELSE high,
           low >>

add256(m, n) ==
    LET low == add128(LOWER(m), LOWER(n))
        high == add128(UPPER(m), UPPER(n))
    IN  << IF gt128(LOWER(m), low) THEN add128(high, One128) ELSE high, low >>

minus128(m, n) ==
    LET borrow == Flag(minus64(LOWER(m), LOWER(n)) > LOWER(m))
    IN  << minus64(minus64(UPPER(m), UPPER(n)), borrow),
           minus64(LOWER(m), LOWER(n)) >>

minus256(m, n) ==
    LET low == minus128(LOWER(m), LOWER(n))
        high == minus128(UPPER(m), UPPER(n))
    IN  << IF gt128(low, LOWER(m)) THEN minus128(high, One128) ELSE high, low >>

-----------------------------------------------------------------------------
(* Bitwise operations.                                                     *)

or128(m, n) == << or64(UPPER(m), UPPER(n)), or64(LOWER(m), LOWER(n)) >>
or256(m, n) == << or128(UPPER(m), UPPER(n)), or128(LOWER(m), LOWER(n)) >>

xor128(m, n) == << xor64(UPPER(m), UPPER(n)), xor64(LOWER(m), LOWER(n)) >>
xor256(m, n) == << xor128(UPPER(m), UPPER(n)), xor128(LOWER(m), LOWER(n)) >>

and128(m, n) == << and64(UPPER(m), UPPER(n)), and64(LOWER(m), LOWER(n)) >>
and256(m, n) == << and128(UPPER(m), UPPER(n)), and128(LOWER(m), LOWER(n)) >>

not128(n) == << not64(UPPER(n)), not64(LOWER(n)) >>
not256(n) == << not128(UPPER(n)), not128(LOWER(n)) >>

-----------------------------------------------------------------------------
(* Shifts.  The cases are the code's: nothing left, a whole limb (half),   *)
(* no shift, less than a limb (half), more than a limb (half).             *)

shiftl128(n, v) ==
    CASE v >= Bits128 -> Zero128
      [] v = LimbBits -> << LOWER(n), 0 >>
      [] v = 0 -> n
      [] 0 < v /\ v < LimbBits ->
            << add64(shl64(UPPER(n), v), shr64(LOWER(n), LimbBits - v)),
               shl64(LOWER(n), v) >>
      [] LimbBits < v /\ v < Bits128 -> << shl64(LOWER(n), v - LimbBits), 0 >>

shiftr128(n, v) ==
    CASE v >= Bits128 -> Zero128
      [] v = LimbBits -> << 0, UPPER(n) >>
      [] v = 0 -> n
      [] 0 < v /\ v < LimbBits ->
            << shr64(UPPER(n), v),
               add64(shl64(UPPER(n), LimbBits - v), shr64(LOWER(n), v)) >>
      [] LimbBits < v /\ v < Bits128 -> << 0, shr64(UPPER(n), v - LimbBits) >>

\* Mutant: the bits that cross the middle are dropped.
shiftl256_no_carry(n, v) ==
    CASE v >= Bits256 -> Zero256
      [] v = Bits128 -> << LOWER(n), Zero128 >>
      [] v = 0 -> n
      [] 0 < v /\ v < Bits128 -> << shiftl128(UPPER(n), v), shiftl128(LOWER(n), v) >>
      [] Bits128 < v /\ v < Bits256 -> << shiftl128(LOWER(n), v - Bits128), Zero128 >>

shiftl256(n, v) ==
    CASE v >= Bits256 -> Zero256
      [] v = Bits128 -> << LOWER(n), Zero128 >>
      [] v = 0 -> n
      [] 0 < v /\ v < Bits128 ->
            << add128(shiftl128(UPPER(n), v), shiftr128(LOWER(n), Bits128 - v)),
               shiftl128(LOWER(n), v) >>
      [] Bits128 < v /\ v < Bits256 -> << shiftl128(LOWER(n), v - Bits128), Zero128 >>

shiftr256(n, v) ==
    CASE v >= Bits256 -> Zero256
      [] v = Bits128 -> << Zero128, UPPER(n) >>
      [] v = 0 -> n
      [] 0 < v /\ v < Bits128 ->
            << shiftr128(UPPER(n), v),
               add128(shiftr128(LOWER(n), v), shiftl128(UPPER(n), Bits128 - v)) >>
      [] Bits128 < v /\ v < Bits256 -> << Zero128, shiftr128(UPPER(n), v - Bits128) >>

\* Halvings of a limb (of a pair) until it is zero: the loops of bits128, bits256.
halvings64[x \in uint64] == IF x = 0 THEN 0 ELSE 1 + halvings64[x \div 2]
halvings128[n \in uint128] ==
    IF zero128(n) THEN 0 ELSE 1 + halvings128[shiftr128(n, 1)]

bits128(n) == IF UPPER(n) # 0 THEN LimbBits + halvings64[UPPER(n)]
                              ELSE halvings64[LOWER(n)]

bits256(n) == IF ~zero128(UPPER(n)) THEN Bits128 + halvings128[UPPER(n)]
                                    ELSE halvings128[LOWER(n)]

-----------------------------------------------------------------------------
(* Multiplication by columns of half-size products.  Column k collects the *)
(* low part of the products of weight k and the high part of those of      *)
(* weight k + 1; products[i][y] of the code is the product of digit 3 - i  *)
(* of the first operand and digit y of the second, digit 3 the lowest.     *)

\* Sums, added up from the first one, each to what has been added so far.
Sum64(s) ==
    LET sum[i \in 0..Len(s)] == IF i = 0 THEN 0 ELSE add64(s[i], sum[i - 1])
    IN  sum[Len(s)]
Sum128(s) ==
    LET sum[i \in 0..Len(s)] == IF i = 0 THEN Zero128 ELSE add128(s[i], sum[i - 1])
    IN  sum[Len(s)]
Sum256(s) ==
    LET sum[i \in 0..Len(s)] == IF i = 0 THEN Zero256 ELSE add256(s[i], sum[i - 1])
    IN  sum[Len(s)]

\* The 32-bit digit k of a uint128, digit 0 the most significant.
Digit32(n, k) == IF k % 2 = 0 THEN n[k \div 2 + 1] \div HalfBase
                              ELSE n[k \div 2 + 1] % HalfBase

\* Mutant: the carry of the third column is dropped.
mul128_no_carry(m, n) ==
    LET P(i, y) == (Digit32(m, 3 - i) * Digit32(n, y)) % Base
        lo(i, y) == P(i, y) % HalfBase
        hi(i, y) == P(i, y) \div HalfBase
        third32 == Sum64(<< lo(0, 2), hi(0, 3), lo(1, 3) >>)
        second32 == Sum64(<< lo(0, 1), hi(0, 2), lo(1, 2), hi(1, 3), lo(2, 3) >>)
        first32 == Sum64(<< lo(0, 0), hi(0, 1), lo(1, 1), hi(1, 2),
                            lo(2, 2), hi(2, 3), lo(3, 3) >>)
    IN  Sum128(<< << shl64(first32, LimbBits \div 2), 0 >>,
                  << 0, shl64(third32, LimbBits \div 2) >>,
                  << second32, 0 >>, << 0, lo(0, 3) >> >>)

mul128(m, n) ==
    LET P(i, y) == (Digit32(m, 3 - i) * Digit32(n, y)) % Base
        lo(i, y) == P(i, y) % HalfBase
        hi(i, y) == P(i, y) \div HalfBase
        third32 == Sum64(<< lo(0, 2), hi(0, 3), lo(1, 3) >>)
        second32 == Sum64(<< lo(0, 1), hi(0, 2), lo(1, 2), hi(1, 3), lo(2, 3) >>)
        first32 == Sum64(<< lo(0, 0), hi(0, 1), lo(1, 1), hi(1, 2),
                            lo(2, 2), hi(2, 3), lo(3, 3) >>)
    IN  Sum128(<< << shl64(first32, LimbBits \div 2), 0 >>,
                  << third32 \div HalfBase, shl64(third32, LimbBits \div 2) >>,
                  << second32, 0 >>, << 0, lo(0, 3) >> >>)

\* Limb k of a uint256, limb 0 the most significant; all four.
Limb(n, k) == n[k \div 2 + 1][(k % 2) + 1]
Limbs(n) == << UPPER(UPPER(n)), LOWER(UPPER(n)), UPPER(LOWER(n)), LOWER(LOWER(n)) >>

\* Limb x as a uint128.
Wide(x) == << 0, x >>

\* The columns of mul256: << first64, second64, third64, fourth64 >>.
Columns256(m, n) ==
    LET P(i, y) == mul128(Wide(Limb(m, 3 - i)), Wide(Limb(n, y)))
        lo(i, y) == Wide(LOWER(P(i, y)))
        hi(i, y) == Wide(UPPER(P(i, y)))
    IN  << Sum128(<< lo(0, 0), hi(0, 1), lo(1, 1), hi(1, 2),
                     lo(2, 2), hi(2, 3), lo(3, 3) >>),
           Sum128(<< lo(0, 1), hi(0, 2), lo(1, 2), hi(1, 3), lo(2, 3) >>),
           Sum128(<< lo(0, 2), hi(0, 3), lo(1, 3) >>),
           lo(0, 3) >>

\* The four columns c at their places.  As in the code, the carry of the third
\* one lands in the most significant limb (UPPER(UPPER(target2))), two limbs
\* above its weight.
add_columns[c \in Seq(uint128)] ==
    Sum256(<< << shiftl128(c[1], LimbBits), Zero128 >>,
              << << UPPER(c[3]), 0 >>, shiftl128(c[3], LimbBits) >>,
              << c[2], Zero128 >>, << Zero128, c[4] >> >>)

\* Mutant: the first and the fourth column are exchanged.
mul256_exchanged(m, n) ==
    LET c == Columns256(m, n) IN add_columns[<< c[4], c[2], c[3], c[1] >>]

mul256(m, n) == add_columns[Columns256(m, n)]

-----------------------------------------------------------------------------
(* Long division.  diff_bits, div_align and div_adjust are the code before *)
(* the while loop, div_more its condition, div_step its body; the loop     *)
(* itself is a function of its variables.  For r = 0 the loop does not end,*)
(* so divmod256 is defined for nonzero divisors only; module DivMod256     *)
(* models the loop step by step, the zero divisor included.                *)

DivState == [resDiv : uint256, resMod : uint256, copyd : uint256, adder : uint256]

\* diffBits, the number of bits by which l is longer than r (for r <= l).
diff_bits(l, r) == bits256(l) - bits256(r)

\* The divisor shifted up to the length of the dividend, and its weight.
div_align(l, r, diffBits) ==
    [ resDiv |-> Zero256, resMod |-> l,
      copyd |-> shiftl256(r, diffBits), adder |-> shiftl256(One256, diffBits) ]

\* Mutant: the weight is not shifted back with the divisor.
div_adjust_half(d) ==
    IF gt256(d.copyd, d.resMod) THEN [d EXCEPT !.copyd = shiftr256(@, 1)] ELSE d

\* One shift back when that is too much.
div_adjust(d) ==
    IF gt256(d.copyd, d.resMod)
    THEN [d EXCEPT !.copyd = shiftr256(@, 1), !.adder = shiftr256(@, 1)]
    ELSE d

div_more(d, r) == gte256(d.resMod, r)

\* Mutant: the divisor is not shifted back.
div_step_fixed(d) ==
    LET fits == gte256(d.resMod, d.copyd)
    IN  [ d EXCEPT !.resDiv = IF fits THEN or256(@, d.adder) ELSE @,
                   !.resMod = IF fits THEN minus256(@, d.copyd) ELSE @,
                   !.adder = shiftr256(@, 1) ]

\* Mutant: the quotient bit is set after the adder has been shifted.
div_step_late(d) ==
    LET fits == gte256(d.resMod, d.copyd)
    IN  [ resDiv |-> IF fits THEN or256(d.resDiv, shiftr256(d.adder, 1)) ELSE d.resDiv,
          resMod |-> IF fits THEN minus256(d.resMod, d.copyd) ELSE d.resMod,
          copyd |-> shiftr256(d.copyd, 1),
          adder |-> shiftr256(d.adder, 1) ]

div_step(d) ==
    LET fits == gte256(d.resMod, d.copyd)
    IN  [ resDiv |-> IF fits THEN or256(d.resDiv, d.adder) ELSE d.resDiv,
          resMod |-> IF fits THEN minus256(d.resMod, d.copyd) ELSE d.resMod,
          copyd |-> shiftr256(d.copyd, 1),
          adder |-> shiftr256(d.adder, 1) ]

\* The while loop, for the pair << loop variables, r >>.
div_loop[p \in DivState \X (uint256 \ {Zero256})] ==
    IF div_more(p[1], p[2]) THEN div_loop[<< div_step(p[1]), p[2] >>] ELSE p[1]

\* << *retDiv, *retMod >> for r # 0.
divmod256(l, r) ==
    IF gt256(r, l) THEN << Zero256, l >>
    ELSE LET d == div_loop[<< div_adjust(div_align(l, r, diff_bits(l, r))), r >>]
         IN  << d.resDiv, d.resMod >>

=============================================================================
