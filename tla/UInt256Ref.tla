------------------------------ MODULE UInt256Ref ------------------------------
(***************************************************************************)
(* The limb arithmetic of UInt256 against the numbers it stands for.       *)
(* The state is a pair of operands; every pair over the limbs InputLimbs   *)
(* is reached, and the invariants compare what each C function returns     *)
(* with the arithmetic on the value of its operands.                       *)
(***************************************************************************)
EXTENDS UIntStrings, UInt256Inputs

CONSTANTS Radices,       \* bases of numerals, below the size of a limb
          Lengths        \* sizes of the arrays that numerals are written to

\* A radix that has numerals is a limb; its powers.
ASSUME NumeralsAssumption ==
    /\ Radices \subseteq Nat /\ Lengths \subseteq Nat
    /\ \A radix \in Radices \cap (2..16) :
          /\ radix < Base /\ radix^0 = 1
          /\ \A length \in Lengths : \A n \in 0..(length - 1) :
                radix^n \in Nat /\ radix^(n + 1) = radix * radix^n

VARIABLES a, b           \* the two operands
operands == << a, b >>

RefInit == a \in Inputs /\ b = Zero256
RefNext == b = Zero256 /\ b' \in Inputs \ {Zero256} /\ a' = a
RefSpec == RefInit /\ [][RefNext]_operands

-----------------------------------------------------------------------------

\* x * y modulo Modulus, without intermediate results beyond 3/4 of its width.
TimesMod(x, y) ==
    (((x * (y \div HalfModulus)) % HalfModulus) * HalfModulus
        + x * (y % HalfModulus)) % Modulus

\* x * y modulo HalfModulus, for x, y < HalfModulus.
TimesMod128(x, y) == (x * y) % HalfModulus

-----------------------------------------------------------------------------
\* add256 and minus256 are addition and subtraction modulo 2^256: the carry
\* and the borrow that uint256.c recovers by comparing a wrapped half with an
\* operand are never lost and never invented.
AddMinusModular ==
    /\ Val(add256(a, b)) = (Val(a) + Val(b)) % Modulus
    /\ Val(minus256(a, b)) = (Val(a) - Val(b)) % Modulus

\* gt256, gte256 and equal256 order the words as the numbers they stand for.
OrderNumeric ==
    /\ gt256(a, b) <=> Val(a) > Val(b)
    /\ gte256(a, b) <=> Val(a) >= Val(b)
    /\ equal256(a, b) <=> Val(a) = Val(b)

\* shiftl256 and shiftr256 multiply and divide by a power of two for every
\* shift count, the ones equal to or beyond the width of a half or of the
\* word (which the code treats as cases of their own) included.
ShiftNumeric ==
    LET v == Val(b)
    IN  /\ Val(shiftl256(a, v)) =
              IF v >= Bits256 THEN 0 ELSE (Val(a) % 2^(Bits256 - v)) * 2^v
        /\ Val(shiftr256(a, v)) = IF v >= Bits256 THEN 0 ELSE Val(a) \div 2^v

\* mul128 is multiplication modulo 2^128.
Mul128Modular ==
    Val128(mul128(LOWER(a), LOWER(b))) =
        TimesMod128(Val128(LOWER(a)), Val128(LOWER(b)))

\* What mul256 guarantees in spite of the misplaced carry: the low 128 bits of
\* the product are always right, and the whole product is right exactly when
\* the third column (weight 2^64) does not carry out of its limb.
Mul256UnlessCarry ==
    \A columns \in {Columns256(a, b)}, product \in {mul256(a, b)} :
      LET exact == TimesMod(Val(a), Val(b))
      IN  /\ Val128(LOWER(product)) = exact % HalfModulus
          /\ Val(product) = exact <=> UPPER(columns[3]) = 0

\* What the MUL instruction needs ("Multiply top two values of the stack",
\* eth_vm.c:401): mul256 is multiplication modulo 2^256.
Mul256Modular == Val(mul256(a, b)) = TimesMod(Val(a), Val(b))

\* Each pair of half words once.
Halves == zero128(UPPER(a)) /\ zero128(UPPER(b))

\* divmod256 and divmod128 return the quotient and the remainder of every
\* division by a nonzero number.
DivModCorrect ==
    /\ ~zero256(b) => \A qr \in {divmod256(a, b)} :
                         /\ Val(qr[1]) = Val(a) \div Val(b)
                         /\ Val(qr[2]) = Val(a) % Val(b)
    /\ ~zero128(LOWER(b)) /\ Halves => \A qr \in {divmod128(LOWER(a), LOWER(b))} :
                         /\ Val128(qr[1]) = Val128(LOWER(a)) \div Val128(LOWER(b))
                         /\ Val128(qr[2]) = Val128(LOWER(a)) % Val128(LOWER(b))

\* The value of a numeral, the first digit the highest.
ValueOf(digits, radix) ==
    LET val[i \in 0..Len(digits)] == IF i = 0 THEN 0 ELSE val[i - 1] * radix + digits[i]
    IN  val[Len(digits)]

\* tostring256 and tostring128 write the numeral of the number, without
\* leading zeros, and refuse one that has more digits than the array has
\* characters.  A numeral as long as the array is not refused: its NUL lies
\* one behind the end; and an array of no characters has no limit.
WritesNumeral(s, v, radix, length) ==
    IF radix \in 2..16 /\ (length = 0 \/ v \div radix^length = 0)
    THEN /\ s.ok /\ ValueOf(s.digits, radix) = v
         /\ Len(s.digits) > 1 => s.digits[1] # 0
         /\ s.nul = Len(s.digits)
         /\ length > 0 => s.nul <= length
    ELSE ~s.ok
NumeralsExact ==
    b = Zero256 => \A radix \in Radices, length \in Lengths :
        /\ \A s \in {tostring256(a, radix, length)} : WritesNumeral(s, Val(a), radix, length)
        /\ Halves => \A s \in {tostring128(LOWER(a), radix, length)} :
                        WritesNumeral(s, Val128(LOWER(a)), radix, length)
=============================================================================
