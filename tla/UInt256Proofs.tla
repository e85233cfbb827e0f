----------------------------- MODULE UInt256Proofs -----------------------------
(***************************************************************************)
(* The arithmetic of uint256.c is correct for limbs of every width: the    *)
(* functions of UInt256Lemmas, and divmod128, the numerals and the loop of *)
(* divmod256, which is shown to carry out long division.                   *)
(***************************************************************************)
EXTENDS UInt256Ref, DivMod256, UInt256Lemmas

-----------------------------------------------------------------------------
\* TimesMod is multiplication modulo 2^256.
LEMMA TimesModNumeric ==
  ASSUME NEW x \in Nat, NEW y \in Nat
  PROVE  TimesMod(x, y) = (x * y) % Modulus
<1> DEFINE h == HalfModulus  q == y \div h  t == y % h  z == x * q  e == z \div h  s == z % h
<1>1. h \in Nat \ {0} /\ Modulus = h * h
  BY BaseFacts DEF Modulus
<1>2. q \in Nat /\ t \in 0..(h - 1) /\ y = q * h + t
  BY <1>1, QuotientFacts
<1>3. TimesMod(x, y) = (s * h + x * t) % Modulus
  BY Zenon DEF TimesMod
<1> HIDE DEF h, q, t
<1>4. z \in Nat /\ z = x * q
  BY <1>2, ProductNat
<1> HIDE DEF z
<1>5. e \in Nat /\ s \in 0..(h - 1) /\ z = e * h + s
  BY <1>1, <1>4, QuotientFacts
<1> HIDE DEF e, s
<1>6. t \in Nat /\ s \in Nat /\ s * h + x * t \in Nat
  BY <1>1, <1>2, <1>5
<1>7. x * y = (s * h + x * t) + e * (h * h)
  <2>1. x * y = z * h + x * t
    BY <1>1, <1>2, <1>4, <1>6
  <2>2. z * h = e * (h * h) + s * h
    BY <1>1, <1>5, <1>6
  <2> QED BY <2>1, <2>2, <1>1, <1>5, <1>6
<1> DEFINE w == s * h + x * t
<1>8. w \in Nat /\ x * y = w + e * Modulus /\ TimesMod(x, y) = w % Modulus
  BY <1>1, <1>3, <1>6, <1>7
<1> HIDE DEF w
<1> QED BY <1>5, <1>8, ModulusType, ModMultiple

-----------------------------------------------------------------------------
(* divmod128 does with half words what divmod256 does with words whose     *)
(* upper half is zero.                                                     *)

\* bits128 is the number of bits of the number.
LEMMA Bits128Numeric ==
  ASSUME NEW n \in uint128
  PROVE  BitLength(Val128(n), bits128(n)) /\ bits128(n) \in 0..Bits128
<1> DEFINE u == UPPER(n)  w == LOWER(n)  h == Base
<1>0. /\ u \in uint64 /\ w \in uint64
      /\ u \in 0..(h - 1) /\ w \in 0..(h - 1)
      /\ Val128(n) = u * h + w
  BY Pair128 DEF Val128, uint64
<1>1. /\ h \in Nat \ {0} /\ LimbBits \in Nat \ {0} /\ Bits128 = LimbBits + LimbBits
      /\ h = 2^LimbBits /\ Bits256 = Bits128 + Bits128
  BY BaseFacts, Widths, BasePowers
<1>2. BitLength(u, halvings64[u]) /\ BitLength(w, halvings64[w])
      /\ halvings64[u] \in 0..LimbBits /\ halvings64[w] \in 0..LimbBits
  BY <1>0, Halvings64
<1>3. bits128(n) = IF u # 0 THEN LimbBits + halvings64[u] ELSE halvings64[w]
  BY DEF bits128
<1> DEFINE k == halvings64[u]
<1> HIDE DEF u, w, h, k
<1>4. CASE u = 0
  <2>1. u * h + w = w
    BY <1>0, <1>1, <1>4
  <2> QED BY <1>0, <1>1, <1>2, <1>3, <1>4, <2>1
<1>5. CASE u # 0
  <2>1. k \in 1..Bits256 /\ u < 2^k /\ 2^(k - 1) <= u /\ k \in 0..LimbBits
    <3>1. u \in Nat \ {0}
      BY <1>0, <1>1, <1>5
    <3>2. k \in 1..Bits256
      BY <1>2, <3>1, LengthHalf DEF k
    <3> QED BY <1>2, <3>2 DEF BitLength, k
  <2>2. LimbBits + k \in 0..Bits128 /\ LimbBits + k \in 0..Bits256 /\ k - 1 \in 0..Bits256
        /\ k \in 0..Bits256 /\ k \in Nat
        /\ k - 1 \in Nat /\ k + LimbBits = LimbBits + k
        /\ (k - 1) + LimbBits = (LimbBits + k) - 1 /\ LimbBits + k # 0
        /\ k + LimbBits <= Bits256 /\ (k - 1) + LimbBits <= Bits256
    BY <1>1, <2>1
  <2>3. 2^(LimbBits + k) = 2^k * h /\ 2^((LimbBits + k) - 1) = 2^(k - 1) * h
    <3>1. 2^(k + LimbBits) = 2^k * 2^LimbBits /\ 2^((k - 1) + LimbBits) = 2^(k - 1) * 2^LimbBits
      BY <1>1, <2>2, PowerSum
    <3> QED BY <1>1, <2>2, <3>1
  <2>4. 2^k \in Nat /\ 2^(k - 1) \in Nat
    BY <2>2, PowerType
  <2> DEFINE x == 2^k  y == 2^(k - 1)
  <2>5. x \in Nat /\ y \in Nat /\ u \in Nat /\ u + 1 <= x /\ y <= u
    BY <1>0, <1>1, <2>1, <2>4
  <2>6. 2^(LimbBits + k) = x * h /\ 2^((LimbBits + k) - 1) = y * h
    BY <2>3
  <2> HIDE DEF x, y
  <2>7. (u + 1) * h <= x * h /\ y * h <= u * h /\ (u + 1) * h = u * h + h
    BY <1>1, <2>5, ProductMonotone, ProductSum
  <2>8. u * h \in Nat /\ x * h \in Nat /\ y * h \in Nat
    BY <1>1, <2>5, ProductNat
  <2>9. u * h + w < x * h /\ y * h <= u * h + w
    BY <1>0, <1>1, <2>7, <2>8
  <2>10. bits128(n) = LimbBits + k
    BY <1>3, <1>5 DEF k
  <2> QED BY <1>0, <2>2, <2>6, <2>9, <2>10 DEF BitLength
<1> QED BY <1>4, <1>5

\* The word with the value of a half word.
Extend(n) == << Zero128, n >>

\* It is a word, with that value.
LEMMA ExtendValue ==
  ASSUME NEW n \in uint128
  PROVE  Extend(n) \in uint256 /\ Val(Extend(n)) = Val128(n) /\ Val128(n) \in Nat
<1>1. Val128(n) \in Nat /\ HalfModulus \in Nat
  BY Val128Type, BaseFacts
<1>2. 0 * HalfModulus + Val128(n) = Val128(n)
  BY <1>1
<1> QED BY <1>1, <1>2, Zero128Value, ValPair, Make256 DEF Extend

\* A word is determined by its value.
LEMMA SameValue ==
  ASSUME NEW m \in uint256, NEW n \in uint256, Val(m) = Val(n)
  PROVE  m = n
<1>1. equal256(m, n)
  BY Order256
<1>2. UPPER(UPPER(m)) = UPPER(UPPER(n)) /\ LOWER(UPPER(m)) = LOWER(UPPER(n))
      /\ UPPER(LOWER(m)) = UPPER(LOWER(n)) /\ LOWER(LOWER(m)) = LOWER(LOWER(n))
  BY <1>1 DEF equal256, equal128
<1>3. UPPER(m) = UPPER(n) /\ LOWER(m) = LOWER(n)
  <2>1. UPPER(m) \in uint128 /\ LOWER(m) \in uint128 /\ UPPER(n) \in uint128 /\ LOWER(n) \in uint128
    BY Pair256
  <2> QED BY <1>2, <2>1, Pair128
<1> QED BY <1>3 DEF uint256, UPPER, LOWER

\* The comparisons, shifts, or and difference of half words are those of words.
LEMMA OrderOfHalves ==
  ASSUME NEW m \in uint128, NEW n \in uint128
  PROVE  /\ gt128(m, n) <=> gt256(Extend(m), Extend(n))
         /\ gte128(m, n) <=> gte256(Extend(m), Extend(n))
<1>1. (gt128(m, n) <=> Val128(m) > Val128(n)) /\ (equal128(m, n) <=> Val128(m) = Val128(n))
  BY Order128
<1>2. (gt256(Extend(m), Extend(n)) <=> Val128(m) > Val128(n))
      /\ (equal256(Extend(m), Extend(n)) <=> Val128(m) = Val128(n))
  BY ExtendValue, Order256
<1> QED BY <1>1, <1>2 DEF gte128, gte256

LEMMA HalveExtend ==
  ASSUME NEW n \in uint128
  PROVE  shiftr128(n, 1) \in uint128 /\ Extend(shiftr128(n, 1)) = shiftr256(Extend(n), 1)
<1>1. ~(1 >= Bits128) /\ 2^1 = 2 /\ 1 \in Nat
  BY Widths DEF Bits128
<1>2. shiftr128(n, 1) \in uint128 /\ Val128(shiftr128(n, 1)) = Val128(n) \div 2
  BY <1>1, ShiftRight128
<1>3. shiftr256(Extend(n), 1) \in uint256 /\ Val(shiftr256(Extend(n), 1)) = Val128(n) \div 2
  BY ExtendValue, HalveNumeric
<1> QED BY <1>2, <1>3, ExtendValue, SameValue

LEMMA ShiftExtend ==
  ASSUME NEW n \in uint128, NEW v \in 0..(Bits128 - 1), Val128(n) < 2^(Bits128 - v)
  PROVE  shiftl128(n, v) \in uint128 /\ Extend(shiftl128(n, v)) = shiftl256(Extend(n), v)
<1> DEFINE x == Val128(n)  P == 2^(Bits128 - v)  Q == 2^(Bits256 - v)
<1>1. /\ v \in Nat /\ ~(v >= Bits128) /\ ~(v >= Bits256) /\ Bits128 - v \in 0..Bits256
      /\ Bits256 - v \in 0..Bits256 /\ Bits128 - v < Bits256 - v
  BY Widths DEF Bits128, Bits256
<1>2. P \in Nat \ {0} /\ Q \in Nat \ {0} /\ 2 * P <= Q
  BY <1>1, PowerType, PowerMonotone
<1>3. x \in Nat /\ x < P
  BY ExtendValue
<1>4. shiftl128(n, v) \in uint128 /\ Val128(shiftl128(n, v)) = (x % P) * 2^v
  BY <1>1, ShiftLeft128
<1>5. shiftl256(Extend(n), v) \in uint256 /\ Val(shiftl256(Extend(n), v)) = (x % Q) * 2^v
  BY <1>1, ExtendValue, ShiftLeft256
<1> HIDE DEF x, P, Q
<1>6. x \in 0..(P - 1) /\ x \in 0..(Q - 1)
  BY <1>2, <1>3
<1>7. x % P = x /\ x % Q = x
  BY <1>2, <1>6, ModSmall
<1> QED BY <1>4, <1>5, <1>7, ExtendValue, SameValue

LEMMA OrExtend ==
  ASSUME NEW m \in uint128, NEW n \in uint128
  PROVE  or128(m, n) \in uint128 /\ Extend(or128(m, n)) = or256(Extend(m), Extend(n))
<1>1. or128(Zero128, Zero128) = Zero128
  <2>1. Val128(or128(Zero128, Zero128)) = 0 + 0
    <3>1. PICK i : i = 0
      OBVIOUS
    <3>2. i \in 0..Bits128 /\ 2^i = 1
      BY <3>1, Widths
    <3>3. 0 % 1 = 0 /\ 0 < 1
      OBVIOUS
    <3> QED BY <3>2, <3>3, Zero128Value, OrDisjoint128
  <2>2. zero128(or128(Zero128, Zero128)) /\ or128(Zero128, Zero128) \in uint128
    BY <2>1, Zero128Test, Or128Type
  <2> QED BY <2>2, Pair128 DEF zero128, Zero128
<1>2. or256(Extend(m), Extend(n)) = << or128(Zero128, Zero128), or128(m, n) >>
  BY DEF or256, Extend, UPPER, LOWER
<1> QED BY <1>1, <1>2, Or128Type DEF Extend

LEMMA MinusExtend ==
  ASSUME NEW m \in uint128, NEW n \in uint128, Val128(n) <= Val128(m)
  PROVE  minus128(m, n) \in uint128 /\ Extend(minus128(m, n)) = minus256(Extend(m), Extend(n))
<1> DEFINE x == Val128(m)  y == Val128(n)
<1>1. x \in 0..(HalfModulus - 1) /\ y \in Nat /\ y <= x /\ HalfModulus \in Nat \ {0}
  BY ExtendValue, Val128Type, BaseFacts
<1>2. x \in 0..(Modulus - 1) /\ Modulus \in Nat \ {0}
  BY ExtendValue, ValType, ModulusType
<1>3. minus128(m, n) \in uint128 /\ Val128(minus128(m, n)) = (x - y) % HalfModulus
  BY Minus128
<1>4. minus256(Extend(m), Extend(n)) \in uint256 /\ Val(minus256(Extend(m), Extend(n))) = (x - y) % Modulus
  BY ExtendValue, Minus256
<1> HIDE DEF x, y
<1>5. x - y \in 0..(HalfModulus - 1) /\ x - y \in 0..(Modulus - 1)
  BY <1>1, <1>2
<1>6. (x - y) % HalfModulus = x - y /\ (x - y) % Modulus = x - y
  BY <1>1, <1>2, <1>5, ModSmall
<1> QED BY <1>3, <1>4, <1>6, ExtendValue, SameValue

\* The variables of divmod128, and the variables of divmod256 with the same values.
HalfState == [resDiv : uint128, resMod : uint128, copyd : uint128, adder : uint128]
ExtendState(e) == [ resDiv |-> Extend(e.resDiv), resMod |-> Extend(e.resMod),
                    copyd |-> Extend(e.copyd), adder |-> Extend(e.adder) ]

\* They have the types of divmod256.
LEMMA ExtendType ==
  ASSUME NEW e \in HalfState
  PROVE  /\ e.resDiv \in uint128 /\ e.resMod \in uint128 /\ e.copyd \in uint128 /\ e.adder \in uint128
         /\ ExtendState(e) \in DivState
         /\ ExtendState(e).resDiv = Extend(e.resDiv) /\ ExtendState(e).resMod = Extend(e.resMod)
         /\ ExtendState(e).copyd = Extend(e.copyd) /\ ExtendState(e).adder = Extend(e.adder)
<1>1. e.resDiv \in uint128 /\ e.resMod \in uint128 /\ e.copyd \in uint128 /\ e.adder \in uint128
  BY DEF HalfState
<1>2. /\ Extend(e.resDiv) \in uint256 /\ Extend(e.resMod) \in uint256
      /\ Extend(e.copyd) \in uint256 /\ Extend(e.adder) \in uint256
  BY <1>1, ExtendValue
<1> QED BY <1>1, <1>2 DEF ExtendState, DivState

\* A turn of divmod128 is a turn of divmod256.
LEMMA StepExtend ==
  ASSUME NEW e \in HalfState
  PROVE  step128(e) \in HalfState /\ ExtendState(step128(e)) = div_step(ExtendState(e))
<1> DEFINE f == step128(e)  g == div_step(ExtendState(e))  fits == gte128(e.resMod, e.copyd)
<1>1. fits <=> gte256(Extend(e.resMod), Extend(e.copyd))
  BY ExtendType, OrderOfHalves
<1>2. fits => Val128(e.copyd) <= Val128(e.resMod)
  BY <1>1, ExtendType, ExtendValue, OrderOfWords
<1>3. f = [ resDiv |-> IF fits THEN or128(e.resDiv, e.adder) ELSE e.resDiv,
            resMod |-> IF fits THEN minus128(e.resMod, e.copyd) ELSE e.resMod,
            copyd |-> shiftr128(e.copyd, 1), adder |-> shiftr128(e.adder, 1) ]
  BY DEF step128
<1>4. g = [ resDiv |-> IF fits THEN or256(Extend(e.resDiv), Extend(e.adder)) ELSE Extend(e.resDiv),
            resMod |-> IF fits THEN minus256(Extend(e.resMod), Extend(e.copyd)) ELSE Extend(e.resMod),
            copyd |-> shiftr256(Extend(e.copyd), 1), adder |-> shiftr256(Extend(e.adder), 1) ]
  BY <1>1, ExtendType DEF div_step
<1>5. /\ shiftr128(e.copyd, 1) \in uint128 /\ Extend(shiftr128(e.copyd, 1)) = shiftr256(Extend(e.copyd), 1)
      /\ shiftr128(e.adder, 1) \in uint128 /\ Extend(shiftr128(e.adder, 1)) = shiftr256(Extend(e.adder), 1)
  BY ExtendType, HalveExtend
<1>6. /\ or128(e.resDiv, e.adder) \in uint128
      /\ Extend(or128(e.resDiv, e.adder)) = or256(Extend(e.resDiv), Extend(e.adder))
  BY ExtendType, OrExtend
<1>7. fits => /\ minus128(e.resMod, e.copyd) \in uint128
              /\ Extend(minus128(e.resMod, e.copyd)) = minus256(Extend(e.resMod), Extend(e.copyd))
  BY <1>2, ExtendType, MinusExtend
<1>8. e.resDiv \in uint128 /\ e.resMod \in uint128
  BY ExtendType
<1> HIDE DEF f, g, fits
<1>9. f \in HalfState
  BY <1>3, <1>5, <1>6, <1>7, <1>8 DEF HalfState
<1>10. ExtendState(f) = g
  <2>1. CASE fits
    BY <1>3, <1>4, <1>5, <1>6, <1>7, <2>1 DEF ExtendState
  <2>2. CASE ~fits
    BY <1>3, <1>4, <1>5, <2>2 DEF ExtendState
  <2> QED BY <2>1, <2>2
<1> QED BY <1>9, <1>10 DEF f, g

\* The code in front of the loop of divmod128 is that of divmod256.
LEMMA AlignExtend ==
  ASSUME NEW m \in uint128, NEW n \in uint128, ~gt128(n, m), Val128(n) # 0
  PROVE  \A e \in {align128(m, n, bits128(m) - bits128(n))} :
            /\ e \in HalfState
            /\ ExtendState(e) = div_adjust(div_align(Extend(m), Extend(n), diff_bits(Extend(m), Extend(n))))
<1> DEFINE M == Extend(m)  N == Extend(n)  x == Val128(m)  y == Val128(n)
           bx == bits128(m)  by == bits128(n)  D == bx - by
           e == align128(m, n, D)  c == div_align(M, N, D)
<1>0. /\ M \in uint256 /\ N \in uint256 /\ Val(M) = x /\ Val(N) = y /\ x \in Nat /\ y \in Nat \ {0}
  BY ExtendValue
<1>1. BitLength(x, bx) /\ BitLength(y, by) /\ bx \in 0..Bits128 /\ by \in 0..Bits128
  BY Bits128Numeric
<1>2. bits256(M) = bx /\ bits256(N) = by
  BY <1>0, <1>1, BitsNumeric, LengthUnique
<1>3. diff_bits(M, N) = D
  BY <1>2 DEF diff_bits
<1>4. y <= x
  BY <1>0, OrderOfHalves, OrderOfWords
<1>5. by <= bx /\ by \in 1..Bits128 /\ y < 2^by
  <2>1. by <= bx /\ by \in 1..Bits256
    BY <1>0, <1>1, <1>4, LengthMonotone, LengthHalf
  <2> QED BY <1>1, <2>1, Widths DEF BitLength
<1> HIDE DEF bx, by
<1>6. D \in 0..(Bits128 - 1) /\ by <= Bits128 - D /\ Bits128 - D \in 1..Bits256 /\ Bits128 - D \in 0..Bits256
      /\ by \in 0..Bits256
  BY <1>1, <1>5, Widths DEF Bits128, Bits256
<1> HIDE DEF D
<1>7. y < 2^(Bits128 - D) /\ 1 < 2^(Bits128 - D)
  <2> DEFINE k == Bits128 - D
  <2>1. k \in 0..Bits256 /\ by <= k /\ k > 0
    BY <1>6
  <2> HIDE DEF k
  <2>2. 2^by \in Nat /\ 2^k \in Nat
    BY <1>6, <2>1, PowerType
  <2>3. by = k \/ 2 * 2^by <= 2^k
    BY <1>6, <2>1, PowerMonotone
  <2>4. y < 2^k
    BY <1>0, <1>5, <2>2, <2>3
  <2>5. 1 < 2^k
    <3>1. PICK z : z = 0
      OBVIOUS
    <3>2. z \in 0..Bits256 /\ z < k /\ 2^z = 1
      BY <2>1, <3>1, Widths
    <3>3. 2 * 2^z <= 2^k
      BY <2>1, <3>2, PowerMonotone
    <3> QED BY <2>2, <3>2, <3>3
  <2> QED BY <2>4, <2>5 DEF k
<1>8. /\ shiftl128(n, D) \in uint128 /\ Extend(shiftl128(n, D)) = shiftl256(N, D)
      /\ shiftl128(One128, D) \in uint128 /\ Extend(shiftl128(One128, D)) = shiftl256(One256, D)
  <2>1. Val128(One128) < 2^(Bits128 - D) /\ Extend(One128) = One256
    BY <1>7, One128Value DEF Extend, One256
  <2> QED BY <1>6, <1>7, <2>1, One128Value, ShiftExtend
<1> DEFINE C == shiftl128(n, D)  A == shiftl128(One128, D)  far == gt128(C, m)
<1>9. /\ C \in uint128 /\ A \in uint128
      /\ shiftr128(C, 1) \in uint128 /\ Extend(shiftr128(C, 1)) = shiftr256(Extend(C), 1)
      /\ shiftr128(A, 1) \in uint128 /\ Extend(shiftr128(A, 1)) = shiftr256(Extend(A), 1)
      /\ far <=> gt256(Extend(C), M)
  BY <1>8, HalveExtend, OrderOfHalves
<1>10. e = [ resDiv |-> Zero128, resMod |-> m, copyd |-> IF far THEN shiftr128(C, 1) ELSE C,
             adder |-> IF far THEN shiftr128(A, 1) ELSE A ]
  BY DEF align128
<1>11. c = [ resDiv |-> Zero256, resMod |-> M, copyd |-> Extend(C), adder |-> Extend(A) ]
  BY <1>8 DEF div_align
<1> HIDE DEF e, c, C, A, far, M
<1>12. e \in HalfState
  BY <1>9, <1>10, Zero128Value DEF HalfState
<1>13. div_adjust(c) = [ resDiv |-> Zero256, resMod |-> M,
                         copyd |-> IF far THEN shiftr256(Extend(C), 1) ELSE Extend(C),
                         adder |-> IF far THEN shiftr256(Extend(A), 1) ELSE Extend(A) ]
  BY <1>9, <1>11 DEF div_adjust
<1>14. ExtendState(e) = [ resDiv |-> Extend(Zero128), resMod |-> Extend(m),
                          copyd |-> IF far THEN Extend(shiftr128(C, 1)) ELSE Extend(C),
                          adder |-> IF far THEN Extend(shiftr128(A, 1)) ELSE Extend(A) ]
  BY <1>10 DEF ExtendState
<1>15. Extend(Zero128) = Zero256
  BY DEF Extend, Zero256
<1>16. ExtendState(e) = div_adjust(c)
  BY <1>9, <1>13, <1>14, <1>15 DEF M
<1> QED BY <1>3, <1>12, <1>16 DEF e, c, D, bx, by, M

\* The turns of the loop of divmod128, from the variables in front of it.
HalfTurns(f, z) == f = [i \in 0..Bits128 |->
    IF i = 0 THEN z ELSE CHOOSE e \in { step128(g) : g \in {f[i - 1]} } : TRUE]

\* They exist, since each is made from the one before.
LEMMA HalfTurnsExist ==
  ASSUME NEW z \in HalfState
  PROVE  \E f : HalfTurns(f, z)
<1> DEFINE g == [p \in (1..Bits128) \X HalfState |-> step128(p[2])]
<1>1. Bits128 \in Nat
  BY Widths
<1>2. g \in [(1..Bits128) \X HalfState -> HalfState]
  BY StepExtend
<1>3. \A i \in 1..Bits128, e \in HalfState : g[<< i, e >>] = step128(e)
  OBVIOUS
<1> HIDE DEF g
<1>4. PICK f : LoopTurns(f, g, z, Bits128, HalfState)
  BY <1>1, <1>2, TurnsExist DEF LoopBody
<1>5. f \in [0..Bits128 -> HalfState] /\ f[0] = z /\ \A i \in 1..Bits128 : f[i] = g[<< i, f[i - 1] >>]
  BY <1>4 DEF LoopTurns
<1>6. ASSUME NEW i \in 0..Bits128
      PROVE  f[i] = IF i = 0 THEN z ELSE CHOOSE e \in { step128(h) : h \in {f[i - 1]} } : TRUE
  <2>1. CASE i = 0
    BY <1>5, <2>1
  <2>2. CASE i # 0
    <3>1. i \in 1..Bits128 /\ i - 1 \in 0..Bits128
      BY <1>1, <2>2
    <3>2. f[i] = step128(f[i - 1])
      BY <1>3, <1>5, <3>1
    <3>3. (CHOOSE e \in { step128(h) : h \in {f[i - 1]} } : TRUE) = step128(f[i - 1])
      OBVIOUS
    <3> QED BY <2>2, <3>2, <3>3
  <2> QED BY <2>1, <2>2
<1> QED BY <1>5, <1>6 DEF HalfTurns

\* Each turn is step128 of the one before, and keeps the types.
LEMMA HalfTurn ==
  ASSUME NEW z \in HalfState, NEW f, HalfTurns(f, z)
  PROVE  /\ f[0] = z
         /\ \A i \in 0..Bits128 : f[i] \in HalfState
         /\ \A i \in 0..(Bits128 - 1) : f[i + 1] = step128(f[i])
<1>1. Bits128 \in Nat
  BY Widths
<1>2. f[0] = z
  BY <1>1 DEF HalfTurns
<1>3. ASSUME NEW i \in 0..(Bits128 - 1) PROVE f[i + 1] = step128(f[i])
  <2>1. i + 1 \in 0..Bits128 /\ i + 1 # 0 /\ (i + 1) - 1 = i
    BY <1>1
  <2>2. f[i + 1] = CHOOSE e \in { step128(g) : g \in {f[(i + 1) - 1]} } : TRUE
    BY <2>1 DEF HalfTurns
  <2> QED BY <2>1, <2>2
<1>4. 0..Bits128 \subseteq {i \in 0..Bits128 : f[i] \in HalfState}
  <2> DEFINE S == {i \in 0..Bits128 : f[i] \in HalfState}
  <2>1. 0 \in S
    BY <1>1, <1>2
  <2>2. ASSUME NEW i \in 0..(Bits128 - 1), i \in S PROVE i + 1 \in S
    BY <1>1, <1>3, <2>2, StepExtend
  <2> HIDE DEF S
  <2>3. 0..Bits128 \subseteq S
    BY <1>1, <2>1, <2>2, InductionUpTo
  <2> QED BY <2>3 DEF S
<1> QED BY <1>2, <1>3, <1>4

\* The turns divide as long as the remainder is not below the divisor; the
\* weight, halved each time, bounds their number.
LEMMA HalfTurnsDivide ==
  ASSUME NEW z \in HalfState, NEW f, HalfTurns(f, z), NEW n \in uint128, Val128(n) # 0,
         NEW x \in Nat, Divides(ExtendState(z), x, Val128(n)),
         NEW i \in 0..Bits128, \A j \in 0..(i - 1) : gte128(f[j].resMod, n)
  PROVE  /\ Divides(ExtendState(f[i]), x, Val128(n))
         /\ Val128(f[i].adder) * 2^i < HalfModulus
<1> DEFINE y == Val128(n)
           Good(j) == Divides(ExtendState(f[j]), x, y) /\ Val128(f[j].adder) * 2^j < HalfModulus
           S == {j \in 0..i : Good(j)}
<1>0. y \in Nat \ {0} /\ i \in Nat /\ Bits128 \in Nat /\ HalfModulus \in Nat
  BY ExtendValue, Widths, BaseFacts
<1>1. 0 \in S
  <2>1. f[0] = z
    BY HalfTurn
  <2>2. Val128(z.adder) \in 0..(HalfModulus - 1)
    BY ExtendType, Val128Type
  <2>3. 2^0 = 1
    OBVIOUS
  <2>4. Val128(z.adder) * 2^0 < HalfModulus
    BY <1>0, <2>2, <2>3
  <2> QED BY <1>0, <2>1, <2>4
<1>2. ASSUME NEW j \in 0..(i - 1), j \in S PROVE j + 1 \in S
  <2> DEFINE e == ExtendState(f[j])  g == ExtendState(f[j + 1])
  <2>1. j \in 0..Bits128 /\ j + 1 \in 0..Bits128 /\ j \in 0..(Bits128 - 1) /\ j + 1 \in 0..i
    BY <1>0
  <2>2. f[j] \in HalfState /\ f[j + 1] \in HalfState /\ f[j + 1] = step128(f[j])
    BY <2>1, HalfTurn
  <2>3. e \in DivState /\ g = div_step(e)
        /\ Val(e.adder) = Val128(f[j].adder) /\ Val(g.adder) = Val128(f[j + 1].adder)
        /\ Val(e.resMod) = Val128(f[j].resMod)
    BY <2>2, StepExtend, ExtendType, ExtendValue
  <2>4. Val(e.resMod) >= y /\ Val(e.resMod) \in Nat /\ Val(e.adder) \in Nat /\ Val(g.adder) \in Nat
    <3>1. gte128(f[j].resMod, n)
      OBVIOUS
    <3> QED BY <2>2, <2>3, <3>1, ExtendType, ExtendValue, OrderOfHalves, OrderOfWords
  <2>5. Divides(e, x, y) /\ Val(e.adder) * 2^j < HalfModulus
    BY <1>2, <2>3
  <2>6. 2^j \in Nat /\ 2^(j + 1) = 2 * 2^j
    BY <2>1, Widths, PowersAssumption DEF Bits128, Bits256
  <2> HIDE DEF e, g, y
  <2>7. x = Val(e.resDiv) * y + Val(e.resMod) /\ \E k : AtBit(e, x, y, k)
    BY <1>0, <2>4, <2>5 DEF Divides
  <2>8. PICK k : AtBit(e, x, y, k)
    BY <2>7
  <2>9. /\ Val(e.adder) = 2 * Val(g.adder) \/ (Val(e.adder) = 1 /\ Val(g.adder) = 0)
        /\ Divides(g, x, y)
    BY <1>0, <2>3, <2>7, <2>8, StepNumeric
  <2>10. Val(g.adder) * 2^(j + 1) < HalfModulus
    <3> DEFINE p == Val(e.adder)  q == Val(g.adder)  t == 2^j
    <3>1. p \in Nat /\ q \in Nat /\ t \in Nat /\ p * t < HalfModulus /\ (p = 2 * q \/ q = 0)
          /\ 2^(j + 1) = 2 * t
      BY <2>4, <2>5, <2>6, <2>9
    <3> HIDE DEF p, q, t
    <3>2. q * (2 * t) = (2 * q) * t
      BY <3>1
    <3>3. q = 0 => q * (2 * t) = 0
      BY <3>1
    <3>4. p * t \in Nat
      BY <3>1, ProductNat
    <3>5. p = 2 * q => q * (2 * t) = p * t
      BY <3>2
    <3>6. q * (2 * t) = p * t \/ q * (2 * t) = 0
      BY <3>1, <3>3, <3>5
    <3>7. 0 < HalfModulus
      BY BaseFacts
    <3>8. q * (2 * t) < HalfModulus
      BY <3>1, <3>6, <3>7
    <3> QED BY <3>1, <3>8 DEF q
  <2> QED BY <2>1, <2>3, <2>9, <2>10 DEF g, y
<1>3. i \in S
  <2> HIDE DEF S
  <2>1. 0..i \subseteq S
    BY <1>0, <1>1, <1>2, InductionUpTo
  <2> QED BY <1>0, <2>1
<1> QED BY <1>3

\* The turn after which the loop of divmod128 is left.
LastTurn(f, n, i) == /\ ~gte128(f[i].resMod, n)
                     /\ \A j \in 0..(i - 1) : gte128(f[j].resMod, n)

\* There is such a turn among the first Bits128: the weight would be shifted out.
LEMMA LastTurnExists ==
  ASSUME NEW z \in HalfState, NEW f, HalfTurns(f, z), NEW n \in uint128, Val128(n) # 0,
         NEW x \in Nat, Divides(ExtendState(z), x, Val128(n))
  PROVE  \E i \in 0..Bits128 : LastTurn(f, n, i)
<1> DEFINE T == {i \in 0..Bits128 : ~gte128(f[i].resMod, n)}
<1>0. Bits128 \in 0..Bits128 /\ Bits128 \in Nat /\ Val128(n) \in Nat \ {0}
  BY Widths, ExtendValue
<1>1. T # {}
  <2> SUFFICES ASSUME T = {} PROVE FALSE
    OBVIOUS
  <2>1. \A j \in 0..Bits128 : gte128(f[j].resMod, n)
    OBVIOUS
  <2> DEFINE e == f[Bits128]  g == ExtendState(e)
  <2>2. Divides(g, x, Val128(n)) /\ Val128(e.adder) * 2^Bits128 < HalfModulus
    <3>1. \A j \in 0..(Bits128 - 1) : gte128(f[j].resMod, n)
      BY <1>0, <2>1
    <3> QED BY <1>0, <3>1, HalfTurnsDivide
  <2>3. e \in HalfState /\ gte128(e.resMod, n)
    BY <1>0, <2>1, HalfTurn
  <2> HIDE DEF e
  <2>4. /\ Val(g.adder) = Val128(e.adder) /\ Val128(e.adder) \in Nat /\ Val(g.resMod) >= Val128(n)
        /\ Val(g.resMod) \in Nat
    BY <2>3, ExtendType, ExtendValue, OrderOfHalves, OrderOfWords
  <2>5. Val128(e.adder) = 0
    <3> DEFINE p == Val128(e.adder)  h == HalfModulus
    <3>1. p \in Nat /\ h \in Nat \ {0} /\ p * h < h
      BY <2>2, <2>4, BasePowers, BaseFacts
    <3> HIDE DEF p, h
    <3>2. p # 0 => 1 * h <= p * h
      BY <3>1, ProductMonotone
    <3>3. p * h \in Nat
      BY <3>1, ProductNat
    <3> QED BY <3>1, <3>2, <3>3 DEF p
  <2> HIDE DEF g
  <2>6. PICK k : AtBit(g, x, Val128(n), k)
    BY <1>0, <2>2, <2>4 DEF Divides
  <2>7. k \in 0..Bits256 /\ Val(g.adder) = 2^k
    BY <2>6, Widths DEF AtBit
  <2> QED BY <2>4, <2>5, <2>7, PowerType
<1>2. PICK i \in T : \A j \in T : i <= j
  <2>1. T \subseteq Nat
    OBVIOUS
  <2> HIDE DEF T
  <2> QED BY <1>1, <2>1, LeastElement
<1>3. ASSUME NEW j \in 0..(i - 1) PROVE gte128(f[j].resMod, n)
  <2>1. j \in 0..Bits128 /\ j \in Nat /\ i \in Nat /\ j < i
    BY <1>0, <1>2
  <2>2. j \notin T
    <3> HIDE DEF T
    <3> QED BY <1>2, <2>1
  <2> QED BY <2>1, <2>2
<1> QED BY <1>2, <1>3 DEF LastTurn

\* divmod128 returns the quotient and the remainder.
LEMMA DivModHalf ==
  ASSUME NEW m \in uint128, NEW n \in uint128, ~zero128(n)
  PROVE  \A qr \in {divmod128(m, n)} : /\ qr \in uint128 \X uint128
                                       /\ Val128(qr[1]) = Val128(m) \div Val128(n)
                                       /\ Val128(qr[2]) = Val128(m) % Val128(n)
<1> DEFINE x == Val128(m)  y == Val128(n)
<1>0. /\ x \in Nat /\ y \in Nat \ {0} /\ y # 0 /\ (gt128(n, m) <=> y > x)
  BY Zero128Test, ExtendValue, Order128
<1>1. CASE gt128(n, m)
  <2>1. divmod128(m, n) = << Zero128, m >>
    BY <1>1 DEF divmod128
  <2>2. x = 0 * y + x /\ x \in 0..(y - 1) /\ 0 \in Nat
    BY <1>0, <1>1
  <2>3. x \div y = 0 /\ x % y = x
    <3> HIDE DEF x, y
    <3> QED BY <1>0, <2>2, QuotientUnique
  <2> QED BY <2>1, <2>3, Zero128Value
<1>2. CASE ~gt128(n, m)
  <2> DEFINE z == align128(m, n, bits128(m) - bits128(n))
             turn == CHOOSE f : HalfTurns(f, z)
             i == CHOOSE i1 \in 0..Bits128 : LastTurn(turn, n, i1)
             e == turn[i]  g == ExtendState(e)
  <2>1. divmod128(m, n) = << e.resDiv, e.resMod >>
    BY <1>2, Zenon DEF divmod128, HalfTurns, LastTurn
  <2>2. z \in HalfState /\ Divides(ExtendState(z), x, y)
    <3>1. z \in HalfState /\ ExtendState(z)
             = div_adjust(div_align(Extend(m), Extend(n), diff_bits(Extend(m), Extend(n))))
      BY <1>0, <1>2, AlignExtend
    <3>2. /\ Extend(m) \in uint256 /\ Extend(n) \in uint256 /\ Val(Extend(m)) = x /\ Val(Extend(n)) = y
          /\ ~gt256(Extend(n), Extend(m))
      BY <1>2, ExtendValue, OrderOfHalves
    <3>3. Divides(div_adjust(div_align(Extend(m), Extend(n), diff_bits(Extend(m), Extend(n)))),
                  Val(Extend(m)), Val(Extend(n)))
      BY <1>0, <3>2, AdjustNumeric
    <3> QED BY <3>1, <3>2, <3>3
  <2> HIDE DEF z, x
  <2>3. HalfTurns(turn, z)
    <3>1. \E f : HalfTurns(f, z)
      BY <2>2, HalfTurnsExist
    <3> QED BY <3>1, Zenon
  <2> HIDE DEF turn
  <2>4. i \in 0..Bits128 /\ LastTurn(turn, n, i)
    <3>1. \E i1 \in 0..Bits128 : LastTurn(turn, n, i1)
      BY <1>0, <2>2, <2>3, LastTurnExists
    <3> QED BY <3>1, Zenon
  <2> HIDE DEF i
  <2>5. Divides(g, x, y)
    <3>1. \A j \in 0..(i - 1) : gte128(turn[j].resMod, n)
      BY <2>4 DEF LastTurn
    <3> QED BY <1>0, <2>2, <2>3, <2>4, <3>1, HalfTurnsDivide
  <2>6. e \in HalfState /\ ~gte128(e.resMod, n)
    BY <2>2, <2>3, <2>4, HalfTurn DEF LastTurn
  <2> HIDE DEF e
  <2>7. /\ Val(g.resDiv) = Val128(e.resDiv) /\ Val(g.resMod) = Val128(e.resMod)
        /\ Val128(e.resDiv) \in Nat /\ Val128(e.resMod) \in Nat /\ Val128(e.resMod) < y
        /\ e.resDiv \in uint128 /\ e.resMod \in uint128
    BY <2>6, ExtendType, ExtendValue, OrderOfHalves, OrderOfWords
  <2> HIDE DEF g
  <2>8. x = Val128(e.resDiv) * y + Val128(e.resMod) /\ Val128(e.resMod) \in 0..(y - 1)
    BY <1>0, <2>5, <2>7 DEF Divides
  <2>9. Val128(e.resDiv) = x \div y /\ Val128(e.resMod) = x % y
    <3> HIDE DEF y
    <3> QED BY <1>0, <2>7, <2>8, QuotientUnique
  <2>10. \A qr \in {<< e.resDiv, e.resMod >>} : qr[1] = e.resDiv /\ qr[2] = e.resMod
    OBVIOUS
  <2> HIDE DEF y
  <2> QED BY <2>1, <2>7, <2>9, <2>10 DEF x, y
<1> QED BY <1>1, <1>2

-----------------------------------------------------------------------------
(* Numerals: dividing by the radix B until nothing is left.                *)

\* x[i] is what is left of v after i divisions and c[i] the remainder of the last.
Digits(x, c, N, B, v) ==
    /\ x \in [0..N -> Nat] /\ c \in [1..N -> Nat] /\ x[0] = v
    /\ \A i \in 1..N : x[i] = x[i - 1] \div B /\ c[i] = x[i - 1] % B

\* Nothing is left for the first time after n divisions.
Ends(x, n, N) == n \in 1..N /\ x[n] = 0 /\ \A j \in 1..(n - 1) : x[j] # 0

\* The powers of B up to the one of L.
RadixPowers(B, L) == B^0 = 1 /\ \A n \in 0..(L - 1) : B^n \in Nat /\ B^(n + 1) = B * B^n

\* Each division splits off the lowest digit.
LEMMA DigitStep ==
  ASSUME NEW N \in Nat, NEW B \in Nat \ {0}, NEW v \in Nat, NEW x, NEW c, Digits(x, c, N, B, v),
         NEW i \in 1..N
  PROVE  /\ x[i] \in Nat /\ x[i - 1] \in Nat /\ c[i] \in 0..(B - 1)
         /\ x[i - 1] = x[i] * B + c[i]
<1>1. i - 1 \in 0..N /\ i \in 0..N
  OBVIOUS
<1>2. x[i] \in Nat /\ x[i - 1] \in Nat /\ x[i] = x[i - 1] \div B /\ c[i] = x[i - 1] % B
  BY <1>1 DEF Digits
<1> DEFINE y == x[i - 1]
<1>3. y \in Nat
  BY <1>2
<1>4. y % B \in 0..(B - 1) /\ y = (y \div B) * B + (y % B)
  <2> HIDE DEF y
  <2> QED BY <1>3, QuotientFacts
<1> QED BY <1>2, <1>4

\* The division comes to an end: a number halves at least.
LEMMA DigitsEnd ==
  ASSUME NEW N \in 1..Bits256, NEW B \in Nat, B >= 2, NEW v \in Nat, v < 2^N,
         NEW x, NEW c, Digits(x, c, N, B, v)
  PROVE  \E n : Ends(x, n, N)
<1>0. N \in Nat /\ B \in Nat \ {0} /\ N \in 0..Bits256
  BY Widths
<1> DEFINE S == {i \in 0..N : x[i] * 2^i <= v}
<1>1. 0 \in S
  <2>1. x[0] = v /\ 2^0 = 1
    BY DEF Digits
  <2> QED BY <1>0, <2>1
<1>2. ASSUME NEW i \in 0..(N - 1), i \in S PROVE i + 1 \in S
  <2>1. i + 1 \in 1..N /\ (i + 1) - 1 = i /\ i \in 0..(Bits256 - 1) /\ i + 1 \in 0..N
    BY <1>0, Widths
  <2>2. 2^i \in Nat /\ 2^(i + 1) = 2 * 2^i
    BY <2>1, PowersAssumption
  <2>3. x[i + 1] \in Nat /\ x[i] \in Nat /\ c[i + 1] \in 0..(B - 1) /\ x[i] = x[i + 1] * B + c[i + 1]
    BY <1>0, <2>1, DigitStep
  <2> DEFINE y == x[i + 1]  t == 2^i  z == x[i]
  <2>4. y \in Nat /\ t \in Nat /\ z \in Nat /\ z * t <= v
    BY <1>2, <2>2, <2>3
  <2>5. y * 2 <= z
    <3>1. 2 * y <= B * y /\ B * y = y * B /\ y * B \in Nat /\ c[i + 1] \in Nat
      BY <1>0, <2>3, ProductMonotone, ProductNat
    <3> QED BY <2>3, <3>1
  <2> HIDE DEF y, t, z
  <2>6. (y * 2) * t <= z * t /\ (y * 2) * t = y * (2 * t) /\ (y * 2) * t \in Nat /\ z * t \in Nat
    BY <2>4, <2>5, ProductMonotone, ProductNat
  <2>7. y * (2 * t) <= v
    BY <2>4, <2>6
  <2> QED BY <2>1, <2>2, <2>7 DEF y, t
<1>3. N \in S
  <2> HIDE DEF S
  <2>1. 0..N \subseteq S
    BY <1>0, <1>1, <1>2, InductionUpTo
  <2> QED BY <1>0, <2>1
<1>4. x[N] = 0
  <2> DEFINE p == x[N]  h == 2^N
  <2>1. p \in Nat /\ h \in Nat \ {0} /\ p * h <= v /\ v < h
    BY <1>0, <1>3, PowerType DEF Digits
  <2> HIDE DEF p, h
  <2>2. p # 0 => 1 * h <= p * h
    BY <2>1, ProductMonotone
  <2>3. p * h \in Nat
    BY <2>1, ProductNat
  <2>4. p = 0
    BY <2>1, <2>2, <2>3
  <2> QED BY <2>4 DEF p
<1> DEFINE T == {i \in 1..N : x[i] = 0}
<1>5. PICK n \in T : \A j \in T : n <= j
  <2>1. T \subseteq Nat /\ N \in T
    BY <1>4
  <2> HIDE DEF T
  <2> QED BY <2>1, LeastElement
<1>6. ASSUME NEW j \in 1..(n - 1) PROVE x[j] # 0
  <2>1. j \in 1..N /\ j < n /\ n \in Nat /\ j \in Nat
    BY <1>5
  <2>2. j \notin T
    <3> HIDE DEF T
    <3> QED BY <1>5, <2>1
  <2> QED BY <2>1, <2>2
<1> QED BY <1>5, <1>6 DEF Ends

\* The powers are positive and grow.
LEMMA RadixPowersGrow ==
  ASSUME NEW B \in Nat, B >= 2, NEW L \in Nat, RadixPowers(B, L)
  PROVE  /\ \A i \in 0..L : B^i \in Nat \ {0} /\ B^i <= B^L
         /\ \A i \in 0..(L - 1) : B^(i + 1) = B * B^i
<1>1. \A i \in 0..(L - 1) : B^i \in Nat /\ B^(i + 1) = B * B^i
  BY DEF RadixPowers
<1> DEFINE S == {i \in 0..L : B^i \in Nat \ {0}}
<1>2. 0..L \subseteq S
  <2>1. 0 \in S
    <3>1. B^0 = 1
      BY DEF RadixPowers
    <3> QED BY <3>1
  <2>2. ASSUME NEW i \in 0..(L - 1), i \in S PROVE i + 1 \in S
    <3> DEFINE t == B^i
    <3>1. t \in Nat \ {0} /\ B^(i + 1) = B * t /\ i + 1 \in 0..L
      BY <1>1, <2>2
    <3> HIDE DEF t
    <3>2. B * t \in Nat /\ 2 * t <= B * t
      BY <3>1, ProductMonotone, ProductNat
    <3>3. B * t \in Nat \ {0}
      BY <3>1, <3>2
    <3> QED BY <3>1, <3>3
  <2> HIDE DEF S
  <2> QED BY <2>1, <2>2, InductionUpTo
<1>3. \A i \in 0..L : B^i \in Nat \ {0}
  BY <1>2
<1> DEFINE R == {j \in 0..L : B^(L - j) <= B^L}
<1>4. 0..L \subseteq R
  <2>1. 0 \in R
    <3>1. L - 0 = L /\ L \in 0..L
      OBVIOUS
    <3>2. B^L \in Nat
      BY <1>3, <3>1
    <3> QED BY <3>1, <3>2
  <2>2. ASSUME NEW j \in 0..(L - 1), j \in R PROVE j + 1 \in R
    <3> DEFINE i == L - (j + 1)  t == B^i  u == B^L
    <3>1. i \in 0..(L - 1) /\ i + 1 = L - j /\ j + 1 \in 0..L /\ i \in 0..L /\ L \in 0..L
      OBVIOUS
    <3>2. t \in Nat \ {0} /\ u \in Nat /\ B^(i + 1) = B * t /\ B^(i + 1) <= u
      BY <1>1, <1>3, <2>2, <3>1
    <3> HIDE DEF t, u
    <3>3. 2 * t <= B * t /\ B * t \in Nat
      BY <3>2, ProductMonotone, ProductNat
    <3>4. t <= u
      BY <3>2, <3>3
    <3> QED BY <3>1, <3>4 DEF t, u
  <2> HIDE DEF R
  <2> QED BY <2>1, <2>2, InductionUpTo
<1>5. ASSUME NEW i \in 0..L PROVE B^i <= B^L
  <2>1. L - i \in 0..L /\ L - (L - i) = i
    OBVIOUS
  <2>2. L - i \in R
    BY <1>4, <2>1
  <2> QED BY <2>1, <2>2
<1> QED BY <1>1, <1>3, <1>5

\* What is left after i divisions is the quotient by the power of the radix.
LEMMA DigitsQuotient ==
  ASSUME NEW N \in Nat, NEW B \in Nat, B >= 2, NEW v \in Nat, NEW x, NEW c, Digits(x, c, N, B, v),
         NEW L \in Nat, RadixPowers(B, L), NEW n \in 0..N, n <= L
  PROVE  x[n] = v \div B^n
<1> DEFINE S == {i \in 0..n : \E t \in 0..(B^i - 1) : v = x[i] * B^i + t}
<1>0. \A i \in 0..L : B^i \in Nat \ {0}
  BY RadixPowersGrow
<1>1. 0 \in S
  <2>1. x[0] = v /\ B^0 = 1
    BY DEF Digits, RadixPowers
  <2>2. v = v * 1 + 0 /\ 0 \in 0..(1 - 1) /\ 0 \in 0..n
    OBVIOUS
  <2> QED BY <2>1, <2>2
<1>2. ASSUME NEW i \in 0..(n - 1), i \in S PROVE i + 1 \in S
  <2>1. i \in 0..L /\ i \in 0..(L - 1) /\ i + 1 \in 1..N /\ (i + 1) - 1 = i /\ i + 1 \in 0..n
    OBVIOUS
  <2>2. PICK t \in 0..(B^i - 1) : v = x[i] * B^i + t
    BY <1>2
  <2>3. B^i \in Nat \ {0} /\ B^(i + 1) = B * B^i
    BY <1>0, <2>1, RadixPowersGrow
  <2>4. x[i + 1] \in Nat /\ x[i] \in Nat /\ c[i + 1] \in 0..(B - 1) /\ x[i] = x[i + 1] * B + c[i + 1]
    BY <2>1, DigitStep
  <2> DEFINE p == B^i  y == x[i + 1]  k == c[i + 1]  s == k * p + t
  <2>5. p \in Nat \ {0} /\ y \in Nat /\ k \in 0..(B - 1) /\ t \in 0..(p - 1) /\ v = (y * B + k) * p + t
    BY <2>2, <2>3, <2>4
  <2>6. B^(i + 1) = B * p
    BY <2>3
  <2> HIDE DEF p, y, k
  <2>7. v = y * (B * p) + s
    BY <2>5
  <2>8. s \in 0..(B * p - 1)
    <3>1. (k + 1) * p <= B * p /\ (k + 1) * p = k * p + p /\ k * p \in Nat /\ B * p \in Nat
      BY <2>5, ProductMonotone, ProductSum, ProductNat
    <3> QED BY <2>5, <3>1
  <2> HIDE DEF s
  <2>9. \E u \in 0..(B^(i + 1) - 1) : v = y * B^(i + 1) + u
    BY <2>6, <2>7, <2>8
  <2> QED BY <2>1, <2>9 DEF y
<1>3. n \in S
  <2> HIDE DEF S
  <2>1. 0..n \subseteq S
    BY <1>1, <1>2, InductionUpTo
  <2> QED BY <2>1
<1>4. PICK t \in 0..(B^n - 1) : v = x[n] * B^n + t
  BY <1>3
<1> DEFINE p == B^n  y == x[n]
<1>5. p \in Nat \ {0} /\ y \in Nat /\ t \in 0..(p - 1) /\ v = y * p + t
  BY <1>0, <1>4 DEF Digits
<1> HIDE DEF p, y
<1>6. v \div p = y
  BY <1>5, QuotientUnique
<1> QED BY <1>6 DEF p, y

\* f holds the values of the first digits of s.
Values(f, s, B) == f = [i \in 0..Len(s) |-> IF i = 0 THEN 0 ELSE f[i - 1] * B + s[i]]

\* They exist, for every sequence of digits.
LEMMA ValuesExist ==
  ASSUME NEW s \in Seq(Nat), NEW B \in Nat
  PROVE  \E f : Values(f, s, B)
<1> DEFINE M == Len(s)  g == [p \in (1..M) \X Nat |-> p[2] * B + s[p[1]]]
<1>1. M \in Nat /\ \A i \in 1..M : s[i] \in Nat
  OBVIOUS
<1>2. g \in [(1..M) \X Nat -> Nat]
  <2>1. \A p \in (1..M) \X Nat : p[2] * B + s[p[1]] \in Nat
    <3> TAKE p \in (1..M) \X Nat
    <3>1. p[1] \in 1..M /\ p[2] \in Nat
      OBVIOUS
    <3>2. s[p[1]] \in Nat /\ p[2] * B \in Nat
      BY <1>1, <3>1, ProductNat
    <3> QED BY <3>2
  <2> QED BY <2>1
<1>3. \A i \in 1..M, y \in Nat : g[<< i, y >>] = y * B + s[i]
  OBVIOUS
<1> HIDE DEF g
<1>4. PICK f : LoopTurns(f, g, 0, M, Nat)
  <2> HIDE DEF M
  <2> QED BY <1>1, <1>2, TurnsExist DEF LoopBody
<1>5. f \in [0..M -> Nat] /\ f[0] = 0 /\ \A i \in 1..M : f[i] = g[<< i, f[i - 1] >>]
  BY <1>4 DEF LoopTurns
<1>6. ASSUME NEW i \in 0..M PROVE f[i] = IF i = 0 THEN 0 ELSE f[i - 1] * B + s[i]
  <2>1. CASE i = 0
    BY <1>5, <2>1
  <2>2. CASE i # 0
    <3>1. i \in 1..M /\ i - 1 \in 0..M
      BY <1>1, <2>2
    <3>2. f[i - 1] \in Nat
      BY <1>5, <3>1
    <3>3. f[i] = f[i - 1] * B + s[i]
      BY <1>3, <1>5, <3>1, <3>2
    <3> QED BY <2>2, <3>3
  <2> QED BY <2>1, <2>2
<1> QED BY <1>5, <1>6 DEF Values

\* The remainders, the last one first, are the digits of the number.
Reversed(c, n) == [i \in 1..n |-> c[n + 1 - i]]

\* Read from the last one, the remainders give the number back.
LEMMA DigitsValue ==
  ASSUME NEW N \in Nat, NEW B \in Nat \ {0}, NEW v \in Nat, NEW x, NEW c, Digits(x, c, N, B, v),
         NEW n, Ends(x, n, N)
  PROVE  /\ Reversed(c, n) \in Seq(Nat) /\ Len(Reversed(c, n)) = n
         /\ ValueOf(Reversed(c, n), B) = v
<1> DEFINE s == Reversed(c, n)
<1>1. n \in 1..N /\ n \in Nat /\ x[n] = 0 /\ x[0] = v /\ c \in [1..N -> Nat]
  BY DEF Ends, Digits
<1>2. \A i \in 1..n : n + 1 - i \in 1..N /\ n + 1 - i \in 1..n
  BY <1>1
<1>3. s \in [1..n -> Nat] /\ \A i \in 1..n : s[i] = c[n + 1 - i]
  BY <1>1, <1>2 DEF Reversed
<1> HIDE DEF s
<1>4. s \in Seq(Nat) /\ Len(s) = n
  BY <1>1, <1>3
<1> DEFINE val == CHOOSE f : Values(f, s, B)
<1>5. ValueOf(s, B) = val[Len(s)]
  BY Zenon DEF ValueOf, Values
<1>6. Values(val, s, B)
  <2>1. \E f : Values(f, s, B)
    BY <1>4, ValuesExist
  <2> QED BY <2>1, Zenon
<1> HIDE DEF val
<1>7. val[0] = 0 /\ \A i \in 1..n : val[i] = val[i - 1] * B + s[i]
  <2>1. val = [i \in 0..n |-> IF i = 0 THEN 0 ELSE val[i - 1] * B + s[i]]
    BY <1>4, <1>6 DEF Values
  <2>2. \A i \in 0..n : val[i] = IF i = 0 THEN 0 ELSE val[i - 1] * B + s[i]
    BY <2>1
  <2>3. 0 \in 0..n /\ \A i \in 1..n : i \in 0..n /\ i # 0
    BY <1>1
  <2> QED BY <2>2, <2>3
<1> DEFINE S == {i \in 0..n : val[i] = x[n - i]}
<1>8. 0 \in S
  BY <1>1, <1>7
<1>9. ASSUME NEW i \in 0..(n - 1), i \in S PROVE i + 1 \in S
  <2>1. /\ n - i \in 1..N /\ (n - i) - 1 = n - (i + 1) /\ i + 1 \in 1..n /\ i + 1 \in 0..n
        /\ (i + 1) - 1 = i /\ n + 1 - (i + 1) = n - i
    BY <1>1
  <2>2. x[(n - i) - 1] = x[n - i] * B + c[n - i]
    BY <2>1, DigitStep
  <2>3. val[i + 1] = val[i] * B + s[i + 1] /\ s[i + 1] = c[n - i] /\ val[i] = x[n - i]
    BY <1>3, <1>7, <1>9, <2>1
  <2> QED BY <2>1, <2>2, <2>3
<1>10. n \in S
  <2> HIDE DEF S
  <2>1. 0..n \subseteq S
    BY <1>1, <1>8, <1>9, InductionUpTo
  <2> QED BY <1>1, <2>1
<1>11. val[n] = x[n - n] /\ n - n = 0
  BY <1>1, <1>10
<1> QED BY <1>1, <1>4, <1>5, <1>11 DEF s

\* What tostring128 and tostring256 make of the digits: the numeral of the
\* number, or nothing when it does not fit.
LEMMA NumeralWritten ==
  ASSUME NEW N \in Nat, N <= Bits256, NEW B \in 2..16, NEW v \in Nat, NEW x, NEW c,
         Digits(x, c, N, B, v), NEW n, Ends(x, n, N),
         NEW L \in Nat, RadixPowers(B, L),
         NEW q, \A i \in 1..n : q[i][2] = c[i]
  PROVE  WritesNumeral(Numeral(q, n, L), v, B, L)
<1> DEFINE w == Numeral(q, n, L)  s == Reversed(c, n)
<1>0. /\ B \in Nat /\ B >= 2 /\ B \in Nat \ {0}
      /\ n \in 1..N /\ n \in Nat /\ n >= 1 /\ n \in 0..N /\ x[n] = 0 /\ \A j \in 1..(n - 1) : x[j] # 0
  BY DEF Ends
<1>1. s \in Seq(Nat) /\ Len(s) = n /\ ValueOf(s, B) = v
  BY <1>0, DigitsValue
<1>2. [i \in 1..n |-> q[n + 1 - i][2]] = s
  <2>1. \A i \in 1..n : n + 1 - i \in 1..n
    BY <1>0
  <2>2. \A i \in 1..n : q[n + 1 - i][2] = c[n + 1 - i]
    BY <2>1
  <2> QED BY <2>2 DEF Reversed
<1>3. w = IF n - 1 > LastOffset(L) THEN Refused ELSE [ok |-> TRUE, digits |-> s, nul |-> n]
  BY <1>2 DEF Numeral
<1>4. n - 1 > LastOffset(L) <=> L # 0 /\ n > L
  <2>1. CASE L = 0
    <3>1. LastOffset(L) = U32Max /\ U32Max \in Nat /\ Bits256 <= U32Max /\ Bits256 \in Nat
      BY <2>1, U32MaxAssumption, Widths DEF LastOffset
    <3> HIDE DEF U32Max
    <3> QED BY <1>0, <2>1, <3>1
  <2>2. CASE L # 0
    <3>1. LastOffset(L) = L - 1
      BY <2>2 DEF LastOffset
    <3> QED BY <1>0, <2>2, <3>1
  <2> QED BY <2>1, <2>2
<1>5. Len(s) > 1 => s[1] # 0
  <2> HAVE Len(s) > 1
  <2>1. n > 1 /\ n - 1 \in 1..(n - 1) /\ 1 \in 1..n /\ n + 1 - 1 = n
    BY <1>0, <1>1
  <2>2. s[1] = c[n]
    BY <2>1 DEF Reversed
  <2>3. x[n - 1] = x[n] * B + c[n] /\ c[n] \in Nat
    <3>1. n \in 1..N /\ B \in Nat \ {0}
      BY <1>0
    <3>2. c[n] \in 0..(B - 1) /\ x[n - 1] = x[n] * B + c[n]
      BY <3>1, DigitStep
    <3> QED BY <3>2
  <2>4. x[n] * B = 0
    BY <1>0
  <2>5. x[n - 1] = c[n]
    BY <2>3, <2>4
  <2> QED BY <1>0, <2>1, <2>2, <2>5
\* The numeral has at most L digits exactly when the number is below B^L.
<1>6. L # 0 => (n <= L <=> v \div B^L = 0)
  <2> HAVE L # 0
  <2>0. L \in 0..L
    OBVIOUS
  <2>p. B^L \in Nat \ {0}
    BY <1>0, <2>0, RadixPowersGrow
  <2>1. CASE n <= L
    <3>1. v \div B^n = 0
      BY <1>0, <2>1, DigitsQuotient
    <3>2. n \in 0..L
      BY <1>0, <2>1
    <3>3. B^n \in Nat \ {0} /\ B^n <= B^L
      BY <1>0, <3>2, RadixPowersGrow
    <3> DEFINE p == B^n  r1 == B^L
    <3>4. p \in Nat \ {0} /\ r1 \in Nat \ {0} /\ p <= r1 /\ v \div p = 0
      BY <2>p, <3>1, <3>3
    <3> HIDE DEF p, r1
    <3>5. v % p \in 0..(p - 1) /\ v = (v \div p) * p + (v % p)
      BY <3>4, QuotientFacts
    <3>6. (v \div p) * p = 0
      BY <3>4
    <3>7. v \in 0..(r1 - 1)
      BY <3>4, <3>5, <3>6
    <3>8. v = 0 * r1 + v
      BY <3>4
    <3>9. v \div r1 = 0
      BY <3>4, <3>7, <3>8, QuotientUnique
    <3> QED BY <2>1, <3>9 DEF r1
  <2>2. CASE n > L
    <3>1. L \in 0..N /\ L \in 1..(n - 1)
      BY <1>0, <2>2
    <3>2. x[L] = v \div B^L
      <4>1. L <= L
        OBVIOUS
      <4> QED BY <1>0, <3>1, <4>1, DigitsQuotient
    <3>3. x[L] # 0
      BY <1>0, <3>1
    <3> QED BY <1>0, <2>2, <3>2, <3>3
  <2> QED BY <1>0, <2>1, <2>2
<1> HIDE DEF s
<1>7. CASE L # 0 /\ n > L
  <2>1. w.ok = FALSE
    BY <1>3, <1>4, <1>7 DEF Refused
  <2>2. ~(L = 0 \/ v \div B^L = 0)
    BY <1>0, <1>6, <1>7
  <2> HIDE DEF w
  <2> QED BY <2>1, <2>2 DEF WritesNumeral, w
<1>8. CASE ~(L # 0 /\ n > L)
  <2>1. w.ok = TRUE /\ w.digits = s /\ w.nul = n
    BY <1>3, <1>4, <1>8
  <2>2. L = 0 \/ v \div B^L = 0
    BY <1>0, <1>6, <1>8
  <2>3. L > 0 => n <= L
    BY <1>0, <1>8
  <2>4. Len(s) > 1 => s[1] # 0
    BY <1>5
  <2> HIDE DEF w
  <2> QED BY <1>1, <2>1, <2>2, <2>3, <2>4 DEF WritesNumeral, w
<1> QED BY <1>7, <1>8

\* f holds quotient and remainder of repeated divisions dm of words in W.
Divisions(f, dm, z, N, W) ==
    f[0] = z /\ \A i \in 1..N : f[i - 1][1] \in W => f[i] = dm[f[i - 1][1]]

\* Quotients and remainders of any number of divisions exist.
LEMMA DivisionsExist ==
  ASSUME NEW N \in Nat, NEW W, NEW dm \in [W -> W \X W], NEW z \in W \X W
  PROVE  \E f \in [0..N -> W \X W] : Divisions(f, dm, z, N, W)
<1> DEFINE T == W \X W  g == [p \in (1..N) \X T |-> dm[p[2][1]]]
<1>1. g \in [(1..N) \X T -> T]
  OBVIOUS
<1>2. \A i \in 1..N, e \in T : g[<< i, e >>] = dm[e[1]]
  OBVIOUS
<1>z. z \in T
  OBVIOUS
<1> HIDE DEF g, T
<1>3. PICK f : LoopTurns(f, g, z, N, T)
  BY <1>1, <1>z, TurnsExist DEF LoopBody
<1>4. f \in [0..N -> T] /\ f[0] = z /\ \A i \in 1..N : f[i] = g[<< i, f[i - 1] >>]
  BY <1>3 DEF LoopTurns
<1>5. ASSUME NEW i \in 1..N PROVE f[i] = dm[f[i - 1][1]]
  <2>1. i - 1 \in 0..N
    OBVIOUS
  <2> QED BY <1>2, <1>4, <2>1
<1> QED BY <1>4, <1>5 DEF Divisions, T

\* When dm divides the values by B, the values are those of the digits.
DividesBy(dm, va, W, B) ==
    /\ va \in [W -> Nat]
    /\ \A w \in W : va[dm[w][1]] = va[w] \div B /\ va[dm[w][2]] = va[w] % B

\* What is left after each division, and its remainder, as numbers.
Rests(f, va, N) == [i \in 0..N |-> va[f[i][1]]]
Remainders(f, va, N) == [i \in 1..N |-> va[f[i][2]]]

\* Then quotients and remainders stay words, and their values are rests and digits.
LEMMA DivisionsDigits ==
  ASSUME NEW N \in Nat, NEW W, NEW dm \in [W -> W \X W], NEW z \in W \X W,
         NEW B, NEW va, DividesBy(dm, va, W, B), NEW f, Divisions(f, dm, z, N, W)
  PROVE  /\ \A i \in 0..N : f[i] \in W \X W
         /\ Digits(Rests(f, va, N), Remainders(f, va, N), N, B, va[z[1]])
<1> DEFINE S == {i \in 0..N : f[i] \in W \X W}
<1>1. 0 \in S
  BY DEF Divisions
<1>2. ASSUME NEW i \in 0..(N - 1), i \in S PROVE i + 1 \in S
  <2>1. i + 1 \in 1..N /\ (i + 1) - 1 = i /\ i + 1 \in 0..N
    OBVIOUS
  <2>2. f[i][1] \in W
    BY <1>2
  <2>3. f[i + 1] = dm[f[i][1]]
    BY <2>1, <2>2 DEF Divisions
  <2>4. dm[f[i][1]] \in W \X W
    BY <2>2
  <2> QED BY <2>1, <2>3, <2>4
<1>3. 0..N \subseteq S
  <2> HIDE DEF S
  <2> QED BY <1>1, <1>2, InductionUpTo
<1>4. \A i \in 0..N : f[i] \in W \X W /\ f[i][1] \in W /\ f[i][2] \in W
  BY <1>3
<1> DEFINE x == [i \in 0..N |-> va[f[i][1]]]  c == [i \in 1..N |-> va[f[i][2]]]
<1>5. x \in [0..N -> Nat] /\ c \in [1..N -> Nat]
  <2>1. \A w \in W : va[w] \in Nat
    BY DEF DividesBy
  <2>2. \A i \in 0..N : va[f[i][1]] \in Nat
    BY <1>4, <2>1
  <2>3. \A i \in 1..N : i \in 0..N
    OBVIOUS
  <2>4. \A i \in 1..N : va[f[i][2]] \in Nat
    BY <1>4, <2>1, <2>3
  <2> QED BY <2>2, <2>4
<1>6. x[0] = va[z[1]]
  <2>1. f[0] = z /\ 0 \in 0..N
    BY DEF Divisions
  <2> QED BY <2>1
<1>7. ASSUME NEW i \in 1..N PROVE x[i] = x[i - 1] \div B /\ c[i] = x[i - 1] % B
  <2>1. i - 1 \in 0..N /\ i \in 0..N
    OBVIOUS
  <2>2. f[i - 1][1] \in W
    BY <1>4, <2>1
  <2>3. f[i] = dm[f[i - 1][1]]
    BY <2>2 DEF Divisions
  <2>4. va[f[i][1]] = va[f[i - 1][1]] \div B /\ va[f[i][2]] = va[f[i - 1][1]] % B
    BY <2>2, <2>3 DEF DividesBy
  <2>5. x[i] = va[f[i][1]] /\ x[i - 1] = va[f[i - 1][1]] /\ c[i] = va[f[i][2]]
    BY <2>1
  <2> QED BY <2>4, <2>5
<1> HIDE DEF x, c
<1>8. Digits(x, c, N, B, va[z[1]])
  BY <1>5, <1>6, <1>7 DEF Digits
<1> QED BY <1>4, <1>8 DEF x, c, Rests, Remainders

\* The divisor of the numerals.
LEMMA RadixWord ==
  ASSUME NEW B \in 2..16, B < Base
  PROVE  /\ << 0, B >> \in uint128 /\ Val128(<< 0, B >>) = B /\ ~zero128(<< 0, B >>)
         /\ << Zero128, << 0, B >> >> \in uint256 /\ Val(<< Zero128, << 0, B >> >>) = B
         /\ ~zero256(<< Zero128, << 0, B >> >>)
<1>1. 0 \in uint64 /\ B \in uint64 /\ B \in Nat /\ B # 0
  BY BaseFacts DEF uint64
<1>2. << 0, B >> \in uint128
  BY <1>1 DEF uint128
<1>3. Val128(<< 0, B >>) = B
  <2>1. 0 * Base + B = B
    BY <1>1, BaseFacts
  <2> QED BY <2>1, Val128Pair
<1>4. << Zero128, << 0, B >> >> \in uint256 /\ Val(<< Zero128, << 0, B >> >>) = B
  BY <1>2, <1>3, ExtendValue DEF Extend
<1> QED BY <1>1, <1>2, <1>3, <1>4, Zero128Test, Zero256Test

\* A value below Base is the low limb.
LEMMA LowLimb128 == ASSUME NEW n \in uint128, Val128(n) < Base PROVE LOWER(n) = Val128(n)
<1> DEFINE u == UPPER(n)  w == LOWER(n)
<1>1. u \in Nat /\ w \in Nat /\ Val128(n) = u * Base + w /\ Base \in Nat \ {0}
  BY Pair128, BaseFacts DEF Val128
<1> HIDE DEF u, w
<1>2. u * Base \in Nat /\ (u # 0 => 1 * Base <= u * Base)
  BY <1>1, ProductNat, ProductMonotone
<1>3. u = 0
  BY <1>1, <1>2
<1>4. u * Base = 0
  BY <1>1, <1>3
<1> QED BY <1>1, <1>4 DEF w

\* The same for a word.
LEMMA LowLimb256 == ASSUME NEW n \in uint256, Val(n) < Base PROVE LOWER(LOWER(n)) = Val(n)
<1> DEFINE x == Val(n)  w == << 0, x >>
<1>1. x \in Nat /\ x \in uint64 /\ 0 \in uint64 /\ Base \in Nat
  BY ValType, ModulusType, BaseFacts DEF uint64
<1>2. w \in uint128 /\ Val128(w) = x
  <2> HIDE DEF x
  <2>1. 0 * Base + x = x
    BY <1>1
  <2> QED BY <1>1, <2>1, Val128Pair DEF uint128
<1>3. n = Extend(w)
  <2> HIDE DEF w
  <2> QED BY <1>2, ExtendValue, SameValue
<1> QED BY <1>3 DEF Extend, LOWER

\* The divisions of tostring256 write the numeral of the number, or refuse.
LEMMA ToString256 ==
  ASSUME NEW m \in uint256, NEW B \in 2..16, B < Base, NEW L \in Nat, RadixPowers(B, L)
  PROVE  WritesNumeral(tostring256(m, B, L), Val(m), B, L)
<1> DEFINE N == Bits256  D == << Zero128, << 0, B >> >>
           dm == [y \in uint256 |-> divmod256(y, D)]
           va == [y \in uint256 |-> Val(y)]
           z == << m, Zero256 >>
           E(f) == f = [i \in 0..N |-> IF i = 0 THEN z
                          ELSE CHOOSE e \in { divmod256(p[1], D) : p \in {f[i - 1]} } : TRUE]
<1>0. N \in Nat /\ N \in 1..Bits256 /\ N <= Bits256 /\ B \in Nat /\ B >= 2 /\ B \in Nat \ {0}
  BY Widths DEF Bits256
<1>1. \A y \in uint256 : divmod256(y, D) \in uint256 \X uint256
                       /\ Val(divmod256(y, D)[1]) = Val(y) \div B
                       /\ Val(divmod256(y, D)[2]) = Val(y) % B
  <2> TAKE y \in uint256
  <2>1. D \in uint256 /\ ~zero256(D) /\ Val(D) = B
    BY RadixWord
  <2> HIDE DEF D
  <2>2. \A qr \in {divmod256(y, D)} : /\ qr \in uint256 \X uint256
                                      /\ Val(qr[1]) = Val(y) \div Val(D)
                                      /\ Val(qr[2]) = Val(y) % Val(D)
    BY <2>1, DivMod
  <2> QED BY <2>1, <2>2
<1>2. z \in uint256 \X uint256 /\ z[1] = m
  BY Zero256Value
<1> HIDE DEF D, z
<1>3. dm \in [uint256 -> uint256 \X uint256] /\ DividesBy(dm, va, uint256, B)
  <2>1. \A y \in uint256 : Val(y) \in Nat
    BY ValType, ModulusType
  <2>2. \A y \in uint256 : dm[y] = divmod256(y, D) /\ va[y] = Val(y)
    OBVIOUS
  <2>3. dm \in [uint256 -> uint256 \X uint256] /\ va \in [uint256 -> Nat]
    BY <1>1, <2>1
  <2> HIDE DEF dm, va
  <2>4. \A y \in uint256 : dm[y][1] \in uint256 /\ dm[y][2] \in uint256
    BY <2>3
  <2>5. \A y \in uint256 : va[dm[y][1]] = va[y] \div B /\ va[dm[y][2]] = va[y] % B
    <3> TAKE y \in uint256
    <3>1. va[dm[y][1]] = Val(dm[y][1]) /\ va[dm[y][2]] = Val(dm[y][2])
      BY <2>2, <2>4
    <3>2. dm[y] = divmod256(y, D) /\ va[y] = Val(y)
      BY <2>2
    <3>3. Val(divmod256(y, D)[1]) = Val(y) \div B /\ Val(divmod256(y, D)[2]) = Val(y) % B
      BY <1>1
    <3> QED BY <3>1, <3>2, <3>3
  <2> QED BY <2>3, <2>5 DEF DividesBy
<1>4. \A f : E(f) => Divisions(f, dm, z, N, uint256)
  <2> SUFFICES ASSUME NEW f, E(f) PROVE Divisions(f, dm, z, N, uint256)
    OBVIOUS
  <2>1. f[0] = z
    BY <1>0
  <2>2. ASSUME NEW i \in 1..N, f[i - 1][1] \in uint256 PROVE f[i] = dm[f[i - 1][1]]
    <3>1. i \in 0..N /\ i # 0
      BY <1>0
    <3>2. f[i] = CHOOSE e \in { divmod256(p[1], D) : p \in {f[i - 1]} } : TRUE
      BY <3>1
    <3>3. f[i] = divmod256(f[i - 1][1], D)
      BY <3>2
    <3> QED BY <2>2, <3>3
  <2> QED BY <2>1, <2>2 DEF Divisions
<1>5. \E f : E(f)
  <2>1. PICK f \in [0..N -> uint256 \X uint256] : Divisions(f, dm, z, N, uint256)
    <3> HIDE DEF dm, N
    <3> QED BY <1>0, <1>2, <1>3, DivisionsExist
  <2>2. ASSUME NEW i \in 0..N
        PROVE  f[i] = IF i = 0 THEN z
                      ELSE CHOOSE e \in { divmod256(p[1], D) : p \in {f[i - 1]} } : TRUE
    <3>1. CASE i = 0
      BY <2>1, <3>1 DEF Divisions
    <3>2. CASE i # 0
      <4>1. i \in 1..N /\ i - 1 \in 0..N
        BY <1>0, <3>2
      <4>2. f[i - 1][1] \in uint256
        BY <2>1, <4>1
      <4>3. f[i] = divmod256(f[i - 1][1], D)
        BY <2>1, <4>1, <4>2 DEF Divisions
      <4>4. (CHOOSE e \in { divmod256(p[1], D) : p \in {f[i - 1]} } : TRUE) = divmod256(f[i - 1][1], D)
        OBVIOUS
      <4> QED BY <3>2, <4>3, <4>4
    <3> QED BY <3>1, <3>2
  <2>3. f = [i \in 0..N |-> f[i]]
    BY <2>1
  <2>4. E(f)
    BY <2>2, <2>3
  <2> HIDE DEF E
  <2> QED BY <2>4
<1> DEFINE turn == CHOOSE f : E(f)
           AtEnd(i) == zero256(turn[i][1]) /\ \A j \in 1..(i - 1) : ~zero256(turn[j][1])
           n == CHOOSE i \in 1..N : AtEnd(i)
           q == [i \in 1..n |-> << turn[i][1], LOWER(LOWER(turn[i][2])) >>]
<1>6. tostring256(m, B, L) = Numeral(q, n, L)
  <2>1. ~(B < 2 \/ B > 16)
    OBVIOUS
  <2> QED BY <2>1, Zenon DEF tostring256, D, z
<1>7. E(turn)
  <2> HIDE DEF E
  <2> QED BY <1>5, Zenon
<1> HIDE DEF turn
<1> DEFINE x == Rests(turn, va, N)  c == Remainders(turn, va, N)
<1>8. Divisions(turn, dm, z, N, uint256)
  BY <1>4, <1>7
<1> HIDE DEF E
<1>9. (\A i \in 0..N : turn[i] \in uint256 \X uint256) /\ Digits(x, c, N, B, Val(m))
  <2>1. va[z[1]] = Val(m)
    BY <1>2
  <2>2. (\A i \in 0..N : turn[i] \in uint256 \X uint256) /\ Digits(x, c, N, B, va[z[1]])
    <3> HIDE DEF N, dm, va
    <3>1. N \in Nat /\ dm \in [uint256 -> uint256 \X uint256] /\ z \in uint256 \X uint256
      BY <1>0, <1>2, <1>3
    <3>2. DividesBy(dm, va, uint256, B) /\ Divisions(turn, dm, z, N, uint256)
      BY <1>3, <1>8
    <3> QED BY <3>1, <3>2, DivisionsDigits
  <2> QED BY <2>1, <2>2
<1>10. \A i \in 1..N : x[i] = Val(turn[i][1]) /\ c[i] = Val(turn[i][2])
                     /\ turn[i][1] \in uint256 /\ turn[i][2] \in uint256
  <2> TAKE i \in 1..N
  <2>1. i \in 0..N
    BY <1>0
  <2>2. turn[i][1] \in uint256 /\ turn[i][2] \in uint256
    BY <1>9, <2>1
  <2>3. x[i] = va[turn[i][1]] /\ c[i] = va[turn[i][2]]
    BY <2>1 DEF Rests, Remainders
  <2> QED BY <2>2, <2>3
<1> HIDE DEF x, c, N
<1>11. \A i \in 1..N : AtEnd(i) <=> Ends(x, i, N)
  <2> TAKE i \in 1..N
  <2>1. \A j \in 1..(i - 1) : j \in 1..N
    BY <1>0
  <2>2. \A j \in 1..N : zero256(turn[j][1]) <=> x[j] = 0
    BY <1>10, Zero256Test
  <2> QED BY <2>1, <2>2 DEF Ends
<1>12. n \in 1..N /\ Ends(x, n, N)
  <2>1. Val(m) \in Nat /\ Val(m) < 2^N
    BY ValType, ModulusType, BasePowers, ModulusType DEF N
  <2>2. \E i : Ends(x, i, N)
    BY <1>0, <1>9, <2>1, DigitsEnd
  <2>3. \E i \in 1..N : AtEnd(i)
    <3> HIDE DEF AtEnd
    <3> QED BY <1>11, <2>2 DEF Ends
  <2> HIDE DEF AtEnd
  <2>4. n \in 1..N /\ AtEnd(n)
    BY <2>3, Zenon
  <2> HIDE DEF n
  <2> QED BY <1>11, <2>4
<1> HIDE DEF n
<1>13. \A i \in 1..n : q[i][2] = c[i]
  <2> TAKE i \in 1..n
  <2>1. i \in 1..N
    BY <1>0, <1>12
  <2>2. c[i] \in 0..(B - 1)
    BY <1>0, <1>9, <2>1, ValType, ModulusType, DigitStep
  <2>3. c[i] = Val(turn[i][2]) /\ turn[i][2] \in uint256
    BY <1>10, <2>1
  <2>4. Val(turn[i][2]) < Base
    BY <1>0, <2>2, <2>3, BaseFacts
  <2>5. LOWER(LOWER(turn[i][2])) = Val(turn[i][2])
    BY <2>3, <2>4, LowLimb256
  <2> QED BY <2>3, <2>5
<1> HIDE DEF q
<1>14. Val(m) \in Nat
  BY ValType, ModulusType, ModulusType
<1> QED BY <1>0, <1>6, <1>9, <1>12, <1>13, <1>14, NumeralWritten

\* The divisions of tostring128 write the numeral of the number, or refuse.
LEMMA ToString128 ==
  ASSUME NEW m \in uint128, NEW B \in 2..16, B < Base, NEW L \in Nat, RadixPowers(B, L)
  PROVE  WritesNumeral(tostring128(m, B, L), Val128(m), B, L)
<1> DEFINE N == Bits128  D == << 0, B >>
           dm == [y \in uint128 |-> divmod128(y, D)]
           va == [y \in uint128 |-> Val128(y)]
           z == << m, Zero128 >>
           E(f) == f = [i \in 0..N |-> IF i = 0 THEN z
                          ELSE CHOOSE e \in { divmod128(p[1], D) : p \in {f[i - 1]} } : TRUE]
<1>0. N \in Nat /\ N \in 1..Bits256 /\ N <= Bits256 /\ B \in Nat /\ B >= 2 /\ B \in Nat \ {0}
  BY Widths DEF Bits128, Bits256
<1>1. \A y \in uint128 : divmod128(y, D) \in uint128 \X uint128
                       /\ Val128(divmod128(y, D)[1]) = Val128(y) \div B
                       /\ Val128(divmod128(y, D)[2]) = Val128(y) % B
  <2> TAKE y \in uint128
  <2>1. D \in uint128 /\ ~zero128(D) /\ Val128(D) = B
    BY RadixWord
  <2> HIDE DEF D
  <2>2. \A qr \in {divmod128(y, D)} : /\ qr \in uint128 \X uint128
                                      /\ Val128(qr[1]) = Val128(y) \div Val128(D)
                                      /\ Val128(qr[2]) = Val128(y) % Val128(D)
    BY <2>1, DivModHalf
  <2> QED BY <2>1, <2>2
<1>2. z \in uint128 \X uint128 /\ z[1] = m
  BY Zero128Value
<1> HIDE DEF D, z
<1>3. dm \in [uint128 -> uint128 \X uint128] /\ DividesBy(dm, va, uint128, B)
  <2>1. \A y \in uint128 : Val128(y) \in Nat
    BY Val128Type, BaseFacts
  <2>2. \A y \in uint128 : dm[y] = divmod128(y, D) /\ va[y] = Val128(y)
    OBVIOUS
  <2>3. dm \in [uint128 -> uint128 \X uint128] /\ va \in [uint128 -> Nat]
    BY <1>1, <2>1
  <2> HIDE DEF dm, va
  <2>4. \A y \in uint128 : dm[y][1] \in uint128 /\ dm[y][2] \in uint128
    BY <2>3
  <2>5. \A y \in uint128 : va[dm[y][1]] = va[y] \div B /\ va[dm[y][2]] = va[y] % B
    <3> TAKE y \in uint128
    <3>1. va[dm[y][1]] = Val128(dm[y][1]) /\ va[dm[y][2]] = Val128(dm[y][2])
      BY <2>2, <2>4
    <3>2. dm[y] = divmod128(y, D) /\ va[y] = Val128(y)
      BY <2>2
    <3>3. Val128(divmod128(y, D)[1]) = Val128(y) \div B /\ Val128(divmod128(y, D)[2]) = Val128(y) % B
      BY <1>1
    <3> QED BY <3>1, <3>2, <3>3
  <2> QED BY <2>3, <2>5 DEF DividesBy
<1>4. \A f : E(f) => Divisions(f, dm, z, N, uint128)
  <2> SUFFICES ASSUME NEW f, E(f) PROVE Divisions(f, dm, z, N, uint128)
    OBVIOUS
  <2>1. f[0] = z
    BY <1>0
  <2>2. ASSUME NEW i \in 1..N, f[i - 1][1] \in uint128 PROVE f[i] = dm[f[i - 1][1]]
    <3>1. i \in 0..N /\ i # 0
      BY <1>0
    <3>2. f[i] = CHOOSE e \in { divmod128(p[1], D) : p \in {f[i - 1]} } : TRUE
      BY <3>1
    <3>3. f[i] = divmod128(f[i - 1][1], D)
      BY <3>2
    <3> QED BY <2>2, <3>3
  <2> QED BY <2>1, <2>2 DEF Divisions
<1>5. \E f : E(f)
  <2>1. PICK f \in [0..N -> uint128 \X uint128] : Divisions(f, dm, z, N, uint128)
    <3> HIDE DEF dm, N
    <3> QED BY <1>0, <1>2, <1>3, DivisionsExist
  <2>2. ASSUME NEW i \in 0..N
        PROVE  f[i] = IF i = 0 THEN z
                      ELSE CHOOSE e \in { divmod128(p[1], D) : p \in {f[i - 1]} } : TRUE
    <3>1. CASE i = 0
      BY <2>1, <3>1 DEF Divisions
    <3>2. CASE i # 0
      <4>1. i \in 1..N /\ i - 1 \in 0..N
        BY <1>0, <3>2
      <4>2. f[i - 1][1] \in uint128
        BY <2>1, <4>1
      <4>3. f[i] = divmod128(f[i - 1][1], D)
        BY <2>1, <4>1, <4>2 DEF Divisions
      <4>4. (CHOOSE e \in { divmod128(p[1], D) : p \in {f[i - 1]} } : TRUE) = divmod128(f[i - 1][1], D)
        OBVIOUS
      <4> QED BY <3>2, <4>3, <4>4
    <3> QED BY <3>1, <3>2
  <2>3. f = [i \in 0..N |-> f[i]]
    BY <2>1
  <2>4. E(f)
    BY <2>2, <2>3
  <2> HIDE DEF E
  <2> QED BY <2>4
<1> DEFINE turn == CHOOSE f : E(f)
           AtEnd(i) == zero128(turn[i][1]) /\ \A j \in 1..(i - 1) : ~zero128(turn[j][1])
           n == CHOOSE i \in 1..N : AtEnd(i)
           q == [i \in 1..n |-> << turn[i][1], LOWER(turn[i][2]) >>]
<1>6. tostring128(m, B, L) = Numeral(q, n, L)
  <2>1. ~(B < 2 \/ B > 16)
    OBVIOUS
  <2> QED BY <2>1, Zenon DEF tostring128, D, z
<1>7. E(turn)
  <2> HIDE DEF E
  <2> QED BY <1>5, Zenon
<1> HIDE DEF turn
<1> DEFINE x == Rests(turn, va, N)  c == Remainders(turn, va, N)
<1>8. Divisions(turn, dm, z, N, uint128)
  BY <1>4, <1>7
<1> HIDE DEF E
<1>9. (\A i \in 0..N : turn[i] \in uint128 \X uint128) /\ Digits(x, c, N, B, Val128(m))
  <2>1. va[z[1]] = Val128(m)
    BY <1>2
  <2>2. (\A i \in 0..N : turn[i] \in uint128 \X uint128) /\ Digits(x, c, N, B, va[z[1]])
    <3> HIDE DEF N, dm, va
    <3>1. N \in Nat /\ dm \in [uint128 -> uint128 \X uint128] /\ z \in uint128 \X uint128
      BY <1>0, <1>2, <1>3
    <3>2. DividesBy(dm, va, uint128, B) /\ Divisions(turn, dm, z, N, uint128)
      BY <1>3, <1>8
    <3> QED BY <3>1, <3>2, DivisionsDigits
  <2> QED BY <2>1, <2>2
<1>10. \A i \in 1..N : x[i] = Val128(turn[i][1]) /\ c[i] = Val128(turn[i][2])
                     /\ turn[i][1] \in uint128 /\ turn[i][2] \in uint128
  <2> TAKE i \in 1..N
  <2>1. i \in 0..N
    BY <1>0
  <2>2. turn[i][1] \in uint128 /\ turn[i][2] \in uint128
    BY <1>9, <2>1
  <2>3. x[i] = va[turn[i][1]] /\ c[i] = va[turn[i][2]]
    BY <2>1 DEF Rests, Remainders
  <2> QED BY <2>2, <2>3
<1> HIDE DEF x, c, N
<1>11. \A i \in 1..N : AtEnd(i) <=> Ends(x, i, N)
  <2> TAKE i \in 1..N
  <2>1. \A j \in 1..(i - 1) : j \in 1..N
    BY <1>0
  <2>2. \A j \in 1..N : zero128(turn[j][1]) <=> x[j] = 0
    BY <1>10, Zero128Test
  <2> QED BY <2>1, <2>2 DEF Ends
<1>12. n \in 1..N /\ Ends(x, n, N)
  <2>1. Val128(m) \in Nat /\ Val128(m) < 2^N
    BY Val128Type, BaseFacts, BasePowers, BaseFacts DEF N
  <2>2. \E i : Ends(x, i, N)
    BY <1>0, <1>9, <2>1, DigitsEnd
  <2>3. \E i \in 1..N : AtEnd(i)
    <3> HIDE DEF AtEnd
    <3> QED BY <1>11, <2>2 DEF Ends
  <2> HIDE DEF AtEnd
  <2>4. n \in 1..N /\ AtEnd(n)
    BY <2>3, Zenon
  <2> HIDE DEF n
  <2> QED BY <1>11, <2>4
<1> HIDE DEF n
<1>13. \A i \in 1..n : q[i][2] = c[i]
  <2> TAKE i \in 1..n
  <2>1. i \in 1..N
    BY <1>0, <1>12
  <2>2. c[i] \in 0..(B - 1)
    BY <1>0, <1>9, <2>1, Val128Type, BaseFacts, DigitStep
  <2>3. c[i] = Val128(turn[i][2]) /\ turn[i][2] \in uint128
    BY <1>10, <2>1
  <2>4. Val128(turn[i][2]) < Base
    BY <1>0, <2>2, <2>3, BaseFacts
  <2>5. LOWER(turn[i][2]) = Val128(turn[i][2])
    BY <2>3, <2>4, LowLimb128
  <2> QED BY <2>3, <2>5
<1> HIDE DEF q
<1>14. Val128(m) \in Nat
  BY Val128Type, BaseFacts, BaseFacts
<1> QED BY <1>0, <1>6, <1>9, <1>12, <1>13, <1>14, NumeralWritten

-----------------------------------------------------------------------------
(* The theorems.                                                           *)

LEMMA OperandsAreWords == RefSpec => [](a \in uint256 /\ b \in uint256)
<1>1. Inputs \subseteq uint256 /\ Zero256 \in uint256
  <2>1. InputLimbs \subseteq uint64 /\ 0 \in uint64
    BY InputLimbsAssumption, BaseFacts DEF uint64
  <2> QED BY <2>1 DEF Inputs, uint256, uint128, Zero256, Zero128
<1>2. RefInit => a \in uint256 /\ b \in uint256
  BY <1>1 DEF RefInit
<1>3. (a \in uint256 /\ b \in uint256) /\ [RefNext]_operands => (a \in uint256 /\ b \in uint256)'
  BY <1>1 DEF RefNext, operands
<1> QED
  BY <1>2, <1>3, PTL DEF RefSpec

\* For limbs of every width, add256 and minus256 of uint256.c are addition and
\* subtraction modulo 2^256 (Modulus) of any two operands.
THEOREM AdditionIsModular == RefSpec => []AddMinusModular
<1>1. a \in uint256 /\ b \in uint256 => AddMinusModular
  BY Add256, Minus256 DEF AddMinusModular
<1> QED
  BY <1>1, OperandsAreWords, PTL

\* For limbs of every width, gt256, gte256 and equal256 of uint256.c order the
\* words as the numbers they stand for.
THEOREM ComparisonIsNumeric == RefSpec => []OrderNumeric
<1>1. a \in uint256 /\ b \in uint256 => OrderNumeric
  <2> SUFFICES ASSUME a \in uint256, b \in uint256 PROVE OrderNumeric
    OBVIOUS
  <2>1. Val(a) \in Int /\ Val(b) \in Int
    <3>1. ASSUME NEW n \in uint256 PROVE Val(n) \in Int
      <4>1. Val128(UPPER(n)) \in Int /\ Val128(LOWER(n)) \in Int
        BY Pair256, Val128Type
      <4>2. Base * Base \in Int
        BY BaseFacts
      <4> QED BY <4>1, <4>2 DEF Val
    <3> QED BY <3>1
  <2>2. /\ gt256(a, b) <=> Val(a) > Val(b)
        /\ equal256(a, b) <=> Val(a) = Val(b)
    BY Order256
  <2>3. gte256(a, b) <=> gt256(a, b) \/ equal256(a, b)
    BY DEF gte256
  <2>4. Val(a) >= Val(b) <=> Val(a) > Val(b) \/ Val(a) = Val(b)
    BY <2>1
  <2> QED BY <2>2, <2>3, <2>4 DEF OrderNumeric
<1> QED
  BY <1>1, OperandsAreWords, PTL

\* For limbs of every width and every shift count, shiftl256 and shiftr256 of
\* uint256.c multiply and divide by the power of two.
THEOREM ShiftsAreNumeric == RefSpec => []ShiftNumeric
<1>1. a \in uint256 /\ b \in uint256 => ShiftNumeric
  <2> SUFFICES ASSUME a \in uint256, b \in uint256 PROVE ShiftNumeric
    OBVIOUS
  <2>1. Val(b) \in Nat
    BY ValType, ModulusType
  <2> QED BY <2>1, ShiftLeft256, ShiftRight256 DEF ShiftNumeric
<1> QED
  BY <1>1, OperandsAreWords, PTL

\* For limbs of every width, mul128 of uint256.c is multiplication modulo 2^128.
THEOREM Multiplication128IsModular == RefSpec => []Mul128Modular
<1>1. a \in uint256 /\ b \in uint256 => Mul128Modular
  BY Pair256, Mul128 DEF Mul128Modular, TimesMod128
<1> QED
  BY <1>1, OperandsAreWords, PTL

\* For limbs of every width, the low 128 bits of mul256 of uint256.c are those of the
\* product, and all of it is the product modulo 2^256 exactly when the third column,
\* whose carry the code adds two limbs too high, does not carry.
THEOREM Multiplication256UnlessCarry == RefSpec => []Mul256UnlessCarry
<1>1. a \in uint256 /\ b \in uint256 => Mul256UnlessCarry
  <2> SUFFICES ASSUME a \in uint256, b \in uint256 PROVE Mul256UnlessCarry
    OBVIOUS
  <2>1. Val(a) \in Nat /\ Val(b) \in Nat
    BY ValType, ModulusType
  <2>2. TimesMod(Val(a), Val(b)) = (Val(a) * Val(b)) % Modulus
    BY <2>1, TimesModNumeric
  <2> QED BY <2>2, Mul256 DEF Mul256UnlessCarry
<1> QED
  BY <1>1, OperandsAreWords, PTL

\* divmod256 and divmod128 return the quotient and the remainder of every
\* division by a nonzero number, for limbs of every width.
THEOREM DivisionIsExact == RefSpec => []DivModCorrect
<1>1. a \in uint256 /\ b \in uint256 => DivModCorrect
  <2> SUFFICES ASSUME a \in uint256, b \in uint256 PROVE DivModCorrect
    OBVIOUS
  <2>1. ~zero256(b) => \A qr \in {divmod256(a, b)} : /\ Val(qr[1]) = Val(a) \div Val(b)
                                                     /\ Val(qr[2]) = Val(a) % Val(b)
    BY DivMod
  <2>2. LOWER(a) \in uint128 /\ LOWER(b) \in uint128
    BY Pair256
  <2>3. ~zero128(LOWER(b)) => \A qr \in {divmod128(LOWER(a), LOWER(b))} :
            /\ Val128(qr[1]) = Val128(LOWER(a)) \div Val128(LOWER(b))
            /\ Val128(qr[2]) = Val128(LOWER(a)) % Val128(LOWER(b))
    BY <2>2, DivModHalf
  <2> QED BY <2>1, <2>3 DEF DivModCorrect
<1> QED BY <1>1, OperandsAreWords, PTL

\* tostring256 and tostring128 write the numeral of every number, without
\* leading zeros, in every radix from 2 to 16, or refuse it when it has more
\* digits than the array has characters.
THEOREM NumeralsAreExact == RefSpec => []NumeralsExact
<1>1. a \in uint256 /\ b \in uint256 => NumeralsExact
  <2> SUFFICES ASSUME a \in uint256, NEW B \in Radices, NEW L \in Lengths
               PROVE  /\ WritesNumeral(tostring256(a, B, L), Val(a), B, L)
                      /\ WritesNumeral(tostring128(LOWER(a), B, L), Val128(LOWER(a)), B, L)
    BY DEF NumeralsExact
  <2>0. B \in Nat /\ L \in Nat /\ LOWER(a) \in uint128
    BY NumeralsAssumption, Pair256
  <2>1. CASE B \in 2..16
    <3>1. B < Base /\ RadixPowers(B, L)
      BY <2>1, NumeralsAssumption DEF RadixPowers
    <3> QED BY <2>0, <2>1, <3>1, ToString256, ToString128
  <2>2. CASE B \notin 2..16
    <3>1. B < 2 \/ B > 16
      BY <2>0, <2>2
    <3>2. tostring256(a, B, L) = Refused /\ tostring128(LOWER(a), B, L) = Refused
      BY <3>1 DEF tostring256, tostring128
    <3>3. ~Refused.ok
      BY DEF Refused
    <3> QED BY <2>2, <3>2, <3>3 DEF WritesNumeral
  <2> QED BY <2>1, <2>2
<1> QED BY <1>1, OperandsAreWords, PTL

-----------------------------------------------------------------------------
(* The inductive invariant of divmod256.                                   *)

\* The words that the code before the loop leaves behind, and the loop invariant;
\* a division by zero has only its types.
DivInv ==
    /\ TypeOK
    /\ pc = "call" => d.resDiv = Zero256 /\ d.resMod = l
    /\ pc \in {"align", "adjust"} => ~gt256(r, l) /\ diffBits = diff_bits(l, r)
    /\ pc = "adjust" => d = div_align(l, r, diffBits)
    /\ Val(r) # 0 =>
         /\ pc = "loop" => Divides(d, Val(l), Val(r))
         /\ pc = "done" => /\ Val(l) = Val(d.resDiv) * Val(r) + Val(d.resMod)
                           /\ Val(d.resMod) < Val(r)

\* divmod256 starts with the remainder l and the quotient 0.
LEMMA DivInit == Init => DivInv
<1> SUFFICES ASSUME Init PROVE DivInv
  OBVIOUS
<1>1. Inputs \subseteq uint256
  <2>1. InputLimbs \subseteq uint64
    BY InputLimbsAssumption
  <2> QED BY <2>1 DEF Inputs, uint256, uint128
<1>2. l \in uint256 /\ r \in uint256
  BY <1>1 DEF Init
<1>3. d \in DivState /\ d.resDiv = Zero256 /\ d.resMod = l
  BY <1>2, Zero256Value DEF Init, DivState
<1>4. diffBits \in 0..Bits256 /\ pc = "call"
  BY Widths DEF Init
<1> QED BY <1>2, <1>3, <1>4 DEF DivInv, TypeOK

\* The early return of a larger divisor leaves quotient 0 and remainder l.
LEMMA DivCall == DivInv /\ Call => DivInv'
<1> SUFFICES ASSUME DivInv, Call PROVE DivInv'
  OBVIOUS
<1>1. l \in uint256 /\ r \in uint256 /\ d \in DivState /\ diffBits \in 0..Bits256
      /\ d.resDiv = Zero256 /\ d.resMod = l
  BY DEF DivInv, TypeOK, Call
<1>2. pc = "call" /\ l' = l /\ r' = r /\ d' = d
  BY DEF Call
<1>3. CASE gt256(r, l)
  <2>1. pc' = "done" /\ diffBits' = diffBits
    BY <1>3 DEF Call
  <2>2. Val(l) < Val(r) /\ Val(l) \in Nat /\ Val(r) \in Nat
    BY <1>1, <1>3, OrderOfWords
  <2>3. Val(l) = Val(d.resDiv) * Val(r) + Val(d.resMod)
    <3>1. Val(l) = 0 * Val(r) + Val(l)
      BY <2>2
    <3> QED BY <1>1, <3>1, Zero256Value
  <2> QED BY <1>1, <1>2, <2>1, <2>2, <2>3 DEF DivInv, TypeOK
<1>4. CASE ~gt256(r, l)
  <2>1. pc' = "align" /\ diffBits' = diff_bits(l, r)
    BY <1>4 DEF Call
  <2>2. diff_bits(l, r) \in 0..Bits256
    BY <1>1, <1>4, AlignNumeric
  <2> QED BY <1>1, <1>2, <1>4, <2>1, <2>2 DEF DivInv, TypeOK
<1> QED BY <1>3, <1>4

LEMMA DivAlign == DivInv /\ Align => DivInv'
<1> SUFFICES ASSUME DivInv, Align PROVE DivInv'
  OBVIOUS
<1>1. /\ l \in uint256 /\ r \in uint256 /\ diffBits \in 0..Bits256
      /\ ~gt256(r, l) /\ diffBits = diff_bits(l, r)
  BY DEF DivInv, TypeOK, Align
<1>2. /\ pc' = "adjust" /\ l' = l /\ r' = r /\ diffBits' = diffBits
      /\ d' = div_align(l, r, diffBits)
  BY DEF Align
<1>3. div_align(l, r, diffBits) \in DivState
  BY <1>1, AlignNumeric
<1> QED BY <1>1, <1>2, <1>3 DEF DivInv, TypeOK

LEMMA DivAdjust == DivInv /\ Adjust => DivInv'
<1> SUFFICES ASSUME DivInv, Adjust PROVE DivInv'
  OBVIOUS
<1>1. /\ l \in uint256 /\ r \in uint256 /\ diffBits \in 0..Bits256 /\ d \in DivState
      /\ ~gt256(r, l) /\ diffBits = diff_bits(l, r) /\ d = div_align(l, r, diffBits)
  BY DEF DivInv, TypeOK, Adjust
<1>2. pc' = "loop" /\ l' = l /\ r' = r /\ diffBits' = diffBits /\ d' = div_adjust(d)
  BY DEF Adjust
<1>3. d' \in DivState
  BY <1>1, <1>2, AdjustType
<1>4. Val(r) # 0 => Divides(div_adjust(d), Val(l), Val(r))
  BY <1>1, AdjustNumeric
<1>5. Val(r)' # 0 => Divides(d, Val(l), Val(r))'
  BY <1>2, <1>4 DEF Divides, AtBit
<1> QED BY <1>1, <1>2, <1>3, <1>5 DEF DivInv, TypeOK

\* In a turn of the loop the remainder is at least the divisor, so that there
\* is a bit to decide.
LEMMA TurnAtBit ==
  ASSUME DivInv, Turn, Val(r) # 0
  PROVE  /\ Val(l) \in Nat /\ Val(r) \in Nat \ {0} /\ d \in DivState
         /\ Val(d.resMod) >= Val(r)
         /\ Val(l) = Val(d.resDiv) * Val(r) + Val(d.resMod)
         /\ \E k : AtBit(d, Val(l), Val(r), k)
<1>1. l \in uint256 /\ r \in uint256 /\ d \in DivState /\ pc = "loop" /\ Divides(d, Val(l), Val(r))
  BY DEF DivInv, TypeOK, Turn
<1>2. Val(l) \in Nat /\ Val(r) \in Nat /\ Val(d.resMod) \in Nat /\ d.resMod \in uint256
  BY <1>1, OrderOfWords, StateType
<1>3. Val(d.resMod) >= Val(r)
  BY <1>1, <1>2, OrderOfWords DEF Turn, div_more
<1> QED BY <1>1, <1>2, <1>3 DEF Divides

LEMMA DivTurn == DivInv /\ Turn => DivInv'
<1> SUFFICES ASSUME DivInv, Turn PROVE DivInv'
  OBVIOUS
<1>1. /\ l \in uint256 /\ r \in uint256 /\ diffBits \in 0..Bits256 /\ d \in DivState
  BY DEF DivInv, TypeOK
<1>2. pc = "loop" /\ pc' = pc /\ l' = l /\ r' = r /\ diffBits' = diffBits /\ d' = div_step(d)
  BY DEF Turn
<1>3. d' \in DivState
  BY <1>1, <1>2, StepType
<1>4. Val(r) # 0 => Divides(div_step(d), Val(l), Val(r))
  <2> HAVE Val(r) # 0
  <2>1. PICK k : AtBit(d, Val(l), Val(r), k)
    BY TurnAtBit
  <2> QED BY <2>1, TurnAtBit, StepNumeric
<1>5. Val(r)' # 0 => Divides(d, Val(l), Val(r))'
  BY <1>2, <1>4 DEF Divides, AtBit
<1> QED BY <1>1, <1>2, <1>3, <1>5 DEF DivInv, TypeOK

LEMMA DivExit == DivInv /\ Exit => DivInv'
<1> SUFFICES ASSUME DivInv, Exit PROVE DivInv'
  OBVIOUS
<1>1. /\ l \in uint256 /\ r \in uint256 /\ diffBits \in 0..Bits256 /\ d \in DivState
      /\ pc = "loop" /\ (Val(r) # 0 => Divides(d, Val(l), Val(r)))
  BY DEF DivInv, TypeOK, Exit
<1>2. pc' = "done" /\ l' = l /\ r' = r /\ diffBits' = diffBits /\ d' = d
  BY DEF Exit
<1>3. Val(d.resMod) < Val(r)
  BY <1>1, StateType, OrderOfWords DEF Exit, div_more
<1> QED BY <1>1, <1>2, <1>3 DEF DivInv, TypeOK, Divides

LEMMA DivInductive == Spec => []DivInv
<1>1. DivInv /\ [Next]_vars => DivInv'
  <2> SUFFICES ASSUME DivInv, [Next]_vars PROVE DivInv'
    OBVIOUS
  <2>1. CASE UNCHANGED vars
    BY <2>1 DEF DivInv, TypeOK, vars, Divides, AtBit
  <2>2. CASE Returned
    BY <2>2 DEF DivInv, TypeOK, vars, Returned, Divides, AtBit
  <2> QED BY <2>1, <2>2, DivCall, DivAlign, DivAdjust, DivTurn, DivExit DEF Next, Step
<1> QED BY DivInit, <1>1, PTL DEF Spec

\* The locals of divmod256 keep their types for every dividend and divisor,
\* zero included: no shift, subtraction or or leaves the words.
THEOREM DivTypeCorrect == Spec => []TypeOK
<1>1. DivInv => TypeOK
  BY DEF DivInv
<1> QED BY <1>1, DivInductive, PTL

\* The shifted divisor of divmod256 is the divisor times the weight as long as
\* there is a weight, although both are shifted independently.
THEOREM DivisorInStep == Spec => []InStep
<1>1. DivInv => InStep
  <2> SUFFICES ASSUME DivInv, pc = "loop", ~zero256(r), ~zero256(d.adder)
               PROVE  Val(d.copyd) = Val(d.adder) * Val(r)
    BY DEF InStep
  <2>1. r \in uint256 /\ d \in DivState
    BY DEF DivInv, TypeOK
  <2>2. Val(r) # 0 /\ Val(d.adder) # 0
    BY <2>1, StateType, Zero256Test
  <2>3. PICK k : AtBit(d, Val(l), Val(r), k)
    BY <2>2 DEF DivInv, Divides
  <2> QED BY <2>3 DEF AtBit
<1> QED BY <1>1, DivInductive, PTL

\* The limbs of divmod256 satisfy the loop invariant of long division in every
\* turn, and the weight has not been shifted out.
THEOREM DivisionKeepsInvariant == Spec => []LoopKeepsInvariant
<1>1. DivInv => LoopKeepsInvariant
  <2> SUFFICES ASSUME DivInv, pc = "loop", ~zero256(r)
               PROVE  Numbers!LoopInvariant /\ Numbers!WeightLasts
    BY DEF LoopKeepsInvariant
  <2>1. l \in uint256 /\ r \in uint256 /\ d \in DivState
    BY DEF DivInv, TypeOK
  <2>2. Val(r) # 0
    BY <2>1, Zero256Test
  <2>3. /\ Val(l) \in 0..(Modulus - 1) /\ Val(r) \in 0..(Modulus - 1)
        /\ Val(d.adder) \in 0..(Modulus - 1) /\ Val(d.resDiv) \in Nat /\ Val(d.resMod) \in Nat
        /\ Val(r) \in Nat /\ Val(d.adder) \in Nat
    BY <2>1, ValType, ModulusType, StateType
  <2>4. Divides(d, Val(l), Val(r))
    BY <2>2 DEF DivInv
  <2>5. Val(l) = Val(d.resDiv) * Val(r) + Val(d.resMod)
    BY <2>4 DEF Divides
  <2>6. CASE \E k : AtBit(d, Val(l), Val(r), k)
    <3>1. PICK k : AtBit(d, Val(l), Val(r), k)
      BY <2>6
    <3>2. Val(d.resMod) < 2 * (Val(d.adder) * Val(r))
      BY <3>1 DEF AtBit
    <3>3. Val(d.adder) # 0
      <4>1. k \in 0..Bits256
        BY <3>1, Widths DEF AtBit
      <4> QED BY <3>1, <4>1, PowerType DEF AtBit
    <3> QED BY <2>2, <2>3, <2>5, <3>2, <3>3 DEF Numbers!LoopInvariant, Numbers!WeightLasts
  <2>7. CASE Val(d.adder) = 0 /\ Val(d.resMod) < Val(r)
    <3>1. ~(Val(d.resMod) >= Val(r))
      BY <2>3, <2>7
    <3> QED BY <2>2, <2>3, <2>5, <2>7, <3>1 DEF Numbers!LoopInvariant, Numbers!WeightLasts
  <2> QED BY <2>4, <2>6, <2>7 DEF Divides
<1> QED BY <1>1, DivInductive, PTL

\* Every turn of the loop of divmod256 is a turn of long division on the numbers
\* that the limbs stand for: no bit is lost when the divisor is shifted, and
\* setting a bit of the quotient with or256 is adding it.
THEOREM DivisionIsLongDivision == Spec => LoopDivides
<1>1. DivInv /\ [Next]_vars =>
        [ pc = "loop" /\ pc' = "loop" /\ ~zero256(r) => Numbers!Iterate ]_vars
  <2> SUFFICES ASSUME DivInv, Next, pc = "loop", pc' = "loop", ~zero256(r)
               PROVE  Numbers!Iterate
    OBVIOUS
  <2>1. Turn
    BY DEF Next, Step, Call, Align, Adjust, Exit, Returned
  <2>2. l \in uint256 /\ r \in uint256 /\ d \in DivState /\ l' = l /\ r' = r /\ d' = div_step(d)
    BY <2>1 DEF DivInv, TypeOK, Turn
  <2>3. Val(r) # 0
    BY <2>2, Zero256Test
  <2>4. PICK k : AtBit(d, Val(l), Val(r), k)
    BY <2>1, <2>3, TurnAtBit
  <2>5. /\ Val(l) \in Nat /\ Val(r) \in Nat \ {0} /\ Val(d.resMod) >= Val(r)
        /\ Val(l) = Val(d.resDiv) * Val(r) + Val(d.resMod)
    BY <2>1, <2>3, TurnAtBit
  <2> DEFINE f == div_step(d)
  <2>6. /\ IF Val(d.resMod) >= Val(d.adder) * Val(r)
           THEN /\ Val(f.resMod) = Val(d.resMod) - Val(d.adder) * Val(r)
                /\ Val(f.resDiv) = Val(d.resDiv) + Val(d.adder)
           ELSE Val(f.resMod) = Val(d.resMod) /\ Val(f.resDiv) = Val(d.resDiv)
        /\ Val(d.adder) = 2 * Val(f.adder) \/ (Val(d.adder) = 1 /\ Val(f.adder) = 0)
    BY <2>2, <2>4, <2>5, StepNumeric
  <2>7. Val(f.adder) \in 0..(Modulus - 1)
    BY <2>2, StepType, StateType, ValType
  <2>8. Val(d.adder)' = Val(f.adder) /\ Val(d.resMod)' = Val(f.resMod)
        /\ Val(d.resDiv)' = Val(f.resDiv) /\ Val(l)' = Val(l) /\ Val(r)' = Val(r)
    BY <2>2
  <2> HIDE DEF f
  <2> QED BY <2>5, <2>6, <2>7, <2>8 DEF Numbers!Iterate
<1> QED BY <1>1, DivInductive, PTL DEF Spec, LoopDivides

-----------------------------------------------------------------------------
(* Progress of divmod256: the part of its termination that needs no        *)
(* fairness, and the division that does not terminate.                     *)

\* How far the code is from its end.
StepsAhead == CASE pc = "call" -> 4
                [] pc = "align" -> 3
                [] pc = "adjust" -> 2
                [] pc = "loop" -> 1
                [] OTHER -> 0

\* The code goes on, or the loop makes a turn that at least halves the weight.
Falls ==
    \/ StepsAhead' < StepsAhead
    \/ /\ pc = "loop" /\ pc' = "loop"
       /\ Val(d.adder) \in 1..(Modulus - 1)
       /\ 2 * Val(d.adder') <= Val(d.adder)

\* Every step of a division by a nonzero number brings it nearer to its end:
\* the weight, less than the number of words, halves in every turn and is not
\* zero, so that the loop turns at most once for each of the Bits256 bits.
\* Returns is this and the fairness of the processor.
THEOREM DivisionAdvances == Spec => [][ ~zero256(r) => Falls ]_vars
<1>1. DivInv /\ [Next]_vars => [ ~zero256(r) => Falls ]_vars
  <2> SUFFICES ASSUME DivInv, Next, ~UNCHANGED vars, ~zero256(r)
               PROVE  Falls
    OBVIOUS
  <2>1. CASE Call \/ Align \/ Adjust \/ Exit
    BY <2>1 DEF Call, Align, Adjust, Exit, Falls, StepsAhead
  <2>2. CASE Turn
    <3>1. /\ r \in uint256 /\ d \in DivState /\ d' = div_step(d)
          /\ pc = "loop" /\ pc' = "loop"
      BY <2>2 DEF DivInv, TypeOK, Turn
    <3>2. Val(r) # 0
      BY <3>1, Zero256Test
    <3>3. PICK k : AtBit(d, Val(l), Val(r), k)
      BY <2>2, <3>2, TurnAtBit
    <3>4. /\ Val(l) \in Nat /\ Val(r) \in Nat \ {0} /\ Val(d.resMod) >= Val(r)
          /\ Val(l) = Val(d.resDiv) * Val(r) + Val(d.resMod)
      BY <2>2, <3>2, TurnAtBit
    <3> DEFINE f == div_step(d)
    <3>5. Val(d.adder) = 2 * Val(f.adder) \/ (Val(d.adder) = 1 /\ Val(f.adder) = 0)
      BY <3>1, <3>3, <3>4, StepNumeric
    <3>6. Val(d.adder) \in 0..(Modulus - 1) /\ Val(f.adder) \in Nat /\ Modulus \in Nat
      BY <3>1, StepType, StateType, ValType, ModulusType
    <3>7. Val(d.adder) # 0
      <4>1. k \in 0..Bits256
        BY <3>3, Widths DEF AtBit
      <4> QED BY <3>3, <4>1, PowerType DEF AtBit
    <3>8. Val(d.adder') = Val(f.adder)
      BY <3>1
    <3> HIDE DEF f
    <3>9. Val(d.adder) \in 1..(Modulus - 1) /\ 2 * Val(d.adder') <= Val(d.adder)
      BY <3>5, <3>6, <3>7, <3>8
    <3> QED BY <3>1, <3>9 DEF Falls
  <2> QED BY <2>1, <2>2 DEF Next, Step, Returned
<1> QED BY <1>1, DivInductive, PTL DEF Spec

\* A division by zero never returns: no word is smaller than zero, so that the
\* early return is not taken and the loop is not left.  This is the status
\* "hang" of the instructions that do not test their divisor.
THEOREM ZeroDivisorNeverReturns == Spec => [](zero256(r) => pc # "done")
<1> DEFINE Caught == zero256(r) => pc # "done"
<1>1. Init => Caught
  BY DEF Init
<1>2. DivInv /\ Caught /\ [Next]_vars => Caught'
  <2> SUFFICES ASSUME DivInv, Caught, [Next]_vars, zero256(r)', pc' = "done" PROVE FALSE
    OBVIOUS
  <2>1. r' = r /\ pc # pc' /\ (Call \/ Exit)
    BY DEF Next, Step, Call, Align, Adjust, Turn, Exit, Returned, vars
  <2>2. zero256(r)
    BY <2>1 DEF zero256
  <2>3. l \in uint256 /\ r \in uint256 /\ d \in DivState /\ d.resMod \in uint256
    BY StateType DEF DivInv, TypeOK
  <2>4. Val(r) = 0 /\ Val(l) \in Nat /\ Val(d.resMod) \in Nat
    BY <2>2, <2>3, Zero256Test, OrderOfWords
  <2>5. CASE Call
    <3>1. gt256(r, l)
      BY <2>5 DEF Call
    <3> QED BY <2>3, <2>4, <3>1, OrderOfWords
  <2>6. CASE Exit
    <3>1. ~gte256(d.resMod, r)
      BY <2>6 DEF Exit, div_more
    <3> QED BY <2>3, <2>4, <3>1, OrderOfWords
  <2> QED BY <2>1, <2>5, <2>6
<1> QED BY <1>1, <1>2, DivInductive, PTL DEF Spec
=============================================================================
