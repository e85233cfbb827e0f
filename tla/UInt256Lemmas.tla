----------------------------- MODULE UInt256Lemmas -----------------------------
(***************************************************************************)
(* What the functions of uint256.c compute, for limbs of every width:      *)
(* comparison, addition, subtraction, the shifts, or256 of numbers without *)
(* a common bit, multiplication up to a misplaced carry, and divmod256.    *)
(*                                                                         *)
(* Each argument about two halves is made once, for a number of two digits *)
(* in base h, and used twice: for a uint128 of two limbs (h = Base) and    *)
(* for a uint256 of two uint128 (h = HalfModulus).                         *)
(***************************************************************************)
EXTENDS UInt256Numbers, NumberLemmas

-----------------------------------------------------------------------------
(* The halves: a uint128 is a number of two digits in base Base.           *)

LEMMA BaseFacts ==
  /\ Base \in Nat \ {0, 1}
  /\ HalfModulus \in Nat \ {0, 1}
<1> DEFINE k == HalfBase
<1>1. k \in Nat /\ k > 1 /\ k * k = Base
  BY LimbBitsAssumption
<1> HIDE DEF k
<1>2. k * k > 1
  BY <1>1
<1>3. Base \in Nat /\ Base > 1
  BY <1>1, <1>2
<1>4. Base * Base > 1
  BY <1>3
<1> QED
  BY <1>3, <1>4 DEF HalfModulus

LEMMA Pair128 ==
  ASSUME NEW n \in uint128
  PROVE  /\ UPPER(n) \in 0..(Base - 1) /\ LOWER(n) \in 0..(Base - 1)
         /\ n = << UPPER(n), LOWER(n) >>
BY DEF uint128, uint64, UPPER, LOWER

LEMMA Pair256 ==
  ASSUME NEW n \in uint256
  PROVE  UPPER(n) \in uint128 /\ LOWER(n) \in uint128
BY DEF uint256, UPPER, LOWER

LEMMA Val128Type ==
  ASSUME NEW n \in uint128
  PROVE  Val128(n) \in 0..(HalfModulus - 1)
BY BaseFacts, Pair128, TwoDigits DEF Val128, HalfModulus

\* The comparisons of uint128 are those of the numbers.
LEMMA Order128 ==
  ASSUME NEW m \in uint128, NEW n \in uint128
  PROVE  /\ gt128(m, n) <=> Val128(m) > Val128(n)
         /\ equal128(m, n) <=> Val128(m) = Val128(n)
<1> DEFINE um == UPPER(m)  vm == LOWER(m)  un == UPPER(n)  vn == LOWER(n)
<1>1. /\ um \in 0..(Base - 1) /\ vm \in 0..(Base - 1)
      /\ un \in 0..(Base - 1) /\ vn \in 0..(Base - 1)
  BY Pair128
<1>2. Base \in Nat \ {0}
  BY BaseFacts
<1> HIDE DEF um, vm, un, vn
<1>3. /\ (um * Base + vm > un * Base + vn) <=> IF um = un THEN vm > vn ELSE um > un
      /\ (um * Base + vm = un * Base + vn) <=> um = un /\ vm = vn
  BY <1>1, <1>2, DigitsOrder
<1> QED
  BY <1>3 DEF gt128, equal128, Val128, um, vm, un, vn

\* add128 is addition modulo 2^128.
LEMMA Add128 ==
  ASSUME NEW m \in uint128, NEW n \in uint128
  PROVE  /\ add128(m, n) \in uint128
         /\ Val128(add128(m, n)) = (Val128(m) + Val128(n)) % HalfModulus
<1> DEFINE um == UPPER(m)  vm == LOWER(m)  un == UPPER(n)  vn == LOWER(n)
           low == (vm + vn) % Base
           carry == IF vm > low THEN 1 ELSE 0
           high == (((um + un) % Base) + carry) % Base
<1>1. /\ um \in 0..(Base - 1) /\ vm \in 0..(Base - 1)
      /\ un \in 0..(Base - 1) /\ vn \in 0..(Base - 1)
  BY Pair128
<1>2. Base \in Nat \ {0, 1}
  BY BaseFacts
<1> HIDE DEF um, vm, un, vn
<1>3. /\ low \in 0..(Base - 1) /\ high \in 0..(Base - 1)
      /\ high * Base + low = ((um * Base + vm) + (un * Base + vn)) % (Base * Base)
  BY <1>1, <1>2, AddDigits
<1>4. low < vm <=> vm > low
  BY <1>1, <1>3
<1>5. add128(m, n) = << high, low >>
  BY <1>4 DEF add128, add64, Flag, um, vm, un, vn
<1> HIDE DEF low, high
<1>6. UPPER(add128(m, n)) = high /\ LOWER(add128(m, n)) = low
  BY <1>5 DEF UPPER, LOWER
<1>7. add128(m, n) \in uint128
  BY <1>3, <1>5 DEF uint128, uint64
<1> QED
  BY <1>3, <1>6, <1>7 DEF Val128, HalfModulus, um, vm, un, vn

\* minus128 is subtraction modulo 2^128.
LEMMA Minus128 ==
  ASSUME NEW m \in uint128, NEW n \in uint128
  PROVE  /\ minus128(m, n) \in uint128
         /\ Val128(minus128(m, n)) = (Val128(m) - Val128(n)) % HalfModulus
<1> DEFINE um == UPPER(m)  vm == LOWER(m)  un == UPPER(n)  vn == LOWER(n)
           low == (vm - vn) % Base
           borrow == IF low > vm THEN 1 ELSE 0
           high == (((um - un) % Base) - borrow) % Base
<1>1. /\ um \in 0..(Base - 1) /\ vm \in 0..(Base - 1)
      /\ un \in 0..(Base - 1) /\ vn \in 0..(Base - 1)
  BY Pair128
<1>2. Base \in Nat \ {0, 1}
  BY BaseFacts
<1> HIDE DEF um, vm, un, vn
<1>3. /\ low \in 0..(Base - 1) /\ high \in 0..(Base - 1)
      /\ high * Base + low = ((um * Base + vm) - (un * Base + vn)) % (Base * Base)
  BY <1>1, <1>2, MinusDigits
<1>5. minus128(m, n) = << high, low >>
  BY DEF minus128, minus64, Flag, um, vm, un, vn
<1> HIDE DEF low, high
<1>6. UPPER(minus128(m, n)) = high /\ LOWER(minus128(m, n)) = low
  BY <1>5 DEF UPPER, LOWER
<1>7. minus128(m, n) \in uint128
  BY <1>3, <1>5 DEF uint128, uint64
<1> QED
  BY <1>3, <1>6, <1>7 DEF Val128, HalfModulus, um, vm, un, vn

LEMMA One128Value == One128 \in uint128 /\ Val128(One128) = 1
<1>1. 0 \in 0..(Base - 1) /\ 1 \in 0..(Base - 1)
  BY BaseFacts
<1>2. 0 * Base + 1 = 1
  BY BaseFacts
<1> QED
  BY <1>1, <1>2 DEF One128, uint128, uint64, Val128, UPPER, LOWER

-----------------------------------------------------------------------------
(* The words: a uint256 is a number of two digits in base HalfModulus.     *)

LEMMA Order256 ==
  ASSUME NEW m \in uint256, NEW n \in uint256
  PROVE  /\ gt256(m, n) <=> Val(m) > Val(n)
         /\ equal256(m, n) <=> Val(m) = Val(n)
<1> DEFINE um == Val128(UPPER(m))  vm == Val128(LOWER(m))
           un == Val128(UPPER(n))  vn == Val128(LOWER(n))
           h == HalfModulus
<1>0. /\ UPPER(m) \in uint128 /\ LOWER(m) \in uint128
      /\ UPPER(n) \in uint128 /\ LOWER(n) \in uint128
  BY Pair256
<1>1. /\ um \in 0..(h - 1) /\ vm \in 0..(h - 1) /\ un \in 0..(h - 1) /\ vn \in 0..(h - 1)
  BY <1>0, Val128Type
<1>2. h \in Nat \ {0}
  BY BaseFacts
<1>3. /\ gt256(m, n) <=> IF um = un THEN vm > vn ELSE um > un
      /\ equal256(m, n) <=> um = un /\ vm = vn
  BY <1>0, Order128 DEF gt256, equal256
<1>4. Val(m) = um * h + vm /\ Val(n) = un * h + vn
  BY DEF Val, HalfModulus
<1> HIDE DEF um, vm, un, vn, h
<1>5. /\ (um * h + vm > un * h + vn) <=> IF um = un THEN vm > vn ELSE um > un
      /\ (um * h + vm = un * h + vn) <=> um = un /\ vm = vn
  BY <1>1, <1>2, DigitsOrder
<1> QED
  BY <1>3, <1>4, <1>5

LEMMA Add256 ==
  ASSUME NEW m \in uint256, NEW n \in uint256
  PROVE  /\ add256(m, n) \in uint256
         /\ Val(add256(m, n)) = (Val(m) + Val(n)) % Modulus
<1> DEFINE um == Val128(UPPER(m))  vm == Val128(LOWER(m))
           un == Val128(UPPER(n))  vn == Val128(LOWER(n))
           h == HalfModulus
           Lo == add128(LOWER(m), LOWER(n))
           Sum == add128(UPPER(m), UPPER(n))
           Hi == IF gt128(LOWER(m), Lo) THEN add128(Sum, One128) ELSE Sum
           low == (vm + vn) % h
           carry == IF vm > low THEN 1 ELSE 0
           high == (((um + un) % h) + carry) % h
<1>0. /\ UPPER(m) \in uint128 /\ LOWER(m) \in uint128
      /\ UPPER(n) \in uint128 /\ LOWER(n) \in uint128
  BY Pair256
<1>1. /\ um \in 0..(h - 1) /\ vm \in 0..(h - 1) /\ un \in 0..(h - 1) /\ vn \in 0..(h - 1)
  BY <1>0, Val128Type
<1>2. h \in Nat \ {0, 1}
  BY BaseFacts
<1>3. /\ Lo \in uint128 /\ Val128(Lo) = low
      /\ Sum \in uint128 /\ Val128(Sum) = (um + un) % h
  BY <1>0, Add128
<1>4. gt128(LOWER(m), Lo) <=> vm > low
  BY <1>0, <1>3, Order128
<1>5. Hi \in uint128 /\ Val128(Hi) = high
  <2> HIDE DEF Lo, Sum, low, um, un, h
  <2>1. CASE vm > low
    <3>1. add128(Sum, One128) \in uint128 /\ Val128(add128(Sum, One128)) = (Val128(Sum) + 1) % h
      BY <1>3, One128Value, Add128 DEF h
    <3> QED BY <2>1, <3>1, <1>3, <1>4
  <2>2. CASE ~(vm > low)
    <3>1. (um + un) % h \in 0..(h - 1)
      BY <1>3, Val128Type DEF h
    <3>2. ((um + un) % h) % h = (um + un) % h
      BY <3>1, <1>2, ModSmall
    <3>3. ((um + un) % h) + 0 = (um + un) % h
      BY <3>1
    <3> QED BY <2>2, <3>2, <3>3, <1>3, <1>4
  <2> QED BY <2>1, <2>2
<1>6. add256(m, n) = << Hi, Lo >>
  BY DEF add256
<1>7. Val(m) = um * h + vm /\ Val(n) = un * h + vn
  BY DEF Val, HalfModulus
<1>8. Val(add256(m, n)) = high * h + low
  <2> HIDE DEF Hi, Lo, high, low
  <2> QED BY <1>3, <1>5, <1>6 DEF Val, HalfModulus, UPPER, LOWER
<1>9. add256(m, n) \in uint256
  BY <1>3, <1>5, <1>6 DEF uint256
<1> HIDE DEF um, vm, un, vn, h
<1>10. high * h + low = ((um * h + vm) + (un * h + vn)) % (h * h)
  BY <1>1, <1>2, AddDigits
<1> QED
  BY <1>7, <1>8, <1>9, <1>10 DEF Modulus, h

LEMMA Minus256 ==
  ASSUME NEW m \in uint256, NEW n \in uint256
  PROVE  /\ minus256(m, n) \in uint256
         /\ Val(minus256(m, n)) = (Val(m) - Val(n)) % Modulus
<1> DEFINE um == Val128(UPPER(m))  vm == Val128(LOWER(m))
           un == Val128(UPPER(n))  vn == Val128(LOWER(n))
           h == HalfModulus
           Lo == minus128(LOWER(m), LOWER(n))
           Diff == minus128(UPPER(m), UPPER(n))
           Hi == IF gt128(Lo, LOWER(m)) THEN minus128(Diff, One128) ELSE Diff
           low == (vm - vn) % h
           borrow == IF low > vm THEN 1 ELSE 0
           high == (((um - un) % h) - borrow) % h
<1>0. /\ UPPER(m) \in uint128 /\ LOWER(m) \in uint128
      /\ UPPER(n) \in uint128 /\ LOWER(n) \in uint128
  BY Pair256
<1>1. /\ um \in 0..(h - 1) /\ vm \in 0..(h - 1) /\ un \in 0..(h - 1) /\ vn \in 0..(h - 1)
  BY <1>0, Val128Type
<1>2. h \in Nat \ {0, 1}
  BY BaseFacts
<1>3. /\ Lo \in uint128 /\ Val128(Lo) = low
      /\ Diff \in uint128 /\ Val128(Diff) = (um - un) % h
  BY <1>0, Minus128
<1>4. gt128(Lo, LOWER(m)) <=> low > vm
  BY <1>0, <1>3, Order128
<1>5. Hi \in uint128 /\ Val128(Hi) = high
  <2> HIDE DEF Lo, Diff, low, um, un, h
  <2>1. CASE low > vm
    <3>1. minus128(Diff, One128) \in uint128 /\ Val128(minus128(Diff, One128)) = (Val128(Diff) - 1) % h
      BY <1>3, One128Value, Minus128 DEF h
    <3> QED BY <2>1, <3>1, <1>3, <1>4
  <2>2. CASE ~(low > vm)
    <3>1. (um - un) % h \in 0..(h - 1)
      BY <1>3, Val128Type DEF h
    <3>2. ((um - un) % h) % h = (um - un) % h
      BY <3>1, <1>2, ModSmall
    <3>3. ((um - un) % h) - 0 = (um - un) % h
      BY <3>1
    <3> QED BY <2>2, <3>2, <3>3, <1>3, <1>4
  <2> QED BY <2>1, <2>2
<1>6. minus256(m, n) = << Hi, Lo >>
  BY DEF minus256
<1>7. Val(m) = um * h + vm /\ Val(n) = un * h + vn
  BY DEF Val, HalfModulus
<1>8. Val(minus256(m, n)) = high * h + low
  <2> HIDE DEF Hi, Lo, high, low
  <2> QED BY <1>3, <1>5, <1>6 DEF Val, HalfModulus, UPPER, LOWER
<1>9. minus256(m, n) \in uint256
  BY <1>3, <1>5, <1>6 DEF uint256
<1> HIDE DEF um, vm, un, vn, h
<1>10. high * h + low = ((um * h + vm) - (un * h + vn)) % (h * h)
  BY <1>1, <1>2, MinusDigits
<1> QED
  BY <1>7, <1>8, <1>9, <1>10 DEF Modulus, h

-----------------------------------------------------------------------------
(* Powers of two up to 2^256.                                              *)

\* A uint128 has twice as many bits as a limb, a uint256 twice as many again.
LEMMA Widths == /\ LimbBits \in Nat \ {0} /\ Bits128 \in Nat /\ Bits256 \in Nat
                /\ Bits128 = LimbBits + LimbBits /\ Bits256 = Bits128 + Bits128
BY LimbBitsAssumption DEF Bits128, Bits256

LEMMA PowerType == ASSUME NEW n \in 0..Bits256 PROVE 2^n \in Nat \ {0}
<1>1. CASE n = Bits256
  <2>1. n - 1 \in 0..(Bits256 - 1)
    BY <1>1, Widths
  <2>2. 2^(n - 1) \in Nat \ {0} /\ 2^((n - 1) + 1) = 2 * 2^(n - 1)
    BY <2>1, PowersAssumption
  <2>3. (n - 1) + 1 = n
    OBVIOUS
  <2> DEFINE x == 2^(n - 1)
  <2>4. x \in Nat \ {0} /\ 2^n = 2 * x
    BY <2>2, <2>3
  <2> HIDE DEF x
  <2> QED BY <2>4
<1>2. CASE n # Bits256
  <2>1. n \in 0..(Bits256 - 1)
    BY <1>2, Widths
  <2> QED BY <2>1, PowersAssumption
<1> QED BY <1>1, <1>2

LEMMA PowerSum ==
  ASSUME NEW m \in Nat, NEW n \in Nat, m + n <= Bits256
  PROVE  2^(m + n) = 2^m * 2^n
<1> DEFINE S == {i \in 0..n : 2^(m + i) = 2^m * 2^i}
<1>1. 0 \in S
  <2>1. m + 0 = m /\ m \in 0..Bits256 /\ 2^0 = 1
    BY Widths
  <2>2. 2^m \in Nat
    BY <2>1, PowerType
  <2> DEFINE x == 2^m
  <2>3. x * 1 = x
    BY <2>2
  <2> QED BY <2>1, <2>3
<1>2. ASSUME NEW i \in 0..(n - 1), i \in S PROVE i + 1 \in S
  <2>1. i \in 0..(Bits256 - 1) /\ m + i \in 0..(Bits256 - 1) /\ m \in 0..Bits256
    BY Widths
  <2>2. /\ 2^i \in Nat \ {0} /\ 2^(i + 1) = 2 * 2^i
        /\ 2^(m + i) \in Nat \ {0} /\ 2^((m + i) + 1) = 2 * 2^(m + i)
    BY <2>1, PowersAssumption
  <2>3. 2^(m + i) = 2^m * 2^i /\ 2^m \in Nat
    BY <1>2, <2>1, PowerType
  <2> DEFINE x == 2^m  y == 2^i  z == 2^(m + i)  y1 == 2^(i + 1)
  <2>4. x \in Nat /\ y \in Nat /\ z = x * y /\ y1 = 2 * y
    BY <2>2, <2>3
  <2>5. 2^(m + (i + 1)) = 2 * z
    <3>1. m + (i + 1) = (m + i) + 1
      OBVIOUS
    <3> QED BY <2>2, <3>1
  <2> HIDE DEF x, y, z, y1
  <2>6. 2 * z = x * y1
    BY <2>4
  <2> QED BY <2>5, <2>6 DEF x, y1
<1>3. 0..n \subseteq S
  <2> HIDE DEF S
  <2> QED BY <1>1, <1>2, InductionUpTo
<1> QED BY <1>3

\* The base of the limbs and the two moduli are powers of two.
LEMMA BasePowers == Base = 2^LimbBits /\ HalfModulus = 2^Bits128 /\ Modulus = 2^Bits256
<1>1. Base = 2^LimbBits
  BY DEF Base
<1>2. HalfModulus = 2^Bits128
  <2>1. 2^(LimbBits + LimbBits) = 2^LimbBits * 2^LimbBits
    BY Widths, PowerSum
  <2> QED BY <1>1, <2>1, Widths DEF HalfModulus
<1>3. Modulus = 2^Bits256
  <2>1. 2^(Bits128 + Bits128) = 2^Bits128 * 2^Bits128
    BY Widths, PowerSum
  <2> QED BY <1>2, <2>1, Widths DEF Modulus
<1> QED BY <1>1, <1>2, <1>3

\* A width b is split at v: 2^b = 2^v * 2^(b - v).
LEMMA PowerSplit ==
  ASSUME NEW b1 \in 0..Bits256, NEW v \in 0..b1
  PROVE  /\ 2^v \in Nat \ {0} /\ 2^(b1 - v) \in Nat \ {0}
         /\ 2^b1 = 2^v * 2^(b1 - v) /\ 2^b1 = 2^(b1 - v) * 2^v
<1>1. v \in 0..Bits256 /\ b1 - v \in 0..Bits256 /\ v \in Nat /\ b1 - v \in Nat
  BY Widths
<1>2. 2^v \in Nat \ {0} /\ 2^(b1 - v) \in Nat \ {0}
  BY <1>1, PowerType
<1>3. v + (b1 - v) = b1 /\ (b1 - v) + v = b1
  BY Widths
<1>4. 2^(v + (b1 - v)) = 2^v * 2^(b1 - v) /\ 2^((b1 - v) + v) = 2^(b1 - v) * 2^v
  BY <1>1, <1>3, PowerSum
<1> QED BY <1>2, <1>3, <1>4

-----------------------------------------------------------------------------
(* Shifts of a uint128.                                                    *)

LEMMA Val128Pair == ASSUME NEW u, NEW w PROVE Val128(<< u, w >>) = u * Base + w
BY DEF Val128, UPPER, LOWER

LEMMA Make128 ==
  ASSUME NEW u \in 0..(Base - 1), NEW w \in 0..(Base - 1) PROVE << u, w >> \in uint128
BY DEF uint128, uint64

LEMMA Zero128Value == Zero128 \in uint128 /\ Val128(Zero128) = 0
<1>1. 0 \in 0..(Base - 1) /\ 0 * Base + 0 = 0
  BY BaseFacts
<1> QED BY <1>1, Val128Pair, Make128 DEF Zero128

\* add64 of two limbs whose sum is a limb.
LEMMA Add64Small ==
  ASSUME NEW x \in Nat, NEW y \in Nat, x + y \in 0..(Base - 1)
  PROVE  add64(x, y) = x + y
BY BaseFacts, ModSmall DEF add64

\* shiftr128 divides by the power of two, and returns zero from 128 bits on.
LEMMA ShiftRight128 ==
  ASSUME NEW n \in uint128, NEW v \in Nat
  PROVE  /\ shiftr128(n, v) \in uint128
         /\ Val128(shiftr128(n, v)) = IF v >= Bits128 THEN 0 ELSE Val128(n) \div 2^v
<1> DEFINE u == UPPER(n)  w == LOWER(n)
<1>0. /\ u \in 0..(Base - 1) /\ w \in 0..(Base - 1) /\ n = << u, w >>
      /\ Val128(n) = u * Base + w
  BY Pair128 DEF Val128
<1>1. Base \in Nat \ {0} /\ LimbBits \in Nat \ {0} /\ Bits128 = LimbBits + LimbBits
  BY BaseFacts, Widths
<1> HIDE DEF u, w
<1>2. CASE v >= Bits128
  <2>1. shiftr128(n, v) = Zero128
    BY <1>2, <1>1 DEF shiftr128
  <2> QED BY <1>2, <2>1, Zero128Value
<1>3. CASE v = LimbBits
  <2>1. shiftr128(n, v) = << 0, u >>
    BY <1>3, <1>1 DEF shiftr128, u
  <2>2. (u * Base + w) \div Base = u
    <3>1. u * Base + w \in Nat /\ u \in Nat
      BY <1>0, <1>1
    <3> QED BY <1>0, <1>1, <3>1, QuotientUnique
  <2>3. 0 * Base + u = u /\ 0 \in 0..(Base - 1)
    BY <1>0, <1>1
  <2>4. ~(v >= Bits128) /\ 2^v = Base
    BY <1>1, <1>3, BasePowers
  <2> QED BY <1>0, <2>1, <2>2, <2>3, <2>4, Make128, Val128Pair
<1>4. CASE v = 0
  <2>1. shiftr128(n, v) = n
    BY <1>4, <1>1 DEF shiftr128
  <2>2. ~(v >= Bits128) /\ 2^v = 1
    BY <1>1, <1>4
  <2>3. Val128(n) \div 1 = Val128(n)
    <3>1. Val128(n) \in Nat
      BY Val128Type, BaseFacts
    <3> QED BY <3>1
  <2> QED BY <2>1, <2>2, <2>3
<1>5. CASE 0 < v /\ v < LimbBits
  <2> DEFINE p == 2^v  q == 2^(LimbBits - v)
  <2>1. p \in Nat \ {0} /\ q \in Nat \ {0} /\ Base = p * q
    BY <1>1, <1>5, Widths, PowerSplit, BasePowers
  <2>2. shiftr128(n, v) = << shr64(u, v), add64(shl64(u, LimbBits - v), shr64(w, v)) >>
    BY <1>5, <1>1 DEF shiftr128, u, w
  <2>3. shr64(u, v) = u \div p /\ shr64(w, v) = w \div p
    BY DEF shr64
  <2>4. shl64(u, LimbBits - v) = (u % p) * q
    <3>1. LimbBits - (LimbBits - v) = v
      BY <1>1
    <3> QED BY <3>1 DEF shl64
  <2>9. ~(v >= Bits128)
    BY <1>1, <1>5
  <2> HIDE DEF p, q
  <2>5. /\ u \div p \in 0..(Base - 1)
        /\ (u % p) * q \in 0..(Base - 1) /\ w \div p \in 0..(Base - 1)
        /\ (u % p) * q + w \div p \in 0..(Base - 1)
        /\ (u * Base + w) \div p = (u \div p) * Base + ((u % p) * q + w \div p)
    <3>1. RightDigits(p, q, Base, u, w)
      BY <1>0, <1>1, <2>1, ShiftRightDigits
    <3> QED BY <3>1 DEF RightDigits
  <2> DEFINE x == (u % p) * q  y == w \div p  z == u \div p
  <2>6. x \in Nat /\ y \in Nat /\ x + y \in 0..(Base - 1) /\ z \in 0..(Base - 1)
    BY <1>1, <2>5
  <2>7. shiftr128(n, v) = << z, x + y >>
    <3> HIDE DEF x, y
    <3>1. add64(x, y) = x + y
      BY <2>6, Add64Small
    <3> QED BY <2>2, <2>3, <2>4, <3>1 DEF x, y
  <2>8. (u * Base + w) \div p = z * Base + (x + y)
    BY <2>5
  <2> HIDE DEF x, y, z
  <2> QED BY <1>0, <2>6, <2>7, <2>8, <2>9, Make128, Val128Pair DEF p
<1>6. CASE LimbBits < v /\ v < Bits128
  <2> DEFINE p == 2^(v - LimbBits)
  <2>1. p \in Nat \ {0} /\ 2^v = p * Base
    <3>1. LimbBits \in 0..v /\ v \in 0..Bits256
      BY <1>1, <1>6, Widths
    <3> QED BY <3>1, PowerSplit, BasePowers
  <2>2. shiftr128(n, v) = << 0, u \div p >>
    BY <1>6, <1>1 DEF shiftr128, shr64, u
  <2>9. ~(v >= Bits128)
    BY <1>1, <1>6
  <2>p. p * 2^(Bits128 - v) = Base /\ 2^(Bits128 - v) \in Nat \ {0}
    <3>1. v - LimbBits \in 0..LimbBits /\ LimbBits \in 0..Bits256
      BY <1>1, <1>6, Widths
    <3>2. LimbBits - (v - LimbBits) = Bits128 - v
      BY <1>1
    <3> QED BY <3>1, <3>2, PowerSplit, BasePowers
  <2> DEFINE q == 2^(Bits128 - v)
  <2> HIDE DEF p, q
  <2>3. (u * Base + w) \div (p * Base) = u \div p
    <3>1. u \in Nat
      BY <1>0, <1>1
    <3> QED BY <1>0, <1>1, <2>1, <3>1, ShiftRightFar
  <2>4. u \div p \in 0..(Base - 1)
    <3>1. u \in 0..(p * q - 1) /\ q \in Nat /\ q <= Base
      <4>1. 1 * q <= p * q /\ 1 * q = q
        BY <2>1, <2>p, ProductMonotone DEF q
      <4> QED BY <1>0, <2>p, <4>1 DEF q
    <3>2. u \div p \in 0..(q - 1)
      BY <2>1, <3>1, QuotientBelow
    <3> DEFINE z == u \div p
    <3> HIDE DEF z
    <3>3. z \in 0..(q - 1) => z \in 0..(Base - 1)
      BY <1>1, <3>1
    <3> QED BY <3>2, <3>3 DEF z
  <2>5. 0 * Base + u \div p = u \div p /\ 0 \in 0..(Base - 1)
    BY <1>1, <2>4
  <2> DEFINE y == u \div p
  <2>6. /\ shiftr128(n, v) = << 0, y >> /\ y \in 0..(Base - 1) /\ 0 \in 0..(Base - 1)
        /\ 0 * Base + y = y /\ (u * Base + w) \div 2^v = y
    BY <2>1, <2>2, <2>3, <2>4, <2>5
  <2> HIDE DEF y
  <2> QED BY <1>0, <2>6, <2>9, Make128, Val128Pair
<1> QED BY <1>1, <1>2, <1>3, <1>4, <1>5, <1>6

\* shiftl128 drops the bits that leave the word and multiplies the others.
LEMMA ShiftLeft128 ==
  ASSUME NEW n \in uint128, NEW v \in Nat
  PROVE  /\ shiftl128(n, v) \in uint128
         /\ Val128(shiftl128(n, v)) =
              IF v >= Bits128 THEN 0 ELSE (Val128(n) % 2^(Bits128 - v)) * 2^v
<1> DEFINE u == UPPER(n)  w == LOWER(n)
<1>0. /\ u \in 0..(Base - 1) /\ w \in 0..(Base - 1) /\ n = << u, w >>
      /\ Val128(n) = u * Base + w
  BY Pair128 DEF Val128
<1>1. /\ Base \in Nat \ {0} /\ LimbBits \in Nat \ {0} /\ Bits128 = LimbBits + LimbBits
      /\ 0 \in 0..(Base - 1)
  BY BaseFacts, Widths
<1> HIDE DEF u, w
<1>2. CASE v >= Bits128
  <2>1. shiftl128(n, v) = Zero128
    BY <1>2, <1>1 DEF shiftl128
  <2> QED BY <1>2, <2>1, Zero128Value
<1>3. CASE v = LimbBits
  <2>1. shiftl128(n, v) = << w, 0 >>
    BY <1>3, <1>1 DEF shiftl128, w
  <2>2. (u * Base + w) % Base = w
    <3>1. u * Base + w \in Nat /\ u \in Nat
      BY <1>0, <1>1
    <3> QED BY <1>0, <1>1, <3>1, QuotientUnique
  <2>3. w * Base + 0 = w * Base
    BY <1>0, <1>1
  <2>4. ~(v >= Bits128) /\ Bits128 - v = LimbBits /\ 2^v = Base /\ 2^(Bits128 - v) = Base
    BY <1>1, <1>3, BasePowers
  <2> QED BY <1>0, <1>1, <2>1, <2>2, <2>3, <2>4, Make128, Val128Pair
<1>4. CASE v = 0
  <2>1. shiftl128(n, v) = n
    BY <1>4, <1>1 DEF shiftl128
  <2>2. ~(v >= Bits128) /\ 2^v = 1 /\ Bits128 - v = Bits128 /\ 2^(Bits128 - v) = HalfModulus
    BY <1>1, <1>4, BasePowers
  <2>3. (Val128(n) % HalfModulus) * 1 = Val128(n)
    <3> DEFINE x == Val128(n)
    <3>1. x \in 0..(HalfModulus - 1) /\ HalfModulus \in Nat \ {0}
      BY Val128Type, BaseFacts
    <3> HIDE DEF x
    <3>2. x % HalfModulus = x /\ x * 1 = x
      BY <3>1, ModSmall
    <3> QED BY <3>2 DEF x
  <2> QED BY <2>1, <2>2, <2>3
<1>5. CASE 0 < v /\ v < LimbBits
  <2> DEFINE p == 2^v  q == 2^(LimbBits - v)
  <2>1. p \in Nat \ {0} /\ q \in Nat \ {0} /\ Base = p * q
    BY <1>1, <1>5, Widths, PowerSplit, BasePowers
  <2>2. shiftl128(n, v) = << add64(shl64(u, v), shr64(w, LimbBits - v)), shl64(w, v) >>
    BY <1>5, <1>1 DEF shiftl128, u, w
  <2>3. shl64(u, v) = (u % q) * p /\ shl64(w, v) = (w % q) * p /\ shr64(w, LimbBits - v) = w \div q
    BY DEF shl64, shr64
  <2>4. 2^(Bits128 - v) = q * Base
    <3>1. (LimbBits - v) + LimbBits = Bits128 - v /\ LimbBits - v \in Nat
          /\ (LimbBits - v) + LimbBits <= Bits256
      BY <1>1, <1>5, Widths
    <3>2. 2^((LimbBits - v) + LimbBits) = 2^(LimbBits - v) * 2^LimbBits
      BY <1>1, <3>1, PowerSum
    <3> QED BY <3>1, <3>2, BasePowers
  <2>9. ~(v >= Bits128)
    BY <1>1, <1>5
  <2>f. LET x == Val128(n) IN (x % 2^(Bits128 - v)) * 2^v = ((u * Base + w) % (q * Base)) * p
    BY <1>0, <2>4
  <2> HIDE DEF p, q
  <2>5. /\ (u % q) * p \in 0..(Base - 1) /\ w \div q \in 0..(Base - 1)
        /\ (u % q) * p + w \div q \in 0..(Base - 1)
        /\ (w % q) * p \in 0..(Base - 1)
        /\ ((u * Base + w) % (q * Base)) * p = ((u % q) * p + w \div q) * Base + (w % q) * p
    <3>1. LeftDigits(p, q, Base, u, w)
      BY <1>0, <1>1, <2>1, ShiftLeftDigits
    <3> QED BY <3>1 DEF LeftDigits
  <2> DEFINE x == (u % q) * p  y == w \div q  z == (w % q) * p
  <2>6. x \in Nat /\ y \in Nat /\ x + y \in 0..(Base - 1) /\ z \in 0..(Base - 1)
    BY <1>1, <2>5
  <2>7. shiftl128(n, v) = << x + y, z >>
    <3> HIDE DEF x, y
    <3>1. add64(x, y) = x + y
      BY <2>6, Add64Small
    <3> QED BY <2>2, <2>3, <3>1 DEF x, y
  <2>8. ((u * Base + w) % (q * Base)) * p = (x + y) * Base + z
    BY <2>5
  <2> HIDE DEF x, y, z
  <2> QED BY <2>f, <2>6, <2>7, <2>8, <2>9, Make128, Val128Pair
<1>6. CASE LimbBits < v /\ v < Bits128
  <2> DEFINE p == 2^(v - LimbBits)  q == 2^(Bits128 - v)
  <2>1. p \in Nat \ {0} /\ 2^v = p * Base
    <3>1. LimbBits \in 0..v /\ v \in 0..Bits256
      BY <1>1, <1>6, Widths
    <3> QED BY <3>1, PowerSplit, BasePowers
  <2>2. shiftl128(n, v) = << (w % q) * p, 0 >>
    <3>1. LimbBits - (v - LimbBits) = Bits128 - v
      BY <1>1
    <3>2. shiftl128(n, v) = << shl64(w, v - LimbBits), 0 >>
      BY <1>6, <1>1 DEF shiftl128, w
    <3> QED BY <3>1, <3>2 DEF shl64
  <2>9. ~(v >= Bits128)
    BY <1>1, <1>6
  <2>p. Base = p * q /\ q \in Nat \ {0}
    <3>1. v - LimbBits \in 0..LimbBits /\ LimbBits \in 0..Bits256
      BY <1>1, <1>6, Widths
    <3>2. LimbBits - (v - LimbBits) = Bits128 - v
      BY <1>1
    <3> QED BY <3>1, <3>2, PowerSplit, BasePowers
  <2>f. (Val128(n) % 2^(Bits128 - v)) * 2^v = ((u * Base + w) % q) * (p * Base)
    BY <1>0, <2>1
  <2> HIDE DEF p, q
  <2>3. /\ (w % q) * p \in 0..(Base - 1)
        /\ ((u * Base + w) % q) * (p * Base) = ((w % q) * p) * Base
    <3>1. u \in Nat
      BY <1>0, <1>1
    <3>2. LeftFar(p, q, Base, u, w)
      BY <1>0, <1>1, <2>1, <2>p, <3>1, ShiftLeftFar
    <3> QED BY <3>2 DEF LeftFar
  <2> DEFINE y == (w % q) * p
  <2>5. y * Base + 0 = y * Base
    <3> HIDE DEF y
    <3>1. y \in 0..(Base - 1)
      BY <2>3 DEF y
    <3> QED BY <1>1, <3>1
  <2>6. /\ shiftl128(n, v) = << y, 0 >> /\ y \in 0..(Base - 1)
        /\ ((u * Base + w) % q) * (p * Base) = y * Base
    BY <2>2, <2>3
  <2> HIDE DEF y
  <2> QED BY <1>1, <2>f, <2>5, <2>6, <2>9, Make128, Val128Pair
<1> QED BY <1>1, <1>2, <1>3, <1>4, <1>5, <1>6

-----------------------------------------------------------------------------
(* Shifts of a uint256.                                                    *)

LEMMA ValPair == ASSUME NEW u, NEW w PROVE Val(<< u, w >>) = Val128(u) * HalfModulus + Val128(w)
BY DEF Val, UPPER, LOWER, HalfModulus

LEMMA Make256 == ASSUME NEW u \in uint128, NEW w \in uint128 PROVE << u, w >> \in uint256
BY DEF uint256

LEMMA Zero256Value == Zero256 \in uint256 /\ Val(Zero256) = 0
<1>1. 0 * HalfModulus + 0 = 0
  BY BaseFacts
<1> QED BY <1>1, Zero128Value, ValPair, Make256 DEF Zero256

LEMMA ValType == ASSUME NEW n \in uint256 PROVE Val(n) \in 0..(Modulus - 1)
<1> DEFINE u == Val128(UPPER(n))  w == Val128(LOWER(n))  h == HalfModulus
<1>1. u \in 0..(h - 1) /\ w \in 0..(h - 1) /\ h \in Nat \ {0}
  BY Pair256, Val128Type, BaseFacts
<1>2. Val(n) = u * h + w /\ Modulus = h * h
  BY DEF Val, HalfModulus, Modulus
<1> HIDE DEF u, w, h
<1>3. u * h + w \in 0..(h * h - 1)
  BY <1>1, TwoDigits
<1> QED BY <1>2, <1>3

LEMMA ModulusType == Modulus \in Nat \ {0, 1}
<1> DEFINE h == HalfModulus
<1>1. h \in Nat /\ h > 1
  BY BaseFacts
<1> HIDE DEF h
<1>2. h * h > 1 /\ h * h \in Nat
  BY <1>1
<1> QED BY <1>2 DEF h, Modulus

LEMMA Add128Small ==
  ASSUME NEW m \in uint128, NEW n \in uint128, Val128(m) + Val128(n) \in 0..(HalfModulus - 1)
  PROVE  add128(m, n) \in uint128 /\ Val128(add128(m, n)) = Val128(m) + Val128(n)
<1> DEFINE x == Val128(m) + Val128(n)
<1>1. x \in 0..(HalfModulus - 1) /\ HalfModulus \in Nat \ {0}
  BY BaseFacts
<1>2. add128(m, n) \in uint128 /\ Val128(add128(m, n)) = x % HalfModulus
  BY Add128
<1> HIDE DEF x
<1>3. x % HalfModulus = x
  BY <1>1, ModSmall
<1> QED BY <1>2, <1>3 DEF x

\* shiftr256 divides by the power of two, and returns zero from 256 bits on.
LEMMA ShiftRight256 ==
  ASSUME NEW n \in uint256, NEW v \in Nat
  PROVE  /\ shiftr256(n, v) \in uint256
         /\ Val(shiftr256(n, v)) = IF v >= Bits256 THEN 0 ELSE Val(n) \div 2^v
<1> DEFINE U == UPPER(n)  W == LOWER(n)  u == Val128(U)  w == Val128(W)  h == HalfModulus
<1>0. /\ U \in uint128 /\ W \in uint128
      /\ u \in 0..(h - 1) /\ w \in 0..(h - 1)
      /\ Val(n) = u * h + w
  BY Pair256, Val128Type DEF Val, HalfModulus
<1>1. /\ h \in Nat \ {0} /\ Bits128 \in Nat \ {0} /\ Bits256 = Bits128 + Bits128
      /\ h = 2^Bits128
  BY BaseFacts, Widths, BasePowers
<1>v. \A s, t : Val(<< s, t >>) = Val128(s) * h + Val128(t)
  BY ValPair
<1> HIDE DEF u, w, h, U, W
<1>2. CASE v >= Bits256
  <2>1. shiftr256(n, v) = Zero256
    BY <1>2, <1>1 DEF shiftr256
  <2> QED BY <1>2, <2>1, Zero256Value
<1>3. CASE v = Bits128
  <2>1. shiftr256(n, v) = << Zero128, U >>
    BY <1>3, <1>1 DEF shiftr256, U
  <2>2. (u * h + w) \div h = u
    <3>1. u * h + w \in Nat /\ u \in Nat
      BY <1>0, <1>1
    <3> QED BY <1>0, <1>1, <3>1, QuotientUnique
  <2>3. 0 * h + u = u
    BY <1>0, <1>1
  <2>4. ~(v >= Bits256) /\ 2^v = h
    BY <1>1, <1>3
  <2>5. Val(<< Zero128, U >>) = 0 * h + u /\ << Zero128, U >> \in uint256
    BY <1>0, <1>v, Zero128Value, Make256 DEF u
  <2> QED BY <1>0, <2>1, <2>2, <2>3, <2>4, <2>5
<1>4. CASE v = 0
  <2>1. shiftr256(n, v) = n
    BY <1>4, <1>1 DEF shiftr256
  <2>2. ~(v >= Bits256) /\ 2^v = 1
    BY <1>1, <1>4
  <2>3. Val(n) \div 1 = Val(n)
    <3>1. Val(n) \in Nat
      BY ValType, ModulusType
    <3> QED BY <3>1
  <2> QED BY <2>1, <2>2, <2>3
<1>5. CASE 0 < v /\ v < Bits128
  <2> DEFINE p == 2^v  q == 2^(Bits128 - v)
             X == shiftl128(U, Bits128 - v)  Y == shiftr128(W, v)  Z == shiftr128(U, v)
  <2>1. p \in Nat \ {0} /\ q \in Nat \ {0} /\ h = p * q
    BY <1>1, <1>5, Widths, PowerSplit
  <2>2. shiftr256(n, v) = << Z, add128(Y, X) >>
    BY <1>5, <1>1 DEF shiftr256, U, W
  <2>3. /\ Z \in uint128 /\ Val128(Z) = u \div p
        /\ Y \in uint128 /\ Val128(Y) = w \div p
    <3>1. ~(v >= Bits128)
      BY <1>1, <1>5
    <3> QED BY <1>0, <3>1, ShiftRight128 DEF u, w
  <2>4. X \in uint128 /\ Val128(X) = (u % p) * q
    <3>1. Bits128 - (Bits128 - v) = v /\ Bits128 - v \in Nat /\ ~(Bits128 - v >= Bits128)
      BY <1>1, <1>5
    <3>2. X \in uint128 /\ Val128(X) = (u % 2^(Bits128 - (Bits128 - v))) * 2^(Bits128 - v)
      BY <1>0, <3>1, ShiftLeft128 DEF u
    <3> QED BY <3>1, <3>2
  <2>9. ~(v >= Bits256)
    BY <1>1, <1>5
  <2> HIDE DEF p, q, X, Y, Z
  <2>5. /\ (u % p) * q \in 0..(h - 1) /\ w \div p \in 0..(h - 1)
        /\ (u % p) * q + w \div p \in 0..(h - 1)
        /\ (u * h + w) \div p = (u \div p) * h + ((u % p) * q + w \div p)
    <3>1. RightDigits(p, q, h, u, w)
      BY <1>0, <1>1, <2>1, ShiftRightDigits
    <3> QED BY <3>1 DEF RightDigits
  <2> DEFINE x == (u % p) * q  y == w \div p  z == u \div p
  <2>6. /\ x \in Nat /\ y \in Nat /\ x + y \in 0..(h - 1)
        /\ (u * h + w) \div p = z * h + (x + y)
        /\ Val128(X) = x /\ Val128(Y) = y /\ Val128(Z) = z
    BY <1>1, <2>3, <2>4, <2>5
  <2> HIDE DEF x, y, z
  <2>7. y + x = x + y
    BY <2>6
  <2>8. add128(Y, X) \in uint128 /\ Val128(add128(Y, X)) = x + y
    <3>1. Val128(Y) + Val128(X) = x + y /\ x + y \in 0..(HalfModulus - 1)
      BY <2>6, <2>7 DEF h
    <3> QED BY <2>3, <2>4, <3>1, Add128Small
  <2>10. Val(<< Z, add128(Y, X) >>) = z * h + (x + y)
    BY <1>v, <2>6, <2>8
  <2>11. << Z, add128(Y, X) >> \in uint256
    BY <2>3, <2>8, Make256
  <2> QED BY <1>0, <2>2, <2>6, <2>9, <2>10, <2>11 DEF p
<1>6. CASE Bits128 < v /\ v < Bits256
  <2> DEFINE p == 2^(v - Bits128)  Y == shiftr128(U, v - Bits128)
  <2>1. p \in Nat \ {0} /\ 2^v = p * h
    <3>1. Bits128 \in 0..v /\ v \in 0..Bits256
      BY <1>1, <1>6, Widths
    <3> QED BY <1>1, <3>1, PowerSplit
  <2>2. shiftr256(n, v) = << Zero128, Y >>
    BY <1>6, <1>1 DEF shiftr256, U
  <2>9. ~(v >= Bits256) /\ v - Bits128 \in Nat /\ ~(v - Bits128 >= Bits128)
    BY <1>1, <1>6
  <2>3. Y \in uint128 /\ Val128(Y) = u \div p
    BY <1>0, <2>9, ShiftRight128 DEF u
  <2> HIDE DEF p, Y
  <2>4. (u * h + w) \div (p * h) = u \div p
    <3>1. u \in Nat
      BY <1>0, <1>1
    <3> QED BY <1>0, <1>1, <2>1, <3>1, ShiftRightFar
  <2> DEFINE y == u \div p
  <2>5. y \in Nat
    <3>1. Val128(Y) \in Nat
      BY <2>3, Val128Type, BaseFacts
    <3> QED BY <2>3, <3>1
  <2>6. Val128(Y) = y /\ (u * h + w) \div 2^v = y
    BY <2>1, <2>3, <2>4
  <2> HIDE DEF y
  <2>7. 0 * h + y = y
    BY <1>1, <2>5
  <2>8. Val(<< Zero128, Y >>) = y /\ << Zero128, Y >> \in uint256
    BY <1>v, <2>3, <2>6, <2>7, Zero128Value, Make256
  <2> QED BY <1>0, <2>2, <2>6, <2>8, <2>9
<1> QED BY <1>1, <1>2, <1>3, <1>4, <1>5, <1>6

\* shiftl256 drops the bits that leave the word and multiplies the others.
LEMMA ShiftLeft256 ==
  ASSUME NEW n \in uint256, NEW v \in Nat
  PROVE  /\ shiftl256(n, v) \in uint256
         /\ Val(shiftl256(n, v)) =
              IF v >= Bits256 THEN 0 ELSE (Val(n) % 2^(Bits256 - v)) * 2^v
<1> DEFINE U == UPPER(n)  W == LOWER(n)  u == Val128(U)  w == Val128(W)  h == HalfModulus
<1>0. /\ U \in uint128 /\ W \in uint128
      /\ u \in 0..(h - 1) /\ w \in 0..(h - 1)
      /\ Val(n) = u * h + w
  BY Pair256, Val128Type DEF Val, HalfModulus
<1>1. /\ h \in Nat \ {0} /\ Bits128 \in Nat \ {0} /\ Bits256 = Bits128 + Bits128
      /\ h = 2^Bits128
  BY BaseFacts, Widths, BasePowers
<1>v. \A s, t : Val(<< s, t >>) = Val128(s) * h + Val128(t)
  BY ValPair
<1> HIDE DEF u, w, h, U, W
<1>2. CASE v >= Bits256
  <2>1. shiftl256(n, v) = Zero256
    BY <1>2, <1>1 DEF shiftl256
  <2> QED BY <1>2, <2>1, Zero256Value
<1>3. CASE v = Bits128
  <2>1. shiftl256(n, v) = << W, Zero128 >>
    BY <1>3, <1>1 DEF shiftl256, W
  <2>2. (u * h + w) % h = w
    <3>1. u * h + w \in Nat /\ u \in Nat
      BY <1>0, <1>1
    <3> QED BY <1>0, <1>1, <3>1, QuotientUnique
  <2>3. w * h + 0 = w * h
    BY <1>0, <1>1
  <2>4. ~(v >= Bits256) /\ Bits256 - v = Bits128 /\ 2^v = h /\ 2^(Bits256 - v) = h
    BY <1>1, <1>3
  <2>5. Val(<< W, Zero128 >>) = w * h + 0 /\ << W, Zero128 >> \in uint256
    BY <1>0, <1>v, Zero128Value, Make256 DEF w
  <2> QED BY <1>0, <2>1, <2>2, <2>3, <2>4, <2>5
<1>4. CASE v = 0
  <2>1. shiftl256(n, v) = n
    BY <1>4, <1>1 DEF shiftl256
  <2>2. ~(v >= Bits256) /\ 2^v = 1 /\ Bits256 - v = Bits256 /\ 2^(Bits256 - v) = Modulus
    BY <1>1, <1>4, BasePowers
  <2>3. (Val(n) % Modulus) * 1 = Val(n)
    <3> DEFINE x == Val(n)
    <3>1. x \in 0..(Modulus - 1) /\ Modulus \in Nat \ {0}
      BY ValType, ModulusType
    <3> HIDE DEF x
    <3>2. x % Modulus = x /\ x * 1 = x
      BY <3>1, ModSmall
    <3> QED BY <3>2 DEF x
  <2> QED BY <2>1, <2>2, <2>3
<1>5. CASE 0 < v /\ v < Bits128
  <2> DEFINE p == 2^v  q == 2^(Bits128 - v)
             X == shiftl128(U, v)  Y == shiftr128(W, Bits128 - v)  Z == shiftl128(W, v)
  <2>1. p \in Nat \ {0} /\ q \in Nat \ {0} /\ h = p * q
    BY <1>1, <1>5, Widths, PowerSplit
  <2>2. shiftl256(n, v) = << add128(X, Y), Z >>
    BY <1>5, <1>1 DEF shiftl256, U, W
  <2>3. /\ X \in uint128 /\ Val128(X) = (u % q) * p
        /\ Z \in uint128 /\ Val128(Z) = (w % q) * p
    <3>1. ~(v >= Bits128)
      BY <1>1, <1>5
    <3> QED BY <1>0, <3>1, ShiftLeft128 DEF u, w
  <2>4. Y \in uint128 /\ Val128(Y) = w \div q
    <3>1. Bits128 - v \in Nat /\ ~(Bits128 - v >= Bits128)
      BY <1>1, <1>5
    <3> QED BY <1>0, <3>1, ShiftRight128 DEF w
  <2>e. 2^(Bits256 - v) = q * h
    <3>1. (Bits128 - v) + Bits128 = Bits256 - v /\ Bits128 - v \in Nat
          /\ (Bits128 - v) + Bits128 <= Bits256
      BY <1>1, <1>5, Widths
    <3>2. 2^((Bits128 - v) + Bits128) = 2^(Bits128 - v) * 2^Bits128
      BY <1>1, <3>1, PowerSum
    <3> QED BY <1>1, <3>1, <3>2
  <2>9. ~(v >= Bits256)
    BY <1>1, <1>5
  <2>f. (Val(n) % 2^(Bits256 - v)) * 2^v = ((u * h + w) % (q * h)) * p
    BY <1>0, <2>e
  <2> HIDE DEF p, q, X, Y, Z
  <2>5. /\ (u % q) * p \in 0..(h - 1) /\ w \div q \in 0..(h - 1)
        /\ (u % q) * p + w \div q \in 0..(h - 1)
        /\ ((u * h + w) % (q * h)) * p = ((u % q) * p + w \div q) * h + (w % q) * p
    <3>1. LeftDigits(p, q, h, u, w)
      BY <1>0, <1>1, <2>1, ShiftLeftDigits
    <3> QED BY <3>1 DEF LeftDigits
  <2> DEFINE x == (u % q) * p  y == w \div q  z == (w % q) * p
  <2>6. /\ x \in Nat /\ y \in Nat /\ x + y \in 0..(h - 1)
        /\ ((u * h + w) % (q * h)) * p = (x + y) * h + z
        /\ Val128(X) = x /\ Val128(Y) = y /\ Val128(Z) = z
    BY <1>1, <2>3, <2>4, <2>5
  <2> HIDE DEF x, y, z
  <2>8. add128(X, Y) \in uint128 /\ Val128(add128(X, Y)) = x + y
    <3>1. Val128(X) + Val128(Y) = x + y /\ x + y \in 0..(HalfModulus - 1)
      BY <2>6 DEF h
    <3> QED BY <2>3, <2>4, <3>1, Add128Small
  <2>10. Val(<< add128(X, Y), Z >>) = (x + y) * h + z
    BY <1>v, <2>6, <2>8
  <2>11. << add128(X, Y), Z >> \in uint256
    BY <2>3, <2>8, Make256
  <2> QED BY <2>f, <2>2, <2>6, <2>9, <2>10, <2>11
<1>6. CASE Bits128 < v /\ v < Bits256
  <2> DEFINE p == 2^(v - Bits128)  q == 2^(Bits256 - v)  Y == shiftl128(W, v - Bits128)
  <2>1. p \in Nat \ {0} /\ 2^v = p * h
    <3>1. Bits128 \in 0..v /\ v \in 0..Bits256
      BY <1>1, <1>6, Widths
    <3> QED BY <1>1, <3>1, PowerSplit
  <2>2. shiftl256(n, v) = << Y, Zero128 >>
    BY <1>6, <1>1 DEF shiftl256, W
  <2>9. ~(v >= Bits256) /\ v - Bits128 \in Nat /\ ~(v - Bits128 >= Bits128)
        /\ Bits128 - (v - Bits128) = Bits256 - v
    BY <1>1, <1>6
  <2>p. h = p * q /\ q \in Nat \ {0}
    <3>1. v - Bits128 \in 0..Bits128 /\ Bits128 \in 0..Bits256
      BY <1>1, <1>6, Widths
    <3> QED BY <1>1, <2>9, <3>1, PowerSplit
  <2>3. Y \in uint128 /\ Val128(Y) = (w % q) * p
    <3>1. Y \in uint128 /\ Val128(Y) = (w % 2^(Bits128 - (v - Bits128))) * 2^(v - Bits128)
      BY <1>0, <2>9, ShiftLeft128 DEF w
    <3> QED BY <2>9, <3>1
  <2>f. (Val(n) % 2^(Bits256 - v)) * 2^v = ((u * h + w) % q) * (p * h)
    BY <1>0, <2>1
  <2> HIDE DEF p, q, Y
  <2>4. /\ (w % q) * p \in 0..(h - 1)
        /\ ((u * h + w) % q) * (p * h) = ((w % q) * p) * h
    <3>1. u \in Nat
      BY <1>0, <1>1
    <3>2. LeftFar(p, q, h, u, w)
      BY <1>0, <1>1, <2>1, <2>p, <3>1, ShiftLeftFar
    <3> QED BY <3>2 DEF LeftFar
  <2> DEFINE y == (w % q) * p
  <2>6. Val128(Y) = y /\ y \in 0..(h - 1) /\ ((u * h + w) % q) * (p * h) = y * h
    BY <2>3, <2>4
  <2> HIDE DEF y
  <2>7. y * h + 0 = y * h
    BY <1>1, <2>6
  <2>8. Val(<< Y, Zero128 >>) = y * h /\ << Y, Zero128 >> \in uint256
    BY <1>v, <2>3, <2>6, <2>7, Zero128Value, Make256
  <2> QED BY <2>f, <2>2, <2>6, <2>8, <2>9
<1> QED BY <1>1, <1>2, <1>3, <1>4, <1>5, <1>6

-----------------------------------------------------------------------------
(* Bit lengths.                                                            *)

\* x has b bits: its leading one has the weight 2^(b - 1).
BitLength(x, b1) == /\ b1 \in 0..Bits256 /\ x < 2^b1
                    /\ b1 # 0 => 2^(b1 - 1) <= x

LEMMA PowerMonotone ==
  ASSUME NEW m \in 0..Bits256, NEW n \in 0..Bits256, m < n
  PROVE  2 * 2^m <= 2^n
<1> DEFINE k == n - m - 1
<1>1. k \in Nat /\ k \in 0..Bits256 /\ n = (m + 1) + k /\ m + 1 \in Nat /\ m \in 0..(Bits256 - 1)
  BY Widths
<1>2. 2^(m + 1) = 2 * 2^m /\ 2^m \in Nat \ {0}
  BY <1>1, PowersAssumption
<1>3. 2^n = 2^(m + 1) * 2^k
  <2> HIDE DEF k
  <2>1. (m + 1) + k <= Bits256
    BY <1>1
  <2> QED BY <1>1, <2>1, PowerSum
<1>4. 2^k \in Nat \ {0}
  BY <1>1, PowerType
<1> DEFINE x == 2^m  y == 2^k
<1>5. x \in Nat /\ y \in Nat /\ y >= 1 /\ 2^n = (2 * x) * y
  BY <1>2, <1>3, <1>4
<1> HIDE DEF x, y, k
<1>6. 1 * (2 * x) <= y * (2 * x) /\ y * (2 * x) = (2 * x) * y
  BY <1>5, ProductMonotone
<1>7. 2 * x <= (2 * x) * y
  BY <1>5, <1>6
<1> QED BY <1>5, <1>7 DEF x

LEMMA LengthUnique ==
  ASSUME NEW x \in Nat, NEW b1, NEW b2, BitLength(x, b1), BitLength(x, b2)
  PROVE  b1 = b2
<1>1. ASSUME NEW m, NEW n, BitLength(x, m), BitLength(x, n), m < n PROVE FALSE
  <2>1. m \in 0..Bits256 /\ n \in 0..Bits256 /\ x < 2^m /\ 2^(n - 1) <= x /\ n # 0
    BY <1>1 DEF BitLength
  <2>2. n - 1 \in 0..Bits256 /\ 2^(n - 1) \in Nat /\ 2^m \in Nat
    <3>1. n - 1 \in 0..Bits256
      BY <2>1, Widths
    <3> QED BY <2>1, <3>1, PowerType
  <2>3. CASE m = n - 1
    BY <2>1, <2>2, <2>3
  <2>4. CASE m < n - 1
    <3>1. 2 * 2^m <= 2^(n - 1)
      BY <2>1, <2>2, <2>4, PowerMonotone
    <3> QED BY <2>1, <2>2, <3>1
  <2> QED BY <1>1, <2>1, <2>3, <2>4, Widths
<1>2. b1 \in 0..Bits256 /\ b2 \in 0..Bits256
  BY DEF BitLength
<1>3. ~(b1 < b2) /\ ~(b2 < b1)
  BY <1>1
<1> QED BY <1>2, <1>3, Widths

LEMMA LengthExists ==
  ASSUME NEW k \in 0..Bits256, NEW x \in Nat, x < 2^k
  PROVE  \E b1 \in 0..k : BitLength(x, b1)
<1> DEFINE T == {n \in 0..k : x < 2^n}
<1>1. T \subseteq Nat /\ T # {}
  BY Widths
<1>2. PICK n \in T : \A m \in T : n <= m
  <2> HIDE DEF T
  <2> QED BY <1>1, LeastElement
<1>3. n \in 0..k /\ x < 2^n /\ n \in 0..Bits256
  BY <1>2, Widths
<1>4. ASSUME n # 0 PROVE 2^(n - 1) <= x
  <2>1. n - 1 \in 0..k /\ n - 1 \in 0..Bits256 /\ ~(n <= n - 1)
    BY <1>3, <1>4, Widths
  <2>2. ~(x < 2^(n - 1))
    BY <1>2, <2>1
  <2>3. 2^(n - 1) \in Nat
    BY <2>1, PowerType
  <2> QED BY <2>2, <2>3
<1> QED BY <1>3, <1>4 DEF BitLength

LEMMA LengthZero == BitLength(0, 0)
BY Widths DEF BitLength

LEMMA LengthHalf ==
  ASSUME NEW x \in Nat \ {0}, NEW b1, BitLength(x, b1)
  PROVE  b1 \in 1..Bits256 /\ BitLength(x \div 2, b1 - 1)
<1>1. b1 \in 0..Bits256 /\ x < 2^b1 /\ (b1 # 0 => 2^(b1 - 1) <= x)
  BY DEF BitLength
<1>2. b1 # 0
  <2>1. b1 = 0 => 2^b1 = 1
    OBVIOUS
  <2> QED BY <1>1, <2>1
<1>3. /\ b1 - 1 \in 0..(Bits256 - 1) /\ b1 - 1 \in 0..Bits256 /\ b1 \in 1..Bits256
      /\ (b1 - 1) + 1 = b1
  BY <1>1, <1>2, Widths
<1>4. 2^(b1 - 1) \in Nat /\ 2^b1 = 2 * 2^(b1 - 1)
  BY <1>3, PowersAssumption
<1>5. x \div 2 < 2^(b1 - 1)
  <2> DEFINE y == 2^(b1 - 1)
  <2>1. y \in Nat /\ x < 2 * y
    BY <1>1, <1>4
  <2> HIDE DEF y
  <2>2. x \div 2 < y
    BY <2>1
  <2> QED BY <2>2 DEF y
<1>6. ASSUME b1 - 1 # 0 PROVE 2^((b1 - 1) - 1) <= x \div 2
  <2> DEFINE c == (b1 - 1) - 1
  <2>1. c \in 0..(Bits256 - 1) /\ c + 1 = b1 - 1
    BY <1>3, <1>6, Widths
  <2>2. 2^c \in Nat /\ 2^(c + 1) = 2 * 2^c
    BY <2>1, PowersAssumption
  <2> DEFINE y == 2^c
  <2>3. y \in Nat /\ 2 * y <= x
    BY <1>1, <1>2, <2>1, <2>2
  <2> HIDE DEF y, c
  <2>4. y <= x \div 2
    BY <2>3
  <2> QED BY <2>4 DEF y, c
<1> QED BY <1>3, <1>5, <1>6 DEF BitLength

\* The loop of bits128 counts the bits of a limb.
LEMMA Halvings64 ==
  ASSUME NEW x \in uint64
  PROVE  BitLength(x, halvings64[x]) /\ halvings64[x] \in 0..LimbBits
<1> DEFINE E(f) == f = [y \in uint64 |-> IF y = 0 THEN 0 ELSE 1 + f[y \div 2]]
           g == [y \in uint64 |-> CHOOSE b1 : BitLength(y, b1)]
<1>0. \A y \in uint64 : y \in Nat /\ y < 2^LimbBits /\ y \div 2 \in uint64 /\ (y # 0 => y \div 2 < y)
  BY BaseFacts, BasePowers DEF uint64
<1>1. \A y \in uint64 : \E b1 \in 0..LimbBits : BitLength(y, b1)
  <2>1. LimbBits \in 0..Bits256
    BY Widths
  <2> QED BY <1>0, <2>1, LengthExists
<1>2. \A y \in uint64 : BitLength(y, g[y]) /\ g[y] \in 0..LimbBits
  <2> TAKE y \in uint64
  <2>1. g[y] = CHOOSE b1 : BitLength(y, b1)
    OBVIOUS
  <2>2. BitLength(y, g[y])
    BY <1>1, <2>1
  <2>3. PICK b1 \in 0..LimbBits : BitLength(y, b1)
    BY <1>1
  <2> HIDE DEF g
  <2>4. b1 = g[y]
    BY <1>0, <2>2, <2>3, LengthUnique
  <2> QED BY <2>2, <2>3, <2>4
<1>3. E(g)
  <2>1. ASSUME NEW y \in uint64 PROVE g[y] = IF y = 0 THEN 0 ELSE 1 + g[y \div 2]
    <3> HIDE DEF g
    <3>1. CASE y = 0
      BY <1>0, <1>2, <3>1, LengthZero, LengthUnique
    <3>2. CASE y # 0
      <4>1. g[y] \in 1..Bits256 /\ BitLength(y \div 2, g[y] - 1)
        BY <1>0, <1>2, <3>2, LengthHalf
      <4>2. BitLength(y \div 2, g[y \div 2]) /\ y \div 2 \in Nat
        BY <1>0, <1>2
      <4>3. g[y] - 1 = g[y \div 2]
        BY <4>1, <4>2, LengthUnique
      <4>4. g[y] = 1 + (g[y] - 1)
        BY <4>1, Widths
      <4> QED BY <3>2, <4>3, <4>4
    <3> QED BY <3>1, <3>2
  <2>2. g = [y \in uint64 |-> g[y]]
    OBVIOUS
  <2> HIDE DEF g
  <2> QED BY <2>1, <2>2
<1>4. E(halvings64)
  <2>1. halvings64 = CHOOSE f : E(f)
    BY Zenon DEF halvings64
  <2> HIDE DEF E, g
  <2> QED BY <1>3, <2>1, Zenon
<1> DEFINE T == {y \in uint64 : halvings64[y] # g[y]}
<1>5. T = {}
  <2>1. SUFFICES ASSUME T # {} PROVE FALSE
    OBVIOUS
  <2>2. T \subseteq Nat
    BY <1>0
  <2>3. PICK y \in T : \A z \in T : y <= z
    <3> HIDE DEF T
    <3> QED BY <2>1, <2>2, LeastElement
  <2> HIDE DEF g
  <2>4. y \in uint64 /\ halvings64[y] = (IF y = 0 THEN 0 ELSE 1 + halvings64[y \div 2])
        /\ g[y] = (IF y = 0 THEN 0 ELSE 1 + g[y \div 2]) /\ halvings64[y] # g[y]
    BY <1>3, <1>4, <2>3
  <2>5. y # 0 /\ halvings64[y \div 2] # g[y \div 2]
    BY <2>4
  <2>6. y \div 2 \in T
    BY <1>0, <2>4, <2>5
  <2>7. y <= y \div 2 /\ y \div 2 < y /\ y \in Nat /\ y \div 2 \in Nat
    BY <1>0, <2>3, <2>4, <2>5, <2>6
  <2> QED BY <2>7
<1> HIDE DEF g
<1>6. halvings64[x] = g[x]
  BY <1>5
<1> QED BY <1>2, <1>6

LEMMA Zero128Test == ASSUME NEW n \in uint128 PROVE zero128(n) <=> Val128(n) = 0
<1> DEFINE u == UPPER(n)  w == LOWER(n)
<1>1. u \in Nat /\ w \in Nat /\ Base \in Nat \ {0}
  BY Pair128, BaseFacts
<1> HIDE DEF u, w
<1>2. u * Base + w = 0 <=> u = 0 /\ w = 0
  <2>1. CASE u = 0
    BY <1>1, <2>1
  <2>2. CASE u # 0
    <3>1. 1 * Base <= u * Base /\ u * Base \in Nat
      BY <1>1, <2>2, ProductMonotone, ProductNat
    <3> QED BY <1>1, <2>2, <3>1
  <2> QED BY <2>1, <2>2
<1> QED BY <1>2 DEF zero128, Val128, u, w

\* The loop of bits256 counts the bits of a pair of limbs.
LEMMA Halvings128 ==
  ASSUME NEW x \in uint128
  PROVE  BitLength(Val128(x), halvings128[x]) /\ halvings128[x] \in 0..Bits128
<1> DEFINE E(f) == f = [y \in uint128 |-> IF zero128(y) THEN 0 ELSE 1 + f[shiftr128(y, 1)]]
           g == [y \in uint128 |-> CHOOSE b1 : BitLength(Val128(y), b1)]
<1>0. \A y \in uint128 : /\ Val128(y) \in Nat /\ Val128(y) < 2^Bits128
                         /\ shiftr128(y, 1) \in uint128
                         /\ Val128(shiftr128(y, 1)) = Val128(y) \div 2
                         /\ zero128(y) <=> Val128(y) = 0
  <2> TAKE y \in uint128
  <2>1. Val128(y) \in Nat /\ Val128(y) < 2^Bits128
    BY Val128Type, BaseFacts, BasePowers
  <2>2. ~(1 >= Bits128) /\ 2^1 = 2
    BY Widths
  <2>3. shiftr128(y, 1) \in uint128 /\ Val128(shiftr128(y, 1)) = Val128(y) \div 2
    BY <2>2, ShiftRight128
  <2> QED BY <2>1, <2>3, Zero128Test
<1>1. \A y \in uint128 : \E b1 \in 0..Bits128 : BitLength(Val128(y), b1)
  <2>1. Bits128 \in 0..Bits256
    BY Widths
  <2> QED BY <1>0, <2>1, LengthExists
<1>2. \A y \in uint128 : BitLength(Val128(y), g[y]) /\ g[y] \in 0..Bits128
  <2> TAKE y \in uint128
  <2>1. g[y] = CHOOSE b1 : BitLength(Val128(y), b1)
    OBVIOUS
  <2>2. BitLength(Val128(y), g[y])
    BY <1>1, <2>1
  <2>3. PICK b1 \in 0..Bits128 : BitLength(Val128(y), b1)
    BY <1>1
  <2> HIDE DEF g
  <2>4. b1 = g[y]
    BY <1>0, <2>2, <2>3, LengthUnique
  <2> QED BY <2>2, <2>3, <2>4
<1>3. E(g)
  <2>1. ASSUME NEW y \in uint128 PROVE g[y] = IF zero128(y) THEN 0 ELSE 1 + g[shiftr128(y, 1)]
    <3> HIDE DEF g
    <3> DEFINE v == Val128(y)  y2 == shiftr128(y, 1)
    <3>0. /\ v \in Nat /\ y2 \in uint128 /\ Val128(y2) = v \div 2 /\ (zero128(y) <=> v = 0)
          /\ BitLength(v, g[y])
      BY <1>0, <1>2
    <3>9. BitLength(Val128(y2), g[y2]) /\ Val128(y2) \in Nat
      BY <1>0, <1>2, <3>0
    <3> HIDE DEF v, y2
    <3>1. CASE v = 0
      BY <3>0, <3>1, LengthZero, LengthUnique
    <3>2. CASE v # 0
      <4>1. g[y] \in 1..Bits256 /\ BitLength(v \div 2, g[y] - 1)
        BY <3>0, <3>2, LengthHalf
      <4>3. g[y] - 1 = g[y2]
        BY <3>0, <3>9, <4>1, LengthUnique
      <4>4. g[y] = 1 + (g[y] - 1)
        BY <4>1, Widths
      <4> QED BY <3>0, <3>2, <4>3, <4>4 DEF y2
    <3> QED BY <3>1, <3>2
  <2>2. g = [y \in uint128 |-> g[y]]
    OBVIOUS
  <2> HIDE DEF g
  <2> QED BY <2>1, <2>2
<1>4. E(halvings128)
  <2>1. halvings128 = CHOOSE f : E(f)
    BY Zenon DEF halvings128
  <2> HIDE DEF E, g
  <2> QED BY <1>3, <2>1, Zenon
<1> DEFINE T == {v \in Nat : \E y \in uint128 : v = Val128(y) /\ halvings128[y] # g[y]}
<1>5. T = {}
  <2>1. SUFFICES ASSUME T # {} PROVE FALSE
    OBVIOUS
  <2>2. T \subseteq Nat
    OBVIOUS
  <2>3. PICK v \in T : \A z \in T : v <= z
    <3> HIDE DEF T
    <3> QED BY <2>1, <2>2, LeastElement
  <2> HIDE DEF g
  <2>4. PICK y \in uint128 : v = Val128(y) /\ halvings128[y] # g[y]
    BY <2>3
  <2> DEFINE y2 == shiftr128(y, 1)
  <2>5. /\ halvings128[y] = (IF zero128(y) THEN 0 ELSE 1 + halvings128[y2])
        /\ g[y] = (IF zero128(y) THEN 0 ELSE 1 + g[y2])
    BY <1>3, <1>4
  <2>6. ~zero128(y) /\ halvings128[y2] # g[y2]
    BY <2>4, <2>5
  <2>7. v \in Nat /\ v # 0 /\ Val128(y2) = v \div 2 /\ v \div 2 \in Nat /\ y2 \in uint128
    BY <1>0, <2>4, <2>6
  <2>8. v \div 2 \in T
    BY <2>6, <2>7
  <2> QED BY <2>3, <2>7, <2>8
<1> HIDE DEF g
<1>6. halvings128[x] = g[x]
  BY <1>0, <1>5
<1> QED BY <1>2, <1>6

\* bits256 is the number of bits of the number.
LEMMA BitsNumeric ==
  ASSUME NEW n \in uint256
  PROVE  BitLength(Val(n), bits256(n))
<1> DEFINE U == UPPER(n)  W == LOWER(n)  u == Val128(U)  w == Val128(W)  h == HalfModulus
<1>0. /\ U \in uint128 /\ W \in uint128
      /\ u \in 0..(h - 1) /\ w \in 0..(h - 1)
      /\ Val(n) = u * h + w
  BY Pair256, Val128Type DEF Val, HalfModulus
<1>1. /\ h \in Nat \ {0} /\ Bits128 \in Nat \ {0} /\ Bits256 = Bits128 + Bits128
      /\ h = 2^Bits128
  BY BaseFacts, Widths, BasePowers
<1>2. (zero128(U) <=> u = 0) /\ BitLength(u, halvings128[U]) /\ BitLength(w, halvings128[W])
      /\ halvings128[U] \in 0..Bits128
  BY <1>0, Zero128Test, Halvings128
<1>3. bits256(n) = IF u # 0 THEN Bits128 + halvings128[U] ELSE halvings128[W]
  BY <1>2 DEF bits256
<1> DEFINE k == halvings128[U]
<1> HIDE DEF U, W, u, w, h, k
<1>4. CASE u = 0
  <2>1. u * h + w = w
    BY <1>0, <1>1, <1>4
  <2> QED BY <1>0, <1>2, <1>3, <1>4, <2>1
<1>5. CASE u # 0
  <2>1. k \in 1..Bits256 /\ u < 2^k /\ 2^(k - 1) <= u /\ k \in 0..Bits128
    <3>1. u \in Nat \ {0}
      BY <1>0, <1>1, <1>5
    <3>2. k \in 1..Bits256
      BY <1>2, <3>1, LengthHalf DEF k
    <3> QED BY <1>2, <3>2 DEF BitLength, k
  <2>2. Bits128 + k \in 0..Bits256 /\ k - 1 \in 0..Bits256 /\ k \in 0..Bits256 /\ k \in Nat
        /\ k - 1 \in Nat /\ k + Bits128 = Bits128 + k
        /\ (k - 1) + Bits128 = (Bits128 + k) - 1 /\ Bits128 + k # 0
        /\ k + Bits128 <= Bits256 /\ (k - 1) + Bits128 <= Bits256
    BY <1>1, <2>1
  <2>3. 2^(Bits128 + k) = 2^k * h /\ 2^((Bits128 + k) - 1) = 2^(k - 1) * h
    <3>1. 2^(k + Bits128) = 2^k * 2^Bits128 /\ 2^((k - 1) + Bits128) = 2^(k - 1) * 2^Bits128
      BY <1>1, <2>2, PowerSum
    <3> QED BY <1>1, <2>2, <3>1
  <2>4. 2^k \in Nat /\ 2^(k - 1) \in Nat
    BY <2>2, PowerType
  <2> DEFINE x == 2^k  y == 2^(k - 1)
  <2>5. x \in Nat /\ y \in Nat /\ u \in Nat /\ u + 1 <= x /\ y <= u
    BY <1>0, <1>1, <2>1, <2>4
  <2>6. 2^(Bits128 + k) = x * h /\ 2^((Bits128 + k) - 1) = y * h
    BY <2>3
  <2> HIDE DEF x, y
  <2>7. (u + 1) * h <= x * h /\ y * h <= u * h /\ (u + 1) * h = u * h + h
    BY <1>1, <2>5, ProductMonotone, ProductSum
  <2>8. u * h \in Nat /\ x * h \in Nat /\ y * h \in Nat
    BY <1>1, <2>5, ProductNat
  <2>9. u * h + w < x * h /\ y * h <= u * h + w
    BY <1>0, <1>1, <2>7, <2>8
  <2>10. bits256(n) = Bits128 + k
    BY <1>3, <1>5 DEF k
  <2> QED BY <1>0, <2>2, <2>6, <2>9, <2>10 DEF BitLength
<1> QED BY <1>4, <1>5

-----------------------------------------------------------------------------
(* or256 of numbers whose bits do not meet is addition.                    *)

\* LimbOf adds up the weights of the bits, from the lowest.
LEMMA LimbSums ==
  ASSUME NEW I
  PROVE  \E f : /\ LimbOf(I) = f[LimbBits] /\ f[0] = 0
                /\ \A i \in 0..(LimbBits - 1) : f[i + 1] = f[i] + (IF i \in I THEN 2^i ELSE 0)
<1> DEFINE E(f) == f = [i \in 0..LimbBits |->
                    IF i = 0 THEN 0 ELSE f[i - 1] + (IF i - 1 \in I THEN 2^(i - 1) ELSE 0)]
           low == CHOOSE f : E(f)
<1>1. \E f : E(f)
  <2> DEFINE c == [i \in 0..LimbBits |-> IF i - 1 \in I THEN 2^(i - 1) ELSE 0]
  <2>1. PICK f : f = [i \in 0..LimbBits |-> IF i = 0 THEN 0 ELSE f[i - 1] + c[i]]
    <3> HIDE DEF c
    <3> QED BY Widths, PartialSums
  <2>2. \A i \in 0..LimbBits : c[i] = IF i - 1 \in I THEN 2^(i - 1) ELSE 0
    OBVIOUS
  <2> HIDE DEF c
  <2>3. E(f)
    BY <2>1, <2>2
  <2> QED BY <2>3
<1>2. E(low)
  <2> HIDE DEF E
  <2> QED BY <1>1
<1>3. LimbOf(I) = low[LimbBits]
  BY Zenon DEF LimbOf
<1> HIDE DEF low
<1>4. low[0] = 0
  BY <1>2, Widths
<1>5. ASSUME NEW i \in 0..(LimbBits - 1) PROVE low[i + 1] = low[i] + (IF i \in I THEN 2^i ELSE 0)
  <2>1. i + 1 \in 0..LimbBits /\ i + 1 # 0 /\ (i + 1) - 1 = i
    BY Widths
  <2>2. low[i + 1] = low[(i + 1) - 1] + (IF (i + 1) - 1 \in I THEN 2^((i + 1) - 1) ELSE 0)
    BY <1>2, <2>1
  <2> QED BY <2>1, <2>2
<1> QED BY <1>3, <1>4, <1>5

\* LimbOf is a limb.
LEMMA LimbOfType == ASSUME NEW I PROVE LimbOf(I) \in uint64
<1>1. PICK f : /\ LimbOf(I) = f[LimbBits] /\ f[0] = 0
               /\ \A i \in 0..(LimbBits - 1) : f[i + 1] = f[i] + (IF i \in I THEN 2^i ELSE 0)
  BY LimbSums
<1> DEFINE S == {i \in 0..LimbBits : f[i] \in 0..(2^i - 1)}
<1>2. 0 \in S
  <2>1. 2^0 = 1 /\ 0 \in 0..LimbBits /\ 0 \in 0..(1 - 1)
    BY Widths
  <2> QED BY <1>1, <2>1
<1>3. ASSUME NEW i \in 0..(LimbBits - 1), i \in S PROVE i + 1 \in S
  <2>1. i \in 0..(Bits256 - 1) /\ i + 1 \in 0..LimbBits
    BY Widths
  <2>2. 2^i \in Nat \ {0} /\ 2^(i + 1) = 2 * 2^i
    BY <2>1, PowersAssumption
  <2> DEFINE p == 2^i  x == f[i]  y == f[i + 1]
  <2>3. p \in Nat \ {0} /\ 2^(i + 1) = 2 * p /\ x \in 0..(p - 1) /\ y = x + (IF i \in I THEN p ELSE 0)
    BY <1>1, <1>3, <2>2
  <2> HIDE DEF p, x, y
  <2>4. y \in 0..(2 * p - 1)
    BY <2>3
  <2> QED BY <2>1, <2>3, <2>4 DEF y
<1>4. 0..LimbBits \subseteq S
  <2> HIDE DEF S
  <2> QED BY Widths, <1>2, <1>3, InductionUpTo
<1>5. LimbBits \in 0..LimbBits
  BY Widths
<1>6. f[LimbBits] \in 0..(2^LimbBits - 1)
  BY <1>4, <1>5
<1> QED BY <1>1, <1>6, BasePowers DEF uint64

LEMMA BitStep ==
  ASSUME NEW x \in Nat, NEW j \in 0..(Bits256 - 1)
  PROVE  /\ BitOf(x, j) \in {0, 1}
         /\ x % 2^(j + 1) = (x % 2^j) + BitOf(x, j) * 2^j
         /\ x % 2^j \in Nat
<1> DEFINE p == 2^j  A == x \div p  t == x % p  bt == A % 2  c == A \div 2
<1>1. p \in Nat \ {0} /\ 2^(j + 1) = 2 * p
  BY PowersAssumption
<1>2. BitOf(x, j) = bt
  BY DEF BitOf
<1> HIDE DEF p
<1>3. A \in Nat /\ t \in 0..(p - 1) /\ x = A * p + t
  BY <1>1, QuotientFacts
<1> HIDE DEF A, t
<1>4. c \in Nat /\ bt \in 0..1 /\ A = c * 2 + bt
  BY <1>3
<1> HIDE DEF c, bt
<1>5. x = c * (2 * p) + (bt * p + t)
  BY <1>1, <1>3, <1>4
<1>6. bt * p + t \in 0..(2 * p - 1)
  BY <1>1, <1>3, <1>4
<1> DEFINE m == 2 * p  z == bt * p + t
<1>7. m \in Nat \ {0} /\ z \in 0..(m - 1) /\ x = c * m + z /\ c \in Nat
  BY <1>1, <1>4, <1>5, <1>6
<1> HIDE DEF m, z
<1>8. x % m = z
  BY <1>7, QuotientUnique
<1>9. z = t + bt * p
  BY <1>1, <1>3, <1>4 DEF z
<1>10. x % (2 * p) = t + bt * p
  BY <1>8, <1>9 DEF m
<1>11. x % 2^(j + 1) = (x % p) + BitOf(x, j) * p
  BY <1>1, <1>2, <1>10 DEF t
<1>12. BitOf(x, j) \in {0, 1} /\ x % p \in Nat
  BY <1>1, <1>2, <1>3, <1>4 DEF t
<1> QED BY <1>11, <1>12 DEF p

\* Below the lowest one of x, and above the highest one of y, bits are zero.
LEMMA LowBitsZero ==
  ASSUME NEW i \in 0..Bits256, NEW x \in Nat, x % 2^i = 0, NEW j \in 0..(i - 1)
  PROVE  BitOf(x, j) = 0
<1> DEFINE p == 2^j  m == 2^i  e == 2^(i - j - 1)  c == x \div m
<1>1. j \in 0..Bits256 /\ i - j - 1 \in 0..Bits256 /\ j \in Nat /\ j + 1 \in Nat /\ i - j - 1 \in Nat
      /\ (j + 1) + (i - j - 1) = i /\ j \in 0..(Bits256 - 1) /\ (j + 1) + (i - j - 1) <= Bits256
  BY Widths
<1>2. p \in Nat \ {0} /\ m \in Nat \ {0} /\ e \in Nat \ {0}
  BY <1>1, PowerType
<1>3. m = (2 * p) * e
  <2>1. 2^((j + 1) + (i - j - 1)) = 2^(j + 1) * 2^(i - j - 1)
    BY <1>1, PowerSum
  <2>2. 2^(j + 1) = 2 * p
    BY <1>1, PowersAssumption
  <2> QED BY <1>1, <2>1, <2>2
<1>m. x % m = 0
  OBVIOUS
<1>b. BitOf(x, j) = (x \div p) % 2
  BY DEF BitOf
<1> HIDE DEF p, m, e
<1>4. c \in Nat /\ x = c * m + 0
  BY <1>2, <1>m, QuotientFacts
<1> HIDE DEF c
<1>5. x = (2 * (c * e)) * p + 0 /\ c * e \in Nat
  <2>1. c * ((2 * p) * e) = (2 * (c * e)) * p
    BY <1>2, <1>4
  <2>2. (2 * (c * e)) * p \in Nat /\ c * e \in Nat
    BY <1>2, <1>4, ProductNat
  <2> QED BY <1>3, <1>4, <2>1, <2>2
<1> DEFINE k == c * e
<1>6. k \in Nat /\ x = (2 * k) * p + 0
  BY <1>5
<1> HIDE DEF k
<1>7. 2 * k \in Nat /\ 0 \in 0..(p - 1)
  BY <1>2, <1>6
<1>8. x \div p = 2 * k
  BY <1>2, <1>6, <1>7, QuotientUnique
<1>9. (2 * k) % 2 = 0
  BY <1>6
<1> QED BY <1>8, <1>9, <1>b

LEMMA HighBitsZero ==
  ASSUME NEW i \in 0..Bits256, NEW y \in Nat, y < 2^i, NEW j \in i..Bits256
  PROVE  BitOf(y, j) = 0
<1>1. j \in 0..Bits256
  BY Widths
<1>2. 2^j \in Nat \ {0} /\ 2^i \in Nat /\ y < 2^j
  <2>1. 2^j \in Nat \ {0} /\ 2^i \in Nat
    BY <1>1, PowerType
  <2>2. CASE i = j
    BY <2>1, <2>2
  <2>3. CASE i < j
    <3>1. 2 * 2^i <= 2^j
      BY <1>1, <2>3, PowerMonotone
    <3> QED BY <2>1, <3>1
  <2> QED BY <2>1, <2>2, <2>3, Widths
<1> DEFINE p == 2^j
<1>3. p \in Nat \ {0} /\ y \in 0..(p - 1) /\ BitOf(y, j) = (y \div p) % 2
  BY <1>2 DEF BitOf
<1> HIDE DEF p
<1>4. y = 0 * p + y
  BY <1>3
<1>5. y \div p = 0
  BY <1>3, <1>4, QuotientUnique
<1> QED BY <1>3, <1>5

\* or64 of two limbs, one of which has its bits below the other's, adds them.
LEMMA OrDisjoint64 ==
  ASSUME NEW x \in uint64, NEW y \in uint64, NEW i \in 0..LimbBits, x % 2^i = 0, y < 2^i
  PROVE  or64(x, y) = x + y
<1> DEFINE I == Ones(x) \cup Ones(y)
<1> HIDE DEF I
<1>0. x \in Nat /\ y \in Nat /\ i \in 0..Bits256 /\ x \in 0..(2^LimbBits - 1) /\ y \in 0..(2^LimbBits - 1)
  BY BaseFacts, BasePowers, Widths DEF uint64
<1>1. PICK f : /\ LimbOf(I) = f[LimbBits] /\ f[0] = 0
               /\ \A j \in 0..(LimbBits - 1) : f[j + 1] = f[j] + (IF j \in I THEN 2^j ELSE 0)
  BY LimbSums
<1> DEFINE S == {j \in 0..LimbBits : f[j] = (x % 2^j) + (y % 2^j)}
<1>2. 0 \in S
  <2>1. 2^0 = 1 /\ 0 \in 0..LimbBits /\ x % 1 = 0 /\ y % 1 = 0
    BY <1>0, Widths
  <2> QED BY <1>1, <2>1
<1>3. ASSUME NEW j \in 0..(LimbBits - 1), j \in S PROVE j + 1 \in S
  <2>1. j \in 0..(Bits256 - 1) /\ j + 1 \in 0..LimbBits
    BY Widths
  <2> DEFINE bx == BitOf(x, j)  by == BitOf(y, j)  p == 2^j  sx == x % 2^j  sy == y % 2^j
  <2>2. /\ bx \in {0, 1} /\ by \in {0, 1} /\ p \in Nat /\ sx \in Nat /\ sy \in Nat
        /\ x % 2^(j + 1) = sx + bx * p /\ y % 2^(j + 1) = sy + by * p
    BY <1>0, <2>1, BitStep, PowersAssumption
  <2>3. j \in I <=> bx = 1 \/ by = 1
    BY DEF Ones, I
  <2>4. bx = 0 \/ by = 0
    <3>1. CASE j < i
      <4>1. j \in 0..(i - 1)
        BY <3>1, <1>0, Widths
      <4> QED BY <1>0, <4>1, LowBitsZero
    <3>2. CASE ~(j < i)
      <4>1. j \in i..Bits256
        BY <3>2, <1>0, Widths
      <4> QED BY <1>0, <4>1, HighBitsZero
    <3> QED BY <3>1, <3>2
  <2>5. f[j] = sx + sy /\ f[j + 1] = f[j] + (IF j \in I THEN p ELSE 0)
    BY <1>1, <1>3
  <2> HIDE DEF bx, by, p, sx, sy
  <2>6. f[j + 1] = (sx + bx * p) + (sy + by * p)
    BY <2>2, <2>3, <2>4, <2>5
  <2> QED BY <2>1, <2>2, <2>6
<1>4. 0..LimbBits \subseteq S
  <2> HIDE DEF S
  <2> QED BY Widths, <1>2, <1>3, InductionUpTo
<1>5. f[LimbBits] = (x % 2^LimbBits) + (y % 2^LimbBits)
  <2>1. LimbBits \in 0..LimbBits
    BY Widths
  <2> QED BY <1>4, <2>1
<1>6. x % 2^LimbBits = x /\ y % 2^LimbBits = y
  <2>1. 2^LimbBits \in Nat \ {0}
    BY BaseFacts, BasePowers
  <2> QED BY <1>0, <2>1, ModSmall
<1> QED BY <1>1, <1>5, <1>6 DEF or64, I

\* Two numbers of two digits whose bits do not meet, divided by p below the
\* base: the digits do not meet either.
LEMMA DisjointLow ==
  ASSUME NEW p \in Nat \ {0}, NEW q \in Nat \ {0}, NEW h \in Nat, h = p * q,
         NEW u \in Nat, NEW w \in Nat, NEW s \in Nat, NEW t \in Nat,
         (u * h + w) % p = 0, s * h + t < p
  PROVE  w % p = 0 /\ s = 0 /\ t < p
<1>1. h >= p
  <2>1. 1 * p <= q * p /\ q * p = p * q
    BY ProductMonotone, ProductNat
  <2> QED BY <2>1
<1>2. s = 0 /\ t < p
  <2>0. s * h \in Nat
    BY ProductNat
  <2>1. ASSUME s # 0 PROVE FALSE
    <3>1. 1 * h <= s * h
      BY <2>1, ProductMonotone
    <3> QED BY <1>1, <2>0, <3>1
  <2>2. s = 0
    BY <2>1
  <2> QED BY <2>0, <2>2
<1> DEFINE c == w \div p  e == w % p
<1>3. c \in Nat /\ e \in 0..(p - 1) /\ w = c * p + e
  BY QuotientFacts
<1> HIDE DEF c, e
<1>4. u * h + w = (u * q + c) * p + e
  <2>1. u * (p * q) = (u * q) * p /\ (u * q + c) * p = (u * q) * p + c * p
    BY <1>3
  <2>2. (u * q) * p \in Nat /\ c * p \in Nat
    BY <1>3, ProductNat
  <2> QED BY <1>3, <2>1, <2>2
<1>5. u * h + w \in Nat /\ u * q + c \in Nat
  BY <1>3, ProductNat
<1>6. (u * h + w) % p = e
  BY <1>3, <1>4, <1>5, QuotientUnique
<1> QED BY <1>2, <1>6 DEF e

\* The same for p times the base.
LEMMA DisjointHigh ==
  ASSUME NEW p \in Nat \ {0}, NEW h \in Nat \ {0},
         NEW u \in Nat, NEW w \in 0..(h - 1), NEW s \in Nat, NEW t \in Nat,
         (u * h + w) % (p * h) = 0, s * h + t < p * h
  PROVE  w = 0 /\ u % p = 0 /\ s < p
<1>1. s < p
  <2>0. s * h \in Nat /\ p * h \in Nat
    BY ProductNat
  <2>1. ASSUME ~(s < p) PROVE FALSE
    <3>1. p * h <= s * h
      BY <2>1, ProductMonotone
    <3> QED BY <2>0, <3>1
  <2> QED BY <2>1
<1> DEFINE c == u \div p  e == u % p
<1>3. c \in Nat /\ e \in 0..(p - 1) /\ u = c * p + e
  BY QuotientFacts
<1>4. e * h \in Nat /\ p * h \in Nat /\ e * h + w \in 0..(p * h - 1)
  BY <1>3, MixedDigits
<1> HIDE DEF c, e
<1>5. u * h + w = c * (p * h) + (e * h + w) /\ u * h + w \in Nat
  <2>1. u * h = c * (p * h) + e * h
    BY <1>3
  <2>2. u * h \in Nat /\ c * (p * h) \in Nat
    BY <1>3, <1>4, ProductNat
  <2> QED BY <1>4, <2>1, <2>2
<1> DEFINE x == u * h + w  m == p * h  z == e * h + w
<1>6. x \in Nat /\ m \in Nat \ {0} /\ z \in 0..(m - 1) /\ x = c * m + z /\ x % m = 0
  BY <1>4, <1>5
<1>7. z = e * h + w
  OBVIOUS
<1> HIDE DEF x, m, z
<1>8. z = 0
  BY <1>3, <1>6, QuotientUnique
<1>9. w = 0 /\ e * h = 0
  BY <1>4, <1>7, <1>8
<1>10. e = 0
  <2>1. ASSUME e # 0 PROVE FALSE
    <3>1. 1 * h <= e * h
      BY <1>3, <2>1, ProductMonotone
    <3> QED BY <1>9, <3>1
  <2> QED BY <2>1
<1> QED BY <1>1, <1>9, <1>10 DEF e

LEMMA Or64Type == ASSUME NEW x, NEW y PROVE or64(x, y) \in uint64
BY LimbOfType DEF or64

LEMMA Or128Type == ASSUME NEW m, NEW n PROVE or128(m, n) \in uint128
BY Or64Type DEF or128, uint128

LEMMA Or256Type == ASSUME NEW m, NEW n PROVE or256(m, n) \in uint256
BY Or128Type DEF or256, uint256

\* The same for the halves of a uint128.
LEMMA OrDisjoint128 ==
  ASSUME NEW m \in uint128, NEW n \in uint128, NEW i \in 0..Bits128,
         Val128(m) % 2^i = 0, Val128(n) < 2^i
  PROVE  Val128(or128(m, n)) = Val128(m) + Val128(n)
<1> DEFINE u == UPPER(m)  w == LOWER(m)  s == UPPER(n)  t == LOWER(n)
<1>0. /\ u \in uint64 /\ w \in uint64 /\ s \in uint64 /\ t \in uint64
      /\ Val128(m) = u * Base + w /\ Val128(n) = s * Base + t
      /\ Base \in Nat \ {0} /\ uint64 = 0..(Base - 1)
  BY Pair128, BaseFacts DEF Val128, uint64
<1>1. u \in Nat /\ w \in Nat /\ s \in Nat /\ t \in Nat
  BY <1>0
<1>2. Val128(or128(m, n)) = or64(u, s) * Base + or64(w, t)
  BY Val128Pair DEF or128
<1>3. (u * Base + w) % 2^i = 0 /\ s * Base + t < 2^i
  BY <1>0
<1> HIDE DEF u, w, s, t
<1>4. or64(u, s) = u + s /\ or64(w, t) = w + t
  <2>1. CASE i <= LimbBits
    <3>1. i \in 0..LimbBits /\ LimbBits \in 0..Bits256
      BY <2>1, Widths
    <3>2. 2^i \in Nat \ {0} /\ 2^(LimbBits - i) \in Nat \ {0} /\ Base = 2^i * 2^(LimbBits - i)
      BY <3>1, PowerSplit, BasePowers
    <3>3. w % 2^i = 0 /\ s = 0 /\ t < 2^i
      <4> DEFINE p == 2^i  q == 2^(LimbBits - i)
      <4>1. p \in Nat \ {0} /\ q \in Nat \ {0} /\ Base = p * q /\ (u * Base + w) % p = 0 /\ s * Base + t < p
        BY <1>3, <3>2
      <4> HIDE DEF p, q
      <4>2. w % p = 0 /\ s = 0 /\ t < p
        BY <1>0, <1>1, <4>1, DisjointLow
      <4> QED BY <4>2 DEF p
    <3>4. or64(w, t) = w + t
      BY <1>0, <3>1, <3>3, OrDisjoint64
    <3>5. 2^0 = 1 /\ u % 1 = 0 /\ 0 < 1 /\ 0 \in 0..LimbBits
      BY <1>1, Widths
    <3>6. or64(u, s) = u + s
      <4>1. u % 2^0 = 0 /\ s < 2^0
        BY <3>3, <3>5
      <4> QED BY <1>0, <3>5, <4>1, OrDisjoint64
    <3> QED BY <3>4, <3>6
  <2>2. CASE ~(i <= LimbBits)
    <3>1. LimbBits \in 0..i /\ i \in 0..Bits256 /\ i - LimbBits \in 0..LimbBits
      BY <2>2, Widths
    <3>2. 2^(i - LimbBits) \in Nat \ {0} /\ 2^i = 2^(i - LimbBits) * Base
      BY <3>1, PowerSplit, BasePowers
    <3>3. w = 0 /\ u % 2^(i - LimbBits) = 0 /\ s < 2^(i - LimbBits)
      <4> DEFINE p == 2^(i - LimbBits)
      <4>1. p \in Nat \ {0} /\ (u * Base + w) % (p * Base) = 0 /\ s * Base + t < p * Base
        BY <1>3, <3>2
      <4> HIDE DEF p
      <4>2. w = 0 /\ u % p = 0 /\ s < p
        BY <1>0, <1>1, <4>1, DisjointHigh
      <4> QED BY <4>2 DEF p
    <3>4. or64(u, s) = u + s
      BY <1>0, <3>1, <3>3, OrDisjoint64
    <3>5. or64(w, t) = w + t
      <4>1. LimbBits \in 0..LimbBits /\ w % 2^LimbBits = 0 /\ t < 2^LimbBits
        <5>1. 0 % Base = 0 /\ t < Base
          BY <1>0
        <5> QED BY <3>3, <5>1, Widths, BasePowers
      <4> QED BY <1>0, <4>1, OrDisjoint64
    <3> QED BY <3>4, <3>5
  <2> QED BY <2>1, <2>2
<1>5. (u + s) * Base + (w + t) = (u * Base + w) + (s * Base + t)
  BY <1>0, <1>1
<1> QED BY <1>0, <1>2, <1>4, <1>5

\* The same for the halves of a uint256.
LEMMA OrDisjoint256 ==
  ASSUME NEW m \in uint256, NEW n \in uint256, NEW i \in 0..Bits256,
         Val(m) % 2^i = 0, Val(n) < 2^i
  PROVE  Val(or256(m, n)) = Val(m) + Val(n)
<1> DEFINE U == UPPER(m)  W == LOWER(m)  S == UPPER(n)  T == LOWER(n)
           u == Val128(U)  w == Val128(W)  s == Val128(S)  t == Val128(T)  h == HalfModulus
<1>0. /\ U \in uint128 /\ W \in uint128 /\ S \in uint128 /\ T \in uint128
      /\ u \in 0..(h - 1) /\ w \in 0..(h - 1) /\ s \in 0..(h - 1) /\ t \in 0..(h - 1)
      /\ Val(m) = u * h + w /\ Val(n) = s * h + t
      /\ h \in Nat \ {0} /\ h = 2^Bits128
  BY Pair256, Val128Type, BaseFacts, BasePowers DEF Val, HalfModulus
<1>1. u \in Nat /\ w \in Nat /\ s \in Nat /\ t \in Nat
  BY <1>0
<1>2. Val(or256(m, n)) = Val128(or128(U, S)) * h + Val128(or128(W, T))
  BY ValPair DEF or256
<1>3. (u * h + w) % 2^i = 0 /\ s * h + t < 2^i
  BY <1>0
<1> HIDE DEF u, w, s, t, h, U, W, S, T
<1>4. Val128(or128(U, S)) = u + s /\ Val128(or128(W, T)) = w + t
  <2>1. CASE i <= Bits128
    <3>1. i \in 0..Bits128 /\ Bits128 \in 0..Bits256
      BY <2>1, Widths
    <3>2. 2^i \in Nat \ {0} /\ 2^(Bits128 - i) \in Nat \ {0} /\ h = 2^i * 2^(Bits128 - i)
      BY <1>0, <3>1, PowerSplit
    <3>3. w % 2^i = 0 /\ s = 0 /\ t < 2^i
      <4> DEFINE p == 2^i  q == 2^(Bits128 - i)
      <4>1. p \in Nat \ {0} /\ q \in Nat \ {0} /\ h = p * q /\ (u * h + w) % p = 0 /\ s * h + t < p
        BY <1>3, <3>2
      <4> HIDE DEF p, q
      <4>2. w % p = 0 /\ s = 0 /\ t < p
        BY <1>0, <1>1, <4>1, DisjointLow
      <4> QED BY <4>2 DEF p
    <3>4. Val128(or128(W, T)) = w + t
      BY <1>0, <3>1, <3>3, OrDisjoint128 DEF w, t
    <3>5. 2^0 = 1 /\ u % 1 = 0 /\ 0 < 1 /\ 0 \in 0..Bits128
      BY <1>1, Widths
    <3>6. Val128(or128(U, S)) = u + s
      <4>1. u % 2^0 = 0 /\ s < 2^0
        BY <3>3, <3>5
      <4> QED BY <1>0, <3>5, <4>1, OrDisjoint128 DEF u, s
    <3> QED BY <3>4, <3>6
  <2>2. CASE ~(i <= Bits128)
    <3>1. Bits128 \in 0..i /\ i \in 0..Bits256 /\ i - Bits128 \in 0..Bits128
      BY <2>2, Widths
    <3>2. 2^(i - Bits128) \in Nat \ {0} /\ 2^i = 2^(i - Bits128) * h
      BY <1>0, <3>1, PowerSplit
    <3>3. w = 0 /\ u % 2^(i - Bits128) = 0 /\ s < 2^(i - Bits128)
      <4> DEFINE p == 2^(i - Bits128)
      <4>1. p \in Nat \ {0} /\ (u * h + w) % (p * h) = 0 /\ s * h + t < p * h
        BY <1>3, <3>2
      <4> HIDE DEF p
      <4>2. w = 0 /\ u % p = 0 /\ s < p
        BY <1>0, <1>1, <4>1, DisjointHigh
      <4> QED BY <4>2 DEF p
    <3>4. Val128(or128(U, S)) = u + s
      BY <1>0, <3>1, <3>3, OrDisjoint128 DEF u, s
    <3>5. Val128(or128(W, T)) = w + t
      <4>1. Bits128 \in 0..Bits128 /\ w % 2^Bits128 = 0 /\ t < 2^Bits128
        <5>1. 0 % h = 0 /\ t < h
          BY <1>0
        <5> QED BY <1>0, <3>3, <5>1, Widths
      <4> QED BY <1>0, <4>1, OrDisjoint128 DEF w, t
    <3> QED BY <3>4, <3>5
  <2> QED BY <2>1, <2>2
<1>5. (u + s) * h + (w + t) = (u * h + w) + (s * h + t)
  BY <1>0, <1>1
<1> QED BY <1>0, <1>2, <1>4, <1>5

-----------------------------------------------------------------------------
(* Sums of several words.                                                  *)

\* Sum64 is the total of the limbs modulo 2^64.
LEMMA Sum64Total ==
  ASSUME NEW s \in Seq(uint64), NEW N \in Nat, N = Len(s), NEW t, Totals(t, s, N)
  PROVE  Sum64(s) \in uint64 /\ Sum64(s) = t[N] % Base
<1> DEFINE E(f) == f = [i \in 0..Len(s) |-> IF i = 0 THEN 0 ELSE add64(s[i], f[i - 1])]
           sum == CHOOSE f : E(f)
<1>0. s \in [1..N -> Nat] /\ \A i \in 1..N : s[i] \in uint64
  BY BaseFacts DEF uint64
<1>a. \A x, y \in uint64 : add64(x, y) \in uint64
  BY BaseFacts DEF uint64, add64
<1>1. \E f : E(f)
  <2> DEFINE g == [p \in (1..N) \X uint64 |-> add64(s[p[1]], p[2])]
  <2>0. 0 \in uint64
    BY BaseFacts DEF uint64
  <2>1. g \in [(1..N) \X uint64 -> uint64] /\ 0 \in uint64
    BY <1>0, <1>a, <2>0
  <2>2. \A i \in 1..N, x \in uint64 : g[<< i, x >>] = add64(s[i], x)
    OBVIOUS
  <2> HIDE DEF g
  <2>3. PICK f : /\ f \in [0..N -> uint64] /\ f[0] = 0
                 /\ \A i \in 1..N : f[i] = g[<< i, f[i - 1] >>]
    <3>1. LoopBody(g, N, uint64)
      BY <2>1 DEF LoopBody
    <3>2. \E f : LoopTurns(f, g, 0, N, uint64)
      BY <2>1, <3>1, TurnsExist
    <3> QED BY <3>2 DEF LoopTurns
  <2>4. ASSUME NEW i \in 0..N PROVE f[i] = IF i = 0 THEN 0 ELSE add64(s[i], f[i - 1])
    <3>1. CASE i # 0
      <4>1. i \in 1..N /\ i - 1 \in 0..N
        BY <3>1
      <4>2. f[i] = g[<< i, f[i - 1] >>] /\ f[i - 1] \in uint64
        BY <2>3, <4>1
      <4> QED BY <2>2, <3>1, <4>1, <4>2
    <3> QED BY <2>3, <3>1
  <2>5. f = [i \in 0..N |-> f[i]]
    BY <2>3
  <2>6. E(f)
    BY <2>4, <2>5
  <2> HIDE DEF E
  <2> QED BY <2>6
<1>2. E(sum)
  <2> HIDE DEF E
  <2> QED BY <1>1
<1>3. Sum64(s) = sum[N]
  BY Zenon DEF Sum64
<1> HIDE DEF sum
<1>4. sum[0] = 0
  BY <1>2
<1>5. ASSUME NEW i \in 1..N PROVE sum[i] = (s[i] + sum[i - 1]) % Base
  <2>1. i \in 0..Len(s) /\ i # 0
    OBVIOUS
  <2> QED BY <1>2, <2>1 DEF add64
<1>6. sum[N] = t[N] % Base
  <2>1. Base \in Nat \ {0}
    BY BaseFacts
  <2>2. Accumulates(sum, s, N, Base)
    BY <1>0, <1>4, <1>5 DEF Accumulates
  <2> QED BY <2>1, <2>2, TotalsModulo
<1>7. t[N] \in Nat
  BY DEF Totals
<1> QED BY <1>3, <1>6, <1>7, BaseFacts DEF uint64

\* Sum128 is the total of the numbers modulo 2^128.
LEMMA Sum128Total ==
  ASSUME NEW s \in Seq(uint128), NEW N \in Nat, N = Len(s),
         NEW c, c = [i \in 1..N |-> Val128(s[i])], NEW t, Totals(t, c, N)
  PROVE  Sum128(s) \in uint128 /\ Val128(Sum128(s)) = t[N] % HalfModulus
<1> DEFINE E(f) == f = [i \in 0..Len(s) |-> IF i = 0 THEN Zero128 ELSE add128(s[i], f[i - 1])]
           sum == CHOOSE f : E(f)
<1>0. \A i \in 1..N : s[i] \in uint128
  OBVIOUS
<1>b. c \in [1..N -> Nat] /\ \A i \in 1..N : c[i] = Val128(s[i])
  BY <1>0, Val128Type, BaseFacts
<1>a. \A x, y \in uint128 : add128(x, y) \in uint128
  BY Add128
<1>1. \E f : E(f)
  <2> DEFINE g == [p \in (1..N) \X uint128 |-> add128(s[p[1]], p[2])]
  <2>1. g \in [(1..N) \X uint128 -> uint128] /\ Zero128 \in uint128
    BY <1>0, <1>a, Zero128Value
  <2>2. \A i \in 1..N, x \in uint128 : g[<< i, x >>] = add128(s[i], x)
    OBVIOUS
  <2> HIDE DEF g
  <2>3. PICK f : /\ f \in [0..N -> uint128] /\ f[0] = Zero128
                 /\ \A i \in 1..N : f[i] = g[<< i, f[i - 1] >>]
    <3>1. LoopBody(g, N, uint128)
      BY <2>1 DEF LoopBody
    <3>2. \E f : LoopTurns(f, g, Zero128, N, uint128)
      BY <2>1, <3>1, TurnsExist
    <3> QED BY <3>2 DEF LoopTurns
  <2>4. ASSUME NEW i \in 0..N PROVE f[i] = IF i = 0 THEN Zero128 ELSE add128(s[i], f[i - 1])
    <3>1. CASE i # 0
      <4>1. i \in 1..N /\ i - 1 \in 0..N
        BY <3>1
      <4>2. f[i] = g[<< i, f[i - 1] >>] /\ f[i - 1] \in uint128
        BY <2>3, <4>1
      <4> QED BY <2>2, <3>1, <4>1, <4>2
    <3> QED BY <2>3, <3>1
  <2>5. f = [i \in 0..N |-> f[i]]
    BY <2>3
  <2>6. E(f)
    BY <2>4, <2>5
  <2> HIDE DEF E
  <2> QED BY <2>6
<1>2. E(sum)
  <2> HIDE DEF E
  <2> QED BY <1>1
<1>3. Sum128(s) = sum[N]
  BY Zenon DEF Sum128
<1> HIDE DEF sum
<1>4. sum[0] = Zero128
  BY <1>2
<1>5. ASSUME NEW i \in 1..N PROVE sum[i] = add128(s[i], sum[i - 1])
  <2>1. i \in 0..Len(s) /\ i # 0
    OBVIOUS
  <2> QED BY <1>2, <2>1
<1> DEFINE S == {i \in 0..N : sum[i] \in uint128}
<1>6. 0..N \subseteq S
  <2>1. 0 \in S
    BY <1>4, Zero128Value
  <2>2. ASSUME NEW i \in 0..(N - 1), i \in S PROVE i + 1 \in S
    <3>1. i + 1 \in 1..N /\ (i + 1) - 1 = i /\ i + 1 \in 0..N
      OBVIOUS
    <3>2. sum[i + 1] = add128(s[i + 1], sum[i]) /\ sum[i] \in uint128
      BY <1>5, <2>2, <3>1
    <3> QED BY <1>0, <1>a, <3>1, <3>2
  <2> HIDE DEF S
  <2> QED BY <2>1, <2>2, InductionUpTo
<1> DEFINE v == [i \in 0..N |-> Val128(sum[i])]
<1>7. \A i \in 0..N : v[i] = Val128(sum[i]) /\ sum[i] \in uint128
  BY <1>6
<1> HIDE DEF v, S
<1>8. v[0] = 0
  BY <1>4, <1>7, Zero128Value
<1>9. ASSUME NEW i \in 1..N PROVE v[i] = (c[i] + v[i - 1]) % HalfModulus
  <2>1. i \in 0..N /\ i - 1 \in 0..N
    OBVIOUS
  <2> QED BY <1>0, <1>5, <1>7, <1>b, <2>1, Add128
<1>10. v[N] = t[N] % HalfModulus
  <2>1. HalfModulus \in Nat \ {0}
    BY BaseFacts
  <2>2. Accumulates(v, c, N, HalfModulus)
    BY <1>8, <1>9, <1>b DEF Accumulates
  <2> QED BY <2>1, <2>2, TotalsModulo
<1> QED BY <1>3, <1>7, <1>10

\* Sum256 is the total of the numbers modulo 2^256.
LEMMA Sum256Total ==
  ASSUME NEW s \in Seq(uint256), NEW N \in Nat, N = Len(s),
         NEW c, c = [i \in 1..N |-> Val(s[i])], NEW t, Totals(t, c, N)
  PROVE  Sum256(s) \in uint256 /\ Val(Sum256(s)) = t[N] % Modulus
<1> DEFINE E(f) == f = [i \in 0..Len(s) |-> IF i = 0 THEN Zero256 ELSE add256(s[i], f[i - 1])]
           sum == CHOOSE f : E(f)
<1>0. \A i \in 1..N : s[i] \in uint256
  OBVIOUS
<1>b. c \in [1..N -> Nat] /\ \A i \in 1..N : c[i] = Val(s[i])
  BY <1>0, ValType, ModulusType
<1>a. \A x, y \in uint256 : add256(x, y) \in uint256
  BY Add256
<1>1. \E f : E(f)
  <2> DEFINE g == [p \in (1..N) \X uint256 |-> add256(s[p[1]], p[2])]
  <2>1. g \in [(1..N) \X uint256 -> uint256] /\ Zero256 \in uint256
    BY <1>0, <1>a, Zero256Value
  <2>2. \A i \in 1..N, x \in uint256 : g[<< i, x >>] = add256(s[i], x)
    OBVIOUS
  <2> HIDE DEF g
  <2>3. PICK f : /\ f \in [0..N -> uint256] /\ f[0] = Zero256
                 /\ \A i \in 1..N : f[i] = g[<< i, f[i - 1] >>]
    <3>1. LoopBody(g, N, uint256)
      BY <2>1 DEF LoopBody
    <3>2. \E f : LoopTurns(f, g, Zero256, N, uint256)
      BY <2>1, <3>1, TurnsExist
    <3> QED BY <3>2 DEF LoopTurns
  <2>4. ASSUME NEW i \in 0..N PROVE f[i] = IF i = 0 THEN Zero256 ELSE add256(s[i], f[i - 1])
    <3>1. CASE i # 0
      <4>1. i \in 1..N /\ i - 1 \in 0..N
        BY <3>1
      <4>2. f[i] = g[<< i, f[i - 1] >>] /\ f[i - 1] \in uint256
        BY <2>3, <4>1
      <4> QED BY <2>2, <3>1, <4>1, <4>2
    <3> QED BY <2>3, <3>1
  <2>5. f = [i \in 0..N |-> f[i]]
    BY <2>3
  <2>6. E(f)
    BY <2>4, <2>5
  <2> HIDE DEF E
  <2> QED BY <2>6
<1>2. E(sum)
  <2> HIDE DEF E
  <2> QED BY <1>1
<1>3. Sum256(s) = sum[N]
  BY Zenon DEF Sum256
<1> HIDE DEF sum
<1>4. sum[0] = Zero256
  BY <1>2
<1>5. ASSUME NEW i \in 1..N PROVE sum[i] = add256(s[i], sum[i - 1])
  <2>1. i \in 0..Len(s) /\ i # 0
    OBVIOUS
  <2> QED BY <1>2, <2>1
<1> DEFINE S == {i \in 0..N : sum[i] \in uint256}
<1>6. 0..N \subseteq S
  <2>1. 0 \in S
    BY <1>4, Zero256Value
  <2>2. ASSUME NEW i \in 0..(N - 1), i \in S PROVE i + 1 \in S
    <3>1. i + 1 \in 1..N /\ (i + 1) - 1 = i /\ i + 1 \in 0..N
      OBVIOUS
    <3>2. sum[i + 1] = add256(s[i + 1], sum[i]) /\ sum[i] \in uint256
      BY <1>5, <2>2, <3>1
    <3> QED BY <1>0, <1>a, <3>1, <3>2
  <2> HIDE DEF S
  <2> QED BY <2>1, <2>2, InductionUpTo
<1> DEFINE v == [i \in 0..N |-> Val(sum[i])]
<1>7. \A i \in 0..N : v[i] = Val(sum[i]) /\ sum[i] \in uint256
  BY <1>6
<1> HIDE DEF v, S
<1>8. v[0] = 0
  BY <1>4, <1>7, Zero256Value
<1>9. ASSUME NEW i \in 1..N PROVE v[i] = (c[i] + v[i - 1]) % Modulus
  <2>1. i \in 0..N /\ i - 1 \in 0..N
    OBVIOUS
  <2> QED BY <1>0, <1>5, <1>7, <1>b, <2>1, Add256
<1>10. v[N] = t[N] % Modulus
  <2>1. Modulus \in Nat \ {0}
    BY ModulusType
  <2>2. Accumulates(v, c, N, Modulus)
    BY <1>8, <1>9, <1>b DEF Accumulates
  <2> QED BY <2>1, <2>2, TotalsModulo
<1> QED BY <1>3, <1>7, <1>10

\* The sums of the columns, spelled out.
LEMMA Sum64Of3 ==
  ASSUME NEW x1 \in uint64, NEW x2 \in uint64, NEW x3 \in uint64
  PROVE  /\ Sum64(<< x1, x2, x3 >>) \in uint64
         /\ Sum64(<< x1, x2, x3 >>) = (x1 + x2 + x3) % Base
<1> DEFINE s == << x1, x2, x3 >>  c == s
<1>1. x1 \in Nat /\ x2 \in Nat /\ x3 \in Nat
  BY BaseFacts DEF uint64
<1>2. s \in Seq(uint64) /\ Len(s) = 3 /\ c \in [1..3 -> Nat]
  BY <1>1
<1>3. c[1] = x1 /\ c[2] = x2 /\ c[3] = x3
  OBVIOUS
<1> HIDE DEF s, c
<1>4. PICK t : Totals(t, c, 3)
  BY <1>2, TotalsExist
<1>6. t[3] = x1 + x2 + x3
  <2>1. t[0] = 0 /\ t[1] = c[1] + t[0] /\ t[2] = c[2] + t[1] /\ t[3] = c[3] + t[2]
    BY <1>4 DEF Totals
  <2> QED BY <1>1, <1>3, <2>1
<1>7. Sum64(s) \in uint64 /\ Sum64(s) = t[3] % Base
  BY <1>2, <1>4, Sum64Total DEF c
<1> QED BY <1>6, <1>7 DEF s

LEMMA Sum64Of5 ==
  ASSUME NEW x1 \in uint64, NEW x2 \in uint64, NEW x3 \in uint64, NEW x4 \in uint64,
         NEW x5 \in uint64
  PROVE  /\ Sum64(<< x1, x2, x3, x4, x5 >>) \in uint64
         /\ Sum64(<< x1, x2, x3, x4, x5 >>) = (x1 + x2 + x3 + x4 + x5) % Base
<1> DEFINE s == << x1, x2, x3, x4, x5 >>  c == s
<1>1. x1 \in Nat /\ x2 \in Nat /\ x3 \in Nat /\ x4 \in Nat /\ x5 \in Nat
  BY BaseFacts DEF uint64
<1>2. s \in Seq(uint64) /\ Len(s) = 5 /\ c \in [1..5 -> Nat]
  BY <1>1
<1>3. c[1] = x1 /\ c[2] = x2 /\ c[3] = x3 /\ c[4] = x4 /\ c[5] = x5
  OBVIOUS
<1> HIDE DEF s, c
<1>4. PICK t : Totals(t, c, 5)
  BY <1>2, TotalsExist
<1>6. t[5] = x1 + x2 + x3 + x4 + x5
  <2>1. t[0] = 0 /\ t[1] = c[1] + t[0] /\ t[2] = c[2] + t[1] /\ t[3] = c[3] + t[2] /\ t[4] = c[4] + t[3] /\ t[5] = c[5] + t[4]
    BY <1>4 DEF Totals
  <2> QED BY <1>1, <1>3, <2>1
<1>7. Sum64(s) \in uint64 /\ Sum64(s) = t[5] % Base
  BY <1>2, <1>4, Sum64Total DEF c
<1> QED BY <1>6, <1>7 DEF s

LEMMA Sum64Of7 ==
  ASSUME NEW x1 \in uint64, NEW x2 \in uint64, NEW x3 \in uint64, NEW x4 \in uint64,
         NEW x5 \in uint64, NEW x6 \in uint64, NEW x7 \in uint64
  PROVE  /\ Sum64(<< x1, x2, x3, x4, x5, x6, x7 >>) \in uint64
         /\ Sum64(<< x1, x2, x3, x4, x5, x6, x7 >>) = (x1 + x2 + x3 + x4 + x5 + x6 + x7) % Base
<1> DEFINE s == << x1, x2, x3, x4, x5, x6, x7 >>  c == s
<1>1. x1 \in Nat /\ x2 \in Nat /\ x3 \in Nat /\ x4 \in Nat /\ x5 \in Nat /\ x6 \in Nat /\ x7 \in Nat
  BY BaseFacts DEF uint64
<1>2. s \in Seq(uint64) /\ Len(s) = 7 /\ c \in [1..7 -> Nat]
  BY <1>1
<1>3. c[1] = x1 /\ c[2] = x2 /\ c[3] = x3 /\ c[4] = x4 /\ c[5] = x5 /\ c[6] = x6 /\ c[7] = x7
  OBVIOUS
<1> HIDE DEF s, c
<1>4. PICK t : Totals(t, c, 7)
  BY <1>2, TotalsExist
<1>6. t[7] = x1 + x2 + x3 + x4 + x5 + x6 + x7
  <2>1. t[0] = 0 /\ t[1] = c[1] + t[0] /\ t[2] = c[2] + t[1] /\ t[3] = c[3] + t[2] /\ t[4] = c[4] + t[3] /\ t[5] = c[5] + t[4] /\ t[6] = c[6] + t[5] /\ t[7] = c[7] + t[6]
    BY <1>4 DEF Totals
  <2> QED BY <1>1, <1>3, <2>1
<1>7. Sum64(s) \in uint64 /\ Sum64(s) = t[7] % Base
  BY <1>2, <1>4, Sum64Total DEF c
<1> QED BY <1>6, <1>7 DEF s

LEMMA Sum128Of3 ==
  ASSUME NEW x1 \in uint128, NEW x2 \in uint128, NEW x3 \in uint128
  PROVE  /\ Sum128(<< x1, x2, x3 >>) \in uint128
         /\ Val128(Sum128(<< x1, x2, x3 >>)) = (Val128(x1) + Val128(x2) + Val128(x3)) % HalfModulus
<1> DEFINE s == << x1, x2, x3 >>  c == << Val128(x1), Val128(x2), Val128(x3) >>
<1>1. Val128(x1) \in Nat /\ Val128(x2) \in Nat /\ Val128(x3) \in Nat
  BY BaseFacts, Val128Type
<1>2. s \in Seq(uint128) /\ Len(s) = 3 /\ c \in [1..3 -> Nat]
  BY <1>1
<1>5. c = [i \in 1..3 |-> Val128(s[i])]
  BY <1>1
<1>3. c[1] = Val128(x1) /\ c[2] = Val128(x2) /\ c[3] = Val128(x3)
  OBVIOUS
<1> HIDE DEF s, c
<1>4. PICK t : Totals(t, c, 3)
  BY <1>2, TotalsExist
<1>6. t[3] = Val128(x1) + Val128(x2) + Val128(x3)
  <2>1. t[0] = 0 /\ t[1] = c[1] + t[0] /\ t[2] = c[2] + t[1] /\ t[3] = c[3] + t[2]
    BY <1>4 DEF Totals
  <2> QED BY <1>1, <1>3, <2>1
<1>7. Sum128(s) \in uint128 /\ Val128(Sum128(s)) = t[3] % HalfModulus
  BY <1>2, <1>4, <1>5, Sum128Total
<1> QED BY <1>6, <1>7 DEF s

LEMMA Sum128Of4 ==
  ASSUME NEW x1 \in uint128, NEW x2 \in uint128, NEW x3 \in uint128, NEW x4 \in uint128
  PROVE  /\ Sum128(<< x1, x2, x3, x4 >>) \in uint128
         /\ Val128(Sum128(<< x1, x2, x3, x4 >>)) = (Val128(x1) + Val128(x2) + Val128(x3) + Val128(x4)) % HalfModulus
<1> DEFINE s == << x1, x2, x3, x4 >>  c == << Val128(x1), Val128(x2), Val128(x3), Val128(x4) >>
<1>1. Val128(x1) \in Nat /\ Val128(x2) \in Nat /\ Val128(x3) \in Nat /\ Val128(x4) \in Nat
  BY BaseFacts, Val128Type
<1>2. s \in Seq(uint128) /\ Len(s) = 4 /\ c \in [1..4 -> Nat]
  BY <1>1
<1>5. c = [i \in 1..4 |-> Val128(s[i])]
  BY <1>1
<1>3. c[1] = Val128(x1) /\ c[2] = Val128(x2) /\ c[3] = Val128(x3) /\ c[4] = Val128(x4)
  OBVIOUS
<1> HIDE DEF s, c
<1>4. PICK t : Totals(t, c, 4)
  BY <1>2, TotalsExist
<1>6. t[4] = Val128(x1) + Val128(x2) + Val128(x3) + Val128(x4)
  <2>1. t[0] = 0 /\ t[1] = c[1] + t[0] /\ t[2] = c[2] + t[1] /\ t[3] = c[3] + t[2] /\ t[4] = c[4] + t[3]
    BY <1>4 DEF Totals
  <2> QED BY <1>1, <1>3, <2>1
<1>7. Sum128(s) \in uint128 /\ Val128(Sum128(s)) = t[4] % HalfModulus
  BY <1>2, <1>4, <1>5, Sum128Total
<1> QED BY <1>6, <1>7 DEF s

LEMMA Sum128Of5 ==
  ASSUME NEW x1 \in uint128, NEW x2 \in uint128, NEW x3 \in uint128, NEW x4 \in uint128,
         NEW x5 \in uint128
  PROVE  /\ Sum128(<< x1, x2, x3, x4, x5 >>) \in uint128
         /\ Val128(Sum128(<< x1, x2, x3, x4, x5 >>)) = (Val128(x1) + Val128(x2) + Val128(x3) + Val128(x4) + Val128(x5)) % HalfModulus
<1> DEFINE s == << x1, x2, x3, x4, x5 >>  c == << Val128(x1), Val128(x2), Val128(x3), Val128(x4), Val128(x5) >>
<1>1. Val128(x1) \in Nat /\ Val128(x2) \in Nat /\ Val128(x3) \in Nat /\ Val128(x4) \in Nat /\ Val128(x5) \in Nat
  BY BaseFacts, Val128Type
<1>2. s \in Seq(uint128) /\ Len(s) = 5 /\ c \in [1..5 -> Nat]
  BY <1>1
<1>5. c = [i \in 1..5 |-> Val128(s[i])]
  BY <1>1
<1>3. c[1] = Val128(x1) /\ c[2] = Val128(x2) /\ c[3] = Val128(x3) /\ c[4] = Val128(x4) /\ c[5] = Val128(x5)
  OBVIOUS
<1> HIDE DEF s, c
<1>4. PICK t : Totals(t, c, 5)
  BY <1>2, TotalsExist
<1>6. t[5] = Val128(x1) + Val128(x2) + Val128(x3) + Val128(x4) + Val128(x5)
  <2>1. t[0] = 0 /\ t[1] = c[1] + t[0] /\ t[2] = c[2] + t[1] /\ t[3] = c[3] + t[2] /\ t[4] = c[4] + t[3] /\ t[5] = c[5] + t[4]
    BY <1>4 DEF Totals
  <2> QED BY <1>1, <1>3, <2>1
<1>7. Sum128(s) \in uint128 /\ Val128(Sum128(s)) = t[5] % HalfModulus
  BY <1>2, <1>4, <1>5, Sum128Total
<1> QED BY <1>6, <1>7 DEF s

LEMMA Sum128Of7 ==
  ASSUME NEW x1 \in uint128, NEW x2 \in uint128, NEW x3 \in uint128, NEW x4 \in uint128,
         NEW x5 \in uint128, NEW x6 \in uint128, NEW x7 \in uint128
  PROVE  /\ Sum128(<< x1, x2, x3, x4, x5, x6, x7 >>) \in uint128
         /\ Val128(Sum128(<< x1, x2, x3, x4, x5, x6, x7 >>)) = (Val128(x1) + Val128(x2) + Val128(x3) + Val128(x4) + Val128(x5) + Val128(x6) + Val128(x7)) % HalfModulus
<1> DEFINE s == << x1, x2, x3, x4, x5, x6, x7 >>  c == << Val128(x1), Val128(x2), Val128(x3), Val128(x4), Val128(x5), Val128(x6), Val128(x7) >>
<1>1. Val128(x1) \in Nat /\ Val128(x2) \in Nat /\ Val128(x3) \in Nat /\ Val128(x4) \in Nat /\ Val128(x5) \in Nat /\ Val128(x6) \in Nat /\ Val128(x7) \in Nat
  BY BaseFacts, Val128Type
<1>2. s \in Seq(uint128) /\ Len(s) = 7 /\ c \in [1..7 -> Nat]
  BY <1>1
<1>5. c = [i \in 1..7 |-> Val128(s[i])]
  BY <1>1
<1>3. c[1] = Val128(x1) /\ c[2] = Val128(x2) /\ c[3] = Val128(x3) /\ c[4] = Val128(x4) /\ c[5] = Val128(x5) /\ c[6] = Val128(x6) /\ c[7] = Val128(x7)
  OBVIOUS
<1> HIDE DEF s, c
<1>4. PICK t : Totals(t, c, 7)
  BY <1>2, TotalsExist
<1>6. t[7] = Val128(x1) + Val128(x2) + Val128(x3) + Val128(x4) + Val128(x5) + Val128(x6) + Val128(x7)
  <2>1. t[0] = 0 /\ t[1] = c[1] + t[0] /\ t[2] = c[2] + t[1] /\ t[3] = c[3] + t[2] /\ t[4] = c[4] + t[3] /\ t[5] = c[5] + t[4] /\ t[6] = c[6] + t[5] /\ t[7] = c[7] + t[6]
    BY <1>4 DEF Totals
  <2> QED BY <1>1, <1>3, <2>1
<1>7. Sum128(s) \in uint128 /\ Val128(Sum128(s)) = t[7] % HalfModulus
  BY <1>2, <1>4, <1>5, Sum128Total
<1> QED BY <1>6, <1>7 DEF s

LEMMA Sum256Of4 ==
  ASSUME NEW x1 \in uint256, NEW x2 \in uint256, NEW x3 \in uint256, NEW x4 \in uint256
  PROVE  /\ Sum256(<< x1, x2, x3, x4 >>) \in uint256
         /\ Val(Sum256(<< x1, x2, x3, x4 >>)) = (Val(x1) + Val(x2) + Val(x3) + Val(x4)) % Modulus
<1> DEFINE s == << x1, x2, x3, x4 >>  c == << Val(x1), Val(x2), Val(x3), Val(x4) >>
<1>1. Val(x1) \in Nat /\ Val(x2) \in Nat /\ Val(x3) \in Nat /\ Val(x4) \in Nat
  BY ModulusType, ValType
<1>2. s \in Seq(uint256) /\ Len(s) = 4 /\ c \in [1..4 -> Nat]
  BY <1>1
<1>5. c = [i \in 1..4 |-> Val(s[i])]
  BY <1>1
<1>3. c[1] = Val(x1) /\ c[2] = Val(x2) /\ c[3] = Val(x3) /\ c[4] = Val(x4)
  OBVIOUS
<1> HIDE DEF s, c
<1>4. PICK t : Totals(t, c, 4)
  BY <1>2, TotalsExist
<1>6. t[4] = Val(x1) + Val(x2) + Val(x3) + Val(x4)
  <2>1. t[0] = 0 /\ t[1] = c[1] + t[0] /\ t[2] = c[2] + t[1] /\ t[3] = c[3] + t[2] /\ t[4] = c[4] + t[3]
    BY <1>4 DEF Totals
  <2> QED BY <1>1, <1>3, <2>1
<1>7. Sum256(s) \in uint256 /\ Val(Sum256(s)) = t[4] % Modulus
  BY <1>2, <1>4, <1>5, Sum256Total
<1> QED BY <1>6, <1>7 DEF s

-----------------------------------------------------------------------------
(* mul128.                                                                 *)

\* A limb has two halves: shifting by LimbBits \div 2 moves one.
LEMMA HalfLimbs ==
  /\ HalfBase \in Nat \ {0, 1} /\ HalfBase * HalfBase = Base
  /\ \A x : shl64(x, LimbBits \div 2) = (x % HalfBase) * HalfBase
<1> DEFINE e == LimbBits \div 2
<1>1. e \in Nat /\ (LimbBits = e + e \/ LimbBits = (e + e) + 1)
  BY Widths
<1>2. HalfBase = 2^e /\ Base = 2^LimbBits
  BY DEF HalfBase, Base
<1> HIDE DEF e
<1>3. e + e <= Bits256 /\ e + e \in 0..Bits256
  BY <1>1, Widths
<1>4. 2^(e + e) = 2^e * 2^e
  BY <1>1, <1>3, PowerSum
<1>5. LimbBits # (e + e) + 1
  <2>1. SUFFICES ASSUME LimbBits = (e + e) + 1 PROVE FALSE
    OBVIOUS
  <2>2. e + e \in 0..(Bits256 - 1)
    BY <1>1, <2>1, Widths
  <2>3. 2^(e + e) \in Nat \ {0} /\ 2^((e + e) + 1) = 2 * 2^(e + e)
    BY <2>2, PowersAssumption
  <2>4. 2^((e + e) + 1) = 2^(e + e)
    BY <1>2, <1>4, <2>1, LimbBitsAssumption
  <2> DEFINE p == 2^(e + e)
  <2>5. p \in Nat \ {0} /\ p = 2 * p
    BY <2>3, <2>4
  <2> HIDE DEF p
  <2> QED BY <2>5
<1>6. LimbBits - e = e
  BY <1>1, <1>5
<1>7. ASSUME NEW x PROVE shl64(x, e) = (x % HalfBase) * HalfBase
  BY <1>2, <1>6 DEF shl64
<1> QED BY <1>7, LimbBitsAssumption DEF e

\* The four digits of a uint128.
LEMMA Digits128 ==
  ASSUME NEW n \in uint128
  PROVE  /\ \A k \in 0..3 : Digit32(n, k) \in 0..(HalfBase - 1)
         /\ Val128(n) = Digit32(n, 3) + Digit32(n, 2) * HalfBase + Digit32(n, 1) * (HalfBase * HalfBase)
                          + Digit32(n, 0) * (HalfBase * (HalfBase * HalfBase))
<1> DEFINE u == UPPER(n)  w == LOWER(n)  H == HalfBase
           u1 == u \div H  u0 == u % H  w1 == w \div H  w0 == w % H
<1>1. u \in 0..(H * H - 1) /\ w \in 0..(H * H - 1) /\ H \in Nat \ {0} /\ H * H = Base
  BY Pair128, HalfLimbs
<1>2. /\ Digit32(n, 0) = u1 /\ Digit32(n, 1) = u0
      /\ Digit32(n, 2) = w1 /\ Digit32(n, 3) = w0
  BY DEF Digit32, UPPER, LOWER
<1>3. Val128(n) = u * Base + w
  BY DEF Val128
<1> HIDE DEF u, w, H
<1>4. u \in Nat /\ w \in Nat
  BY <1>1
<1>5. /\ u1 \in Nat /\ u0 \in 0..(H - 1) /\ u = u1 * H + u0
      /\ w1 \in Nat /\ w0 \in 0..(H - 1) /\ w = w1 * H + w0
  BY <1>1, <1>4, QuotientFacts
<1>6. u1 \in 0..(H - 1) /\ w1 \in 0..(H - 1)
  BY <1>1, QuotientBelow
<1> HIDE DEF u1, u0, w1, w0
<1>7. u * (H * H) + w = w0 + w1 * H + u0 * (H * H) + u1 * (H * (H * H))
  BY <1>1, <1>5
<1>8. \A k \in 0..3 : k = 0 \/ k = 1 \/ k = 2 \/ k = 3
  OBVIOUS
<1>9. \A k \in 0..3 : Digit32(n, k) \in 0..(H - 1)
  BY <1>2, <1>5, <1>6, <1>8
<1>10. Val128(n) = w0 + w1 * H + u0 * (H * H) + u1 * (H * (H * H))
  BY <1>1, <1>3, <1>7
<1> QED BY <1>2, <1>9, <1>10 DEF H

\* mul128 is multiplication modulo 2^128.
LEMMA Mul128 ==
  ASSUME NEW m \in uint128, NEW n \in uint128
  PROVE  /\ mul128(m, n) \in uint128
         /\ Val128(mul128(m, n)) = (Val128(m) * Val128(n)) % HalfModulus
<1> DEFINE P(i, y) == (Digit32(m, 3 - i) * Digit32(n, y)) % Base
           L(i, y) == P(i, y) % HalfBase
           G(i, y) == P(i, y) \div HalfBase
           third == Sum64(<< L(0, 2), G(0, 3), L(1, 3) >>)
           second == Sum64(<< L(0, 1), G(0, 2), L(1, 2), G(1, 3), L(2, 3) >>)
           first == Sum64(<< L(0, 0), G(0, 1), L(1, 1), G(1, 2), L(2, 2), G(2, 3), L(3, 3) >>)
           A1 == << shl64(first, LimbBits \div 2), 0 >>
           A2 == << third \div HalfBase, shl64(third, LimbBits \div 2) >>
           A3 == << second, 0 >>
           A4 == << 0, L(0, 3) >>
<1>1. mul128(m, n) = Sum128(<< A1, A2, A3, A4 >>)
  BY Zenon DEF mul128
<1> DEFINE H == HalfBase
           x == [i \in 0..3 |-> Digit32(m, 3 - i)]
           y == [j \in 0..3 |-> Digit32(n, j)]
           lo == [p \in DigitPairs |-> L(p[1], p[2])]
           hi == [p \in DigitPairs |-> G(p[1], p[2])]
<1>2. H \in Nat \ {0, 1} /\ H * H = Base /\ HalfModulus = Base * Base
  BY HalfLimbs DEF HalfModulus
<1>3. ASSUME NEW i \in 0..3, NEW j \in 0..3
      PROVE  /\ L(i, j) \in 0..(H - 1) /\ G(i, j) \in 0..(H - 1)
             /\ x[i] * y[j] = G(i, j) * H + L(i, j)
  <2> DEFINE u == Digit32(m, 3 - i)  v == Digit32(n, j)
  <2>1. u \in 0..(H - 1) /\ v \in 0..(H - 1) /\ x[i] = u /\ y[j] = v
    <3>1. 3 - i \in 0..3
      OBVIOUS
    <3> QED BY <3>1, Digits128
  <2>2. P(i, j) = (u * v) % Base
    OBVIOUS
  <2> HIDE DEF u, v, x, y, P, H
  <2> DEFINE p == u * v
  <2>3. /\ p \in 0..(H * H - 1) /\ p \div H \in 0..(H - 1) /\ p % H \in 0..(H - 1)
        /\ p = (p \div H) * H + (p % H)
    BY <1>2, <2>1, DigitProduct
  <2> HIDE DEF p
  <2>4. P(i, j) = p
    BY <1>2, <2>2, <2>3, BaseFacts, ModSmall DEF p
  <2>5. L(i, j) = p % H /\ G(i, j) = p \div H
    BY <2>4 DEF H
  <2>6. x[i] * y[j] = p
    BY <2>1 DEF p
  <2> QED BY <2>3, <2>5, <2>6
<1>4. ASSUME NEW i \in 0..3, NEW j \in 0..3
      PROVE  lo[<< i, j >>] = L(i, j) /\ hi[<< i, j >>] = G(i, j)
  BY DEF DigitPairs
<1>5. DigitProducts(H, x, y, lo, hi)
  <2>1. x \in [0..3 -> Nat]
    <3>1. ASSUME NEW i \in 0..3 PROVE Digit32(m, 3 - i) \in Nat
      <4>1. 3 - i \in 0..3
        OBVIOUS
      <4> QED BY <1>2, <4>1, Digits128
    <3> QED BY <3>1
  <2>2. y \in [0..3 -> Nat]
    BY <1>2, Digits128
  <2>3. \A p \in DigitPairs : L(p[1], p[2]) \in Nat /\ G(p[1], p[2]) \in Nat
    <3> HIDE DEF L, G, H, x, y
    <3>1. \A i, j \in 0..3 : L(i, j) \in Nat /\ G(i, j) \in Nat
      BY <1>2, <1>3
    <3> QED BY <3>1 DEF DigitPairs
  <2>4. lo \in [DigitPairs -> Nat] /\ hi \in [DigitPairs -> Nat]
    <3> HIDE DEF L, G
    <3> QED BY <2>3
  <2>5. \A i, j \in 0..3 : x[i] * y[j] = hi[<< i, j >>] * H + lo[<< i, j >>]
    <3> HIDE DEF lo, hi, x, y, L, G, H
    <3> QED BY <1>3, <1>4
  <2> HIDE DEF lo, hi, x, y, H
  <2> QED BY <2>1, <2>2, <2>4, <2>5 DEF DigitProducts
<1>6. Upward(H, x) = Val128(m) /\ Downward(H, y) = Val128(n)
  <2>1. x[0] = Digit32(m, 3) /\ x[1] = Digit32(m, 2) /\ x[2] = Digit32(m, 1) /\ x[3] = Digit32(m, 0)
    OBVIOUS
  <2>2. y[0] = Digit32(n, 0) /\ y[1] = Digit32(n, 1) /\ y[2] = Digit32(n, 2) /\ y[3] = Digit32(n, 3)
    OBVIOUS
  <2> HIDE DEF x, y
  <2> QED BY <2>1, <2>2, Digits128, Zenon DEF Upward, Downward
<1> DEFINE T0 == lo[<<0, 3>>]  T1 == ThirdColumn(lo, hi)  T2 == SecondColumn(lo, hi)  T3 == FirstColumn(lo, hi)
<1>7. T0 \in 0..(H - 1) /\ T1 \in 0..(3 * H - 3) /\ T2 \in Nat /\ T3 \in Nat
  <2> HIDE DEF L, G, H, lo, hi, x, y
  <2>1. \A i, j \in 0..3 : lo[<< i, j >>] \in 0..(H - 1) /\ hi[<< i, j >>] \in 0..(H - 1)
    BY <1>3, <1>4
  <2> QED BY <1>2, <2>1 DEF FirstColumn, SecondColumn, ThirdColumn
<1>8. third = T1 % Base /\ second = T2 % Base /\ first = T3 % Base /\ L(0, 3) = T0
  <2>1. \A i, j \in 0..3 : L(i, j) \in uint64 /\ G(i, j) \in uint64
    <3> HIDE DEF L, G, H, x, y
    <3>1. 1 * H <= H * H
      BY <1>2, ProductMonotone
    <3> QED BY <1>2, <1>3, <3>1 DEF uint64
  <2> HIDE DEF L, G, H, lo, hi
  <2>2. third = (L(0, 2) + G(0, 3) + L(1, 3)) % Base
    BY <2>1, Sum64Of3
  <2>3. second = (L(0, 1) + G(0, 2) + L(1, 2) + G(1, 3) + L(2, 3)) % Base
    <3>1. /\ L(0, 1) \in uint64 /\ G(0, 2) \in uint64 /\ L(1, 2) \in uint64
          /\ G(1, 3) \in uint64 /\ L(2, 3) \in uint64
      BY <2>1
    <3> QED BY <3>1, Sum64Of5
  <2>4. first = (L(0, 0) + G(0, 1) + L(1, 1) + G(1, 2) + L(2, 2) + G(2, 3) + L(3, 3)) % Base
    <3>1. /\ L(0, 0) \in uint64 /\ G(0, 1) \in uint64 /\ L(1, 1) \in uint64 /\ G(1, 2) \in uint64
          /\ L(2, 2) \in uint64 /\ G(2, 3) \in uint64 /\ L(3, 3) \in uint64
      BY <2>1
    <3> HIDE DEF second, third
    <3> QED BY <3>1, Sum64Of7, SMTT(60)
  <2> QED BY <1>4, <2>2, <2>3, <2>4 DEF FirstColumn, SecondColumn, ThirdColumn
<1> HIDE DEF L, G, lo, hi, x, y, T0, T1, T2, T3, H, first, second, third
<1>9. third = T1
  <2>1. 3 * H - 3 < H * H
    BY <1>2
  <2> QED BY <1>2, <1>7, <1>8, <2>1, BaseFacts, ModSmall
<1> DEFINE M == HalfModulus  s1 == first % H  k2 == T2 \div Base
<1>10. s1 \in 0..(H - 1) /\ \E k3 \in Nat : T3 = k3 * H + s1
  <2> DEFINE q == T3 \div Base  q1 == first \div H
  <2>1. q \in Nat /\ first \in 0..(Base - 1) /\ T3 = q * Base + first
    BY <1>7, <1>8, BaseFacts, QuotientFacts
  <2>2. q1 \in Nat /\ s1 \in 0..(H - 1) /\ first = q1 * H + s1
    <3>1. first \in Nat /\ H \in Nat \ {0}
      BY <1>2, <2>1, BaseFacts
    <3> QED BY <3>1, QuotientFacts
  <2> HIDE DEF q, q1, s1
  <2>3. q * H + q1 \in Nat /\ T3 = (q * H + q1) * H + s1
    BY <1>2, <2>1, <2>2
  <2> QED BY <2>2, <2>3
<1>11. PICK k3 \in Nat : T3 = k3 * H + s1
  BY <1>10
<1>12. k2 \in Nat /\ second \in 0..(Base - 1) /\ T2 = k2 * Base + second
  BY <1>7, <1>8, BaseFacts, QuotientFacts
<1> HIDE DEF s1, k2
<1>13. A1 \in uint128 /\ Val128(A1) = (s1 * H) * Base
  <2>1. shl64(first, LimbBits \div 2) = s1 * H
    BY HalfLimbs DEF s1, H
  <2>2. s1 * H \in 0..(Base - 1) /\ 0 \in 0..(Base - 1)
    BY <1>2, <1>10, MixedDigits, BaseFacts
  <2>3. A1 = << s1 * H, 0 >>
    BY <2>1
  <2> QED BY <2>2, <2>3, Make128, Val128Pair, BaseFacts
<1>14. A2 \in uint128 /\ Val128(A2) = T1 * H
  <2> DEFINE q == T1 \div H  t == T1 % H
  <2>1. q \in Nat /\ t \in 0..(H - 1) /\ T1 = q * H + t
    <3>1. T1 \in Nat /\ H \in Nat \ {0}
      BY <1>2, <1>7
    <3> QED BY <3>1, QuotientFacts
  <2>2. q \in 0..(H - 1)
    <3>1. T1 \in 0..(H * H - 1)
      <4>1. 3 * H - 3 < H * H
        BY <1>2
      <4> QED BY <1>2, <1>7, <4>1
    <3> QED BY <1>2, <3>1, QuotientBelow
  <2>3. A2 = << q, t * H >>
    BY <1>9, HalfLimbs DEF H
  <2> HIDE DEF q, t
  <2>4. t * H \in 0..(Base - 1) /\ q \in 0..(Base - 1)
    <3>1. 1 * H <= H * H
      BY <1>2, ProductMonotone
    <3> QED BY <1>2, <2>1, <2>2, <3>1, MixedDigits
  <2>5. q * Base + t * H = T1 * H
    BY <1>2, <2>1
  <2> QED BY <2>3, <2>4, <2>5, Make128, Val128Pair
<1>15. A3 \in uint128 /\ Val128(A3) = second * Base
  BY <1>12, Make128, Val128Pair, BaseFacts
<1>16. A4 \in uint128 /\ Val128(A4) = T0
  <2>1. 1 * H <= H * H
    BY <1>2, ProductMonotone
  <2>2. T0 \in 0..(Base - 1) /\ 0 \in 0..(Base - 1) /\ 0 * Base + T0 = T0
    BY <1>2, <1>7, <2>1, BaseFacts
  <2> QED BY <1>8, <2>2, Make128, Val128Pair
<1> HIDE DEF A1, A2, A3, A4
<1> DEFINE W == (s1 * H) * Base + T1 * H + second * Base + T0
<1>17. mul128(m, n) \in uint128 /\ Val128(mul128(m, n)) = W % HalfModulus
  BY <1>1, <1>13, <1>14, <1>15, <1>16, Sum128Of4
<1>18. PICK k \in Nat : Val128(m) * Val128(n) =
             T0 + T1 * H + T2 * (H * H) + T3 * (H * (H * H)) + k * (H * (H * (H * H)))
  BY <1>2, <1>5, <1>6, ProductColumns DEF T0, T1, T2, T3
<1>19. W \in Nat /\ Val128(m) * Val128(n) = W + ((k3 + k2) + k) * HalfModulus
  <2>1. second \in Nat /\ s1 \in Nat /\ T0 \in Nat /\ T1 \in Nat /\ T2 \in Nat /\ T3 \in Nat
    BY <1>2, <1>7, <1>10, <1>12, BaseFacts
  <2>2. T2 * (H * H) = second * (H * H) + k2 * ((H * H) * (H * H))
    BY <1>2, <1>12, <2>1
  <2>3. T3 * (H * (H * H)) = (s1 * H) * (H * H) + k3 * ((H * H) * (H * H))
    BY <1>2, <1>11, <2>1
  <2>4. k * (H * (H * (H * H))) = k * ((H * H) * (H * H))
    BY <1>2
  <2>5. ((k3 + k2) + k) * ((H * H) * (H * H)) =
          k3 * ((H * H) * (H * H)) + k2 * ((H * H) * (H * H)) + k * ((H * H) * (H * H))
    BY <1>2, <1>12
  <2>6. /\ (s1 * H) * (H * H) \in Nat /\ T1 * H \in Nat /\ second * (H * H) \in Nat
        /\ k3 * ((H * H) * (H * H)) \in Nat /\ k2 * ((H * H) * (H * H)) \in Nat
        /\ k * ((H * H) * (H * H)) \in Nat
    BY <1>2, <1>12, <2>1
  <2>7. W = (s1 * H) * (H * H) + T1 * H + second * (H * H) + T0 /\ HalfModulus = (H * H) * (H * H)
    BY <1>2
  <2> QED BY <1>18, <2>1, <2>2, <2>3, <2>4, <2>5, <2>6, <2>7
<1> HIDE DEF W
<1>20. (k3 + k2) + k \in Nat
  BY <1>12
<1>21. (W + ((k3 + k2) + k) * HalfModulus) % HalfModulus = W % HalfModulus
  BY <1>19, <1>20, BaseFacts, ModMultiple
<1> QED BY <1>17, <1>19, <1>21

\* mul128 of two single limbs is their product.
LEMMA WideProduct ==
  ASSUME NEW x \in uint64, NEW y \in uint64
  PROVE  LET p == mul128(Wide(x), Wide(y))
         IN  /\ UPPER(p) \in uint64 /\ LOWER(p) \in uint64
             /\ x * y = UPPER(p) * Base + LOWER(p)
<1> DEFINE p == mul128(Wide(x), Wide(y))
<1>1. x \in 0..(Base - 1) /\ y \in 0..(Base - 1) /\ 0 \in 0..(Base - 1) /\ Base \in Nat \ {0}
  BY BaseFacts DEF uint64
<1>2. ASSUME NEW z \in 0..(Base - 1) PROVE Wide(z) \in uint128 /\ Val128(Wide(z)) = z
  <2>1. 0 * Base + z = z
    BY <1>1
  <2> QED BY <1>1, <2>1, Make128, Val128Pair DEF Wide
<1>3. p \in uint128 /\ Val128(p) = (x * y) % HalfModulus
  BY <1>1, <1>2, Mul128
<1>4. x * y \in 0..(HalfModulus - 1)
  BY <1>1, DigitProduct DEF HalfModulus
<1>5. Val128(p) = x * y
  BY <1>3, <1>4, BaseFacts, ModSmall
<1> HIDE DEF p
<1>6. /\ UPPER(p) \in uint64 /\ LOWER(p) \in uint64
      /\ x * y = UPPER(p) * Base + LOWER(p)
  BY <1>3, <1>5, Pair128 DEF Val128, uint64
<1> QED BY <1>6 DEF p

-----------------------------------------------------------------------------
(* mul256: its columns.                                                    *)

\* A limb as a uint128 has the same value.
LEMMA WideValue == ASSUME NEW x \in uint64 PROVE Wide(x) \in uint128 /\ Val128(Wide(x)) = x
<1>1. x \in 0..(Base - 1) /\ 0 \in 0..(Base - 1) /\ 0 * Base + x = x
  BY BaseFacts DEF uint64
<1> QED BY <1>1, Make128, Val128Pair DEF Wide

\* The four limbs of a uint256.
LEMMA Limbs256 ==
  ASSUME NEW n \in uint256
  PROVE  /\ \A k \in 0..3 : Limb(n, k) \in uint64
         /\ Val(n) = Limb(n, 3) + Limb(n, 2) * Base + Limb(n, 1) * (Base * Base)
                       + Limb(n, 0) * (Base * (Base * Base))
<1> DEFINE u1 == n[1][1]  u0 == n[1][2]  w1 == n[2][1]  w0 == n[2][2]
<1>1. u1 \in uint64 /\ u0 \in uint64 /\ w1 \in uint64 /\ w0 \in uint64
  BY DEF uint256, uint128
<1>2. Limb(n, 0) = u1 /\ Limb(n, 1) = u0 /\ Limb(n, 2) = w1 /\ Limb(n, 3) = w0
  BY DEF Limb
<1>3. Val(n) = (u1 * Base + u0) * (Base * Base) + (w1 * Base + w0)
  BY DEF Val, Val128, UPPER, LOWER
<1> HIDE DEF u1, u0, w1, w0
<1>4. u1 \in Nat /\ u0 \in Nat /\ w1 \in Nat /\ w0 \in Nat /\ Base \in Nat
  BY <1>1, BaseFacts DEF uint64
<1>5. \A k \in 0..3 : k = 0 \/ k = 1 \/ k = 2 \/ k = 3
  OBVIOUS
<1>6. \A k \in 0..3 : Limb(n, k) \in uint64
  BY <1>1, <1>2, <1>5
<1>7. Val(n) = w0 + w1 * Base + u0 * (Base * Base) + u1 * (Base * (Base * Base))
  BY <1>3, <1>4
<1> QED BY <1>2, <1>6, <1>7

\* What the columns hold: the totals T0 .. T3 of their weights.
ColumnsHold(c, T0, T1, T2, T3) ==
    /\ c \in Seq(uint128) /\ c[1] \in uint128 /\ c[2] \in uint128 /\ c[3] \in uint128 /\ c[4] \in uint128
    /\ T0 \in 0..(Base - 1) /\ T1 \in 0..(3 * Base - 3) /\ T2 \in Nat /\ T3 \in Nat
    /\ Val128(c[4]) = T0 /\ Val128(c[3]) = T1 % HalfModulus
    /\ Val128(c[2]) = T2 % HalfModulus /\ Val128(c[1]) = T3 % HalfModulus

\* The columns of mul256 add up to the product modulo 2^256.
LEMMA ColumnsNumeric ==
  ASSUME NEW m \in uint256, NEW n \in uint256
  PROVE  \E T0, T1, T2, T3 \in Nat, k \in Nat :
           /\ ColumnsHold(Columns256(m, n), T0, T1, T2, T3)
           /\ Val(m) * Val(n) = T0 + T1 * Base + T2 * (Base * Base) + T3 * (Base * (Base * Base))
                                  + k * (Base * (Base * (Base * Base)))
<1> DEFINE P(i, y) == mul128(Wide(Limb(m, 3 - i)), Wide(Limb(n, y)))
           L(i, y) == Wide(LOWER(P(i, y)))
           G(i, y) == Wide(UPPER(P(i, y)))
           c1 == Sum128(<< L(0, 0), G(0, 1), L(1, 1), G(1, 2), L(2, 2), G(2, 3), L(3, 3) >>)
           c2 == Sum128(<< L(0, 1), G(0, 2), L(1, 2), G(1, 3), L(2, 3) >>)
           c3 == Sum128(<< L(0, 2), G(0, 3), L(1, 3) >>)
<1>1. Columns256(m, n) = << c1, c2, c3, L(0, 3) >>
  BY Zenon DEF Columns256
<1> DEFINE x == [i \in 0..3 |-> Limb(m, 3 - i)]
           y == [j \in 0..3 |-> Limb(n, j)]
           lo == [p \in DigitPairs |-> LOWER(P(p[1], p[2]))]
           hi == [p \in DigitPairs |-> UPPER(P(p[1], p[2]))]
<1>2. Base \in Nat \ {0, 1} /\ \A z \in uint64 : z \in Nat /\ z \in 0..(Base - 1)
  BY BaseFacts DEF uint64
<1>3. ASSUME NEW i \in 0..3, NEW j \in 0..3
      PROVE  /\ LOWER(P(i, j)) \in uint64 /\ UPPER(P(i, j)) \in uint64
             /\ x[i] * y[j] = UPPER(P(i, j)) * Base + LOWER(P(i, j))
  <2> DEFINE u == Limb(m, 3 - i)  v == Limb(n, j)
  <2>1. u \in uint64 /\ v \in uint64 /\ x[i] = u /\ y[j] = v
    <3>1. 3 - i \in 0..3
      OBVIOUS
    <3> QED BY <3>1, Limbs256
  <2>2. P(i, j) = mul128(Wide(u), Wide(v))
    OBVIOUS
  <2> HIDE DEF u, v, x, y, P
  <2>3. /\ UPPER(P(i, j)) \in uint64 /\ LOWER(P(i, j)) \in uint64
        /\ u * v = UPPER(P(i, j)) * Base + LOWER(P(i, j))
    BY <2>1, <2>2, WideProduct
  <2> QED BY <2>1, <2>3
<1>4. ASSUME NEW i \in 0..3, NEW j \in 0..3
      PROVE  lo[<< i, j >>] = LOWER(P(i, j)) /\ hi[<< i, j >>] = UPPER(P(i, j))
  BY DEF DigitPairs
<1>5. DigitProducts(Base, x, y, lo, hi)
  <2>1. x \in [0..3 -> Nat]
    <3>1. ASSUME NEW i \in 0..3 PROVE Limb(m, 3 - i) \in Nat
      <4>1. 3 - i \in 0..3
        OBVIOUS
      <4> QED BY <1>2, <4>1, Limbs256
    <3> QED BY <3>1
  <2>2. y \in [0..3 -> Nat]
    BY <1>2, Limbs256
  <2>3. \A p \in DigitPairs : LOWER(P(p[1], p[2])) \in Nat /\ UPPER(P(p[1], p[2])) \in Nat
    <3> HIDE DEF P, x, y
    <3>1. \A i, j \in 0..3 : LOWER(P(i, j)) \in Nat /\ UPPER(P(i, j)) \in Nat
      BY <1>2, <1>3
    <3> QED BY <3>1 DEF DigitPairs
  <2>4. lo \in [DigitPairs -> Nat] /\ hi \in [DigitPairs -> Nat]
    <3> HIDE DEF P
    <3> QED BY <2>3
  <2>5. \A i, j \in 0..3 : x[i] * y[j] = hi[<< i, j >>] * Base + lo[<< i, j >>]
    <3> HIDE DEF lo, hi, x, y, P
    <3> QED BY <1>3, <1>4
  <2> HIDE DEF lo, hi, x, y
  <2> QED BY <2>1, <2>2, <2>4, <2>5 DEF DigitProducts
<1>6. Upward(Base, x) = Val(m) /\ Downward(Base, y) = Val(n)
  <2>1. x[0] = Limb(m, 3) /\ x[1] = Limb(m, 2) /\ x[2] = Limb(m, 1) /\ x[3] = Limb(m, 0)
    OBVIOUS
  <2>2. y[0] = Limb(n, 0) /\ y[1] = Limb(n, 1) /\ y[2] = Limb(n, 2) /\ y[3] = Limb(n, 3)
    OBVIOUS
  <2> HIDE DEF x, y
  <2> QED BY <2>1, <2>2, Limbs256, Zenon DEF Upward, Downward
<1> DEFINE T0 == lo[<<0, 3>>]  T1 == ThirdColumn(lo, hi)  T2 == SecondColumn(lo, hi)  T3 == FirstColumn(lo, hi)
<1>7. T0 \in 0..(Base - 1) /\ T1 \in 0..(3 * Base - 3) /\ T2 \in Nat /\ T3 \in Nat
  <2> HIDE DEF P, lo, hi, x, y
  <2>1. \A i, j \in 0..3 : lo[<< i, j >>] \in 0..(Base - 1) /\ hi[<< i, j >>] \in 0..(Base - 1)
    BY <1>2, <1>3, <1>4
  <2> QED BY <1>2, <2>1 DEF FirstColumn, SecondColumn, ThirdColumn
<1>8. ASSUME NEW i \in 0..3, NEW j \in 0..3
      PROVE  /\ L(i, j) \in uint128 /\ Val128(L(i, j)) = lo[<< i, j >>]
             /\ G(i, j) \in uint128 /\ Val128(G(i, j)) = hi[<< i, j >>]
  <2> HIDE DEF P, lo, hi, x, y
  <2> QED BY <1>3, <1>4, WideValue
<1> HIDE DEF P, L, G, lo, hi, x, y
<1>9. c3 \in uint128 /\ Val128(c3) = T1 % HalfModulus
  <2>1. L(0, 2) \in uint128 /\ G(0, 3) \in uint128 /\ L(1, 3) \in uint128
    BY <1>8
  <2>2. c3 \in uint128 /\ Val128(c3) = (Val128(L(0, 2)) + Val128(G(0, 3)) + Val128(L(1, 3))) % HalfModulus
    BY <2>1, Sum128Of3
  <2> HIDE DEF c3
  <2> QED BY <1>8, <2>2 DEF ThirdColumn
<1>10. c2 \in uint128 /\ Val128(c2) = T2 % HalfModulus
  <2>1. /\ L(0, 1) \in uint128 /\ G(0, 2) \in uint128 /\ L(1, 2) \in uint128
        /\ G(1, 3) \in uint128 /\ L(2, 3) \in uint128
    BY <1>8
  <2>2. c2 \in uint128 /\ Val128(c2) = (Val128(L(0, 1)) + Val128(G(0, 2)) + Val128(L(1, 2))
                                          + Val128(G(1, 3)) + Val128(L(2, 3))) % HalfModulus
    BY <2>1, Sum128Of5
  <2> HIDE DEF c2
  <2> QED BY <1>8, <2>2 DEF SecondColumn
<1>11. c1 \in uint128 /\ Val128(c1) = T3 % HalfModulus
  <2>1. /\ L(0, 0) \in uint128 /\ G(0, 1) \in uint128 /\ L(1, 1) \in uint128 /\ G(1, 2) \in uint128
        /\ L(2, 2) \in uint128 /\ G(2, 3) \in uint128 /\ L(3, 3) \in uint128
    BY <1>8
  <2>2. c1 \in uint128 /\ Val128(c1) = (Val128(L(0, 0)) + Val128(G(0, 1)) + Val128(L(1, 1))
                                          + Val128(G(1, 2)) + Val128(L(2, 2)) + Val128(G(2, 3))
                                          + Val128(L(3, 3))) % HalfModulus
    <3> HIDE DEF c2, c3
    <3> QED BY <2>1, Sum128Of7, SMTT(60)
  <2> HIDE DEF c1
  <2> QED BY <1>8, <2>2 DEF FirstColumn
<1>12. L(0, 3) \in uint128 /\ Val128(L(0, 3)) = T0
  BY <1>8
<1> HIDE DEF c1, c2, c3, T0, T1, T2, T3
<1>13. PICK k \in Nat : Val(m) * Val(n) =
             T0 + T1 * Base + T2 * (Base * Base) + T3 * (Base * (Base * Base)) + k * (Base * (Base * (Base * Base)))
  BY <1>2, <1>5, <1>6, ProductColumns DEF T0, T1, T2, T3
<1>14. ColumnsHold(Columns256(m, n), T0, T1, T2, T3)
  <2>1. << c1, c2, c3, L(0, 3) >> \in Seq(uint128)
    BY <1>9, <1>10, <1>11, <1>12
  <2> QED BY <1>1, <1>7, <1>9, <1>10, <1>11, <1>12, <2>1 DEF ColumnsHold
<1>15. T0 \in Nat /\ T1 \in Nat
  BY <1>2, <1>7
<1> QED BY <1>7, <1>13, <1>14, <1>15

-----------------------------------------------------------------------------
(* mul256: its columns added up.                                           *)

\* What add_columns makes of the columns: the first one and the carry u of the
\* third one in the highest limb.
LEMMA AddedColumns ==
  ASSUME NEW c \in Seq(uint128), c[1] \in uint128, c[2] \in uint128, c[3] \in uint128, c[4] \in uint128
  PROVE  /\ add_columns[c] \in uint256
         /\ Val(add_columns[c]) =
              ((LOWER(c[1]) * Base) * HalfModulus
                + ((UPPER(c[3]) * Base) * HalfModulus + LOWER(c[3]) * Base)
                + Val128(c[2]) * HalfModulus + Val128(c[4])) % Modulus
<1> DEFINE A1 == << shiftl128(c[1], LimbBits), Zero128 >>
           A2 == << << UPPER(c[3]), 0 >>, shiftl128(c[3], LimbBits) >>
           A3 == << c[2], Zero128 >>
           A4 == << Zero128, c[4] >>
<1>1. add_columns[c] = Sum256(<< A1, A2, A3, A4 >>)
  BY DEF add_columns
<1>2. ASSUME NEW n \in uint128
      PROVE  /\ shiftl128(n, LimbBits) = << LOWER(n), 0 >>
             /\ << UPPER(n), 0 >> \in uint128 /\ << LOWER(n), 0 >> \in uint128
             /\ Val128(<< UPPER(n), 0 >>) = UPPER(n) * Base /\ Val128(<< LOWER(n), 0 >>) = LOWER(n) * Base
  <2>1. ~(LimbBits >= Bits128) /\ LimbBits # 0 /\ ~(LimbBits < LimbBits)
    BY Widths
  <2>2. shiftl128(n, LimbBits) = << LOWER(n), 0 >>
    BY <2>1 DEF shiftl128
  <2>3. UPPER(n) \in 0..(Base - 1) /\ LOWER(n) \in 0..(Base - 1) /\ 0 \in 0..(Base - 1)
    BY Pair128, BaseFacts
  <2>4. UPPER(n) * Base + 0 = UPPER(n) * Base /\ LOWER(n) * Base + 0 = LOWER(n) * Base
    BY <2>3, BaseFacts
  <2> QED BY <2>2, <2>3, <2>4, Make128, Val128Pair
<1>3. A1 \in uint256 /\ Val(A1) = (LOWER(c[1]) * Base) * HalfModulus
  <2>1. (LOWER(c[1]) * Base) * HalfModulus + 0 = (LOWER(c[1]) * Base) * HalfModulus
    BY Pair128, BaseFacts
  <2>2. A1 = << << LOWER(c[1]), 0 >>, Zero128 >>
    BY <1>2
  <2> DEFINE z == << LOWER(c[1]), 0 >>
  <2>3. z \in uint128 /\ Val128(z) = LOWER(c[1]) * Base /\ A1 = << z, Zero128 >>
    BY <1>2, <2>2
  <2> HIDE DEF z
  <2> QED BY <2>1, <2>3, Make256, ValPair, Zero128Value
<1>4. A2 \in uint256 /\ Val(A2) = (UPPER(c[3]) * Base) * HalfModulus + LOWER(c[3]) * Base
  BY <1>2, Make256, ValPair
<1>5. A3 \in uint256 /\ Val(A3) = Val128(c[2]) * HalfModulus
  <2>1. Val128(c[2]) * HalfModulus + 0 = Val128(c[2]) * HalfModulus
    BY Val128Type, BaseFacts
  <2> QED BY <2>1, Make256, ValPair, Zero128Value
<1>6. A4 \in uint256 /\ Val(A4) = Val128(c[4])
  <2>1. 0 * HalfModulus + Val128(c[4]) = Val128(c[4])
    BY Val128Type, BaseFacts
  <2> QED BY <2>1, Make256, ValPair, Zero128Value
<1> HIDE DEF A1, A2, A3, A4
<1> QED BY <1>1, <1>3, <1>4, <1>5, <1>6, Sum256Of4

\* The low half of mul256 is that of the product, and the whole of it is the
\* product exactly when the third column does not carry.
LEMMA Mul256 ==
  ASSUME NEW m \in uint256, NEW n \in uint256
  PROVE  /\ Val128(LOWER(mul256(m, n))) = ((Val(m) * Val(n)) % Modulus) % HalfModulus
         /\ Val(mul256(m, n)) = (Val(m) * Val(n)) % Modulus <=> UPPER(Columns256(m, n)[3]) = 0
<1> DEFINE c == Columns256(m, n)  B == Base  h == HalfModulus  M == Modulus
           e == (Val(m) * Val(n)) % M
<1>1. B \in Nat \ {0, 1} /\ h = B * B /\ M = h * h /\ h \in Nat \ {0, 1} /\ M \in Nat \ {0, 1}
  BY BaseFacts, ModulusType DEF HalfModulus, Modulus
<1>2. PICK T0, T1, T2, T3 \in Nat, k \in Nat :
           /\ ColumnsHold(c, T0, T1, T2, T3)
           /\ Val(m) * Val(n) = T0 + T1 * B + T2 * (B * B) + T3 * (B * (B * B))
                                  + k * (B * (B * (B * B)))
  BY ColumnsNumeric
<1>3. mul256(m, n) = add_columns[c]
  BY DEF mul256
<1> HIDE DEF c
<1> DEFINE u == UPPER(c[3])  w == LOWER(c[3])  s1 == LOWER(c[1])  v2 == Val128(c[2])
<1>4. /\ c[1] \in uint128 /\ c[2] \in uint128 /\ c[3] \in uint128 /\ c[4] \in uint128 /\ c \in Seq(uint128)
      /\ T0 \in 0..(B - 1) /\ T1 \in 0..(3 * B - 3)
      /\ Val128(c[4]) = T0 /\ Val128(c[3]) = T1 % h
      /\ v2 = T2 % h /\ Val128(c[1]) = T3 % h
  BY <1>2 DEF ColumnsHold
<1>5. u \in 0..(B - 1) /\ w \in 0..(B - 1) /\ s1 \in 0..(B - 1) /\ UPPER(c[1]) \in 0..(B - 1)
  BY <1>4, Pair128
<1>6. Val128(c[3]) = u * B + w /\ Val128(c[1]) = UPPER(c[1]) * B + s1
  BY DEF Val128
<1> DEFINE W == (s1 * B) * h + ((u * B) * h + w * B) + v2 * h + T0
<1>7. mul256(m, n) \in uint256 /\ Val(mul256(m, n)) = W % M
  BY <1>3, <1>4, AddedColumns
<1> DEFINE u1 == UPPER(c[1])
<1> HIDE DEF u, w, s1, v2, u1, B, h, M
<1>8. T1 = u * B + w /\ u \in 0..2
  <2>1. 3 * B - 3 < B * B
    BY <1>1
  <2>2. T1 \in 0..(h - 1) /\ h \in Nat \ {0}
    BY <1>1, <1>4, <2>1
  <2>4. T1 % h = T1
    BY <2>2, ModSmall
  <2>5. T1 = u * B + w
    BY <1>4, <1>6, <2>4
  <2>3. u \in 0..2
    <3>1. SUFFICES ASSUME u >= 3 PROVE FALSE
      BY <1>1, <1>5
    <3>2. 3 * B <= u * B /\ u * B \in Nat
      BY <1>1, <1>5, <3>1, ProductMonotone, ProductNat
    <3> QED BY <1>1, <1>4, <1>5, <2>5, <3>2
  <2> QED BY <2>3, <2>5
<1>9. PICK k3 \in Nat : T3 = k3 * B + s1
  <2> DEFINE q == T3 \div h  t == T3 % h
  <2>1. q \in Nat /\ t \in 0..(h - 1) /\ T3 = q * h + t
    BY <1>1, QuotientFacts
  <2>2. t = u1 * B + s1
    BY <1>4, <1>6 DEF u1
  <2> HIDE DEF q, t
  <2>3. u1 \in Nat /\ s1 \in Nat
    BY <1>1, <1>5 DEF u1
  <2>4. q * B + u1 \in Nat /\ T3 = (q * B + u1) * B + s1
    BY <1>1, <2>1, <2>2, <2>3
  <2> QED BY <2>4
<1>10. PICK k2 \in Nat : T2 = k2 * h + v2 /\ v2 \in Nat
  <2> DEFINE q == T2 \div h
  <2>1. q \in Nat /\ T2 = q * h + (T2 % h) /\ T2 % h \in 0..(h - 1)
    BY <1>1, QuotientFacts
  <2> HIDE DEF q
  <2>2. q \in Nat /\ T2 = q * h + v2 /\ v2 \in Nat
    BY <1>1, <1>4, <2>1
  <2> QED BY <2>2
\* R is the product modulo 2^256, and W what the code computes.
<1> DEFINE R == (s1 * B) * h + w * B + (v2 + u) * h + T0
<1>11. u \in Nat /\ w \in Nat /\ s1 \in Nat /\ R \in Nat /\ W \in Nat
  BY <1>1, <1>5, <1>8, <1>10
<1>12. Val(m) * Val(n) = R + ((k3 + k2) + k) * M
  <2>1. T1 * B = u * (B * B) + w * B
    BY <1>1, <1>8, <1>11
  <2>2. T2 * (B * B) = v2 * (B * B) + k2 * ((B * B) * (B * B))
    BY <1>1, <1>10
  <2>3. T3 * (B * (B * B)) = (s1 * B) * (B * B) + k3 * ((B * B) * (B * B))
    BY <1>1, <1>9, <1>11
  <2>4. k * (B * (B * (B * B))) = k * ((B * B) * (B * B))
    BY <1>1
  <2>5. ((k3 + k2) + k) * ((B * B) * (B * B)) =
          k3 * ((B * B) * (B * B)) + k2 * ((B * B) * (B * B)) + k * ((B * B) * (B * B))
    BY <1>1
  <2>6. R = (s1 * B) * (B * B) + w * B + (v2 * (B * B) + u * (B * B)) + T0
    BY <1>1, <1>10, <1>11
  <2>7. /\ (s1 * B) * (B * B) \in Nat /\ w * B \in Nat /\ v2 * (B * B) \in Nat /\ u * (B * B) \in Nat
        /\ k3 * ((B * B) * (B * B)) \in Nat /\ k2 * ((B * B) * (B * B)) \in Nat
        /\ k * ((B * B) * (B * B)) \in Nat
    BY <1>1, <1>10, <1>11
  <2>8. M = (B * B) * (B * B)
    BY <1>1
  <2> HIDE DEF R
  <2> QED BY <1>2, <2>1, <2>2, <2>3, <2>4, <2>5, <2>6, <2>7, <2>8
<1>13. e = R % M
  <2>1. (k3 + k2) + k \in Nat
    OBVIOUS
  <2>2. R \in Nat /\ M \in Nat \ {0}
    BY <1>1, <1>11
  <2> HIDE DEF R
  <2>3. (R + ((k3 + k2) + k) * M) % M = R % M
    BY <2>1, <2>2, ModMultiple
  <2> QED BY <1>12, <2>3, Zenon DEF e
<1>14. W = R + (u * (B * (B * B)) - u * (B * B))
  <2>1. /\ W = (s1 * B) * h + u * (B * (B * B)) + w * B + v2 * h + T0
        /\ R = (s1 * B) * h + w * B + v2 * h + u * (B * B) + T0
    BY <1>1, <1>10, <1>11
  <2>2. /\ (s1 * B) * h \in Nat /\ w * B \in Nat /\ v2 * h \in Nat /\ u * (B * B) \in Nat
        /\ u * (B * (B * B)) \in Nat
    BY <1>1, <1>10, <1>11
  <2> HIDE DEF W, R
  <2> QED BY <2>1, <2>2
<1>15. Val(mul256(m, n)) = e <=> u = 0
  <2> HIDE DEF W, R, e
  <2>1. CASE u = 0
    <3>1. W = R
      BY <1>1, <1>11, <1>14, <2>1
    <3> QED BY <1>7, <1>13, <2>1, <3>1
  <2>2. CASE u # 0
    <3>1. u \in 1..2 /\ B \in Nat /\ B > 1
      BY <1>1, <1>8, <2>2
    <3>2. u * (B * (B * B)) - u * (B * B) \in 1..(M - 1)
      BY <1>1, <3>1, CarryError
    <3>3. R % M # W % M
      BY <1>1, <1>11, <1>14, <3>2, ModDiffers
    <3> QED BY <1>7, <1>13, <2>2, <3>3
  <2> QED BY <2>1, <2>2
<1>16. W % h = R % h
  <2>1. /\ W = (w * B + T0) + (s1 * B + u * B + v2) * h
        /\ R = (w * B + T0) + (s1 * B + v2 + u) * h
    BY <1>1, <1>10, <1>11
  <2>2. w * B + T0 \in Nat /\ s1 * B + u * B + v2 \in Nat /\ s1 * B + v2 + u \in Nat
    BY <1>1, <1>10, <1>11
  <2> HIDE DEF W, R
  <2>3. W % h = (w * B + T0) % h
    BY <1>1, <2>1, <2>2, ModMultiple
  <2>4. R % h = (w * B + T0) % h
    BY <1>1, <2>1, <2>2, ModMultiple
  <2> QED BY <2>3, <2>4
<1>17. Val128(LOWER(mul256(m, n))) = e % h
  <2> DEFINE p == mul256(m, n)  p1 == Val128(UPPER(p))  p0 == Val128(LOWER(p))
  <2>1. p1 \in Nat /\ p0 \in 0..(h - 1) /\ Val(p) = p1 * h + p0
    BY <1>7, Pair256, Val128Type, BaseFacts DEF Val, h, HalfModulus
  <2>2. Val(p) = W % M
    BY <1>7
  <2> HIDE DEF p, p1, p0, W, R, e
  <2>3. (W % M) % h = W % h /\ (R % M) % h = R % h
    BY <1>1, <1>11, ModSquare
  <2>4. Val(p) \in Nat /\ Val(p) % h = p0
    <3>1. p1 * h \in Nat /\ h \in Nat \ {0}
      BY <1>1, <2>1, ProductNat
    <3>2. Val(p) \in Nat
      BY <1>1, <2>1, <3>1
    <3> QED BY <2>1, <3>1, <3>2, QuotientUnique
  <2>5. p0 = e % h
    BY <1>13, <1>16, <2>2, <2>3, <2>4
  <2> QED BY <2>5 DEF p, p0
<1> QED BY <1>15, <1>17, Zenon DEF e, h, M, u, c

-----------------------------------------------------------------------------
(* divmod256: the numbers its steps compute with.                          *)

LEMMA Zero256Test == ASSUME NEW n \in uint256 PROVE zero256(n) <=> Val(n) = 0
<1> DEFINE u == Val128(UPPER(n))  w == Val128(LOWER(n))  h == HalfModulus
<1>1. u \in Nat /\ w \in Nat /\ h \in Nat \ {0}
  BY Pair256, Val128Type, BaseFacts
<1>2. zero256(n) <=> w = 0 /\ u = 0
  BY Pair256, Zero128Test DEF zero256
<1>3. Val(n) = u * h + w
  BY DEF Val, HalfModulus
<1> HIDE DEF u, w, h
<1>4. u * h + w = 0 <=> u = 0 /\ w = 0
  <2>1. CASE u = 0
    BY <1>1, <2>1
  <2>2. CASE u # 0
    <3>1. 1 * h <= u * h /\ u * h \in Nat
      BY <1>1, <2>2, ProductMonotone, ProductNat
    <3> QED BY <1>1, <2>2, <3>1
  <2> QED BY <2>1, <2>2
<1> QED BY <1>2, <1>3, <1>4

LEMMA One256Value == One256 \in uint256 /\ Val(One256) = 1
<1>1. 0 * HalfModulus + 1 = 1
  BY BaseFacts
<1> QED BY <1>1, Zero128Value, One128Value, ValPair, Make256 DEF One256

\* The loop shifts by one bit: it halves.
LEMMA HalveNumeric ==
  ASSUME NEW n \in uint256
  PROVE  shiftr256(n, 1) \in uint256 /\ Val(shiftr256(n, 1)) = Val(n) \div 2
<1>1. ~(1 >= Bits256) /\ 2^1 = 2 /\ 1 \in Nat
  BY Widths
<1> QED BY <1>1, ShiftRight256

\* The comparisons of divmod256.
LEMMA OrderOfWords ==
  ASSUME NEW m \in uint256, NEW n \in uint256
  PROVE  /\ Val(m) \in Nat /\ Val(n) \in Nat
         /\ gt256(m, n) <=> Val(m) > Val(n)
         /\ gte256(m, n) <=> Val(m) >= Val(n)
<1>1. Val(m) \in Nat /\ Val(n) \in Nat
  BY ValType, ModulusType
<1>2. (gt256(m, n) <=> Val(m) > Val(n)) /\ (equal256(m, n) <=> Val(m) = Val(n))
  BY Order256
<1>3. gte256(m, n) <=> gt256(m, n) \/ equal256(m, n)
  BY DEF gte256
<1>4. Val(m) >= Val(n) <=> Val(m) > Val(n) \/ Val(m) = Val(n)
  BY <1>1
<1> QED BY <1>1, <1>2, <1>3, <1>4

\* A longer number is larger.
LEMMA LengthMonotone ==
  ASSUME NEW x \in Nat, NEW y \in Nat, NEW bx, NEW by,
         BitLength(x, bx), BitLength(y, by), y <= x
  PROVE  bx \in 0..Bits256 /\ by \in 0..Bits256 /\ by <= bx
<1>1. bx \in 0..Bits256 /\ by \in 0..Bits256 /\ x < 2^bx /\ (by # 0 => 2^(by - 1) <= y)
  BY DEF BitLength
<1>2. ASSUME bx < by PROVE FALSE
  <2>1. by # 0 /\ by - 1 \in 0..Bits256
    BY <1>1, <1>2, Widths
  <2>2. 2^bx \in Nat /\ 2^(by - 1) \in Nat
    BY <1>1, <2>1, PowerType
  <2>3. CASE bx = by - 1
    BY <1>1, <2>1, <2>2, <2>3
  <2>4. CASE bx < by - 1
    <3>1. 2 * 2^bx <= 2^(by - 1)
      BY <1>1, <2>1, <2>4, PowerMonotone
    <3> QED BY <1>1, <2>1, <2>2, <3>1
  <2> QED BY <1>1, <1>2, <2>3, <2>4, Widths
<1> QED BY <1>1, <1>2, Widths

\* The divisor y shifted up by the difference of the lengths does not lose a
\* bit, and it is the largest power of two times y that may fit, or the next.
LEMMA AlignedNumbers ==
  ASSUME NEW x \in Nat, NEW y \in Nat \ {0}, NEW bx, NEW by,
         BitLength(x, bx), BitLength(y, by), y <= x
  PROVE  /\ bx - by \in 0..(Bits256 - 1)
         /\ y < 2^(Bits256 - (bx - by))
         /\ x < 2 * (2^(bx - by) * y)
         /\ 2^(bx - by) * y > x => /\ bx - by >= 1
                                   /\ 2^(bx - by - 1) * y <= x
<1> DEFINE D == bx - by
<1>1. bx \in 0..Bits256 /\ by \in 1..Bits256 /\ by <= bx
  BY LengthMonotone, LengthHalf
<1>2. x < 2^bx /\ 2^(bx - 1) <= x /\ y < 2^by /\ 2^(by - 1) <= y
  BY <1>1, Widths DEF BitLength
<1>3. /\ D \in 0..(Bits256 - 1) /\ D \in 0..Bits256 /\ D \in Nat /\ Bits256 - D \in 0..Bits256
      /\ by \in Nat /\ by <= Bits256 - D /\ D + by = bx /\ D + by <= Bits256
      /\ by \in 0..Bits256 /\ by - 1 \in 0..(Bits256 - 1) /\ (by - 1) + 1 = by
  BY <1>1, Widths
<1>4. y < 2^(Bits256 - D)
  <2>1. 2^by \in Nat /\ 2^(Bits256 - D) \in Nat
    BY <1>3, PowerType
  <2>2. CASE by = Bits256 - D
    BY <1>2, <2>2
  <2>3. CASE by < Bits256 - D
    <3>1. 2 * 2^by <= 2^(Bits256 - D)
      BY <1>3, <2>3, PowerMonotone
    <3> QED BY <1>2, <2>1, <3>1
  <2> QED BY <1>1, <1>3, <2>2, <2>3, Widths
<1> DEFINE p == 2^D  c == 2^(by - 1)
<1>5. p \in Nat /\ c \in Nat /\ 2^by = 2 * c /\ 2^bx = p * (2 * c)
  <2>1. 2^D \in Nat
    BY <1>3, PowerType
  <2>2. 2^(by - 1) \in Nat /\ 2^by = 2 * 2^(by - 1)
    BY <1>3, PowersAssumption
  <2>3. 2^(D + by) = 2^D * 2^by
    BY <1>3, PowerSum
  <2> QED BY <1>3, <2>1, <2>2, <2>3
<1>6. x < 2 * (p * y)
  <2>1. x < p * (2 * c) /\ c <= y
    BY <1>2, <1>5
  <2> HIDE DEF p, c
  <2>2. p * (2 * c) = 2 * (c * p) /\ p * y = y * p
    BY <1>5
  <2>3. c * p <= y * p /\ c * p \in Nat /\ y * p \in Nat
    BY <1>5, <2>1, ProductMonotone, ProductNat
  <2> QED BY <2>1, <2>2, <2>3
<1>7. ASSUME p * y > x PROVE D >= 1 /\ 2^(D - 1) * y <= x
  <2> HIDE DEF D
  <2>1. D # 0
    <3>1. D = 0 => 2^D = 1
      OBVIOUS
    <3>2. D = 0 => p * y = 1 * y
      BY <3>1
    <3> HIDE DEF p
    <3> QED BY <1>7, <3>2
  <2>2. D - 1 \in Nat /\ D - 1 \in 0..Bits256 /\ (D - 1) + by = bx - 1 /\ (D - 1) + by <= Bits256
    BY <1>1, <1>3, <2>1, Widths
  <2>3. 2^(bx - 1) = 2^(D - 1) * 2^by
    <3>1. 2^((D - 1) + by) = 2^(D - 1) * 2^by
      BY <1>3, <2>2, PowerSum
    <3> QED BY <2>2, <3>1
  <2>4. 2^(D - 1) \in Nat /\ 2^by \in Nat
    BY <1>3, <2>2, PowerType
  <2> DEFINE e == 2^(D - 1)  f == 2^by
  <2>5. e \in Nat /\ f \in Nat /\ e * f <= x /\ y <= f
    BY <1>2, <2>3, <2>4
  <2> HIDE DEF e, f
  <2>6. y * e <= f * e /\ y * e = e * y /\ f * e = e * f /\ y * e \in Nat /\ f * e \in Nat
    BY <2>5, ProductMonotone, ProductNat
  <2>7. e * y <= x
    BY <2>5, <2>6
  <2> QED BY <1>3, <2>1, <2>7 DEF e
<1> QED BY <1>3, <1>4, <1>6, <1>7

\* Halving 2^k times y.
LEMMA HalfMultiple ==
  ASSUME NEW y \in Nat, NEW k \in 1..Bits256
  PROVE  /\ 2^(k - 1) \in Nat /\ 2^k = 2 * 2^(k - 1) /\ 2^k \div 2 = 2^(k - 1)
         /\ 2^k * y = 2 * (2^(k - 1) * y) /\ (2^k * y) \div 2 = 2^(k - 1) * y
         /\ 2^(k - 1) * y \in Nat
<1> DEFINE c == 2^(k - 1)
<1>1. k - 1 \in 0..(Bits256 - 1) /\ (k - 1) + 1 = k
  BY Widths
<1>2. c \in Nat /\ 2^k = 2 * c
  BY <1>1, PowersAssumption
<1> HIDE DEF c
<1>3. (2 * c) * y = 2 * (c * y) /\ c * y \in Nat /\ (2 * c) \div 2 = c
  BY <1>2, ProductNat
<1> DEFINE z == c * y
<1>4. (2 * z) \div 2 = z
  <2>1. z \in Nat
    BY <1>3
  <2> HIDE DEF z
  <2> QED BY <2>1
<1>5. (2^k * y) \div 2 = c * y
  BY <1>2, <1>3, <1>4
<1> QED BY <1>2, <1>3, <1>5 DEF c

\* After divisor and weight have been aligned.
LEMMA AlignNumeric ==
  ASSUME NEW m \in uint256, NEW n \in uint256, ~gt256(n, m)
  PROVE  /\ diff_bits(m, n) \in 0..Bits256
         /\ div_align(m, n, diff_bits(m, n)) \in DivState
         /\ Val(n) # 0 =>
              \A D \in {diff_bits(m, n)}, e \in {div_align(m, n, diff_bits(m, n))} :
                  /\ D \in 0..(Bits256 - 1)
                  /\ e.resDiv = Zero256 /\ e.resMod = m
                  /\ Val(e.copyd) = 2^D * Val(n) /\ Val(e.adder) = 2^D
                  /\ Val(m) < 2 * (2^D * Val(n))
                  /\ 2^D * Val(n) > Val(m) => D >= 1 /\ 2^(D - 1) * Val(n) <= Val(m)
<1> DEFINE x == Val(m)  y == Val(n)  bx == bits256(m)  by == bits256(n)  D == bx - by
           e == div_align(m, n, D)
<1>0. diff_bits(m, n) = D
  BY DEF diff_bits
<1>1. x \in Nat /\ y \in Nat /\ y <= x /\ BitLength(x, bx) /\ BitLength(y, by)
  BY OrderOfWords, BitsNumeric
<1> HIDE DEF x, y, bx, by
<1>2. D \in 0..Bits256 /\ D \in Nat
  BY <1>1, LengthMonotone, Widths
<1>3. /\ e.resDiv = Zero256 /\ e.resMod = m
      /\ e.copyd = shiftl256(n, D) /\ e.adder = shiftl256(One256, D)
  BY DEF div_align
<1>4. e \in DivState
  <2>1. shiftl256(n, D) \in uint256 /\ shiftl256(One256, D) \in uint256
    BY <1>2, ShiftLeft256, One256Value
  <2> HIDE DEF D
  <2> QED BY <2>1, Zero256Value DEF div_align, DivState
<1>5. ASSUME y # 0
      PROVE  /\ D \in 0..(Bits256 - 1)
             /\ Val(e.copyd) = 2^D * y /\ Val(e.adder) = 2^D
             /\ x < 2 * (2^D * y)
             /\ 2^D * y > x => D >= 1 /\ 2^(D - 1) * y <= x
  <2>1. /\ D \in 0..(Bits256 - 1)
        /\ y < 2^(Bits256 - D)
        /\ x < 2 * (2^D * y)
        /\ 2^D * y > x => D >= 1 /\ 2^(D - 1) * y <= x
    BY <1>1, <1>5, AlignedNumbers
  <2>2. ~(D >= Bits256) /\ Bits256 - D \in 0..Bits256 /\ Bits256 - D > 0
    BY <2>1, Widths
  <2>3. Val(shiftl256(n, D)) = (y % 2^(Bits256 - D)) * 2^D
    BY <1>2, <2>2, ShiftLeft256 DEF y
  <2>4. Val(shiftl256(One256, D)) = (1 % 2^(Bits256 - D)) * 2^D
    BY <1>2, <2>2, ShiftLeft256, One256Value
  <2>5. 2^(Bits256 - D) \in Nat \ {0} /\ 2^D \in Nat /\ 1 < 2^(Bits256 - D)
    <3>1. 2^(Bits256 - D) \in Nat \ {0} /\ 2^D \in Nat
      BY <1>2, <2>2, PowerType
    <3>2. 2 * 2^0 <= 2^(Bits256 - D) /\ 2^0 = 1
      <4>1. PICK z : z = 0
        OBVIOUS
      <4>2. z \in 0..Bits256 /\ z < Bits256 - D
        BY <2>2, <4>1, Widths
      <4>3. 2 * 2^z <= 2^(Bits256 - D)
        BY <2>2, <4>2, PowerMonotone
      <4> QED BY <4>1, <4>3
    <3> QED BY <3>1, <3>2
  <2> HIDE DEF D, e
  <2>6. y % 2^(Bits256 - D) = y /\ 1 % 2^(Bits256 - D) = 1
    <3> DEFINE M == 2^(Bits256 - D)
    <3>1. M \in Nat \ {0} /\ y \in 0..(M - 1) /\ 1 \in 0..(M - 1)
      BY <1>1, <2>1, <2>5
    <3> HIDE DEF M
    <3>2. y % M = y /\ 1 % M = 1
      BY <3>1, ModSmall
    <3> QED BY <3>2 DEF M
  <2>7. y * 2^D = 2^D * y /\ 1 * 2^D = 2^D
    BY <1>1, <2>5, ProductNat
  <2> QED BY <1>3, <2>1, <2>3, <2>4, <2>6, <2>7
<1> HIDE DEF D, e
<1>6. div_align(m, n, diff_bits(m, n)) = e
  BY <1>0 DEF e
<1> QED BY <1>0, <1>2, <1>3, <1>4, <1>5, <1>6 DEF x, y

-----------------------------------------------------------------------------
(* The loop of divmod256.                                                  *)

\* e divides x by y, the bit of weight 2^k of the quotient being next.
AtBit(e, x, y, k) ==
    /\ k \in 0..(Bits256 - 1)
    /\ Val(e.adder) = 2^k /\ Val(e.copyd) = 2^k * y
    /\ Val(e.resDiv) % 2^(k + 1) = 0
    /\ Val(e.resMod) < 2 * (2^k * y)

\* e divides x by y: there is a bit to decide, or the remainder is found.
Divides(e, x, y) ==
    /\ x = Val(e.resDiv) * y + Val(e.resMod)
    /\ \/ \E k : AtBit(e, x, y, k)
       \/ Val(e.adder) = 0 /\ Val(e.resMod) < y

LEMMA StateType ==
  ASSUME NEW e \in DivState
  PROVE  /\ e.resDiv \in uint256 /\ e.resMod \in uint256 /\ e.copyd \in uint256 /\ e.adder \in uint256
         /\ Val(e.resDiv) \in Nat /\ Val(e.resMod) \in Nat
         /\ Val(e.copyd) \in Nat /\ Val(e.adder) \in Nat
<1>1. /\ e.resDiv \in uint256 /\ e.resMod \in uint256 /\ e.copyd \in uint256 /\ e.adder \in uint256
  BY DEF DivState
<1> QED BY <1>1, ValType, ModulusType

LEMMA AdjustType == ASSUME NEW e \in DivState PROVE div_adjust(e) \in DivState
<1>1. shiftr256(e.copyd, 1) \in uint256 /\ shiftr256(e.adder, 1) \in uint256
  BY StateType, HalveNumeric
<1> QED BY <1>1 DEF div_adjust, DivState

LEMMA StepType == ASSUME NEW e \in DivState PROVE div_step(e) \in DivState
<1>1. /\ shiftr256(e.copyd, 1) \in uint256 /\ shiftr256(e.adder, 1) \in uint256
      /\ or256(e.resDiv, e.adder) \in uint256 /\ minus256(e.resMod, e.copyd) \in uint256
      /\ e.resDiv \in uint256 /\ e.resMod \in uint256
  BY StateType, HalveNumeric, Or256Type, Minus256
<1> QED BY <1>1 DEF div_step, DivState

\* After the adjustment in front of the loop the divisor is at the first bit
\* that the quotient can have.
LEMMA AdjustNumeric ==
  ASSUME NEW m \in uint256, NEW n \in uint256, ~gt256(n, m), Val(n) # 0
  PROVE  Divides(div_adjust(div_align(m, n, diff_bits(m, n))), Val(m), Val(n))
<1> DEFINE x == Val(m)  y == Val(n)  D == diff_bits(m, n)  e == div_align(m, n, D)  f == div_adjust(e)
<1>1. /\ e \in DivState /\ D \in 0..(Bits256 - 1)
      /\ e.resDiv = Zero256 /\ e.resMod = m
      /\ Val(e.copyd) = 2^D * y /\ Val(e.adder) = 2^D
      /\ x < 2 * (2^D * y)
      /\ 2^D * y > x => D >= 1 /\ 2^(D - 1) * y <= x
  BY AlignNumeric
<1>2. x \in Nat /\ y \in Nat /\ Val(m) = x
  BY OrderOfWords
<1>3. gt256(e.copyd, e.resMod) <=> Val(e.copyd) > Val(e.resMod)
  BY <1>1, StateType, OrderOfWords
<1>4. \A k : k \in 0..(Bits256 - 1) => 0 % 2^(k + 1) = 0 /\ 2^k \in Nat
  <2> TAKE k
  <2> HAVE k \in 0..(Bits256 - 1)
  <2>1. k + 1 \in 0..Bits256 /\ k \in 0..Bits256
    BY Widths
  <2>2. 2^(k + 1) \in Nat \ {0} /\ 2^k \in Nat
    BY <2>1, PowerType
  <2> DEFINE M == 2^(k + 1)
  <2>3. M \in Nat \ {0}
    BY <2>2
  <2> HIDE DEF M
  <2>4. 0 % M = 0
    BY <2>3
  <2> QED BY <2>2, <2>4 DEF M
<1>f. /\ f.resDiv = Zero256 /\ f.resMod = m
      /\ f.copyd = IF gt256(e.copyd, e.resMod) THEN shiftr256(e.copyd, 1) ELSE e.copyd
      /\ f.adder = IF gt256(e.copyd, e.resMod) THEN shiftr256(e.adder, 1) ELSE e.adder
  <2> HIDE DEF e
  <2> QED BY <1>1 DEF div_adjust, DivState
<1>h. /\ Val(shiftr256(e.copyd, 1)) = Val(e.copyd) \div 2
      /\ Val(shiftr256(e.adder, 1)) = Val(e.adder) \div 2
  BY <1>1, StateType, HalveNumeric
<1> HIDE DEF x, y, D, e, f
<1>5. x = Val(f.resDiv) * y + Val(f.resMod)
  <2>1. x = 0 * y + x
    BY <1>2
  <2> QED BY <1>2, <1>f, <2>1, Zero256Value
<1>6. CASE Val(e.copyd) > Val(e.resMod)
  <2>1. D >= 1 /\ 2^(D - 1) * y <= x
    BY <1>1, <1>2, <1>6
  <2>2. D \in 1..Bits256 /\ D - 1 \in 0..(Bits256 - 1)
    BY <1>1, <2>1, Widths
  <2>3. /\ 2^D \div 2 = 2^(D - 1) /\ 2^D * y = 2 * (2^(D - 1) * y)
        /\ (2^D * y) \div 2 = 2^(D - 1) * y
    BY <1>2, <2>2, HalfMultiple
  <2>4. Val(f.copyd) = 2^(D - 1) * y /\ Val(f.adder) = 2^(D - 1)
    BY <1>1, <1>3, <1>6, <1>f, <1>h, <2>3
  <2>5. x < 2 * (2^(D - 1) * y)
    BY <1>1, <1>2, <1>6, <2>3
  <2>6. Val(f.resDiv) % 2^((D - 1) + 1) = 0
    BY <1>4, <1>f, <2>2, Zero256Value
  <2>7. AtBit(f, x, y, D - 1)
    BY <1>2, <1>f, <2>2, <2>4, <2>5, <2>6 DEF AtBit
  <2> QED BY <1>5, <2>7 DEF Divides, x, y, f, e, D
<1>7. CASE ~(Val(e.copyd) > Val(e.resMod))
  <2>1. Val(f.copyd) = 2^D * y /\ Val(f.adder) = 2^D
    BY <1>1, <1>3, <1>7, <1>f
  <2>2. Val(f.resDiv) % 2^(D + 1) = 0
    BY <1>1, <1>4, <1>f, Zero256Value
  <2>3. AtBit(f, x, y, D)
    BY <1>1, <1>2, <1>f, <2>1, <2>2 DEF AtBit
  <2> QED BY <1>5, <2>3 DEF Divides, x, y, f, e, D
<1> QED BY <1>6, <1>7

\* One turn at bit k, on the numbers.
LEMMA StepNumeric ==
  ASSUME NEW e \in DivState, NEW x \in Nat, NEW y \in Nat \ {0}, NEW k,
         x = Val(e.resDiv) * y + Val(e.resMod), AtBit(e, x, y, k)
  PROVE  \A f \in {div_step(e)} :
           /\ IF Val(e.resMod) >= Val(e.adder) * y
              THEN /\ Val(f.resMod) = Val(e.resMod) - Val(e.adder) * y
                   /\ Val(f.resDiv) = Val(e.resDiv) + Val(e.adder)
              ELSE Val(f.resMod) = Val(e.resMod) /\ Val(f.resDiv) = Val(e.resDiv)
           /\ Val(e.adder) = 2 * Val(f.adder) \/ (Val(e.adder) = 1 /\ Val(f.adder) = 0)
           /\ Divides(f, x, y)
<1> DEFINE f == div_step(e)  P == 2^k  C == P * y
           Q == Val(e.resDiv)  M == Val(e.resMod)  fits == gte256(e.resMod, e.copyd)
<1>k. k \in 0..(Bits256 - 1) /\ k \in 0..Bits256 /\ k + 1 \in 0..Bits256 /\ k \in Nat
  BY Widths DEF AtBit
<1>1. /\ Val(e.adder) = P /\ Val(e.copyd) = C /\ M < 2 * C /\ Q % 2^(k + 1) = 0
      /\ x = Q * y + M
  BY DEF AtBit
<1>2. Q \in Nat /\ M \in Nat /\ P \in Nat /\ C \in Nat /\ 2^(k + 1) = 2 * P /\ P # 0
  <2>1. P \in Nat \ {0} /\ 2^(k + 1) = 2 * P
    BY <1>k, PowersAssumption
  <2> HIDE DEF P
  <2> QED BY <2>1, StateType, ProductNat
<1>3. fits <=> M >= C
  BY <1>1, StateType, OrderOfWords
<1>f. /\ f.resDiv = IF fits THEN or256(e.resDiv, e.adder) ELSE e.resDiv
      /\ f.resMod = IF fits THEN minus256(e.resMod, e.copyd) ELSE e.resMod
      /\ f.copyd = shiftr256(e.copyd, 1) /\ f.adder = shiftr256(e.adder, 1)
  BY DEF div_step
<1>h. Val(f.copyd) = C \div 2 /\ Val(f.adder) = P \div 2
  BY <1>1, <1>f, StateType, HalveNumeric
<1>q. fits => Val(f.resDiv) = Q + P
  <2>1. Val(e.adder) < 2^(k + 1)
    BY <1>1, <1>2
  <2>2. Val(or256(e.resDiv, e.adder)) = Q + Val(e.adder)
    BY <1>k, <1>1, <2>1, StateType, OrDisjoint256
  <2> QED BY <1>1, <1>f, <2>2
<1>m. fits => Val(f.resMod) = M - C
  <2>1. HAVE fits
  <2>2. Val(minus256(e.resMod, e.copyd)) = (M - C) % Modulus
    BY <1>1, StateType, Minus256
  <2>3. M \in 0..(Modulus - 1) /\ Modulus \in Nat \ {0}
    BY StateType, ValType, ModulusType
  <2> HIDE DEF M, C, f
  <2>4. M - C \in 0..(Modulus - 1)
    BY <1>2, <1>3, <2>1, <2>3
  <2>5. (M - C) % Modulus = M - C
    BY <2>3, <2>4, ModSmall
  <2> QED BY <1>f, <2>1, <2>2, <2>5
<1>n. ~fits => Val(f.resDiv) = Q /\ Val(f.resMod) = M
  BY <1>f
<1>c. Val(e.adder) * y = C
  BY <1>1
<1>C. C = P * y
  OBVIOUS
<1>M. Q % (2 * P) = 0
  BY <1>1, <1>2
<1>w. k # 0 => AtBit(f, x, y, k - 1) \/ ~(/\ Val(f.resDiv) % 2^((k - 1) + 1) = 0
                                           /\ Val(f.resMod) < 2 * (2^(k - 1) * y))
  <2> SUFFICES ASSUME k # 0, Val(f.resDiv) % 2^((k - 1) + 1) = 0, Val(f.resMod) < 2 * (2^(k - 1) * y)
               PROVE  AtBit(f, x, y, k - 1)
    OBVIOUS
  <2>1. k \in 1..Bits256 /\ k - 1 \in 0..(Bits256 - 1)
    BY <1>k, Widths
  <2>2. P \div 2 = 2^(k - 1) /\ C \div 2 = 2^(k - 1) * y
    BY <2>1, HalfMultiple
  <2> HIDE DEF f, P, C
  <2> QED BY <1>h, <2>1, <2>2 DEF AtBit
<1>p. k # 0 => /\ P = 2 * (P \div 2) /\ 2^((k - 1) + 1) = P /\ 2 * (2^(k - 1) * y) = C
  <2> HAVE k # 0
  <2>1. k \in 1..Bits256 /\ (k - 1) + 1 = k
    BY <1>k, Widths
  <2> QED BY <2>1, HalfMultiple
<1>o. k = 0 => P = 1
  OBVIOUS
<1> HIDE DEF f, P, C, Q, M, fits
\* The dividend is still made up of what has been taken off and what is left.
<1>4. x = Val(f.resDiv) * y + Val(f.resMod)
  <2>1. CASE fits
    <3>1. (Q + P) * y = Q * y + C
      BY <1>2, <1>C
    <3>2. Q * y \in Nat
      BY <1>2, ProductNat
    <3> QED BY <1>1, <1>2, <1>q, <1>m, <2>1, <3>1, <3>2
  <2> QED BY <1>1, <1>n, <2>1
\* The remainder is below the divisor at the old weight.
<1>5. Val(f.resMod) < C
  BY <1>1, <1>2, <1>3, <1>m, <1>n
\* The quotient is a multiple of the old weight.
<1>6. Val(f.resDiv) % P = 0
  <2> DEFINE c == Q \div (2 * P)
  <2>1. 2 * P \in Nat \ {0}
    BY <1>2
  <2>2. c \in Nat /\ Q = c * (2 * P) + 0
    BY <1>2, <1>M, <2>1, QuotientFacts
  <2> HIDE DEF c
  <2>3. c * (2 * P) = (2 * c) * P
    BY <1>2, <2>2
  <2>4. Q = (2 * c) * P + 0 /\ Q + P = (2 * c + 1) * P + 0
    BY <1>2, <2>2, <2>3
  <2>5. 2 * c \in Nat /\ 2 * c + 1 \in Nat /\ Q + P \in Nat /\ P \in Nat \ {0} /\ 0 \in 0..(P - 1)
    BY <1>2, <2>2
  <2>6. Q % P = 0 /\ (Q + P) % P = 0
    BY <1>2, <2>4, <2>5, QuotientUnique
  <2> QED BY <1>q, <1>n, <2>6
<1>7. Divides(f, x, y)
  <2>1. CASE k # 0
    <3>1. AtBit(f, x, y, k - 1)
      BY <1>w, <1>p, <1>5, <1>6, <2>1
    <3> QED BY <1>4, <3>1 DEF Divides
  <2>2. CASE k = 0
    <3>1. P = 1 /\ C = y /\ Val(f.adder) = 0
      BY <1>h, <1>o, <1>C, <2>2
    <3> QED BY <1>4, <1>5, <3>1 DEF Divides
  <2> QED BY <2>1, <2>2
<1>8. Val(e.adder) = 2 * Val(f.adder) \/ (Val(e.adder) = 1 /\ Val(f.adder) = 0)
  <2>1. CASE k # 0
    BY <1>1, <1>h, <1>p, <2>1
  <2>2. CASE k = 0
    BY <1>1, <1>h, <1>o, <2>2
  <2> QED BY <2>1, <2>2
<1>9. IF M >= C THEN Val(f.resMod) = M - C /\ Val(f.resDiv) = Q + P
                ELSE Val(f.resMod) = M /\ Val(f.resDiv) = Q
  BY <1>3, <1>q, <1>m, <1>n
<1>10. IF Val(e.resMod) >= Val(e.adder) * y
       THEN /\ Val(f.resMod) = Val(e.resMod) - Val(e.adder) * y
            /\ Val(f.resDiv) = Val(e.resDiv) + Val(e.adder)
       ELSE Val(f.resMod) = Val(e.resMod) /\ Val(f.resDiv) = Val(e.resDiv)
  BY <1>1, <1>9, <1>c, Zenon DEF M, Q
<1> QED BY <1>7, <1>8, <1>10 DEF f

-----------------------------------------------------------------------------
(* divmod256 as a function of its operands.                                *)

\* Where the loop of divmod256 is: its variables and the divisor.
DivPlaces == DivState \X (uint256 \ {Zero256})

\* The loop of divmod256 is left with the variables of its last turn.
LEMMA DivLoop ==
  ASSUME NEW e \in DivState, NEW n \in uint256, n # Zero256
  PROVE  div_loop[<< e, n >>] = IF div_more(e, n) THEN div_loop[<< div_step(e), n >>] ELSE e
<1> DEFINE E(f) == f = [p \in DivPlaces |-> IF div_more(p[1], p[2]) THEN f[<< div_step(p[1]), p[2] >>]
                                            ELSE p[1]]
           more == {p \in DivPlaces : div_more(p[1], p[2])}
           succ == [p \in DivPlaces |-> << div_step(p[1]), p[2] >>]
           out == [p \in DivPlaces |-> p[1]]
<1>1. \A p \in DivPlaces : p[1] \in DivState /\ p[2] \in uint256 \ {Zero256}
  BY DEF DivPlaces
<1>2. succ \in [DivPlaces -> DivPlaces] /\ out \in [DivPlaces -> DivState]
  <2>1. \A p \in DivPlaces : << div_step(p[1]), p[2] >> \in DivPlaces
    BY <1>1, StepType DEF DivPlaces
  <2> QED BY <1>1, <2>1
<1>3. PICK f : Loops(f, DivPlaces, more, succ, out)
  <2> HIDE DEF more, succ, out
  <2> QED BY <1>2, LoopExists
<1>4. E(f)
  <2>1. f = [p \in DivPlaces |-> IF p \in more THEN f[succ[p]] ELSE out[p]]
    BY <1>3 DEF Loops
  <2>2. \A p \in DivPlaces : (p \in more <=> div_more(p[1], p[2]))
           /\ succ[p] = << div_step(p[1]), p[2] >> /\ out[p] = p[1]
    OBVIOUS
  <2> HIDE DEF more, succ, out
  <2> QED BY <2>1, <2>2
<1>5. E(div_loop)
  <2>1. div_loop = CHOOSE g : E(g)
    BY Zenon DEF div_loop, DivPlaces
  <2> HIDE DEF E
  <2> QED BY <1>4, <2>1, Zenon
<1>6. << e, n >> \in DivPlaces
  BY DEF DivPlaces
<1> QED BY <1>5, <1>6

\* The quotient and the remainder that a division leaves.
Quotients(e, x, y) == /\ e \in DivState /\ x = Val(e.resDiv) * y + Val(e.resMod)
                      /\ Val(e.resMod) < y

\* From a state that divides x by y the loop comes to the quotient: the weight
\* falls with each turn.
LEMMA DivLoopDivides ==
  ASSUME NEW n \in uint256, n # Zero256, NEW x \in Nat, NEW e \in DivState, Divides(e, x, Val(n))
  PROVE  Quotients(div_loop[<< e, n >>], x, Val(n))
<1> DEFINE y == Val(n)
           Wrong(g) == Divides(g, x, y) /\ ~Quotients(div_loop[<< g, n >>], x, y)
           T == {w \in Nat : \E g \in DivState : w = Val(g.adder) /\ Wrong(g)}
<1>0. y \in Nat \ {0}
  <2>1. ~zero256(n)
    BY Pair128, Pair256 DEF zero256, zero128, Zero256, Zero128, uint256, uint128, UPPER, LOWER
  <2> QED BY <2>1, Zero256Test, OrderOfWords
<1> HIDE DEF y
<1>1. SUFFICES ASSUME Wrong(e) PROVE FALSE
  BY DEF y
<1>2. T # {}
  BY <1>1, StateType
<1>3. PICK w \in T : \A z \in T : w <= z
  <2>1. T \subseteq Nat
    OBVIOUS
  <2> HIDE DEF T
  <2> QED BY <1>2, <2>1, LeastElement
<1>4. PICK g \in DivState : w = Val(g.adder) /\ Wrong(g)
  BY <1>3
<1>5. Divides(g, x, y) /\ ~Quotients(div_loop[<< g, n >>], x, y)
  BY <1>4
<1>6. div_loop[<< g, n >>] = IF div_more(g, n) THEN div_loop[<< div_step(g), n >>] ELSE g
  BY DivLoop
<1>7. (div_more(g, n) <=> Val(g.resMod) >= y) /\ Val(g.resMod) \in Nat /\ Val(g.adder) \in Nat
  BY StateType, OrderOfWords DEF div_more, y
<1>8. CASE ~div_more(g, n)
  BY <1>0, <1>5, <1>6, <1>7, <1>8 DEF Quotients, Divides
<1>9. CASE div_more(g, n)
  <2> DEFINE h == div_step(g)
  <2>1. x = Val(g.resDiv) * y + Val(g.resMod) /\ \E k : AtBit(g, x, y, k)
    BY <1>0, <1>5, <1>7, <1>9 DEF Divides
  <2>2. PICK k : AtBit(g, x, y, k)
    BY <2>1
  <2>3. /\ Val(g.adder) = 2 * Val(h.adder) \/ (Val(g.adder) = 1 /\ Val(h.adder) = 0)
        /\ Divides(h, x, y)
    BY <1>0, <2>1, <2>2, StepNumeric
  <2>4. h \in DivState
    BY StepType
  <2>5. Val(g.adder) # 0
    <3>1. k \in 0..Bits256 /\ Val(g.adder) = 2^k
      BY <2>2, Widths DEF AtBit
    <3> QED BY <3>1, PowerType
  <2> HIDE DEF h
  <2>6. Val(h.adder) \in Nat /\ Val(h.adder) < w
    BY <1>4, <1>7, <2>3, <2>4, <2>5, StateType
  <2>7. Wrong(h)
    BY <1>5, <1>6, <1>9, <2>3 DEF h
  <2>8. Val(h.adder) \in T
    BY <2>4, <2>6, <2>7
  <2>9. w \in Nat
    BY <1>4, <1>7
  <2> DEFINE z == Val(h.adder)
  <2>10. z \in T /\ z \in Nat /\ z < w
    BY <2>6, <2>8
  <2> HIDE DEF z, T
  <2>11. w <= z
    BY <1>3, <2>10
  <2> QED BY <2>9, <2>10, <2>11
<1> QED BY <1>8, <1>9

\* divmod256 returns the quotient and the remainder.
LEMMA DivMod ==
  ASSUME NEW m \in uint256, NEW n \in uint256, ~zero256(n)
  PROVE  \A qr \in {divmod256(m, n)} : /\ qr \in uint256 \X uint256
                                       /\ Val(qr[1]) = Val(m) \div Val(n)
                                       /\ Val(qr[2]) = Val(m) % Val(n)
<1> DEFINE x == Val(m)  y == Val(n)
<1>0. x \in Nat /\ y \in Nat \ {0} /\ n # Zero256 /\ (gt256(n, m) <=> y > x)
  <2>1. n # Zero256
    BY Zero256Test, Zero256Value
  <2> QED BY <2>1, Zero256Test, OrderOfWords
<1>1. CASE gt256(n, m)
  <2>1. divmod256(m, n) = << Zero256, m >>
    BY <1>1 DEF divmod256
  <2>2. x = 0 * y + x /\ x \in 0..(y - 1) /\ 0 \in Nat
    BY <1>0, <1>1
  <2>3. x \div y = 0 /\ x % y = x
    <3> HIDE DEF x, y
    <3> QED BY <1>0, <2>2, QuotientUnique
  <2> QED BY <2>1, <2>3, Zero256Value
<1>2. CASE ~gt256(n, m)
  <2> DEFINE e == div_adjust(div_align(m, n, diff_bits(m, n)))
             f == div_loop[<< e, n >>]
  <2>1. divmod256(m, n) = << f.resDiv, f.resMod >>
    BY <1>2 DEF divmod256
  <2>2. e \in DivState /\ Divides(e, x, y)
    <3>1. div_align(m, n, diff_bits(m, n)) \in DivState
      BY <1>2, AlignNumeric
    <3> QED BY <1>0, <1>2, <3>1, AdjustType, AdjustNumeric
  <2> HIDE DEF e
  <2>3. Quotients(f, x, y)
    BY <1>0, <2>2, DivLoopDivides
  <2> HIDE DEF f
  <2>4. f.resDiv \in uint256 /\ f.resMod \in uint256 /\ x = Val(f.resDiv) * y + Val(f.resMod)
        /\ Val(f.resDiv) \in Nat /\ Val(f.resMod) \in 0..(y - 1)
    BY <1>0, <2>3, StateType DEF Quotients
  <2>5. Val(f.resDiv) = x \div y /\ Val(f.resMod) = x % y
    <3> HIDE DEF x, y
    <3> QED BY <1>0, <2>4, QuotientUnique
  <2>6. \A qr \in {<< f.resDiv, f.resMod >>} : qr[1] = f.resDiv /\ qr[2] = f.resMod
    OBVIOUS
  <2>7. << f.resDiv, f.resMod >> \in uint256 \X uint256
    BY <2>4
  <2> HIDE DEF x, y
  <2> QED BY <2>1, <2>5, <2>6, <2>7 DEF x, y
<1> QED BY <1>1, <1>2

-----------------------------------------------------------------------------
(* What the instructions of the machine need beside: the bits of a limb    *)
(* written by the bitwise operators, the low byte of a word, complements,  *)
(* products with zero, and a left shift as a multiplication.               *)

\* LimbOf sets the bits it is told to, and no others.
LEMMA OnesOfLimb ==
  ASSUME NEW I \in SUBSET (0..(LimbBits - 1))
  PROVE  Ones(LimbOf(I)) = I
<1>1. PICK f : /\ LimbOf(I) = f[LimbBits] /\ f[0] = 0
               /\ \A i \in 0..(LimbBits - 1) : f[i + 1] = f[i] + (IF i \in I THEN 2^i ELSE 0)
  BY LimbSums
<1> DEFINE x == LimbOf(I)
           T == {i \in 0..LimbBits : f[i] \in 0..(2^i - 1)}
           S == {k \in 0..LimbBits : x % 2^(LimbBits - k) = f[LimbBits - k]}
<1>2. x \in uint64 /\ x \in Nat /\ x \in 0..(2^LimbBits - 1) /\ LimbBits \in Nat \ {0}
  BY LimbOfType, BaseFacts, BasePowers, Widths DEF uint64
<1>3. 0..LimbBits \subseteq T
  <2>1. 0 \in T
    <3>1. 2^0 = 1 /\ 0 \in 0..LimbBits /\ 0 \in 0..(1 - 1)
      BY Widths
    <3> QED BY <1>1, <3>1
  <2>2. ASSUME NEW i \in 0..(LimbBits - 1), i \in T PROVE i + 1 \in T
    <3>1. i \in 0..(Bits256 - 1) /\ i + 1 \in 0..LimbBits
      BY Widths
    <3>2. 2^i \in Nat \ {0} /\ 2^(i + 1) = 2 * 2^i
      BY <3>1, PowersAssumption
    <3> DEFINE p == 2^i  y == f[i]  z == f[i + 1]
    <3>3. p \in Nat \ {0} /\ 2^(i + 1) = 2 * p /\ y \in 0..(p - 1) /\ z = y + (IF i \in I THEN p ELSE 0)
      BY <1>1, <2>2, <3>2
    <3> HIDE DEF p, y, z
    <3>4. z \in 0..(2 * p - 1)
      BY <3>3
    <3> QED BY <3>1, <3>3, <3>4 DEF z
  <2> HIDE DEF T
  <2> QED BY Widths, <2>1, <2>2, InductionUpTo
<1>4. ASSUME NEW j \in 0..(LimbBits - 1), x % 2^(j + 1) = f[j + 1]
      PROVE  x % 2^j = f[j] /\ (BitOf(x, j) = 1 <=> j \in I)
  <2>1. j \in 0..(Bits256 - 1) /\ j \in 0..LimbBits
    BY Widths
  <2> DEFINE p == 2^j  bx == BitOf(x, j)  bi == IF j \in I THEN 1 ELSE 0  s == x % 2^j  y == f[j]
  <2>2. p \in Nat \ {0} /\ bx \in {0, 1} /\ s \in 0..(p - 1) /\ x % 2^(j + 1) = s + bx * p
    BY <1>2, <2>1, BitStep, PowersAssumption, QuotientFacts
  <2>3. y \in 0..(p - 1) /\ f[j + 1] = y + bi * p /\ bi \in {0, 1}
    <3>1. y \in 0..(p - 1)
      BY <1>3, <2>1
    <3>2. f[j + 1] = y + (IF j \in I THEN p ELSE 0)
      BY <1>1
    <3>3. (IF j \in I THEN p ELSE 0) = bi * p
      BY <2>2
    <3> QED BY <3>1, <3>2, <3>3
  <2>4. bi = 1 <=> j \in I
    OBVIOUS
  <2> HIDE DEF p, bx, bi, s, y
  <2>5. s + bx * p = y + bi * p
    BY <1>4, <2>2, <2>3
  <2>6. s = y /\ bx = bi
    BY <2>2, <2>3, <2>5
  <2> QED BY <2>4, <2>6 DEF bx, s, y
<1>5. 0..LimbBits \subseteq S
  <2>1. 0 \in S
    <3>1. LimbBits - 0 = LimbBits /\ 0 \in 0..LimbBits /\ 2^LimbBits \in Nat \ {0}
      BY <1>2, BasePowers, BaseFacts
    <3>2. x % 2^LimbBits = x
      BY <1>2, <3>1, ModSmall
    <3> QED BY <1>1, <3>1, <3>2
  <2>2. ASSUME NEW k \in 0..(LimbBits - 1), k \in S PROVE k + 1 \in S
    <3> DEFINE j == LimbBits - (k + 1)
    <3>1. j \in 0..(LimbBits - 1) /\ j + 1 = LimbBits - k /\ k + 1 \in 0..LimbBits
      BY <1>2
    <3>2. x % 2^(j + 1) = f[j + 1]
      BY <2>2, <3>1
    <3>3. x % 2^j = f[j]
      <4> HIDE DEF j, x
      <4> QED BY <1>4, <3>1, <3>2
    <3> QED BY <3>1, <3>3
  <2> HIDE DEF S
  <2> QED BY <1>2, <2>1, <2>2, InductionUpTo
<1>6. ASSUME NEW j \in 0..(LimbBits - 1) PROVE BitOf(x, j) = 1 <=> j \in I
  <2> DEFINE k == LimbBits - (j + 1)
  <2>1. k \in 0..LimbBits /\ LimbBits - k = j + 1
    BY <1>2
  <2>2. x % 2^(j + 1) = f[j + 1]
    <3>1. k \in S
      BY <1>5, <2>1
    <3> QED BY <2>1, <3>1
  <2> HIDE DEF x
  <2> QED BY <1>4, <2>2
<1> HIDE DEF x
<1> QED BY <1>6 DEF Ones, x

\* The bits of a limb.
LEMMA OnesType == ASSUME NEW x PROVE Ones(x) \in SUBSET (0..(LimbBits - 1))
BY DEF Ones

\* The bitwise operators on limbs combine their operands bit by bit.
LEMMA BitwiseLimbs ==
  ASSUME NEW x, NEW y
  PROVE  /\ Ones(and64(x, y)) = Ones(x) \cap Ones(y) /\ and64(x, y) \in uint64
         /\ Ones(or64(x, y)) = Ones(x) \cup Ones(y) /\ or64(x, y) \in uint64
         /\ Ones(xor64(x, y)) = (Ones(x) \ Ones(y)) \cup (Ones(y) \ Ones(x))
         /\ xor64(x, y) \in uint64
<1>1. /\ Ones(x) \cap Ones(y) \in SUBSET (0..(LimbBits - 1))
      /\ Ones(x) \cup Ones(y) \in SUBSET (0..(LimbBits - 1))
      /\ (Ones(x) \ Ones(y)) \cup (Ones(y) \ Ones(x)) \in SUBSET (0..(LimbBits - 1))
  BY OnesType
<1> QED BY <1>1, OnesOfLimb, LimbOfType DEF and64, or64, xor64

\* The limb whose bits are the j low bits of x is x modulo 2^j.
LEMMA LowBitsOfLimb ==
  ASSUME NEW x \in Nat, NEW j \in 0..LimbBits
  PROVE  LimbOf(Ones(x) \cap 0..(j - 1)) = x % 2^j
<1> DEFINE I == Ones(x) \cap 0..(j - 1)
<1>1. PICK f : /\ LimbOf(I) = f[LimbBits] /\ f[0] = 0
               /\ \A i \in 0..(LimbBits - 1) : f[i + 1] = f[i] + (IF i \in I THEN 2^i ELSE 0)
  <2> HIDE DEF I
  <2> QED BY LimbSums
<1> DEFINE S == {i \in 0..LimbBits : f[i] = x % 2^(IF i <= j THEN i ELSE j)}
<1>2. LimbBits \in Nat \ {0} /\ j \in Nat /\ j <= LimbBits
  BY Widths
<1>3. 0 \in S
  <2>1. 2^0 = 1 /\ 0 \in 0..LimbBits /\ 0 <= j /\ x % 1 = 0
    BY <1>2
  <2> QED BY <1>1, <2>1
<1>4. ASSUME NEW i \in 0..(LimbBits - 1), i \in S PROVE i + 1 \in S
  <2>1. i \in 0..(Bits256 - 1) /\ i + 1 \in 0..LimbBits
    BY Widths
  <2>2. f[i + 1] = f[i] + (IF i \in I THEN 2^i ELSE 0)
    BY <1>1
  <2>3. CASE i < j
    <3> DEFINE p == 2^i  bx == BitOf(x, i)  s == x % 2^i
    <3>1. bx \in {0, 1} /\ s \in Nat /\ p \in Nat /\ x % 2^(i + 1) = s + bx * p
      BY <2>1, BitStep, PowersAssumption
    <3>2. i \in I <=> bx = 1
      BY <1>2, <2>3 DEF Ones
    <3>3. f[i] = s /\ i <= j /\ i + 1 <= j
      BY <1>2, <1>4, <2>3
    <3> HIDE DEF p, bx, s, I
    <3>4. (IF i \in I THEN p ELSE 0) = bx * p
      BY <3>1, <3>2
    <3>5. f[i + 1] = x % 2^(i + 1)
      BY <2>2, <3>1, <3>3, <3>4 DEF p
    <3> QED BY <2>1, <3>3, <3>5
  <2>4. CASE ~(i < j)
    <3>1. i \notin I /\ ~(i + 1 <= j)
      BY <1>2, <2>4
    <3>2. f[i] = x % 2^j
      <4>1. i = j \/ ~(i <= j)
        BY <1>2, <2>4
      <4> QED BY <1>4, <4>1
    <3>3. x % 2^j \in Nat
      <4>1. 2^j \in Nat \ {0}
        BY Widths, PowerType
      <4> QED BY <4>1, QuotientFacts
    <3>4. f[i + 1] = x % 2^j
      <4> HIDE DEF I
      <4> QED BY <2>2, <3>1, <3>2, <3>3
    <3> QED BY <2>1, <3>1, <3>4
  <2> QED BY <2>3, <2>4
<1>5. 0..LimbBits \subseteq S
  <2> HIDE DEF S
  <2> QED BY <1>2, <1>3, <1>4, InductionUpTo
<1>6. f[LimbBits] = x % 2^j
  <2>1. LimbBits \in S
    BY <1>2, <1>5
  <2>2. LimbBits <= j => LimbBits = j
    BY <1>2
  <2> QED BY <2>1, <2>2
<1> QED BY <1>1, <1>6

\* The ones of 0 and of 255.
LEMMA OnesOfMasks ==
  ASSUME LimbBits >= 8
  PROVE  Ones(0) = {} /\ Ones(255) = 0..7
<1>1. ASSUME NEW i \in 0..(LimbBits - 1) PROVE BitOf(0, i) = 0
  <2>1. 2^0 = 1 /\ 0 < 1 /\ i \in 0..Bits256 /\ 0 \in 0..Bits256
    BY Widths
  <2> QED BY <2>1, HighBitsZero
<1>2. ASSUME NEW i \in 8..(LimbBits - 1) PROVE BitOf(255, i) = 0
  <2> DEFINE e == 8
  <2>1. 2^e = 256 /\ i \in e..Bits256 /\ e \in 0..Bits256
    BY Widths
  <2> HIDE DEF e
  <2>2. 255 < 2^e
    BY <2>1
  <2> QED BY <2>1, <2>2, HighBitsZero
<1>3. ASSUME NEW i \in 0..7 PROVE BitOf(255, i) = 1
  <2>1. /\ BitOf(255, 0) = 1 /\ BitOf(255, 1) = 1 /\ BitOf(255, 2) = 1 /\ BitOf(255, 3) = 1
        /\ BitOf(255, 4) = 1 /\ BitOf(255, 5) = 1 /\ BitOf(255, 6) = 1 /\ BitOf(255, 7) = 1
    BY DEF BitOf
  <2>2. i = 0 \/ i = 1 \/ i = 2 \/ i = 3 \/ i = 4 \/ i = 5 \/ i = 6 \/ i = 7
    OBVIOUS
  <2> QED BY <2>1, <2>2
<1>4. \A i \in 0..(LimbBits - 1) : (i \in 0..7 \/ i \in 8..(LimbBits - 1)) /\ ~(i \in 0..7 /\ i \in 8..(LimbBits - 1))
  BY Widths
<1>5. 0..7 \subseteq 0..(LimbBits - 1)
  BY Widths
<1> QED BY <1>1, <1>2, <1>3, <1>4, <1>5 DEF Ones

\* and256 with 255 is the low byte of the number.
LEMMA LowByte ==
  ASSUME NEW n \in uint256, LimbBits >= 8
  PROVE  /\ and256(n, << Zero128, << 0, 255 >> >>) \in uint256
         /\ Val(and256(n, << Zero128, << 0, 255 >> >>)) = Val(n) % 256
<1> DEFINE x == LOWER(LOWER(n))  w == LOWER(n)
<1>1. w \in uint128 /\ UPPER(n) \in uint128 /\ x \in 0..(Base - 1) /\ UPPER(w) \in 0..(Base - 1)
      /\ x \in Nat /\ Base \in Nat \ {0} /\ HalfModulus \in Nat \ {0}
  BY Pair256, Pair128, BaseFacts
<1>2. ASSUME NEW y PROVE and64(y, 0) = 0
  <2>1. Ones(y) \cap Ones(0) = Ones(0) \cap 0..(0 - 1)
    BY OnesOfMasks
  <2>2. 0 \in 0..LimbBits /\ 0 \in Nat /\ 2^0 = 1 /\ 0 % 1 = 0
    BY Widths
  <2>3. LimbOf(Ones(0) \cap 0..(0 - 1)) = 0
    BY <2>2, LowBitsOfLimb
  <2> QED BY <2>1, <2>3 DEF and64
<1>3. and64(x, 255) = x % 256
  <2>1. Ones(x) \cap Ones(255) = Ones(x) \cap 0..(8 - 1)
    BY OnesOfMasks
  <2> DEFINE e == 8
  <2>2. e \in 0..LimbBits /\ 2^e = 256
    BY Widths
  <2>3. LimbOf(Ones(x) \cap 0..(e - 1)) = x % 256
    <3> HIDE DEF x, e
    <3> QED BY <1>1, <2>2, LowBitsOfLimb
  <2> QED BY <2>1, <2>3 DEF and64
<1>4. and256(n, << Zero128, << 0, 255 >> >>) = << Zero128, << 0, x % 256 >> >>
  BY <1>2, <1>3 DEF and256, and128, UPPER, LOWER, Zero128
<1>5. x % 256 \in 0..(Base - 1) /\ x % 256 \in Nat
  <2>1. x % 256 \in Nat /\ x % 256 <= x
    BY <1>1
  <2> QED BY <1>1, <2>1
<1>6. /\ << Zero128, << 0, x % 256 >> >> \in uint256
      /\ Val(<< Zero128, << 0, x % 256 >> >>) = x % 256
  <2> DEFINE y == x % 256
  <2>1. y \in uint64 /\ 0 \in uint64 /\ y \in Nat
    BY <1>1, <1>5 DEF uint64
  <2> HIDE DEF y
  <2>2. << 0, y >> \in uint128 /\ Val128(<< 0, y >>) = y
    BY <1>1, <2>1, Val128Pair DEF uint128
  <2>3. 0 * HalfModulus + y = y
    BY <1>1, <2>1
  <2> QED BY <2>2, <2>3, Make256, ValPair, Zero128Value DEF y
<1>7. Val(n) % 256 = x % 256
  <2>1. PICK c \in Nat : Base = c * 256
    <3> DEFINE e == 8
    <3>1. LimbBits - e \in Nat /\ LimbBits - e \in 0..Bits256 /\ e \in Nat /\ (LimbBits - e) + e = LimbBits
          /\ 2^e = 256 /\ e \in 0..Bits256 /\ (LimbBits - e) + e <= Bits256
      BY Widths
    <3> HIDE DEF e
    <3>2. 2^((LimbBits - e) + e) = 2^(LimbBits - e) * 2^e
      BY <3>1, PowerSum
    <3>3. 2^(LimbBits - e) \in Nat
      BY <3>1, PowerType
    <3> QED BY <3>1, <3>2, <3>3, BasePowers
  <2> DEFINE g == Val128(UPPER(n))  u == UPPER(w)
  <2>2. g \in Nat /\ u \in Nat /\ Val(n) = g * HalfModulus + (u * Base + x)
    BY <1>1, Val128Type DEF Val, Val128, HalfModulus
  <2>3. HalfModulus = Base * Base
    BY DEF HalfModulus
  <2> HIDE DEF g, u, x
  <2>4. Val(n) = x + (g * (c * Base) + u * c) * 256 /\ g * (c * Base) + u * c \in Nat
    <3>1. g * (Base * Base) = (g * (c * Base)) * 256
      BY <1>1, <2>1, <2>2
    <3>2. u * Base = (u * c) * 256
      BY <2>1, <2>2
    <3>3. g * (c * Base) \in Nat /\ u * c \in Nat
      BY <1>1, <2>1, <2>2, ProductNat
    <3> QED BY <1>1, <2>2, <2>3, <3>1, <3>2, <3>3
  <2> DEFINE k == g * (c * Base) + u * c
  <2>5. k \in Nat /\ Val(n) = x + k * 256
    BY <2>4
  <2> HIDE DEF k
  <2> QED BY <1>1, <2>5, ModMultiple
<1> QED BY <1>4, <1>6, <1>7

\* not256 is the complement.
LEMMA Not256 ==
  ASSUME NEW n \in uint256
  PROVE  not256(n) \in uint256 /\ Val(not256(n)) = Modulus - 1 - Val(n)
<1> DEFINE b3 == UPPER(UPPER(n))  b2 == LOWER(UPPER(n))  b1 == UPPER(LOWER(n))  b0 == LOWER(LOWER(n))
           B == Base
<1>1. b3 \in 0..(B - 1) /\ b2 \in 0..(B - 1) /\ b1 \in 0..(B - 1) /\ b0 \in 0..(B - 1) /\ B \in Nat \ {0}
  BY Pair256, Pair128, BaseFacts
<1>2. not256(n) = << << B - 1 - b3, B - 1 - b2 >>, << B - 1 - b1, B - 1 - b0 >> >>
  BY DEF not256, not128, not64, UPPER, LOWER
<1>3. Val(n) = (b3 * B + b2) * (B * B) + (b1 * B + b0)
  BY DEF Val, Val128
<1>4. Val(not256(n)) = ((B - 1 - b3) * B + (B - 1 - b2)) * (B * B) + ((B - 1 - b1) * B + (B - 1 - b0))
  BY <1>2 DEF Val, Val128, UPPER, LOWER
<1>5. Modulus = (B * B) * (B * B)
  BY DEF Modulus, HalfModulus
<1>6. \A z \in 0..(B - 1) : B - 1 - z \in uint64
  BY <1>1 DEF uint64
<1>7. not256(n) \in uint256
  BY <1>1, <1>2, <1>6 DEF uint256, uint128
<1> HIDE DEF B, b3, b2, b1, b0
<1>8. \A u, w \in 0..(B - 1) : (B - 1 - u) * B + (B - 1 - w) = B * B - 1 - (u * B + w)
  BY <1>1
<1> DEFINE h == B * B  g == b3 * B + b2  k == b1 * B + b0
<1>9. g \in Nat /\ k \in Nat /\ h \in Nat
  BY <1>1
<1>10. Val(not256(n)) = (h - 1 - g) * h + (h - 1 - k) /\ Val(n) = g * h + k /\ Modulus = h * h
  BY <1>1, <1>3, <1>4, <1>5, <1>8
<1> HIDE DEF h, g, k
<1>11. (h - 1 - g) * h + (h - 1 - k) = h * h - 1 - (g * h + k)
  BY <1>9
<1> QED BY <1>7, <1>10, <1>11

\* mul256 is a word, and zero for a zero operand.
LEMMA Mul256Type ==
  ASSUME NEW m \in uint256, NEW n \in uint256
  PROVE  /\ mul256(m, n) \in uint256
         /\ Val(n) = 0 => Val(mul256(m, n)) = 0
<1> DEFINE c == Columns256(m, n)  B == Base  h == HalfModulus
<1>1. PICK T0, T1, T2, T3 \in Nat, k \in Nat :
           /\ ColumnsHold(c, T0, T1, T2, T3)
           /\ Val(m) * Val(n) = T0 + T1 * B + T2 * (B * B) + T3 * (B * (B * B))
                                  + k * (B * (B * (B * B)))
  BY ColumnsNumeric
<1>2. mul256(m, n) = add_columns[c]
  BY DEF mul256
<1>m. Val(mul256(m, n)) = (Val(m) * Val(n)) % Modulus <=> UPPER(c[3]) = 0
  BY Mul256
<1> HIDE DEF c
<1>3. /\ c[1] \in uint128 /\ c[2] \in uint128 /\ c[3] \in uint128 /\ c[4] \in uint128 /\ c \in Seq(uint128)
      /\ Val128(c[3]) = T1 % h
  BY <1>1 DEF ColumnsHold
<1>4. mul256(m, n) \in uint256
  BY <1>2, <1>3, AddedColumns
<1>5. ASSUME Val(n) = 0 PROVE Val(mul256(m, n)) = 0
  <2>1. Val(m) \in Nat /\ B \in Nat \ {0, 1} /\ h \in Nat \ {0, 1} /\ Modulus \in Nat \ {0, 1}
    BY ValType, BaseFacts, ModulusType
  <2>2. Val(m) * Val(n) = 0
    BY <1>5, <2>1
  <2> HIDE DEF B, h
  <2> DEFINE t1 == T1 * B  t2 == T2 * (B * B)  t3 == T3 * (B * (B * B))  t4 == k * (B * (B * (B * B)))
  <2>3. t1 \in Nat /\ t2 \in Nat /\ t3 \in Nat /\ t4 \in Nat /\ T0 \in Nat
        /\ T0 + t1 + t2 + t3 + t4 = 0
    <3>1. B * B \in Nat /\ B * (B * B) \in Nat /\ B * (B * (B * B)) \in Nat
      BY <2>1, ProductNat
    <3>2. t1 \in Nat /\ t2 \in Nat /\ t3 \in Nat /\ t4 \in Nat
      BY <2>1, <3>1, ProductNat
    <3> QED BY <1>1, <2>2, <3>2
  <2>4. t1 = 0
    <3> HIDE DEF t1, t2, t3, t4
    <3> QED BY <2>3
  <2>5. T1 = 0
    <3>1. ASSUME T1 >= 1 PROVE FALSE
      <4>1. 1 * B <= T1 * B
        BY <2>1, <3>1, ProductMonotone
      <4> QED BY <2>1, <2>4, <4>1
    <3> QED BY <3>1
  <2>6. Val128(c[3]) = 0
    BY <1>3, <2>1, <2>5
  <2>7. UPPER(c[3]) = 0
    BY <1>3, <2>6, Zero128Test DEF zero128
  <2>8. 0 % Modulus = 0
    BY <2>1
  <2> QED BY <1>m, <2>2, <2>7, <2>8
<1> QED BY <1>4, <1>5

\* A left shift multiplies by the power of two.
LEMMA ShiftLeftTimes ==
  ASSUME NEW n \in uint256, NEW v \in Nat
  PROVE  Val(shiftl256(n, v)) = IF v >= Bits256 THEN 0 ELSE (Val(n) * 2^v) % Modulus
<1>1. CASE v >= Bits256
  BY <1>1, ShiftLeft256
<1>2. CASE ~(v >= Bits256)
  <2> DEFINE x == Val(n)  p == 2^v  q == 2^(Bits256 - v)  c == x \div q  t == x % q
  <2>1. v \in 0..Bits256 /\ Bits256 - v \in 0..Bits256 /\ Bits256 - v \in Nat
        /\ (Bits256 - v) + v = Bits256 /\ (Bits256 - v) + v <= Bits256
    BY <1>2, Widths
  <2>2. p \in Nat \ {0} /\ q \in Nat \ {0} /\ x \in Nat
    BY <2>1, PowerType, ValType, ModulusType
  <2>3. Modulus = q * p
    BY <2>1, PowerSum, BasePowers
  <2>4. Val(shiftl256(n, v)) = t * p
    BY <1>2, ShiftLeft256
  <2>v. (Val(n) * 2^v) % Modulus = (x * p) % Modulus
    OBVIOUS
  <2> HIDE DEF p, q, x
  <2>5. c \in Nat /\ t \in 0..(q - 1) /\ x = c * q + t
    BY <2>2, QuotientFacts
  <2> HIDE DEF c, t
  <2>6. x * p = c * (q * p) + t * p
    BY <2>2, <2>5
  <2>7. t * p + 0 \in 0..(q * p - 1) /\ t * p \in Nat /\ q * p \in Nat
    BY <2>2, <2>5, MixedDigits
  <2> DEFINE M == q * p  y == t * p  z == x * p
  <2>8. M \in Nat \ {0} /\ y \in 0..(M - 1) /\ z = c * M + y /\ z \in Nat
    BY <2>2, <2>6, <2>7, ProductNat
  <2> HIDE DEF M, y, z
  <2>9. z % M = y
    BY <2>5, <2>8, QuotientUnique
  <2>10. (x * p) % Modulus = t * p
    BY <2>3, <2>9 DEF M, y, z
  <2> QED BY <1>2, <2>4, <2>10, <2>v
<1> QED BY <1>1, <1>2
=============================================================================
