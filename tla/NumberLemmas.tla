----------------------------- MODULE NumberLemmas -----------------------------
(***************************************************************************)
(* Facts about natural numbers that the proofs about loops and buffers     *)
(* share.  Induction is stated for a set instead of a predicate: every     *)
(* nonempty set of naturals has a least element, so that a set that        *)
(* contains 0, and n + 1 with every n, contains all of them.               *)
(***************************************************************************)
EXTENDS Integers, TLAPS, WellFoundedInduction

LEMMA LeastElement ==
  ASSUME NEW T, T \subseteq Nat, T # {}
  PROVE  \E x \in T : \A y \in T : x <= y
<1> DEFINE R == OpToRel(<, Nat)
<1>1. IsWellFoundedOn(R, Nat)
  BY NatLessThanWellFounded
<1>2. PICK x \in T : \A y \in T : ~(<< y, x >> \in R)
  <2> HIDE DEF R
  <2> QED BY <1>1, WFMin
<1>3. \A y \in T : ~(y < x)
  BY <1>2 DEF OpToRel
<1> QED BY <1>3

\* Induction over all naturals.
LEMMA InductionOverNat ==
  ASSUME NEW S, 0 \in S, \A n \in Nat : n \in S => n + 1 \in S
  PROVE  Nat \subseteq S
<1>1. SUFFICES ASSUME Nat \ S # {} PROVE FALSE
  OBVIOUS
<1>2. PICK x \in Nat \ S : \A y \in Nat \ S : x <= y
  BY <1>1, LeastElement
<1>3. x # 0 /\ x - 1 \in Nat
  BY <1>2
<1>4. x - 1 \in S
  BY <1>2, <1>3
<1> QED BY <1>2, <1>3, <1>4

\* Induction up to a bound: what a loop of n turns establishes.
LEMMA InductionUpTo ==
  ASSUME NEW n \in Nat, NEW S, 0 \in S, \A i \in 0..(n - 1) : i \in S => i + 1 \in S
  PROVE  0..n \subseteq S
<1> DEFINE T == {i \in Nat : i <= n => i \in S}
<1>1. 0 \in T
  OBVIOUS
<1>2. ASSUME NEW i \in Nat, i \in T PROVE i + 1 \in T
  BY <1>2
<1>3. Nat \subseteq T
  <2> HIDE DEF T
  <2> QED BY <1>1, <1>2, InductionOverNat
<1> QED BY <1>3

-----------------------------------------------------------------------------
(* Products and quotients by a number that is not a constant.              *)

LEMMA ProductNat == ASSUME NEW x \in Nat, NEW y \in Nat PROVE x * y \in Nat /\ x * y = y * x
OBVIOUS

LEMMA ProductSum ==
  ASSUME NEW x \in Int, NEW y \in Int, NEW z \in Int
  PROVE  /\ (x + y) * z = x * z + y * z /\ z * (x + y) = z * x + z * y
         /\ (x - y) * z = x * z - y * z /\ z * (x - y) = z * x - z * y
OBVIOUS

LEMMA ProductMonotone ==
  ASSUME NEW x \in Nat, NEW y \in Nat, NEW z \in Nat, x <= y
  PROVE  x * z <= y * z
<1>1. (y - x) * z \in Nat /\ (y - x) * z = y * z - x * z
  BY ProductNat, ProductSum
<1>2. x * z \in Nat /\ y * z \in Nat
  BY ProductNat
<1> QED BY <1>1, <1>2

LEMMA QuotientFacts ==
  ASSUME NEW m \in Nat \ {0}, NEW x \in Nat
  PROVE  /\ x \div m \in Nat /\ x % m \in 0..(m - 1)
         /\ x = (x \div m) * m + (x % m)
<1> DEFINE q == x \div m  t == x % m
<1>1. q \in Int /\ t \in 0..(m - 1) /\ x = m * q + t
  OBVIOUS
<1> HIDE DEF q, t
<1>2. q >= 0
  <2>1. SUFFICES ASSUME q < 0 PROVE FALSE
    BY <1>1
  <2>2. -q - 1 \in Nat /\ m * (-q - 1) \in Nat
    BY <1>1, <2>1
  <2>3. m * (-q - 1) = -(m * q) - m
    BY <1>1
  <2> QED BY <1>1, <2>2, <2>3
<1>3. m * q = q * m
  BY <1>1
<1>4. q \in Nat /\ t \in 0..(m - 1) /\ x = q * m + t
  BY <1>1, <1>2, <1>3
<1> QED BY <1>4, Zenon DEF q, t

LEMMA QuotientUnique ==
  ASSUME NEW m \in Nat \ {0}, NEW x \in Nat, NEW q \in Nat, NEW t \in 0..(m - 1), x = q * m + t
  PROVE  x \div m = q /\ x % m = t
<1> DEFINE q2 == x \div m  t2 == x % m
<1>1. q2 \in Nat /\ t2 \in 0..(m - 1) /\ x = q2 * m + t2
  BY QuotientFacts
<1> HIDE DEF q2, t2
<1>0. q * m \in Nat /\ q2 * m \in Nat
  BY <1>1, ProductNat
<1>2. CASE q < q2
  <2>1. (q + 1) * m <= q2 * m /\ (q + 1) * m = q * m + m
    BY <1>1, <1>2, ProductMonotone, ProductSum
  <2> QED BY <1>0, <1>1, <2>1
<1>3. CASE q2 < q
  <2>1. (q2 + 1) * m <= q * m /\ (q2 + 1) * m = q2 * m + m
    BY <1>1, <1>3, ProductMonotone, ProductSum
  <2> QED BY <1>0, <1>1, <2>1
<1>4. CASE q = q2
  BY <1>0, <1>1, <1>4 DEF q2, t2
<1> QED BY <1>1, <1>2, <1>3, <1>4

-----------------------------------------------------------------------------
(* Remainders of numbers at most one modulus away.                         *)

\* A number below the modulus, one modulus above it, and a negative one.
LEMMA ModSmall == ASSUME NEW M \in Nat \ {0}, NEW x \in 0..(M - 1) PROVE x % M = x
  OBVIOUS
LEMMA ModOver == ASSUME NEW M \in Nat \ {0}, NEW x \in M..(2 * M - 1) PROVE x % M = x - M
  OBVIOUS
LEMMA ModUnder == ASSUME NEW M \in Nat \ {0}, NEW x \in (-M)..(-1) PROVE x % M = x + M
  OBVIOUS

LEMMA AddOver ==
  ASSUME NEW h \in Nat \ {0}, NEW x \in 0..(h - 1), NEW y \in 0..(h - 1), x + y >= h
  PROVE  (x + y) % h = x + y - h
<1>1. x + y \in h..(2 * h - 1)
  OBVIOUS
<1> QED
  BY <1>1, ModOver

\* A larger digit outweighs everything below it.
LEMMA DigitOutweighs ==
  ASSUME NEW h \in Nat \ {0}, NEW x \in Nat, NEW y \in Nat, x < y
  PROVE  x * h + h <= y * h
<1>1. y - x - 1 \in Nat
  OBVIOUS
<1>2. y * h = (x + 1) * h + (y - x - 1) * h
  OBVIOUS
<1>3. (y - x - 1) * h >= 0
  BY <1>1
<1>4. (x + 1) * h = x * h + h
  OBVIOUS
<1>5. x * h \in Int /\ y * h \in Int /\ (y - x - 1) * h \in Int
  OBVIOUS
<1> QED
  BY <1>2, <1>3, <1>4, <1>5

\* A number of two digits is below the square of the base.
LEMMA TwoDigits ==
  ASSUME NEW h \in Nat \ {0}, NEW u \in 0..(h - 1), NEW v \in 0..(h - 1)
  PROVE  u * h + v \in 0..(h * h - 1)
<1>1. u * h + h <= h * h
  BY DigitOutweighs
<1>2. u * h \in Nat /\ h * h \in Nat
  OBVIOUS
<1> QED
  BY <1>1, <1>2

\* Numbers of two digits are ordered by the upper digit, then by the lower.
LEMMA DigitsOrder ==
  ASSUME NEW h \in Nat \ {0},
         NEW um \in 0..(h - 1), NEW vm \in 0..(h - 1),
         NEW un \in 0..(h - 1), NEW vn \in 0..(h - 1)
  PROVE  /\ (um * h + vm > un * h + vn) <=> IF um = un THEN vm > vn ELSE um > un
         /\ (um * h + vm = un * h + vn) <=> um = un /\ vm = vn
<1>1. um * h \in Nat /\ un * h \in Nat
  OBVIOUS
<1>2. CASE um = un
  BY <1>1, <1>2
<1>3. CASE um < un
  <2>1. um * h + h <= un * h
    BY <1>3, DigitOutweighs
  <2> QED BY <1>1, <1>3, <2>1
<1>4. CASE un < um
  <2>1. un * h + h <= um * h
    BY <1>4, DigitOutweighs
  <2> QED BY <1>1, <1>4, <2>1
<1> QED
  BY <1>2, <1>3, <1>4

\* Adding two digits: the carry is recovered from the wrapped lower digit.
LEMMA AddDigits ==
  ASSUME NEW h \in Nat \ {0, 1},
         NEW um \in 0..(h - 1), NEW vm \in 0..(h - 1),
         NEW un \in 0..(h - 1), NEW vn \in 0..(h - 1),
         NEW low, NEW carry, NEW high,
         low = (vm + vn) % h,
         carry = IF vm > low THEN 1 ELSE 0,
         high = (((um + un) % h) + carry) % h
  PROVE  /\ low \in 0..(h - 1) /\ high \in 0..(h - 1)
         /\ high * h + low = ((um * h + vm) + (un * h + vn)) % (h * h)
<1>1. /\ carry \in {0, 1} /\ low = vm + vn - carry * h /\ low \in 0..(h - 1)
  <2>1. CASE vm + vn < h
    BY <2>1, ModSmall
  <2>2. CASE vm + vn >= h
    <3>1. vm + vn \in h..(2 * h - 1)
      BY <2>2
    <3>0. (vm + vn) % h = vm + vn - h
      BY <2>2, AddOver
    <3>2. low = vm + vn - h
      BY <3>0
    <3>3. carry = 1 /\ carry * h = h
      BY <3>2
    <3> QED BY <3>1, <3>2, <3>3
  <2> QED BY <2>1, <2>2
<1>2. PICK e \in {0, 1} : high = um + un + carry - e * h /\ high \in 0..(h - 1)
  <2>1. CASE um + un < h
    <3>1. (um + un) % h = um + un
      BY <2>1, ModSmall
    <3>2. CASE um + un + carry < h
      <4>1. um + un + carry \in 0..(h - 1)
        BY <3>2, <1>1
      <4>2. high = um + un + carry
        BY <4>1, <3>1, ModSmall
      <4> QED BY <4>1, <4>2
    <3>3. CASE um + un + carry >= h
      <4>1. um + un + carry \in h..(2 * h - 1)
        BY <2>1, <3>3, <1>1
      <4>2. high = um + un + carry - h
        BY <4>1, <3>1, ModOver
      <4> QED BY <4>1, <4>2
    <3> QED BY <3>2, <3>3, <1>1
  <2>2. CASE um + un >= h
    <3>0. um + un \in h..(2 * h - 1)
      BY <2>2
    <3>1. (um + un) % h = um + un - h
      BY <3>0, ModOver
    <3>2. um + un - h + carry \in 0..(h - 1)
      BY <2>2, <1>1
    <3>3. high = um + un + carry - h
      BY <3>1, <3>2, <1>1, ModSmall
    <3> QED BY <3>2, <3>3, <1>1
  <2> QED BY <2>1, <2>2
<1>3. DEFINE sum == (um * h + vm) + (un * h + vn)
<1>4. high * h + low = sum - e * (h * h)
  <2>1. high * h = um * h + un * h + carry * h - e * (h * h)
    BY <1>1, <1>2
  <2>2. um * h \in Int /\ un * h \in Int /\ carry * h \in Int /\ e * (h * h) \in Int
    BY <1>1, <1>2
  <2> QED BY <1>1, <1>2, <2>1, <2>2
<1>5. high * h + low \in 0..(h * h - 1)
  BY <1>1, <1>2, TwoDigits
<1>6. h * h \in Nat \ {0} /\ sum \in Nat
  OBVIOUS
<1>7. sum % (h * h) = high * h + low
  <2>1. CASE e = 0
    <3>1. sum \in 0..(h * h - 1)
      BY <1>4, <1>5, <1>6, <2>1
    <3>2. sum % (h * h) = sum
      BY <3>1, <1>6, ModSmall
    <3> QED BY <3>2, <1>4, <1>6, <2>1
  <2>2. CASE e = 1
    <3>1. sum \in (h * h)..(2 * (h * h) - 1)
      BY <1>4, <1>5, <1>6, <2>2
    <3>2. sum % (h * h) = sum - h * h
      BY <3>1, <1>6, ModOver
    <3> QED BY <3>2, <1>4, <1>6, <2>2
  <2> QED BY <1>2, <2>1, <2>2
<1> QED
  BY <1>1, <1>2, <1>7

\* Subtracting two digits: the borrow is recovered from the wrapped lower digit.
LEMMA MinusDigits ==
  ASSUME NEW h \in Nat \ {0, 1},
         NEW um \in 0..(h - 1), NEW vm \in 0..(h - 1),
         NEW un \in 0..(h - 1), NEW vn \in 0..(h - 1),
         NEW low, NEW borrow, NEW high,
         low = (vm - vn) % h,
         borrow = IF low > vm THEN 1 ELSE 0,
         high = (((um - un) % h) - borrow) % h
  PROVE  /\ low \in 0..(h - 1) /\ high \in 0..(h - 1)
         /\ high * h + low = ((um * h + vm) - (un * h + vn)) % (h * h)
<1>1. /\ borrow \in {0, 1} /\ low = vm - vn + borrow * h /\ low \in 0..(h - 1)
  <2>1. CASE vm >= vn
    BY <2>1, ModSmall
  <2>2. CASE vm < vn
    BY <2>2, ModUnder
  <2> QED BY <2>1, <2>2
<1>2. PICK e \in {0, 1} : high = um - un - borrow + e * h /\ high \in 0..(h - 1)
  <2>1. CASE um >= un
    <3>1. (um - un) % h = um - un
      BY <2>1, ModSmall
    <3>2. CASE um - un - borrow >= 0
      <4>1. um - un - borrow \in 0..(h - 1)
        BY <3>2, <1>1
      <4>2. high = um - un - borrow
        BY <4>1, <3>1, ModSmall
      <4> QED BY <4>1, <4>2
    <3>3. CASE um - un - borrow < 0
      <4>1. um - un - borrow \in (-h)..(-1)
        BY <2>1, <3>3, <1>1
      <4>2. high = um - un - borrow + h
        BY <4>1, <3>1, ModUnder
      <4>3. high \in 0..(h - 1)
        BY <4>1, <4>2
      <4> QED BY <4>1, <4>2, <4>3
    <3> QED BY <3>2, <3>3, <1>1
  <2>2. CASE um < un
    <3>0. um - un \in (-h)..(-1)
      BY <2>2
    <3>1. (um - un) % h = um - un + h
      BY <3>0, ModUnder
    <3>2. um - un + h - borrow \in 0..(h - 1)
      BY <2>2, <1>1
    <3>a. (um - un + h - borrow) % h = um - un + h - borrow
      BY <3>2, ModSmall
    <3>3. high = um - un - borrow + h
      BY <3>1, <3>a, <1>1
    <3> QED BY <3>2, <3>3, <1>1
  <2> QED BY <2>1, <2>2
<1>3. DEFINE diff == (um * h + vm) - (un * h + vn)
<1>4. high * h + low = diff + e * (h * h)
  <2>1. high * h = um * h - un * h - borrow * h + e * (h * h)
    BY <1>1, <1>2
  <2>2. um * h \in Int /\ un * h \in Int /\ borrow * h \in Int /\ e * (h * h) \in Int
    BY <1>1, <1>2
  <2> QED BY <1>1, <1>2, <2>1, <2>2
<1>5. high * h + low \in 0..(h * h - 1)
  BY <1>1, <1>2, TwoDigits
<1>6. h * h \in Nat \ {0} /\ diff \in Int
  OBVIOUS
<1>7. diff % (h * h) = high * h + low
  <2>1. CASE e = 0
    <3>1. diff \in 0..(h * h - 1)
      BY <1>4, <1>5, <1>6, <2>1
    <3>2. diff % (h * h) = diff
      BY <3>1, <1>6, ModSmall
    <3> QED BY <3>2, <1>4, <1>6, <2>1
  <2>2. CASE e = 1
    <3>1. diff \in (-(h * h))..(-1)
      BY <1>4, <1>5, <1>6, <2>2
    <3>2. diff % (h * h) = diff + h * h
      BY <3>1, <1>6, ModUnder
    <3> QED BY <3>2, <1>4, <1>6, <2>2
  <2> QED BY <1>2, <2>1, <2>2
<1> QED
  BY <1>1, <1>2, <1>7

\* A multiple of the modulus does not change the remainder.
LEMMA ModMultiple ==
  ASSUME NEW M \in Nat \ {0}, NEW x \in Nat, NEW k \in Nat
  PROVE  x + k * M \in Nat /\ (x + k * M) % M = x % M
<1> DEFINE q == x \div M  t == x % M
<1>1. q \in Nat /\ t \in 0..(M - 1) /\ x = q * M + t
  BY QuotientFacts
<1>4. x % M = t
  OBVIOUS
<1> HIDE DEF q, t
<1>2. q + k \in Nat /\ (q + k) * M = q * M + k * M /\ q * M \in Nat /\ k * M \in Nat
  BY <1>1, ProductNat, ProductSum
<1>3. x + k * M \in Nat /\ x + k * M = (q + k) * M + t
  BY <1>1, <1>2
<1>5. (x + k * M) % M = t
  BY <1>1, <1>2, <1>3, QuotientUnique
<1> QED BY <1>3, <1>4, <1>5

\* Reducing a summand first changes nothing.
LEMMA ModAdd ==
  ASSUME NEW M \in Nat \ {0}, NEW x \in Nat, NEW y \in Nat
  PROVE  x % M \in Nat /\ (y + (x % M)) % M = (y + x) % M
<1> DEFINE q == x \div M  t == x % M
<1>1. q \in Nat /\ t \in 0..(M - 1) /\ x = q * M + t
  BY QuotientFacts
<1>4. x % M = t
  OBVIOUS
<1> HIDE DEF q, t
<1>2. q * M \in Nat /\ y + t \in Nat /\ (y + t) + q * M = y + x
  BY <1>1, ProductNat
<1>3. ((y + t) + q * M) % M = (y + t) % M
  BY <1>1, <1>2, ModMultiple
<1> QED BY <1>1, <1>2, <1>3, <1>4

\* Numbers with the same remainder that differ by less than the modulus are equal.
LEMMA ModDiffers ==
  ASSUME NEW M \in Nat \ {0}, NEW x \in Nat, NEW e \in 1..(M - 1)
  PROVE  x % M # (x + e) % M
<1> DEFINE q == x \div M  t == x % M
<1>1. q \in Nat /\ t \in 0..(M - 1) /\ x = q * M + t
  BY QuotientFacts
<1>2. x % M = t
  OBVIOUS
<1> HIDE DEF q, t
<1>3. q * M \in Nat /\ (q + 1) * M = q * M + M /\ q + 1 \in Nat /\ x + e \in Nat
  BY <1>1, ProductNat, ProductSum
<1>4. CASE t + e < M
  <2>1. t + e \in 0..(M - 1) /\ x + e = q * M + (t + e)
    BY <1>1, <1>3, <1>4
  <2>2. (x + e) % M = t + e
    BY <1>1, <1>3, <2>1, QuotientUnique
  <2> QED BY <1>1, <1>2, <2>2
<1>5. CASE t + e >= M
  <2>1. t + e - M \in 0..(M - 1) /\ x + e = (q + 1) * M + (t + e - M)
    BY <1>1, <1>3, <1>5
  <2>2. (x + e) % M = t + e - M
    BY <1>3, <2>1, QuotientUnique
  <2> QED BY <1>1, <1>2, <2>2
<1> QED BY <1>1, <1>4, <1>5

\* The remainder by h of a number reduced modulo h * h.
LEMMA ModSquare ==
  ASSUME NEW h \in Nat \ {0}, NEW x \in Nat PROVE (x % (h * h)) % h = x % h
<1> DEFINE M == h * h  q == x \div M  t == x % M
<1>1. M \in Nat \ {0} /\ M = h * h
  <2>1. 1 * h <= h * h /\ h * h \in Nat
    BY ProductMonotone, ProductNat
  <2> QED BY <2>1
<1> HIDE DEF M
<1>2. q \in Nat /\ t \in 0..(M - 1) /\ x = q * M + t
  BY <1>1, QuotientFacts
<1>5. x % M = t
  OBVIOUS
<1> HIDE DEF q, t
<1>3. t \in Nat /\ q * h \in Nat /\ x = t + (q * h) * h
  BY <1>1, <1>2, ProductNat
<1>4. (t + (q * h) * h) % h = t % h
  BY <1>3, ModMultiple
<1>6. (x % M) % h = x % h
  BY <1>3, <1>4, <1>5
<1> QED BY <1>6, Zenon DEF M

-----------------------------------------------------------------------------
(* Shifting a number of two digits, in base h = p * q, by the factor p.    *)

\* A number below p * q, divided by p, is below q.
LEMMA QuotientBelow ==
  ASSUME NEW p \in Nat \ {0}, NEW q \in Nat, NEW x \in 0..(p * q - 1)
  PROVE  x \div p \in 0..(q - 1)
<1> DEFINE c == x \div p  s == x % p
<1>0. p * q \in Nat /\ p * q = q * p /\ x \in Nat
  BY ProductNat
<1>1. c \in Nat /\ s \in 0..(p - 1) /\ x = c * p + s
  BY <1>0, QuotientFacts
<1> HIDE DEF c, s
<1>2. SUFFICES ASSUME ~(c < q) PROVE FALSE
  BY <1>1 DEF c
<1>3. q * p <= c * p /\ q * p \in Nat /\ c * p \in Nat
  BY <1>1, <1>2, ProductMonotone, ProductNat
<1> QED BY <1>0, <1>1, <1>3

\* Two digits in bases p (upper) and q (lower) are below p * q.
LEMMA MixedDigits ==
  ASSUME NEW p \in Nat \ {0}, NEW q \in Nat \ {0}, NEW t \in 0..(p - 1), NEW c \in 0..(q - 1)
  PROVE  t * q \in Nat /\ p * q \in Nat /\ t * q + c \in 0..(p * q - 1)
<1>1. (t + 1) * q <= p * q /\ (t + 1) * q = t * q + q
  BY ProductMonotone, ProductSum
<1>2. t * q \in Nat /\ p * q \in Nat
  BY ProductNat
<1> QED BY <1>1, <1>2

\* The digits of u * h + w shifted to the right.
RightDigits(p, q, h, u, w) ==
    /\ u \div p \in 0..(h - 1)
    /\ (u % p) * q \in 0..(h - 1) /\ w \div p \in 0..(h - 1)
    /\ (u % p) * q + w \div p \in 0..(h - 1)
    /\ (u * h + w) \div p = (u \div p) * h + ((u % p) * q + w \div p)

\* The digits of u * h + w shifted to the left, the bits above h * h dropped.
LeftDigits(p, q, h, u, w) ==
    /\ (u % q) * p \in 0..(h - 1) /\ w \div q \in 0..(h - 1)
    /\ (u % q) * p + w \div q \in 0..(h - 1)
    /\ (w % q) * p \in 0..(h - 1)
    /\ ((u * h + w) % (q * h)) * p = ((u % q) * p + w \div q) * h + (w % q) * p

\* Dividing u * h + w by p below the base moves u % p to the top of w.
LEMMA ShiftRightDigits ==
  ASSUME NEW p \in Nat \ {0}, NEW q \in Nat \ {0}, NEW h \in Nat, h = p * q,
         NEW u \in 0..(h - 1), NEW w \in 0..(h - 1)
  PROVE  RightDigits(p, q, h, u, w)
<1> DEFINE a1 == u \div p  t == u % p  c == w \div p  s == w % p
<1>0. h \in Nat \ {0} /\ h >= q /\ h >= p
  <2>1. 1 * q <= p * q /\ 1 * p <= q * p /\ p * q = q * p /\ p * q \in Nat
    BY ProductMonotone, ProductNat
  <2> QED BY <2>1
<1>1. /\ a1 \in Nat /\ t \in 0..(p - 1) /\ u = a1 * p + t
      /\ c \in Nat /\ s \in 0..(p - 1) /\ w = c * p + s
  BY <1>0, QuotientFacts
<1>2. a1 \in 0..(q - 1) /\ c \in 0..(q - 1)
  BY QuotientBelow
<1>3. t * q \in Nat /\ t * q + c \in 0..(h - 1)
  BY <1>1, <1>2, MixedDigits
<1> HIDE DEF a1, t, c, s
<1>4. u * h + w = (a1 * h + (t * q + c)) * p + s
  <2>1. u * h = a1 * p * h + t * (p * q)
    BY <1>0, <1>1
  <2>2. (a1 * h + (t * q + c)) * p = a1 * p * h + t * (p * q) + c * p
    BY <1>0, <1>1
  <2>3. a1 * p * h \in Int /\ t * (p * q) \in Int /\ c * p \in Int
    BY <1>0, <1>1
  <2> QED BY <1>1, <2>1, <2>2, <2>3
<1>5. u * h + w \in Nat /\ a1 * h + (t * q + c) \in Nat
  BY <1>0, <1>1, <1>3, ProductNat
<1>6. (u * h + w) \div p = a1 * h + (t * q + c)
  BY <1>1, <1>4, <1>5, QuotientUnique
<1> QED BY <1>0, <1>2, <1>3, <1>6 DEF RightDigits, a1, t, c, s

\* Multiplying by p below the base, modulo h * h, moves the top of w into u.
LEMMA ShiftLeftDigits ==
  ASSUME NEW p \in Nat \ {0}, NEW q \in Nat \ {0}, NEW h \in Nat, h = p * q,
         NEW u \in 0..(h - 1), NEW w \in 0..(h - 1)
  PROVE  LeftDigits(p, q, h, u, w)
<1> DEFINE a1 == u \div q  t == u % q  c == w \div q  s == w % q
<1>0. h \in Nat \ {0} /\ h >= q /\ h >= p /\ h = q * p
  <2>1. 1 * q <= p * q /\ 1 * p <= q * p /\ p * q = q * p /\ p * q \in Nat
    BY ProductMonotone, ProductNat
  <2> QED BY <2>1
<1>1. /\ a1 \in Nat /\ t \in 0..(q - 1) /\ u = a1 * q + t
      /\ c \in Nat /\ s \in 0..(q - 1) /\ w = c * q + s
  BY <1>0, QuotientFacts
<1>2. c \in 0..(p - 1)
  BY <1>0, QuotientBelow
<1>3. t * p \in Nat /\ t * p + c \in 0..(h - 1) /\ s * p \in Nat /\ s * p + 0 \in 0..(h - 1)
  BY <1>0, <1>1, <1>2, MixedDigits
<1>4. t * h \in Nat /\ q * h \in Nat \ {0} /\ t * h + w \in 0..(q * h - 1)
  <2>1. t * h \in Nat /\ q * h \in Nat /\ t * h + w \in 0..(q * h - 1)
    BY <1>0, <1>1, MixedDigits
  <2> QED BY <2>1
<1> HIDE DEF a1, t, c, s
<1>5. u * h + w = a1 * (q * h) + (t * h + w)
  BY <1>0, <1>1
<1>6. (u * h + w) % (q * h) = t * h + w
  <2>1. u * h + w \in Nat
    BY <1>0
  <2> DEFINE x == u * h + w  m == q * h  z == t * h + w
  <2> HIDE DEF x, m, z
  <2>2. x \in Nat /\ m \in Nat \ {0} /\ z \in 0..(m - 1) /\ x = a1 * m + z
    BY <1>4, <1>5, <2>1 DEF x, m, z
  <2>3. x % m = z
    BY <1>1, <2>2, QuotientUnique
  <2> QED BY <2>3, Zenon DEF x, m, z
<1>7. (t * h + w) * p = (t * p + c) * h + s * p
  <2>1. w * p = c * (q * p) + s * p
    BY <1>1
  <2>2. (t * h + w) * p = t * p * h + w * p /\ (t * p + c) * h = t * p * h + c * h
    BY <1>0, <1>1
  <2>3. w * p \in Int /\ t * p * h \in Int /\ c * h \in Int /\ s * p \in Int
    BY <1>0, <1>1
  <2> QED BY <1>0, <2>1, <2>2, <2>3
<1> QED BY <1>0, <1>2, <1>3, <1>6, <1>7 DEF LeftDigits, t, c, s

\* A shift by the base and more takes only the upper digit to the right, and
\* only the lower digit to the left.
LEMMA ShiftRightFar ==
  ASSUME NEW h \in Nat \ {0}, NEW p \in Nat \ {0}, NEW u \in Nat, NEW w \in 0..(h - 1)
  PROVE  (u * h + w) \div (p * h) = u \div p
<1> DEFINE a1 == u \div p  t == u % p
<1>1. a1 \in Nat /\ t \in 0..(p - 1) /\ u = a1 * p + t
  BY QuotientFacts
<1>2. t * h \in Nat /\ p * h \in Nat /\ t * h + w \in 0..(p * h - 1)
  BY <1>1, MixedDigits
<1> HIDE DEF a1, t
<1>3. u * h + w = a1 * (p * h) + (t * h + w) /\ u * h + w \in Nat
  <2>1. u * h = a1 * (p * h) + t * h
    BY <1>1
  <2>2. u * h \in Nat /\ a1 * (p * h) \in Nat
    BY <1>1, <1>2, ProductNat
  <2> QED BY <1>2, <2>1, <2>2
<1> DEFINE x == u * h + w  m == p * h  z == t * h + w
<1> HIDE DEF x, m, z
<1>4. x \div m = a1
  BY <1>1, <1>2, <1>3, QuotientUnique DEF x, m, z
<1> QED BY <1>4 DEF x, m, a1

LeftFar(p, q, h, u, w) ==
    /\ (w % q) * p \in 0..(h - 1)
    /\ ((u * h + w) % q) * (p * h) = ((w % q) * p) * h

\* Multiplying by p * h, modulo h * h, keeps only the lower digit.
LEMMA ShiftLeftFar ==
  ASSUME NEW p \in Nat \ {0}, NEW q \in Nat \ {0}, NEW h \in Nat, h = p * q,
         NEW u \in Nat, NEW w \in 0..(h - 1)
  PROVE  LeftFar(p, q, h, u, w)
<1> DEFINE c == w \div q  s == w % q
<1>0. h \in Nat \ {0} /\ h = q * p
  <2>1. 1 * q <= p * q /\ p * q = q * p /\ p * q \in Nat
    BY ProductMonotone, ProductNat
  <2> QED BY <2>1
<1>1. c \in Nat /\ s \in 0..(q - 1) /\ w = c * q + s
  <2>1. w \in Nat
    BY <1>0
  <2> QED BY <2>1, QuotientFacts
<1>2. s * p \in Nat /\ s * p + 0 \in 0..(h - 1)
  BY <1>0, <1>1, MixedDigits
<1> HIDE DEF c, s
<1>3. u * h + w = (u * p + c) * q + s /\ u * h + w \in Nat /\ u * p + c \in Nat
  <2>1. u * h = (u * p) * q /\ (u * p + c) * q = (u * p) * q + c * q
    BY <1>1
  <2>2. u * h \in Nat /\ (u * p) * q \in Nat /\ c * q \in Nat /\ u * p \in Nat
    BY <1>0, <1>1, ProductNat
  <2> QED BY <1>1, <2>1, <2>2
<1>4. (u * h + w) % q = s
  BY <1>1, <1>3, QuotientUnique
<1>5. s * (p * h) = (s * p) * h
  BY <1>0, <1>1
<1> QED BY <1>2, <1>4, <1>5 DEF LeftFar, s

-----------------------------------------------------------------------------
(* Loops that add up.                                                      *)

\* The partial sums of a sequence of numbers c exist as a recursive function.
LEMMA PartialSums ==
  ASSUME NEW N \in Nat, NEW c
  PROVE  \E f : f = [i \in 0..N |-> IF i = 0 THEN 0 ELSE f[i - 1] + c[i]]
<1> DEFINE Good(f, n) == f = [i \in 0..n |-> IF i = 0 THEN 0 ELSE f[i - 1] + c[i]]
           Reached == {n \in Nat : \E f : Good(f, n)}
<1>1. 0 \in Reached
  <2>1. [i \in 0..0 |-> 0] = [i \in 0..0 |-> IF i = 0 THEN 0 ELSE [j \in 0..0 |-> 0][i - 1] + c[i]]
    OBVIOUS
  <2>2. Good([i \in 0..0 |-> 0], 0)
    BY <2>1
  <2> QED BY <2>2
<1>2. ASSUME NEW n \in Nat, n \in Reached PROVE n + 1 \in Reached
  <2>1. PICK f : Good(f, n)
    BY <1>2
  <2> DEFINE g == [i \in 0..(n + 1) |-> IF i = n + 1 THEN f[n] + c[n + 1] ELSE f[i]]
  <2>2. \A i \in 0..n : g[i] = f[i] /\ f[i] = IF i = 0 THEN 0 ELSE f[i - 1] + c[i]
    BY <2>1
  <2>3. ASSUME NEW i \in 0..(n + 1) PROVE g[i] = IF i = 0 THEN 0 ELSE g[i - 1] + c[i]
    <3>1. CASE i = 0
      <4>1. g[0] = 0
        <5>1. 0 \in 0..n
          OBVIOUS
        <5> HIDE DEF g
        <5> QED BY <2>2, <5>1
      <4> QED BY <3>1, <4>1
    <3>2. CASE i \in 1..n
      <4>1. i # 0 /\ i \in 0..n /\ i - 1 \in 0..n
        BY <3>2
      <4>2. g[i] = f[i - 1] + c[i] /\ g[i - 1] = f[i - 1]
        BY <2>2, <4>1
      <4> QED BY <4>1, <4>2
    <3>3. CASE i = n + 1
      <4>1. g[i] = f[n] + c[i] /\ g[n] = f[n] /\ i - 1 = n /\ i # 0
        BY <2>2, <3>3
      <4> QED BY <4>1
    <3> QED BY <3>1, <3>2, <3>3
  <2>4. g = [i \in 0..(n + 1) |-> g[i]]
    OBVIOUS
  <2> HIDE DEF g
  <2>5. Good(g, n + 1)
    BY <2>3, <2>4
  <2> QED BY <2>5
<1>3. N \in Reached
  <2> HIDE DEF Reached
  <2>1. Nat \subseteq Reached
    BY <1>1, <1>2, InductionOverNat
  <2> QED BY <2>1
<1> QED BY <1>3

\* t holds the totals of the first 0, 1, ..., N numbers of c.
Totals(t, c, N) == /\ t \in [0..N -> Nat] /\ t[0] = 0
                   /\ \A i \in 1..N : t[i] = c[i] + t[i - 1]

LEMMA TotalsExist == ASSUME NEW N \in Nat, NEW c \in [1..N -> Nat] PROVE \E t : Totals(t, c, N)
<1>1. PICK t : t = [i \in 0..N |-> IF i = 0 THEN 0 ELSE t[i - 1] + c[i]]
  BY PartialSums
<1>2. t[0] = 0
  BY <1>1
<1>3. ASSUME NEW i \in 1..N PROVE t[i] = t[i - 1] + c[i]
  <2>1. i \in 0..N /\ i # 0
    OBVIOUS
  <2> QED BY <1>1, <2>1
<1> DEFINE S == {i \in 0..N : t[i] \in Nat}
<1>4. 0 \in S
  BY <1>2
<1>5. ASSUME NEW i \in 0..(N - 1), i \in S PROVE i + 1 \in S
  <2>1. i + 1 \in 1..N /\ (i + 1) - 1 = i
    OBVIOUS
  <2>2. t[i + 1] = t[i] + c[i + 1] /\ c[i + 1] \in Nat
    BY <1>3, <2>1
  <2> QED BY <1>5, <2>1, <2>2
<1>6. 0..N \subseteq S
  <2> HIDE DEF S
  <2> QED BY <1>4, <1>5, InductionUpTo
<1>7. t = [i \in 0..N |-> t[i]]
  BY <1>1
<1>8. t \in [0..N -> Nat]
  BY <1>6, <1>7
<1>9. ASSUME NEW i \in 1..N PROVE t[i] = c[i] + t[i - 1]
  <2>1. c[i] \in Nat /\ t[i - 1] \in Nat
    BY <1>8
  <2> QED BY <1>3, <2>1
<1> QED BY <1>2, <1>8, <1>9 DEF Totals

\* v holds what the first 0, 1, ..., N numbers of c add up to modulo M.
Accumulates(v, c, N, M) == /\ c \in [1..N -> Nat] /\ v[0] = 0
                           /\ \A i \in 1..N : v[i] = (c[i] + v[i - 1]) % M

\* It is their total modulo M.
LEMMA TotalsModulo ==
  ASSUME NEW N \in Nat, NEW M \in Nat \ {0}, NEW c, NEW v, Accumulates(v, c, N, M),
         NEW t, Totals(t, c, N)
  PROVE  v[N] = t[N] % M
<1>0. /\ c \in [1..N -> Nat] /\ v[0] = 0
      /\ \A i \in 1..N : v[i] = (c[i] + v[i - 1]) % M
  BY DEF Accumulates
<1> DEFINE S == {i \in 0..N : v[i] = t[i] % M}
<1>1. 0 \in S
  BY <1>0 DEF Totals
<1>2. ASSUME NEW i \in 0..(N - 1), i \in S PROVE i + 1 \in S
  <2>1. i + 1 \in 1..N /\ (i + 1) - 1 = i /\ c[i + 1] \in Nat /\ t[i] \in Nat /\ i \in 0..N
    BY <1>0 DEF Totals
  <2>2. v[i + 1] = (c[i + 1] + v[i]) % M /\ t[i + 1] = c[i + 1] + t[i]
    BY <1>0, <2>1 DEF Totals
  <2>3. (c[i + 1] + (t[i] % M)) % M = (c[i + 1] + t[i]) % M
    BY <2>1, ModAdd
  <2>4. v[i] = t[i] % M
    BY <1>2
  <2> QED BY <2>1, <2>2, <2>3, <2>4
<1>3. 0..N \subseteq S
  <2> HIDE DEF S
  <2> QED BY <1>1, <1>2, InductionUpTo
<1> QED BY <1>3

\* f holds what 0, 1, ..., N turns of the loop body g make of z; such a function exists.
LoopBody(g, N, T) == g \in [(1..N) \X T -> T]
LoopTurns(f, g, z, N, T) == /\ f \in [0..N -> T] /\ f[0] = z
                        /\ \A i \in 1..N : f[i] = g[<< i, f[i - 1] >>]
LEMMA TurnsExist ==
  ASSUME NEW N \in Nat, NEW T, NEW z \in T, NEW g, LoopBody(g, N, T)
  PROVE  \E f : LoopTurns(f, g, z, N, T)
<1>0. g \in [(1..N) \X T -> T]
  BY DEF LoopBody
<1> DEFINE Good(f, n) == /\ f \in [0..n -> T] /\ f[0] = z
                         /\ \A i \in 1..n : f[i] = g[<< i, f[i - 1] >>]
           Reached == {n \in 0..N : \E f : Good(f, n)}
<1>1. 0 \in Reached
  <2>1. Good([i \in 0..0 |-> z], 0)
    OBVIOUS
  <2> HIDE DEF Good
  <2> QED BY <2>1
<1>2. ASSUME NEW n \in 0..(N - 1), n \in Reached PROVE n + 1 \in Reached
  <2>1. PICK f : Good(f, n)
    BY <1>2
  <2>0. n + 1 \in 1..N /\ n + 1 \in 0..N /\ f[n] \in T
    BY <2>1
  <2> DEFINE e == [i \in 0..(n + 1) |-> IF i = n + 1 THEN g[<< n + 1, f[n] >>] ELSE f[i]]
  <2>2. e \in [0..(n + 1) -> T] /\ e[0] = z /\ e[n + 1] = g[<< n + 1, f[n] >>]
        /\ \A i \in 0..n : e[i] = f[i]
    BY <1>0, <2>0, <2>1
  <2> HIDE DEF e
  <2>3. ASSUME NEW i \in 1..(n + 1) PROVE e[i] = g[<< i, e[i - 1] >>]
    <3>1. CASE i \in 1..n
      <4>1. i \in 0..n /\ i - 1 \in 0..n
        BY <3>1
      <4>2. e[i] = f[i] /\ e[i - 1] = f[i - 1] /\ f[i] = g[<< i, f[i - 1] >>]
        BY <2>1, <2>2, <3>1, <4>1
      <4> QED BY <4>2
    <3>2. CASE i = n + 1
      <4>1. e[n] = f[n] /\ i - 1 = n
        BY <2>2, <3>2
      <4> QED BY <2>2, <3>2, <4>1
    <3> QED BY <3>1, <3>2
  <2>4. Good(e, n + 1)
    BY <2>2, <2>3
  <2> QED BY <2>0, <2>4
<1>3. N \in Reached
  <2> HIDE DEF Reached
  <2>1. 0..N \subseteq Reached
    BY <1>1, <1>2, InductionUpTo
  <2> QED BY <2>1
<1> QED BY <1>3 DEF LoopTurns

-----------------------------------------------------------------------------
(* Multiplication of numbers of four digits by columns, as mul128 and      *)
(* mul256 do it.  x[i] is the digit of weight h^i of the first operand,    *)
(* y[j] the one of weight h^(3 - j) of the second.                         *)

Upward(h, x) == x[0] + x[1] * h + x[2] * (h * h) + x[3] * (h * (h * h))
Downward(h, y) == y[3] + y[2] * h + y[1] * (h * h) + y[0] * (h * (h * h))

DigitPairs == (0..3) \X (0..3)
DigitProducts(h, x, y, lo, hi) ==
    /\ x \in [0..3 -> Nat] /\ y \in [0..3 -> Nat]
    /\ lo \in [DigitPairs -> Nat] /\ hi \in [DigitPairs -> Nat]
    /\ \A i, j \in 0..3 : x[i] * y[j] = hi[<< i, j >>] * h + lo[<< i, j >>]

\* The columns of weight h^3, h^2 and h.
FirstColumn(lo, hi) == lo[<<0, 0>>] + hi[<<0, 1>>] + lo[<<1, 1>>] + hi[<<1, 2>>]
                   + lo[<<2, 2>>] + hi[<<2, 3>>] + lo[<<3, 3>>]
SecondColumn(lo, hi) == lo[<<0, 1>>] + hi[<<0, 2>>] + lo[<<1, 2>>] + hi[<<1, 3>>] + lo[<<2, 3>>]
ThirdColumn(lo, hi) == lo[<<0, 2>>] + hi[<<0, 3>>] + lo[<<1, 3>>]

\* The columns are the product modulo h^4.
LEMMA ProductColumns ==
  ASSUME NEW h \in Nat, NEW x, NEW y, NEW lo, NEW hi, DigitProducts(h, x, y, lo, hi)
  PROVE  \E k \in Nat :
           Upward(h, x) * Downward(h, y) =
             lo[<<0, 3>>] + ThirdColumn(lo, hi) * h + SecondColumn(lo, hi) * (h * h)
               + FirstColumn(lo, hi) * (h * (h * h)) + k * (h * (h * (h * h)))
<1>0. /\ \A i \in 0..3 : x[i] \in Nat /\ y[i] \in Nat
      /\ \A i, j \in 0..3 : /\ lo[<< i, j >>] \in Nat /\ hi[<< i, j >>] \in Nat
                            /\ x[i] * y[j] = hi[<< i, j >>] * h + lo[<< i, j >>]
  BY DEF DigitProducts, DigitPairs
<1> DEFINE Y == Downward(h, y)
           C0(i) == lo[<<i, 3>>]
           C1(i) == hi[<<i, 3>>] + lo[<<i, 2>>]
           C2(i) == hi[<<i, 2>>] + lo[<<i, 1>>]
           C3(i) == hi[<<i, 1>>] + lo[<<i, 0>>]
           C4(i) == hi[<<i, 0>>]
           Row(i) == C0(i) + C1(i) * h + C2(i) * (h * h) + C3(i) * (h * (h * h))
                       + C4(i) * (h * (h * (h * h)))
<1>1. ASSUME NEW i \in 0..3 PROVE x[i] * Y = Row(i)
  <2> DEFINE xi == x[i]  y0 == y[0]  y1 == y[1]  y2 == y[2]  y3 == y[3]
             l0 == lo[<<i, 0>>]  l1 == lo[<<i, 1>>]  l2 == lo[<<i, 2>>]  l3 == lo[<<i, 3>>]
             g0 == hi[<<i, 0>>]  g1 == hi[<<i, 1>>]  g2 == hi[<<i, 2>>]  g3 == hi[<<i, 3>>]
  <2>1. /\ xi * y0 = g0 * h + l0 /\ xi * y1 = g1 * h + l1
        /\ xi * y2 = g2 * h + l2 /\ xi * y3 = g3 * h + l3
    BY <1>0
  <2>2. /\ xi \in Nat /\ y0 \in Nat /\ y1 \in Nat /\ y2 \in Nat /\ y3 \in Nat
        /\ l0 \in Nat /\ l1 \in Nat /\ l2 \in Nat /\ l3 \in Nat
        /\ g0 \in Nat /\ g1 \in Nat /\ g2 \in Nat /\ g3 \in Nat
    BY <1>0
  <2>3. Y = y3 + y2 * h + y1 * (h * h) + y0 * (h * (h * h))
    BY DEF Downward
  <2>4. Row(i) = l3 + (g3 + l2) * h + (g2 + l1) * (h * h) + (g1 + l0) * (h * (h * h))
                   + g0 * (h * (h * (h * h)))
    OBVIOUS
  <2> HIDE DEF xi, y0, y1, y2, y3, l0, l1, l2, l3, g0, g1, g2, g3, Y, Row
  <2>5. xi * Y = Row(i)
    <3>1. xi * Y = xi * y3 + (xi * y2) * h + (xi * y1) * (h * h) + (xi * y0) * (h * (h * h))
      BY <2>2, <2>3
    <3> QED BY <2>1, <2>2, <2>4, <3>1
  <2> QED BY <2>5 DEF xi
<1>2. Y \in Nat /\ x[0] \in Nat /\ x[1] \in Nat /\ x[2] \in Nat /\ x[3] \in Nat
  BY <1>0 DEF Downward
<1>3. Upward(h, x) * Y = x[0] * Y + (x[1] * Y) * h + (x[2] * Y) * (h * h) + (x[3] * Y) * (h * (h * h))
  <2> HIDE DEF Y
  <2> QED BY <1>2 DEF Upward
<1>4. Upward(h, x) * Y = Row(0) + Row(1) * h + Row(2) * (h * h) + Row(3) * (h * (h * h))
  <2>1. x[0] * Y = Row(0) /\ x[1] * Y = Row(1) /\ x[2] * Y = Row(2) /\ x[3] * Y = Row(3)
    BY <1>1
  <2> HIDE DEF Row, Y
  <2> QED BY <1>3, <2>1
<1>5. \A i \in 0..3 : C0(i) \in Nat /\ C1(i) \in Nat /\ C2(i) \in Nat /\ C3(i) \in Nat /\ C4(i) \in Nat
  BY <1>0
<1>7. /\ C1(0) + C0(1) = ThirdColumn(lo, hi)
      /\ C2(0) + C1(1) + C0(2) = SecondColumn(lo, hi)
      /\ C3(0) + C2(1) + C1(2) + C0(3) = FirstColumn(lo, hi)
      /\ C0(0) = lo[<<0, 3>>]
  BY <1>0 DEF FirstColumn, SecondColumn, ThirdColumn
<1> DEFINE k == C4(0) + (C3(1) + C4(1) * h) + (C2(2) + C3(2) * h + C4(2) * (h * h))
                  + (C1(3) + C2(3) * h + C3(3) * (h * h) + C4(3) * (h * (h * h)))
<1> HIDE DEF C0, C1, C2, C3, C4, Y
<1>8. k \in Nat
  BY <1>5
<1>6. Row(0) + Row(1) * h + Row(2) * (h * h) + Row(3) * (h * (h * h)) =
        C0(0) + (C1(0) + C0(1)) * h + (C2(0) + C1(1) + C0(2)) * (h * h)
          + (C3(0) + C2(1) + C1(2) + C0(3)) * (h * (h * h)) + k * (h * (h * (h * h)))
  BY <1>5
<1> HIDE DEF Row, k
<1>9. Upward(h, x) * Y =
        lo[<<0, 3>>] + ThirdColumn(lo, hi) * h + SecondColumn(lo, hi) * (h * h)
          + FirstColumn(lo, hi) * (h * (h * h)) + k * (h * (h * (h * h)))
  BY <1>4, <1>6, <1>7
<1> QED BY <1>8, <1>9 DEF Y

\* The product of two digits below h has two digits.
LEMMA DigitProduct ==
  ASSUME NEW h \in Nat \ {0}, NEW x \in 0..(h - 1), NEW y \in 0..(h - 1)
  PROVE  /\ x * y \in 0..(h * h - 1)
         /\ (x * y) \div h \in 0..(h - 1) /\ (x * y) % h \in 0..(h - 1)
         /\ x * y = ((x * y) \div h) * h + ((x * y) % h)
<1>1. x * y <= x * h /\ (x + 1) * h <= h * h /\ (x + 1) * h = x * h + h
  <2>1. y * x <= h * x /\ y * x = x * y /\ h * x = x * h
    BY ProductMonotone, ProductNat
  <2> QED BY <2>1, ProductMonotone, ProductSum
<1>2. x * y \in Nat /\ x * h \in Nat /\ h * h \in Nat
  BY ProductNat
<1>3. x * y \in 0..(h * h - 1)
  BY <1>1, <1>2
<1> DEFINE p == x * y
<1>4. p \in Nat /\ p \in 0..(h * h - 1)
  BY <1>2, <1>3
<1> HIDE DEF p
<1>5. p \div h \in 0..(h - 1)
  BY <1>4, QuotientBelow
<1>6. p % h \in 0..(h - 1) /\ p = (p \div h) * h + (p % h)
  BY <1>4, QuotientFacts
<1> QED BY <1>4, <1>5, <1>6, Zenon DEF p

\* The third column carries at most 2 out of its limb, so that the misplaced
\* carry is an error of less than 2^256.
LEMMA CarryError ==
  ASSUME NEW B \in Nat, B > 1, NEW u \in 1..2
  PROVE  u * (B * (B * B)) - u * (B * B) \in 1..((B * B) * (B * B) - 1)
<1> DEFINE s == B * B
<1>1. s \in Nat /\ s >= 2 * B /\ s > 1
  BY ProductMonotone
<1> HIDE DEF s
<1>2. B * s >= 2 * s /\ s * s >= (2 * B) * s /\ (2 * B) * s = 2 * (B * s) /\ B * s \in Nat /\ s * s \in Nat
  BY <1>1, ProductMonotone, ProductNat
<1>3. u = 1 \/ u = 2
  OBVIOUS
<1>4. u * (B * s) - u * s \in 1..(s * s - 1)
  BY <1>1, <1>2, <1>3
<1> QED BY <1>4 DEF s

-----------------------------------------------------------------------------
(* Loops that need not end.                                                *)

\* A member of S.
Some(S) == CHOOSE v : v \in S

\* f is what a loop returns that is left at p with out[p] unless p is in more,
\* and else goes on at succ[p].
Loops(f, D, more, succ, out) ==
    f = [p \in D |-> IF p \in more THEN f[succ[p]] ELSE out[p]]

\* Such a function exists also when the loop does not end everywhere.
LEMMA LoopExists ==
  ASSUME NEW D, NEW more, NEW succ \in [D -> D], NEW V, NEW out \in [D -> V]
  PROVE  \E f : Loops(f, D, more, succ, out)
<1> DEFINE Results(S) == \A p \in D, v \in V :
             IF p \in more THEN << succ[p], v >> \in S => << p, v >> \in S
                           ELSE v = out[p] => << p, v >> \in S
           R == {t \in D \X V : \A S \in SUBSET (D \X V) : Results(S) => t \in S}
           From(p) == {v \in V : << p, v >> \in R}
           f == [p \in D |-> Some(From(p))]
<1>1. R \in SUBSET (D \X V) /\ Results(R)
  <2>1. ASSUME NEW p \in D, NEW v \in V, p \in more, << succ[p], v >> \in R
        PROVE  << p, v >> \in R
    BY <2>1
  <2>2. ASSUME NEW p \in D, NEW v \in V, p \notin more, v = out[p]
        PROVE  << p, v >> \in R
    BY <2>2
  <2>3. R \in SUBSET (D \X V)
    OBVIOUS
  <2> HIDE DEF R
  <2> QED BY <2>1, <2>2, <2>3
<1>2. ASSUME NEW p \in D, NEW v \in V, << p, v >> \in R
      PROVE  IF p \in more THEN << succ[p], v >> \in R ELSE v = out[p]
  <2> SUFFICES ASSUME ~(IF p \in more THEN << succ[p], v >> \in R ELSE v = out[p]) PROVE FALSE
    OBVIOUS
  <2> DEFINE S == R \ {<< p, v >>}
  <2>1. S \in SUBSET (D \X V)
    BY <1>1
  <2>2. Results(S)
    <3> HIDE DEF R
    <3>1. ASSUME NEW q \in D, NEW w \in V
          PROVE  IF q \in more THEN << succ[q], w >> \in S => << q, w >> \in S
                               ELSE w = out[q] => << q, w >> \in S
      <4>1. IF q \in more THEN << succ[q], w >> \in R => << q, w >> \in R
                          ELSE w = out[q] => << q, w >> \in R
        BY <1>1
      <4>2. CASE q = p /\ w = v
        BY <4>1, <4>2
      <4>3. CASE ~(q = p /\ w = v)
        BY <4>1, <4>3
      <4> QED BY <4>2, <4>3
    <3> QED BY <3>1
  <2>3. << p, v >> \in S
    <3> HIDE DEF S, Results
    <3> QED BY <1>2, <2>1, <2>2
  <2> QED BY <2>3
<1>3. ASSUME NEW p \in D PROVE From(p) = IF p \in more THEN From(succ[p]) ELSE {out[p]}
  <2>0. succ[p] \in D /\ out[p] \in V
    OBVIOUS
  <2> HIDE DEF R
  <2>1. CASE p \in more
    <3>1. \A v \in V : << p, v >> \in R <=> << succ[p], v >> \in R
      BY <1>1, <1>2, <2>1
    <3> QED BY <2>1, <3>1
  <2>2. CASE p \notin more
    <3>1. \A v \in V : << p, v >> \in R <=> v = out[p]
      BY <1>1, <1>2, <2>2
    <3> QED BY <2>0, <2>2, <3>1
  <2> QED BY <2>1, <2>2
<1>4. \A v : Some({v}) = v
  BY DEF Some
<1> HIDE DEF From
<1>5. ASSUME NEW p \in D PROVE f[p] = IF p \in more THEN f[succ[p]] ELSE out[p]
  <2>0. succ[p] \in D
    OBVIOUS
  <2>1. CASE p \in more
    BY <1>3, <2>0, <2>1
  <2>2. CASE p \notin more
    BY <1>3, <1>4, <2>2
  <2> QED BY <2>1, <2>2
<1>6. f = [p \in D |-> f[p]]
  OBVIOUS
<1> HIDE DEF f
<1>7. Loops(f, D, more, succ, out)
  BY <1>5, <1>6 DEF Loops
<1> QED BY <1>7
=============================================================================
