---------------------------- MODULE KeccakFProofs ----------------------------
(***************************************************************************)
(* Proof that keccak256.c and sha3.c compute the permutation of FIPS 202   *)
(* on every state, and not only on those that TLC runs through.            *)
(*                                                                         *)
(* Theta, chi and iota are compared bit by bit: the exclusive or of lanes  *)
(* is the parity that the standard counts.  Rho and pi are the tables of   *)
(* the two programs against the walk of the standard over the lanes, iota  *)
(* is their constants against its shift register: both are computed here,  *)
(* move by move and round by round.                                        *)
(***************************************************************************)
EXTENDS KeccakF, NumberLemmas, FiniteSetTheorems

State == [Lanes -> SUBSET Bits]

\* Exclusive or, bit by bit.
LEMMA XorMember ==
    ASSUME NEW p, NEW q, NEW z
    PROVE  z \in xor(p, q) <=> ~(z \in p <=> z \in q)
BY DEF xor

LEMMA XorBits ==
    ASSUME NEW p \in SUBSET Bits, NEW q \in SUBSET Bits
    PROVE  xor(p, q) \in SUBSET Bits
BY DEF xor

\* A rotation moves every bit.
LEMMA RotationMoves ==
    ASSUME NEW q \in SUBSET Bits, NEW n \in 1..63
    PROVE  /\ ROTL64(q, n) = { (z + n) % 64 : z \in q }
           /\ ROTL64(q, n) \in SUBSET Bits
<1> DEFINE low == { b + n : b \in { i \in q : i + n < 64 } }
           high == { b - (64 - n) : b \in { i \in q : i >= 64 - n } }
           moved == { (z + n) % 64 : z \in q }
<1>1. \A i \in Bits : (i + n) % 64 = IF i + n < 64 THEN i + n ELSE i - (64 - n)
  BY DEF Bits
<1>2. ASSUME NEW z PROVE z \in xor(low, high) <=> z \in moved
  <2>1. z \in low => z \in moved /\ z \notin high
    <3> SUFFICES ASSUME NEW i \in q, i + n < 64, z = i + n PROVE z \in moved /\ z \notin high
      OBVIOUS
    <3>1. z \in moved BY <1>1
    <3>2. z \notin high BY DEF Bits
    <3> QED BY <3>1, <3>2
  <2>2. z \in high => z \in moved /\ z \notin low
    <3> SUFFICES ASSUME NEW i \in q, i >= 64 - n, z = i - (64 - n) PROVE z \in moved /\ z \notin low
      OBVIOUS
    <3>1. z \in moved BY <1>1 DEF Bits
    <3>2. z \notin low BY DEF Bits
    <3> QED BY <3>1, <3>2
  <2>3. z \in moved => z \in low \/ z \in high
    <3> SUFFICES ASSUME NEW i \in q, z = (i + n) % 64 PROVE z \in low \/ z \in high
      OBVIOUS
    <3>1. CASE i + n < 64 BY <3>1, <1>1
    <3>2. CASE ~(i + n < 64) BY <3>2, <1>1 DEF Bits
    <3> QED BY <3>1, <3>2
  <2> QED BY <2>1, <2>2, <2>3, XorMember
<1>3. ROTL64(q, n) = xor(low, high) BY DEF ROTL64
<1>4. moved \in SUBSET Bits BY DEF Bits
<1> HIDE DEF low, high, moved
<1>5. xor(low, high) = moved BY <1>2
<1> QED BY <1>3, <1>4, <1>5 DEF moved

\* The rotation by one bit, read backwards.
LEMMA RotationByOne ==
    ASSUME NEW q \in SUBSET Bits, NEW z \in Bits
    PROVE  z \in ROTL64(q, 1) <=> (z + 63) % 64 \in q
<1>1. ROTL64(q, 1) = { (i + 1) % 64 : i \in q } BY RotationMoves
<1>2. (z + 63) % 64 \in Bits /\ (((z + 63) % 64) + 1) % 64 = z BY DEF Bits
<1>3. \A i \in Bits : (i + 1) % 64 = z => (z + 63) % 64 = i BY DEF Bits
<1> QED BY <1>1, <1>2, <1>3

-----------------------------------------------------------------------------
(* Theta                                                                   *)

\* How many of five conditions hold.
Count(p) == IF p THEN 1 ELSE 0

\* One more condition in a count.
LEMMA AddToCount ==
    ASSUME NEW S, IsFiniteSet(S), NEW T, NEW y, y \notin S, NEW p \in BOOLEAN,
           p => T = S \cup {y}, ~p => T = S
    PROVE  IsFiniteSet(T) /\ Cardinality(T) = Cardinality(S) + Count(p)
<1>1. Cardinality(S) \in Nat BY FS_CardinalityType
<1>2. CASE p BY <1>2, FS_AddElement DEF Count
<1>3. CASE ~p BY <1>1, <1>3 DEF Count
<1> QED BY <1>2, <1>3

\* The number of ones in a column is the sum of five.
LEMMA OnesAdds ==
    ASSUME NEW s, NEW x, NEW z
    PROVE  Ones(s, x, z) = Count(z \in s[Lane(x, 0)]) + Count(z \in s[Lane(x, 1)])
               + Count(z \in s[Lane(x, 2)]) + Count(z \in s[Lane(x, 3)]) + Count(z \in s[Lane(x, 4)])
<1> DEFINE P(y) == z \in s[Lane(x, y)]
           Below(n) == { y \in 0..4 : y < n /\ P(y) }
<1>1. Below(0) = {} /\ IsFiniteSet(Below(0)) /\ Cardinality(Below(0)) = 0
  BY FS_EmptySet
<1>2. ASSUME NEW n \in 0..4, IsFiniteSet(Below(n))
      PROVE  IsFiniteSet(Below(n + 1)) /\ Cardinality(Below(n + 1)) = Cardinality(Below(n)) + Count(P(n))
  <2>1. n \notin Below(n) OBVIOUS
  <2>2. P(n) => Below(n + 1) = Below(n) \cup {n} OBVIOUS
  <2>3. ~P(n) => Below(n + 1) = Below(n) OBVIOUS
  <2>4. P(n) \in BOOLEAN OBVIOUS
  <2> HIDE DEF P, Below
  <2> QED BY <1>2, <2>1, <2>2, <2>3, <2>4, AddToCount
<1>3. Ones(s, x, z) = Cardinality(Below(5))
  <2>1. { y \in 0..4 : z \in s[Lane(x, y)] } = Below(5) OBVIOUS
  <2> QED BY <2>1 DEF Ones
<1>4. \A n \in 0..4 : Count(P(n)) \in Nat BY DEF Count
<1> HIDE DEF P, Below
<1>5. IsFiniteSet(Below(1)) /\ Cardinality(Below(1)) = 0 + Count(P(0)) BY <1>1, <1>2
<1>6. IsFiniteSet(Below(2)) /\ Cardinality(Below(2)) = Count(P(0)) + Count(P(1))
  BY <1>2, <1>4, <1>5
<1>7. IsFiniteSet(Below(3)) /\ Cardinality(Below(3)) = Count(P(0)) + Count(P(1)) + Count(P(2))
  BY <1>2, <1>4, <1>6
<1>8. IsFiniteSet(Below(4)) /\ Cardinality(Below(4)) = Count(P(0)) + Count(P(1)) + Count(P(2)) + Count(P(3))
  BY <1>2, <1>4, <1>7
<1>9. Cardinality(Below(5)) = Count(P(0)) + Count(P(1)) + Count(P(2)) + Count(P(3)) + Count(P(4))
  BY <1>2, <1>4, <1>8
<1> QED BY <1>3, <1>9 DEF P

\* The parity of a sum of conditions is their exclusive or.
Odd(n) == n % 2 = 1

LEMMA ParityAdds ==
    ASSUME NEW m \in Nat, NEW n \in Nat
    PROVE  Odd(m + n) <=> ~(Odd(m) <=> Odd(n))
BY DEF Odd

LEMMA CountOdd ==
    ASSUME NEW S, NEW z
    PROVE  Count(z \in S) \in Nat /\ (Odd(Count(z \in S)) <=> z \in S)
BY DEF Odd, Count

\* The parity of a column.
Column(s, x) == xor(s[x], xor(s[x + 5], xor(s[x + 10], xor(s[x + 15], s[x + 20]))))

\* Its parity is the exclusive or that both programs take of the five lanes.
LEMMA ColumnParity ==
    ASSUME NEW s, NEW x \in 0..9, NEW z
    PROVE  Ones(s, x, z) \in Nat /\ (Odd(Ones(s, x, z)) <=> z \in Column(s, x % 5))
<1> DEFINE c(y) == Count(z \in s[Lane(x, y)])
           w == x % 5
<1>1. /\ Lane(x, 0) = w /\ Lane(x, 1) = w + 5 /\ Lane(x, 2) = w + 10
      /\ Lane(x, 3) = w + 15 /\ Lane(x, 4) = w + 20
  BY DEF Lane
<1>2. \A y : c(y) \in Nat /\ (Odd(c(y)) <=> z \in s[Lane(x, y)])
  BY CountOdd
<1>3. Ones(s, x, z) = c(0) + c(1) + c(2) + c(3) + c(4) BY OnesAdds
<1>4. z \in Column(s, w) <=>
          ~(z \in s[w] <=> ~(z \in s[w + 5] <=> ~(z \in s[w + 10] <=> ~(z \in s[w + 15] <=> z \in s[w + 20]))))
  BY XorMember DEF Column
<1> HIDE DEF c, w
<1>5. c(0) \in Nat /\ c(1) \in Nat /\ c(2) \in Nat /\ c(3) \in Nat /\ c(4) \in Nat BY <1>2
<1>6. Ones(s, x, z) \in Nat BY <1>3, <1>5
<1>7. Odd(Ones(s, x, z)) <=>
          ~(Odd(c(0)) <=> ~(Odd(c(1)) <=> ~(Odd(c(2)) <=> ~(Odd(c(3)) <=> Odd(c(4))))))
  <2> DEFINE two == c(0) + c(1)
             three == two + c(2)
             four == three + c(3)
  <2>1. Odd(c(0) + c(1)) <=> ~(Odd(c(0)) <=> Odd(c(1))) BY <1>5, ParityAdds
  <2>2. two \in Nat /\ three \in Nat /\ four \in Nat BY <1>5
  <2>3. Ones(s, x, z) = four + c(4) BY <1>3
  <2> HIDE DEF two
  <2>4. Odd(two + c(2)) <=> ~(Odd(two) <=> Odd(c(2)))
    <3>1. two \in Nat BY <2>2
    <3>2. c(2) \in Nat BY <1>5
    <3> QED BY <3>1, <3>2, ParityAdds
  <2> HIDE DEF three
  <2>5. Odd(three + c(3)) <=> ~(Odd(three) <=> Odd(c(3)))
    <3>1. three \in Nat BY <2>2
    <3>2. c(3) \in Nat BY <1>5
    <3> QED BY <3>1, <3>2, ParityAdds
  <2> HIDE DEF four
  <2>6. Odd(four + c(4)) <=> ~(Odd(four) <=> Odd(c(4)))
    <3>1. four \in Nat BY <2>2
    <3>2. c(4) \in Nat BY <1>5
    <3> QED BY <3>1, <3>2, ParityAdds
  <2>7. Odd(two) <=> ~(Odd(c(0)) <=> Odd(c(1))) BY <2>1 DEF two
  <2>8. Odd(three) <=> ~(Odd(two) <=> Odd(c(2))) BY <2>4 DEF three
  <2>9. Odd(four) <=> ~(Odd(three) <=> Odd(c(3))) BY <2>5 DEF four
  <2> QED BY <2>3, <2>6, <2>7, <2>8, <2>9
<1>8. Odd(Ones(s, x, z)) <=>
          ~(z \in s[w] <=> ~(z \in s[w + 5] <=> ~(z \in s[w + 10] <=> ~(z \in s[w + 15] <=> z \in s[w + 20]))))
  BY <1>1, <1>2, <1>7
<1> QED BY <1>4, <1>6, <1>8 DEF w

LEMMA ColumnBits ==
    ASSUME NEW s \in State, NEW x \in 0..4
    PROVE  Column(s, x) \in SUBSET Bits
<1>1. /\ s[x] \in SUBSET Bits /\ s[x + 5] \in SUBSET Bits /\ s[x + 10] \in SUBSET Bits
      /\ s[x + 15] \in SUBSET Bits /\ s[x + 20] \in SUBSET Bits
  BY DEF State, Lanes
<1> QED BY <1>1, XorBits DEF Column

\* The bit z of lane l after theta.
ThetaBit(s, l, z) ==
    ~(z \in s[l] <=> ~(z \in Column(s, (l + 4) % 5) <=> (z + 63) % 64 \in Column(s, (l + 1) % 5)))

\* Theta of both programs is that of the standard.
LEMMA ThetaOfStandard ==
    ASSUME NEW s \in State
    PROVE  /\ keccak_theta(s) = StandardTheta(s)
           /\ Theta(s) = StandardTheta(s)
           /\ StandardTheta(s) \in State
<1>1. ASSUME NEW l \in Lanes
      PROVE  /\ StandardTheta(s)[l] \in SUBSET Bits
             /\ \A z \in Bits : z \in StandardTheta(s)[l] <=> ThetaBit(s, l, z)
  <2> DEFINE o(z) == Ones(s, X(l) + 4, z)
             p(z) == Ones(s, X(l) + 1, (z + 63) % 64)
             c(z) == Count(z \in s[l])
  <2>1. X(l) + 4 \in 0..9 /\ X(l) + 1 \in 0..9 /\ (X(l) + 4) % 5 = (l + 4) % 5 /\ (X(l) + 1) % 5 = (l + 1) % 5
    BY DEF X, Lanes
  <2>2. StandardTheta(s)[l] = { z \in Bits : (c(z) + o(z) + p(z)) % 2 = 1 }
    BY DEF StandardTheta, Count
  <2>3. ASSUME NEW z \in Bits
        PROVE  (c(z) + o(z) + p(z)) % 2 = 1 <=> ThetaBit(s, l, z)
    <3>1. c(z) \in Nat /\ (Odd(c(z)) <=> z \in s[l]) BY CountOdd
    <3>2. o(z) \in Nat /\ (Odd(o(z)) <=> z \in Column(s, (l + 4) % 5)) BY <2>1, ColumnParity
    <3>3. p(z) \in Nat /\ (Odd(p(z)) <=> (z + 63) % 64 \in Column(s, (l + 1) % 5))
      BY <2>1, ColumnParity
    <3> HIDE DEF c, o, p
    <3>4. Odd(c(z) + o(z) + p(z)) <=> ~(~(Odd(c(z)) <=> Odd(o(z))) <=> Odd(p(z)))
      <4>1. Odd(c(z) + o(z)) <=> ~(Odd(c(z)) <=> Odd(o(z))) BY <3>1, <3>2, ParityAdds
      <4>2. c(z) + o(z) \in Nat BY <3>1, <3>2
      <4> QED BY <4>1, <4>2, <3>3, ParityAdds
    <3>5. Odd(c(z) + o(z) + p(z)) <=> ThetaBit(s, l, z)
      BY <3>1, <3>2, <3>3, <3>4 DEF ThetaBit
    <3> QED BY <3>5 DEF Odd
  <2> HIDE DEF c, o, p
  <2> QED BY <2>2, <2>3
<1>2. ASSUME NEW l \in Lanes
      PROVE  /\ (l + 4) % 5 \in 0..4 /\ (l + 1) % 5 \in 0..4 /\ l % 5 \in 0..4
             /\ ((l % 5) + 4) % 5 = (l + 4) % 5 /\ ((l % 5) + 1) % 5 = (l + 1) % 5
  BY DEF Lanes
<1>3. ASSUME NEW l \in Lanes, NEW q,
             \/ q = xor(s[l], xor(ROTL64(Column(s, (l + 1) % 5), 1), Column(s, (l + 4) % 5)))
             \/ q = xor(s[l], xor(Column(s, (l + 4) % 5), ROTL64(Column(s, (l + 1) % 5), 1)))
      PROVE  q = StandardTheta(s)[l]
  <2>1. s[l] \in SUBSET Bits BY DEF State
  <2>2. Column(s, (l + 4) % 5) \in SUBSET Bits /\ Column(s, (l + 1) % 5) \in SUBSET Bits
    BY <1>2, ColumnBits
  <2>3. ROTL64(Column(s, (l + 1) % 5), 1) \in SUBSET Bits BY <2>2, RotationMoves
  <2>4. q \in SUBSET Bits BY <1>3, <2>1, <2>2, <2>3, XorBits
  <2>5. ASSUME NEW z \in Bits PROVE z \in q <=> ThetaBit(s, l, z)
    <3>1. z \in ROTL64(Column(s, (l + 1) % 5), 1) <=> (z + 63) % 64 \in Column(s, (l + 1) % 5)
      BY <2>2, RotationByOne
    <3> QED BY <1>3, <3>1, XorMember DEF ThetaBit
  <2> QED BY <1>1, <2>4, <2>5
<1>4. keccak_theta(s) = [l \in Lanes |->
          xor(s[l], xor(ROTL64(Column(s, (l + 1) % 5), 1), Column(s, (l + 4) % 5)))]
  <2> DEFINE C == [i \in 0..4 |-> Column(s, i)]
             D == [i \in 0..4 |-> xor(ROTL64(C[(i + 1) % 5], 1), C[(i + 4) % 5])]
  <2>1. keccak_theta(s) = [l \in Lanes |-> xor(s[l], D[l % 5])]
    BY Zenon DEF keccak_theta, Column
  <2>2. ASSUME NEW l \in Lanes
        PROVE  D[l % 5] = xor(ROTL64(Column(s, (l + 1) % 5), 1), Column(s, (l + 4) % 5))
    BY <1>2
  <2> HIDE DEF D
  <2> QED BY <2>1, <2>2
<1>5. Theta(s) = [l \in Lanes |->
          xor(s[l], xor(Column(s, (l + 4) % 5), ROTL64(Column(s, (l + 1) % 5), 1)))]
  <2> DEFINE C == [i \in 0..4 |-> Column(s, i)]
  <2>1. Theta(s) = [l \in Lanes |-> xor(s[l], xor(C[((l % 5) + 4) % 5], ROTL64(C[((l % 5) + 1) % 5], 1)))]
    BY Zenon DEF Theta, Column
  <2>2. ASSUME NEW l \in Lanes
        PROVE  C[((l % 5) + 4) % 5] = Column(s, (l + 4) % 5) /\ C[((l % 5) + 1) % 5] = Column(s, (l + 1) % 5)
    BY <1>2
  <2> HIDE DEF C
  <2> QED BY <2>1, <2>2
<1>6. StandardTheta(s) = [l \in Lanes |-> StandardTheta(s)[l]] BY DEF StandardTheta
<1>7. keccak_theta(s) = StandardTheta(s) BY <1>3, <1>4, <1>6
<1>8. Theta(s) = StandardTheta(s) BY <1>3, <1>5, <1>6
<1>9. StandardTheta(s) \in State BY <1>1, <1>6 DEF State
<1> QED BY <1>7, <1>8, <1>9

-----------------------------------------------------------------------------
(* Rho and pi.  The tables of the two programs and the walk of the standard *)
(* come to the same two: the lane that moves to lane l, and its rotation.   *)

Source == << 6, 12, 18, 24, 3, 9, 10, 16, 22, 1, 7, 13,
         19, 20, 4, 5, 11, 17, 23, 2, 8, 14, 15, 21 >>
Turn == << 44, 43, 21, 14, 28, 20, 3, 45, 61, 1, 6, 25,
         8, 18, 27, 36, 10, 15, 56, 62, 55, 39, 41, 2 >>
Rotated(s) == [l \in Lanes |-> IF l = 0 THEN s[0] ELSE ROTL64(s[Source[l]], Turn[l])]

\* Where a lane stands in each table.
PiPlace == << 1, 7, 19, 13, 18, 2, 23, 16, 3, 24, 22, 8,
         9, 5, 12, 17, 21, 20, 10, 6, 15, 4, 11, 14 >>
PilnPlace == << 24, 18, 6, 12, 7, 23, 2, 9, 22, 1, 3, 17,
         16, 20, 13, 8, 4, 5, 15, 19, 10, 21, 14, 11 >>
WalkOrder == << 1, 10, 7, 11, 17, 18, 3, 5, 16, 8, 21, 24,
         4, 15, 23, 19, 13, 12, 2, 20, 14, 22, 9, 6 >>
WalkPlace == << 1, 19, 7, 13, 8, 24, 3, 10, 23, 2, 4, 18,
         17, 21, 14, 9, 5, 6, 16, 20, 11, 22, 15, 12 >>

\* A place in a table without repetitions is the one that is chosen.
LEMMA PlaceChosen ==
    ASSUME NEW table, NEW place, \A i \in 1..24 : place[table[i]] = i,
           NEW i \in 1..24
    PROVE  (CHOOSE k \in 1..24 : table[k] = table[i]) = i
<1>1. \A k \in 1..24 : table[k] = table[i] <=> k = i OBVIOUS
<1> QED BY <1>1

LEMMA SourceLanes == \A l \in 1..24 : Source[l] \in 1..24 /\ Turn[l] \in 1..63
BY DEF Source, Turn

\* keccak_rho rotates all lanes in place, then keccak_pi moves them along the cycle.
LEMMA RhoPiOfKeccak ==
    ASSUME NEW s \in State
    PROVE  keccak_pi(keccak_rho(s)) = Rotated(s)
<1>1. \A i \in 1..24 : PiPlace[pi_transform[i]] = i BY DEF PiPlace, pi_transform
<1>2. \A l \in 1..24 : PiPlace[l] \in 1..24 /\ pi_transform[PiPlace[l]] = l
  BY DEF PiPlace, pi_transform
<1>3. \A l \in 1..24 : Source[l] = IF l = 10 THEN 1 ELSE pi_transform[PiPlace[l] + 1]
  BY DEF Source, PiPlace, pi_transform
<1>4. \A l \in 1..24 : rho_transform[Source[l]] = Turn[l]
  BY DEF Source, Turn, rho_transform
<1> DEFINE From(l) == CHOOSE i \in 1..24 : pi_transform[i] = l
           a == keccak_rho(s)
<1>5. ASSUME NEW l \in 1..24 PROVE From(l) = PiPlace[l]
  BY <1>1, <1>2, PlaceChosen
<1>6. keccak_pi(a) = [l \in Lanes |-> IF l = 0 THEN a[0]
                        ELSE IF l = 10 THEN a[1] ELSE a[pi_transform[From(l) + 1]]]
  BY Zenon DEF keccak_pi
<1>7. a[0] = s[0] /\ \A l \in 1..24 : a[l] = ROTL64(s[l], rho_transform[l])
  BY DEF keccak_rho, Lanes
<1> HIDE DEF From, a
<1>8. ASSUME NEW l \in Lanes
      PROVE  (IF l = 0 THEN a[0] ELSE IF l = 10 THEN a[1] ELSE a[pi_transform[From(l) + 1]])
             = IF l = 0 THEN s[0] ELSE ROTL64(s[Source[l]], Turn[l])
  <2>1. CASE l = 0 BY <2>1, <1>7
  <2>2. CASE l # 0
    <3>1. l \in 1..24 BY <2>2 DEF Lanes
    <3>2. (IF l = 10 THEN a[1] ELSE a[pi_transform[From(l) + 1]]) = a[Source[l]]
      BY <3>1, <1>3, <1>5
    <3>3. a[Source[l]] = ROTL64(s[Source[l]], Turn[l]) BY <3>1, <1>4, <1>7, SourceLanes
    <3> QED BY <2>2, <3>2, <3>3
  <2> QED BY <2>1, <2>2
<1>9. keccak_pi(a) = Rotated(s) BY <1>6, <1>8 DEF Rotated
<1> QED BY <1>9 DEF a

\* The loop of sha3.c does both at once, and along the cycle in the other direction.
LEMMA RhoPiOfSha3 ==
    ASSUME NEW s \in State
    PROVE  RhoPi(s) = Rotated(s)
<1>1. \A i \in 1..24 : PilnPlace[keccakf_piln[i]] = i BY DEF PilnPlace, keccakf_piln
<1>2. \A l \in 1..24 : PilnPlace[l] \in 1..24 /\ keccakf_piln[PilnPlace[l]] = l
  BY DEF PilnPlace, keccakf_piln
<1>3. \A l \in 1..24 : Source[l] = IF PilnPlace[l] = 1 THEN 1 ELSE keccakf_piln[PilnPlace[l] - 1]
  BY DEF Source, PilnPlace, keccakf_piln
<1>4. \A l \in 1..24 : keccakf_rotc[PilnPlace[l]] = Turn[l]
  BY DEF PilnPlace, Turn, keccakf_rotc
<1> DEFINE At(l) == CHOOSE i \in 1..24 : keccakf_piln[i] = l
           Taken(i) == IF i = 1 THEN s[1] ELSE s[keccakf_piln[i - 1]]
<1>5. ASSUME NEW l \in 1..24 PROVE At(l) = PilnPlace[l]
  BY <1>1, <1>2, PlaceChosen
<1>6. RhoPi(s) = [l \in Lanes |-> IF l = 0 THEN s[0] ELSE ROTL64(Taken(At(l)), keccakf_rotc[At(l)])]
  BY Zenon DEF RhoPi
<1> HIDE DEF At
<1>7. ASSUME NEW l \in Lanes
      PROVE  (IF l = 0 THEN s[0] ELSE ROTL64(Taken(At(l)), keccakf_rotc[At(l)]))
             = IF l = 0 THEN s[0] ELSE ROTL64(s[Source[l]], Turn[l])
  <2>1. CASE l = 0 BY <2>1
  <2>2. CASE l # 0
    <3>1. l \in 1..24 BY <2>2 DEF Lanes
    <3>2. Taken(At(l)) = s[Source[l]] BY <3>1, <1>3, <1>5
    <3> QED BY <2>2, <3>1, <3>2, <1>4, <1>5
  <2> QED BY <2>1, <2>2
<1> HIDE DEF Taken
<1> QED BY <1>6, <1>7 DEF Rotated

\* The walk of the standard is a function, and this one.
LEMMA WalkIs == \A t \in 0..23 : Walked[t] = WalkOrder[t + 1]
<1> DEFINE Move(l) == CHOOSE m \in { Lane(Y(k), 2 * X(k) + 3 * Y(k)) : k \in {l} } : TRUE
           IsWalk(w) == w = [t \in 0..23 |-> IF t = 0 THEN Lane(1, 0) ELSE Move(w[t - 1])]
           order == [t \in 0..23 |-> WalkOrder[t + 1]]
<1>1. ASSUME NEW l PROVE Move(l) = Lane(Y(l), 2 * X(l) + 3 * Y(l))
  OBVIOUS
<1> HIDE DEF Move
<1>2. WalkOrder[1] = Lane(1, 0) /\ \A t \in 1..23 : WalkOrder[t + 1] = Move(WalkOrder[t])
  <2>1. WalkOrder[1] = Lane(1, 0) BY DEF WalkOrder, Lane
  <2>2. \A t \in 1..23 : WalkOrder[t + 1] = Lane(Y(WalkOrder[t]), 2 * X(WalkOrder[t]) + 3 * Y(WalkOrder[t]))
    BY DEF WalkOrder, Lane, X, Y
  <2> QED BY <1>1, <2>1, <2>2
<1>3. IsWalk(order) BY <1>2
<1>4. Walked = CHOOSE w : IsWalk(w) BY Zenon DEF Walked, Move
<1>5. IsWalk(Walked) BY <1>3, <1>4
<1>6. Walked[0] = WalkOrder[1] BY <1>2, <1>5
<1>7. ASSUME NEW t \in 1..23, Walked[t - 1] = WalkOrder[t] PROVE Walked[t] = WalkOrder[t + 1]
  BY <1>2, <1>5, <1>7
<1> HIDE DEF IsWalk
<1> QED
  <2> DEFINE W(t) == Walked[t] = WalkOrder[t + 1]
  <2>1. W(0) BY <1>6
  <2>2. \A t \in 1..23 : W(t - 1) => W(t) BY <1>7
  <2> HIDE DEF W
  <2>3. W(1) BY <2>1, <2>2
  <2>4. W(2) BY <2>3, <2>2
  <2>5. W(3) BY <2>4, <2>2
  <2>6. W(4) BY <2>5, <2>2
  <2>7. W(5) BY <2>6, <2>2
  <2>8. W(6) BY <2>7, <2>2
  <2>9. W(7) BY <2>8, <2>2
  <2>10. W(8) BY <2>9, <2>2
  <2>11. W(9) BY <2>10, <2>2
  <2>12. W(10) BY <2>11, <2>2
  <2>13. W(11) BY <2>12, <2>2
  <2>14. W(12) BY <2>13, <2>2
  <2>15. W(13) BY <2>14, <2>2
  <2>16. W(14) BY <2>15, <2>2
  <2>17. W(15) BY <2>16, <2>2
  <2>18. W(16) BY <2>17, <2>2
  <2>19. W(17) BY <2>18, <2>2
  <2>20. W(18) BY <2>19, <2>2
  <2>21. W(19) BY <2>20, <2>2
  <2>22. W(20) BY <2>21, <2>2
  <2>23. W(21) BY <2>22, <2>2
  <2>24. W(22) BY <2>23, <2>2
  <2>25. W(23) BY <2>24, <2>2
  <2> QED
    BY <2>1, <2>3, <2>4, <2>5, <2>6, <2>7, <2>8, <2>9, <2>10, <2>11, <2>12, <2>13, <2>14,
       <2>15, <2>16, <2>17, <2>18, <2>19, <2>20, <2>21, <2>22, <2>23, <2>24, <2>25 DEF W

\* The rotations of the standard.
LEMMA OffsetIs == \A l \in 1..24 : Offset[l] = rho_transform[l]
<1>1. \A i \in 1..24 : WalkPlace[WalkOrder[i]] = i BY DEF WalkPlace, WalkOrder
<1>2. \A l \in 1..24 : WalkPlace[l] \in 1..24 /\ WalkOrder[WalkPlace[l]] = l
  BY DEF WalkPlace, WalkOrder
<1>3. \A l \in 1..24 : rho_transform[l] = ((WalkPlace[l] * (WalkPlace[l] + 1)) \div 2) % 64
  BY DEF WalkPlace, rho_transform
<1> DEFINE Time(l) == CHOOSE u \in 0..23 : Walked[u] = l
<1>4. ASSUME NEW l \in 1..24 PROVE Time(l) = WalkPlace[l] - 1
  <2>1. \A u \in 0..23 : Walked[u] = l <=> u = WalkPlace[l] - 1 BY <1>1, <1>2, WalkIs
  <2>2. WalkPlace[l] - 1 \in 0..23 BY <1>2
  <2> QED BY <2>1, <2>2
<1>5. Offset = [l \in Lanes |-> IF l = 0 THEN 0 ELSE (((Time(l) + 1) * (Time(l) + 2)) \div 2) % 64]
  BY Zenon DEF Offset
<1> HIDE DEF Time
<1>6. ASSUME NEW l \in 1..24 PROVE Offset[l] = rho_transform[l]
  <2>1. Offset[l] = (((Time(l) + 1) * (Time(l) + 2)) \div 2) % 64 BY <1>5 DEF Lanes
  <2>2. Time(l) + 1 = WalkPlace[l] /\ Time(l) + 2 = WalkPlace[l] + 1 BY <1>2, <1>4
  <2> QED BY <1>3, <2>1, <2>2
<1> QED BY <1>6

\* Rho and pi of the standard are those tables.
LEMMA RhoPiOfStandard ==
    ASSUME NEW s \in State
    PROVE  StandardRhoPi(s) = Rotated(s) /\ StandardRhoPi(s) \in State
<1>1. \A l \in 1..24 : Lane(X(l) + 3 * Y(l), X(l)) = Source[l] BY DEF Lane, X, Y, Source
<1>2. Lane(X(0) + 3 * Y(0), X(0)) = 0 BY DEF Lane, X, Y
<1>3. \A l \in 1..24 : Offset[Source[l]] = Turn[l]
  <2>1. \A l \in 1..24 : rho_transform[Source[l]] = Turn[l] BY DEF Source, Turn, rho_transform
  <2> QED BY <2>1, OffsetIs, SourceLanes
<1>4. Offset[0] = 0 BY DEF Offset, Lanes
<1> DEFINE From(l) == Lane(X(l) + 3 * Y(l), X(l))
           moved(l) == { (z + Offset[From(l)]) % 64 : z \in s[From(l)] }
<1>5. StandardRhoPi(s) = [l \in Lanes |-> moved(l)] BY Zenon DEF StandardRhoPi
<1>6. ASSUME NEW l \in Lanes
      PROVE  /\ moved(l) = IF l = 0 THEN s[0] ELSE ROTL64(s[Source[l]], Turn[l])
             /\ moved(l) \in SUBSET Bits
  <2>1. CASE l = 0
    <3>1. s[0] \in SUBSET Bits BY DEF State, Lanes
    <3>2. moved(0) = { (z + 0) % 64 : z \in s[0] } BY <1>2, <1>4
    <3>3. { (z + 0) % 64 : z \in s[0] } = s[0]
      <4>1. \A z \in s[0] : (z + 0) % 64 = z BY <3>1 DEF Bits
      <4> QED BY <4>1
    <3> QED BY <2>1, <3>1, <3>2, <3>3
  <2>2. CASE l # 0
    <3>1. l \in 1..24 BY <2>2 DEF Lanes
    <3>2. s[Source[l]] \in SUBSET Bits BY <3>1, SourceLanes DEF State, Lanes
    <3>3. moved(l) = { (z + Turn[l]) % 64 : z \in s[Source[l]] } BY <3>1, <1>1, <1>3
    <3> HIDE DEF moved
    <3> QED BY <2>2, <3>1, <3>2, <3>3, SourceLanes, RotationMoves
  <2> QED BY <2>1, <2>2
<1> HIDE DEF moved
<1>7. StandardRhoPi(s) = Rotated(s) BY <1>5, <1>6 DEF Rotated
<1>8. StandardRhoPi(s) \in State BY <1>5, <1>6 DEF State
<1> QED BY <1>7, <1>8

-----------------------------------------------------------------------------
(* Chi and iota.  The register of the standard, and the constants.          *)

\* A turn of the register.
Shift(r) == { c \in 0..7 : (c - 1 \in r) # (7 \in r /\ c \in {0, 4, 5, 6}) }

\* A turn, bit by bit.
LEMMA ShiftBits ==
    ASSUME NEW r \in SUBSET (0..7)
    PROVE  /\ Shift(r) \in SUBSET (0..7)
           /\ 0 \in Shift(r) <=> 7 \in r
           /\ 1 \in Shift(r) <=> 0 \in r
           /\ 2 \in Shift(r) <=> 1 \in r
           /\ 3 \in Shift(r) <=> 2 \in r
           /\ 4 \in Shift(r) <=> ~(3 \in r <=> 7 \in r)
           /\ 5 \in Shift(r) <=> ~(4 \in r <=> 7 \in r)
           /\ 6 \in Shift(r) <=> ~(5 \in r <=> 7 \in r)
           /\ 7 \in Shift(r) <=> 6 \in r
<1>1. \A c \in 0..7 : c \in Shift(r) <=> ~(c - 1 \in r <=> (7 \in r /\ c \in {0, 4, 5, 6}))
  <2> TAKE c \in 0..7
  <2> DEFINE p == c - 1 \in r
             u == 7 \in r /\ c \in {0, 4, 5, 6}
  <2>1. c \in Shift(r) <=> (p # u) BY DEF Shift
  <2>2. CASE p BY <2>1, <2>2
  <2>3. CASE ~p BY <2>1, <2>3
  <2> QED BY <2>2, <2>3
<1>2. -1 \notin r OBVIOUS
<1> QED BY <1>1, <1>2 DEF Shift

\* The register is a function, which turns from one step to the next.
LEMMA RegisterTurns ==
    /\ Register \in [0..167 -> SUBSET (0..7)] /\ Register[0] = {0}
    /\ \A t \in 1..167 : Register[t] = Shift(Register[t - 1])
<1> DEFINE T == SUBSET (0..7)
           Moved(x) == CHOOSE q \in { { c \in 0..7 : (c - 1 \in r) # (7 \in r /\ c \in {0, 4, 5, 6}) }
                                       : r \in {x} } : TRUE
           IsRegister(f) == f = [t \in 0..167 |-> IF t = 0 THEN {0} ELSE Moved(f[t - 1])]
           g == [p \in (1..167) \X T |-> Shift(p[2])]
<1>1. ASSUME NEW x PROVE Moved(x) = Shift(x)
  <2>1. { { c \in 0..7 : (c - 1 \in r) # (7 \in r /\ c \in {0, 4, 5, 6}) } : r \in {x} } = {Shift(x)}
    BY Zenon DEF Shift
  <2> QED BY <2>1
<1>2. Register = CHOOSE f : IsRegister(f) BY Zenon DEF Register
<1> HIDE DEF Moved
<1>3. LoopBody(g, 167, T)
  <2>1. \A x \in T : Shift(x) \in T BY ShiftBits
  <2> QED BY <2>1 DEF LoopBody
<1>4. PICK f : LoopTurns(f, g, {0}, 167, T)
  <2>1. {0} \in T OBVIOUS
  <2> HIDE DEF g, T
  <2> QED BY <1>3, <2>1, TurnsExist
<1>5. /\ f \in [0..167 -> T] /\ f[0] = {0}
      /\ \A i \in 1..167 : f[i] = g[<< i, f[i - 1] >>]
  BY <1>4 DEF LoopTurns
<1>6. ASSUME NEW t \in 1..167 PROVE f[t] = Shift(f[t - 1])
  <2>0. t - 1 \in 0..167 OBVIOUS
  <2>1. f[t - 1] \in T
    <3> HIDE DEF T
    <3> QED BY <1>5, <2>0
  <2>2. << t, f[t - 1] >> \in (1..167) \X T BY <2>1
  <2>3. g[<< t, f[t - 1] >>] = Shift(f[t - 1]) BY <2>2
  <2> QED BY <1>5, <2>3
<1>7. IsRegister(f)
  <2>1. \A t \in 0..167 : f[t] = IF t = 0 THEN {0} ELSE Moved(f[t - 1])
    <3> TAKE t \in 0..167
    <3>1. CASE t = 0 BY <1>5, <3>1
    <3>2. CASE t # 0
      <4>1. t \in 1..167 BY <3>2
      <4>2. f[t] = Shift(f[t - 1]) BY <1>6, <4>1
      <4> QED BY <1>1, <3>2, <4>2
    <3> QED BY <3>1, <3>2
  <2> QED BY <1>5, <2>1
<1>8. IsRegister(Register)
  <2> HIDE DEF IsRegister
  <2> QED BY <1>2, <1>7
<1>9. Register[0] = {0} BY <1>8
<1>10. ASSUME NEW t \in 1..167 PROVE Register[t] = Shift(Register[t - 1])
  BY <1>1, <1>8
<1>11. ASSUME NEW t \in 0..167 PROVE Register[t] \in T
  <2> DEFINE D == { i \in 0..167 : Register[i] \in T }
  <2>1. 0 \in D BY <1>9
  <2>2. ASSUME NEW i \in 0..166, i \in D PROVE i + 1 \in D
    <3>1. Register[i + 1] = Shift(Register[i]) BY <1>10
    <3> QED BY <2>2, <3>1, ShiftBits
  <2>3. 0..167 \subseteq D
    <3> HIDE DEF D
    <3>1. \A i \in 0..(167 - 1) : i \in D => i + 1 \in D BY <2>2
    <3> QED BY <2>1, <3>1, InductionUpTo
  <2> QED BY <2>3
<1>12. Register \in [0..167 -> T]
  <2>1. Register = [t \in 0..167 |-> Register[t]] BY <1>8
  <2> HIDE DEF IsRegister, T
  <2> QED BY <1>11, <2>1
<1> QED BY <1>9, <1>10, <1>12

\* Seven turns, of which a round takes the lowest bits.
LEMMA SevenTurns ==
    ASSUME NEW t \in 0..161, NEW q, q = Register[t]
    PROVE  /\ 0 \in Register[t + 0] <=> 0 \in q
           /\ 0 \in Register[t + 1] <=> 7 \in q
           /\ 0 \in Register[t + 2] <=> 6 \in q
           /\ 0 \in Register[t + 3] <=> ~(5 \in q <=> 7 \in q)
           /\ 0 \in Register[t + 4] <=> ~(4 \in q <=> ~(6 \in q <=> 7 \in q))
           /\ 0 \in Register[t + 5] <=> ~(3 \in q <=> ~(5 \in q <=> 6 \in q))
           /\ 0 \in Register[t + 6] <=> ~(2 \in q <=> ~(4 \in q <=> 5 \in q))
           /\ t < 161 => /\ Register[t + 7] \in SUBSET (0..7)
                         /\ 0 \in Register[t + 7] <=> ~(1 \in q <=> ~(3 \in q <=> 4 \in q))
                         /\ 1 \in Register[t + 7] <=> ~(2 \in q <=> ~(4 \in q <=> 5 \in q))
                         /\ 2 \in Register[t + 7] <=> ~(3 \in q <=> ~(5 \in q <=> 6 \in q))
                         /\ 3 \in Register[t + 7] <=> ~(4 \in q <=> ~(6 \in q <=> 7 \in q))
                         /\ 4 \in Register[t + 7] <=> ~(1 \in q <=> ~(3 \in q <=> ~(4 \in q <=> ~(5 \in q <=> 7 \in q))))
                         /\ 5 \in Register[t + 7] <=> ~(1 \in q <=> ~(2 \in q <=> ~(3 \in q <=> ~(5 \in q <=> 6 \in q))))
                         /\ 6 \in Register[t + 7] <=> ~(1 \in q <=> ~(2 \in q <=> ~(6 \in q <=> 7 \in q)))
                         /\ 7 \in Register[t + 7] <=> ~(0 \in q <=> ~(2 \in q <=> ~(3 \in q <=> 7 \in q)))
<1> DEFINE B(u, c) == c \in Register[u]
<1>1. ASSUME NEW u \in 0..166
      PROVE  /\ B(u + 1, 0) <=> B(u, 7)
             /\ B(u + 1, 1) <=> B(u, 0)
             /\ B(u + 1, 2) <=> B(u, 1)
             /\ B(u + 1, 3) <=> B(u, 2)
             /\ B(u + 1, 4) <=> ~(B(u, 3) <=> B(u, 7))
             /\ B(u + 1, 5) <=> ~(B(u, 4) <=> B(u, 7))
             /\ B(u + 1, 6) <=> ~(B(u, 5) <=> B(u, 7))
             /\ B(u + 1, 7) <=> B(u, 6)
  <2>1. Register[u] \in SUBSET (0..7) BY RegisterTurns
  <2>2. Register[u + 1] = Shift(Register[u]) BY RegisterTurns
  <2> QED BY <2>1, <2>2, ShiftBits
<1> DEFINE Turned(m, n) ==
              /\ B(n, 0) <=> B(m, 7)
              /\ B(n, 1) <=> B(m, 0)
              /\ B(n, 2) <=> B(m, 1)
              /\ B(n, 3) <=> B(m, 2)
              /\ B(n, 4) <=> ~(B(m, 3) <=> B(m, 7))
              /\ B(n, 5) <=> ~(B(m, 4) <=> B(m, 7))
              /\ B(n, 6) <=> ~(B(m, 5) <=> B(m, 7))
              /\ B(n, 7) <=> B(m, 6)
<1>2. \A u \in 0..166 : Turned(u, u + 1) BY <1>1
<1>3. q = Register[t + 0] BY RegisterTurns
<1> HIDE DEF Turned
<1>4. Turned(t + 0, t + 1)
  <2>1. t + 0 \in 0..166 /\ (t + 0) + 1 = t + 1 OBVIOUS
  <2> QED BY <1>2, <2>1
<1>5. Turned(t + 1, t + 2)
  <2>1. t + 1 \in 0..166 /\ (t + 1) + 1 = t + 2 OBVIOUS
  <2> QED BY <1>2, <2>1
<1>6. Turned(t + 2, t + 3)
  <2>1. t + 2 \in 0..166 /\ (t + 2) + 1 = t + 3 OBVIOUS
  <2> QED BY <1>2, <2>1
<1>7. Turned(t + 3, t + 4)
  <2>1. t + 3 \in 0..166 /\ (t + 3) + 1 = t + 4 OBVIOUS
  <2> QED BY <1>2, <2>1
<1>8. Turned(t + 4, t + 5)
  <2>1. t + 4 \in 0..166 /\ (t + 4) + 1 = t + 5 OBVIOUS
  <2> QED BY <1>2, <2>1
<1>9. Turned(t + 5, t + 6)
  <2>1. t + 5 \in 0..166 /\ (t + 5) + 1 = t + 6 OBVIOUS
  <2> QED BY <1>2, <2>1
<1>10. t < 161 => Turned(t + 6, t + 7)
  <2>1. t < 161 => t + 6 \in 0..166 /\ (t + 6) + 1 = t + 7 OBVIOUS
  <2> QED BY <1>2, <2>1
<1>11. t < 161 => Register[t + 7] \in SUBSET (0..7) BY RegisterTurns
<1>12. \A c : c \in q <=> B(t + 0, c) BY <1>3
<1>13. 0 \in Register[t + 0] <=> 0 \in q
  BY <1>12 DEF Turned
<1>14. 0 \in Register[t + 1] <=> 7 \in q
  BY <1>12, <1>4 DEF Turned
<1>15. 0 \in Register[t + 2] <=> 6 \in q
  BY <1>12, <1>4, <1>5 DEF Turned
<1>16. 0 \in Register[t + 3] <=> ~(5 \in q <=> 7 \in q)
  BY <1>12, <1>4, <1>5, <1>6 DEF Turned
<1>17. 0 \in Register[t + 4] <=> ~(4 \in q <=> ~(6 \in q <=> 7 \in q))
  BY <1>12, <1>4, <1>5, <1>6, <1>7 DEF Turned
<1>18. 0 \in Register[t + 5] <=> ~(3 \in q <=> ~(5 \in q <=> 6 \in q))
  BY <1>12, <1>4, <1>5, <1>6, <1>7, <1>8 DEF Turned
<1>19. 0 \in Register[t + 6] <=> ~(2 \in q <=> ~(4 \in q <=> 5 \in q))
  BY <1>12, <1>4, <1>5, <1>6, <1>7, <1>8, <1>9 DEF Turned
<1>20. t < 161 => (0 \in Register[t + 7] <=> ~(1 \in q <=> ~(3 \in q <=> 4 \in q)))
  BY <1>12, <1>4, <1>5, <1>6, <1>7, <1>8, <1>9, <1>10 DEF Turned
<1>21. t < 161 => (1 \in Register[t + 7] <=> ~(2 \in q <=> ~(4 \in q <=> 5 \in q)))
  BY <1>12, <1>4, <1>5, <1>6, <1>7, <1>8, <1>9, <1>10 DEF Turned
<1>22. t < 161 => (2 \in Register[t + 7] <=> ~(3 \in q <=> ~(5 \in q <=> 6 \in q)))
  BY <1>12, <1>4, <1>5, <1>6, <1>7, <1>8, <1>9, <1>10 DEF Turned
<1>23. t < 161 => (3 \in Register[t + 7] <=> ~(4 \in q <=> ~(6 \in q <=> 7 \in q)))
  BY <1>12, <1>4, <1>5, <1>6, <1>7, <1>8, <1>9, <1>10 DEF Turned
<1>24. t < 161 => (4 \in Register[t + 7] <=> ~(1 \in q <=> ~(3 \in q <=> ~(4 \in q <=> ~(5 \in q <=> 7 \in q)))))
  BY <1>12, <1>4, <1>5, <1>6, <1>7, <1>8, <1>9, <1>10 DEF Turned
<1>25. t < 161 => (5 \in Register[t + 7] <=> ~(1 \in q <=> ~(2 \in q <=> ~(3 \in q <=> ~(5 \in q <=> 6 \in q)))))
  BY <1>12, <1>4, <1>5, <1>6, <1>7, <1>8, <1>9, <1>10 DEF Turned
<1>26. t < 161 => (6 \in Register[t + 7] <=> ~(1 \in q <=> ~(2 \in q <=> ~(6 \in q <=> 7 \in q))))
  BY <1>12, <1>4, <1>5, <1>6, <1>7, <1>8, <1>9, <1>10 DEF Turned
<1>27. t < 161 => (7 \in Register[t + 7] <=> ~(0 \in q <=> ~(2 \in q <=> ~(3 \in q <=> 7 \in q))))
  BY <1>12, <1>4, <1>5, <1>6, <1>7, <1>8, <1>9, <1>10 DEF Turned
<1> HIDE DEF B
<1> QED
  BY <1>11, <1>13, <1>14, <1>15, <1>16, <1>17, <1>18, <1>19, <1>20, <1>21, <1>22, <1>23,
     <1>24, <1>25, <1>26, <1>27

\* The lowest bits of the seven turns from q, and the register after them.
Lowest(q) == { k \in 0..6 :
    \/ k = 0 /\ 0 \in q
    \/ k = 1 /\ 7 \in q
    \/ k = 2 /\ 6 \in q
    \/ k = 3 /\ (~(5 \in q <=> 7 \in q))
    \/ k = 4 /\ (~(4 \in q <=> ~(6 \in q <=> 7 \in q)))
    \/ k = 5 /\ (~(3 \in q <=> ~(5 \in q <=> 6 \in q)))
    \/ k = 6 /\ (~(2 \in q <=> ~(4 \in q <=> 5 \in q))) }
After(q) == { c \in 0..7 :
    \/ c = 0 /\ ~(1 \in q <=> ~(3 \in q <=> 4 \in q))
    \/ c = 1 /\ ~(2 \in q <=> ~(4 \in q <=> 5 \in q))
    \/ c = 2 /\ ~(3 \in q <=> ~(5 \in q <=> 6 \in q))
    \/ c = 3 /\ ~(4 \in q <=> ~(6 \in q <=> 7 \in q))
    \/ c = 4 /\ ~(1 \in q <=> ~(3 \in q <=> ~(4 \in q <=> ~(5 \in q <=> 7 \in q))))
    \/ c = 5 /\ ~(1 \in q <=> ~(2 \in q <=> ~(3 \in q <=> ~(5 \in q <=> 6 \in q))))
    \/ c = 6 /\ ~(1 \in q <=> ~(2 \in q <=> ~(6 \in q <=> 7 \in q)))
    \/ c = 7 /\ ~(0 \in q <=> ~(2 \in q <=> ~(3 \in q <=> 7 \in q))) }

LEMMA RoundTurns ==
    ASSUME NEW r \in 0..23
    PROVE  /\ { k \in 0..6 : 0 \in Register[k + 7 * r] } = Lowest(Register[7 * r])
           /\ r < 23 => Register[7 * (r + 1)] = After(Register[7 * r])
<1> DEFINE t == 7 * r
           q == Register[t]
<1>1. t \in 0..161 OBVIOUS
<1> HIDE DEF t, q
<1>2. 0 \in Register[0 + t] <=> 0 \in q
  <2>1. 0 + t = t + 0 BY <1>1
  <2> QED BY <1>1, <2>1, SevenTurns DEF q
<1>3. 0 \in Register[1 + t] <=> 7 \in q
  <2>1. 1 + t = t + 1 BY <1>1
  <2> QED BY <1>1, <2>1, SevenTurns DEF q
<1>4. 0 \in Register[2 + t] <=> 6 \in q
  <2>1. 2 + t = t + 2 BY <1>1
  <2> QED BY <1>1, <2>1, SevenTurns DEF q
<1>5. 0 \in Register[3 + t] <=> ~(5 \in q <=> 7 \in q)
  <2>1. 3 + t = t + 3 BY <1>1
  <2> QED BY <1>1, <2>1, SevenTurns DEF q
<1>6. 0 \in Register[4 + t] <=> ~(4 \in q <=> ~(6 \in q <=> 7 \in q))
  <2>1. 4 + t = t + 4 BY <1>1
  <2> QED BY <1>1, <2>1, SevenTurns DEF q
<1>7. 0 \in Register[5 + t] <=> ~(3 \in q <=> ~(5 \in q <=> 6 \in q))
  <2>1. 5 + t = t + 5 BY <1>1
  <2> QED BY <1>1, <2>1, SevenTurns DEF q
<1>8. 0 \in Register[6 + t] <=> ~(2 \in q <=> ~(4 \in q <=> 5 \in q))
  <2>1. 6 + t = t + 6 BY <1>1
  <2> QED BY <1>1, <2>1, SevenTurns DEF q
<1>9. { k \in 0..6 : 0 \in Register[k + t] } = Lowest(q)
  <2>1. ASSUME NEW k \in 0..6 PROVE 0 \in Register[k + t] <=> k \in Lowest(q)
    <3>1. k = 0 \/ k = 1 \/ k = 2 \/ k = 3 \/ k = 4 \/ k = 5 \/ k = 6 OBVIOUS
    <3> QED BY <3>1, <1>2, <1>3, <1>4, <1>5, <1>6, <1>7, <1>8 DEF Lowest
  <2>2. Lowest(q) \subseteq 0..6 BY DEF Lowest
  <2> QED BY <2>1, <2>2
<1>10. ASSUME t < 161 PROVE Register[t + 7] = After(q)
  <2>1. Register[t + 7] \in SUBSET (0..7) BY <1>1, <1>10, RegisterTurns
  <2>2. 0 \in Register[t + 7] <=> ~(1 \in q <=> ~(3 \in q <=> 4 \in q))
    BY <1>1, <1>10, SevenTurns DEF q
  <2>3. 1 \in Register[t + 7] <=> ~(2 \in q <=> ~(4 \in q <=> 5 \in q))
    BY <1>1, <1>10, SevenTurns DEF q
  <2>4. 2 \in Register[t + 7] <=> ~(3 \in q <=> ~(5 \in q <=> 6 \in q))
    BY <1>1, <1>10, SevenTurns DEF q
  <2>5. 3 \in Register[t + 7] <=> ~(4 \in q <=> ~(6 \in q <=> 7 \in q))
    BY <1>1, <1>10, SevenTurns DEF q
  <2>6. 4 \in Register[t + 7] <=> ~(1 \in q <=> ~(3 \in q <=> ~(4 \in q <=> ~(5 \in q <=> 7 \in q))))
    BY <1>1, <1>10, SevenTurns DEF q
  <2>7. 5 \in Register[t + 7] <=> ~(1 \in q <=> ~(2 \in q <=> ~(3 \in q <=> ~(5 \in q <=> 6 \in q))))
    BY <1>1, <1>10, SevenTurns DEF q
  <2>8. 6 \in Register[t + 7] <=> ~(1 \in q <=> ~(2 \in q <=> ~(6 \in q <=> 7 \in q)))
    BY <1>1, <1>10, SevenTurns DEF q
  <2>9. 7 \in Register[t + 7] <=> ~(0 \in q <=> ~(2 \in q <=> ~(3 \in q <=> 7 \in q)))
    BY <1>1, <1>10, SevenTurns DEF q
  <2>10. ASSUME NEW c \in 0..7 PROVE c \in Register[t + 7] <=> c \in After(q)
    <3>1. c = 0 \/ c = 1 \/ c = 2 \/ c = 3 \/ c = 4 \/ c = 5 \/ c = 6 \/ c = 7 OBVIOUS
    <3> QED BY <3>1, <2>2, <2>3, <2>4, <2>5, <2>6, <2>7, <2>8, <2>9 DEF After
  <2>11. After(q) \subseteq 0..7 BY DEF After
  <2> QED BY <2>1, <2>10, <2>11
<1>11. r < 23 => t < 161 /\ 7 * (r + 1) = t + 7 BY DEF t
<1>12. r < 23 => Register[7 * (r + 1)] = After(q) BY <1>10, <1>11
<1> QED BY <1>9, <1>12 DEF t, q

\* The register at the start of each round, and what it gives in the round:
\* the bits 2^k - 1 of the round constant.
RegisterAt == <<
    {0}, {7}, {3, 4, 6, 7}, {1, 3, 4},
    {0, 1, 2, 3, 4, 6, 7}, {0, 3}, {0, 2, 4, 5}, {0, 1, 2, 3, 6},
    {1, 3, 6, 7}, {4, 5, 6}, {0, 6}, {2, 3, 5, 6, 7},
    {0, 2, 4, 6, 7}, {0, 2, 3, 6, 7}, {0, 1, 5, 6}, {0, 1, 3, 5, 7},
    {1, 3, 5, 7}, {1, 3, 5}, {1, 4, 5, 6, 7}, {3, 5, 6, 7},
    {0, 1, 2, 4, 5}, {1, 2, 3, 4, 5}, {0, 1, 3}, {2, 6} >>
Marks == <<
    {0}, {1, 3, 4}, {1, 2, 3, 4, 6}, {4, 5, 6},
    {0, 1, 2, 3, 4}, {0, 5}, {0, 3, 4, 5, 6}, {0, 2, 4, 6},
    {1, 2, 3}, {2, 3}, {0, 2, 4, 5}, {1, 2, 5},
    {0, 1, 2, 3, 4, 5}, {0, 1, 2, 3, 6}, {0, 2, 3, 4, 6}, {0, 1, 4, 6},
    {1, 4, 6}, {3, 6}, {1, 2, 4}, {1, 2, 5, 6},
    {0, 3, 4, 5, 6}, {3, 4, 6}, {0, 5}, {2, 4, 5, 6} >>

LEMMA RegisterOfRounds ==
    \A r \in 0..23 : /\ Register[7 * r] = RegisterAt[r + 1]
                      /\ { k \in 0..6 : 0 \in Register[k + 7 * r] } = Marks[r + 1]
<1> DEFINE Right(r, state, marks) ==
              /\ Register[7 * r] = state
              /\ { k \in 0..6 : 0 \in Register[k + 7 * r] } = marks
<1>1. ASSUME NEW r \in 0..23, NEW state, Register[7 * r] = state
      PROVE  /\ Right(r, state, Lowest(state))
             /\ r < 23 => Register[7 * (r + 1)] = After(state)
  BY <1>1, RoundTurns
<1>2. Register[7 * 0] = {0} BY RegisterTurns
<1> HIDE DEF Right
<1>3. Right(0, {0}, {0})
  <2>1. Lowest({0}) = {0} BY DEF Lowest
  <2> QED BY <1>1, <1>2, <2>1
<1>4. Register[7 * 1] = {7}
  <2>1. After({0}) = {7} BY DEF After
  <2> QED BY <1>1, <1>2, <2>1
<1>5. Right(1, {7}, {1, 3, 4})
  <2>1. Lowest({7}) = {1, 3, 4} BY DEF Lowest
  <2> QED BY <1>1, <1>4, <2>1
<1>6. Register[7 * 2] = {3, 4, 6, 7}
  <2>1. After({7}) = {3, 4, 6, 7} BY DEF After
  <2> QED BY <1>1, <1>4, <2>1
<1>7. Right(2, {3, 4, 6, 7}, {1, 2, 3, 4, 6})
  <2>1. Lowest({3, 4, 6, 7}) = {1, 2, 3, 4, 6} BY DEF Lowest
  <2> QED BY <1>1, <1>6, <2>1
<1>8. Register[7 * 3] = {1, 3, 4}
  <2>1. After({3, 4, 6, 7}) = {1, 3, 4} BY DEF After
  <2> QED BY <1>1, <1>6, <2>1
<1>9. Right(3, {1, 3, 4}, {4, 5, 6})
  <2>1. Lowest({1, 3, 4}) = {4, 5, 6} BY DEF Lowest
  <2> QED BY <1>1, <1>8, <2>1
<1>10. Register[7 * 4] = {0, 1, 2, 3, 4, 6, 7}
  <2>1. After({1, 3, 4}) = {0, 1, 2, 3, 4, 6, 7} BY DEF After
  <2> QED BY <1>1, <1>8, <2>1
<1>11. Right(4, {0, 1, 2, 3, 4, 6, 7}, {0, 1, 2, 3, 4})
  <2>1. Lowest({0, 1, 2, 3, 4, 6, 7}) = {0, 1, 2, 3, 4} BY DEF Lowest
  <2> QED BY <1>1, <1>10, <2>1
<1>12. Register[7 * 5] = {0, 3}
  <2>1. After({0, 1, 2, 3, 4, 6, 7}) = {0, 3} BY DEF After
  <2> QED BY <1>1, <1>10, <2>1
<1>13. Right(5, {0, 3}, {0, 5})
  <2>1. Lowest({0, 3}) = {0, 5} BY DEF Lowest
  <2> QED BY <1>1, <1>12, <2>1
<1>14. Register[7 * 6] = {0, 2, 4, 5}
  <2>1. After({0, 3}) = {0, 2, 4, 5} BY DEF After
  <2> QED BY <1>1, <1>12, <2>1
<1>15. Right(6, {0, 2, 4, 5}, {0, 3, 4, 5, 6})
  <2>1. Lowest({0, 2, 4, 5}) = {0, 3, 4, 5, 6} BY DEF Lowest
  <2> QED BY <1>1, <1>14, <2>1
<1>16. Register[7 * 7] = {0, 1, 2, 3, 6}
  <2>1. After({0, 2, 4, 5}) = {0, 1, 2, 3, 6} BY DEF After
  <2> QED BY <1>1, <1>14, <2>1
<1>17. Right(7, {0, 1, 2, 3, 6}, {0, 2, 4, 6})
  <2>1. Lowest({0, 1, 2, 3, 6}) = {0, 2, 4, 6} BY DEF Lowest
  <2> QED BY <1>1, <1>16, <2>1
<1>18. Register[7 * 8] = {1, 3, 6, 7}
  <2>1. After({0, 1, 2, 3, 6}) = {1, 3, 6, 7} BY DEF After
  <2> QED BY <1>1, <1>16, <2>1
<1>19. Right(8, {1, 3, 6, 7}, {1, 2, 3})
  <2>1. Lowest({1, 3, 6, 7}) = {1, 2, 3} BY DEF Lowest
  <2> QED BY <1>1, <1>18, <2>1
<1>20. Register[7 * 9] = {4, 5, 6}
  <2>1. After({1, 3, 6, 7}) = {4, 5, 6} BY DEF After
  <2> QED BY <1>1, <1>18, <2>1
<1>21. Right(9, {4, 5, 6}, {2, 3})
  <2>1. Lowest({4, 5, 6}) = {2, 3} BY DEF Lowest
  <2> QED BY <1>1, <1>20, <2>1
<1>22. Register[7 * 10] = {0, 6}
  <2>1. After({4, 5, 6}) = {0, 6} BY DEF After
  <2> QED BY <1>1, <1>20, <2>1
<1>23. Right(10, {0, 6}, {0, 2, 4, 5})
  <2>1. Lowest({0, 6}) = {0, 2, 4, 5} BY DEF Lowest
  <2> QED BY <1>1, <1>22, <2>1
<1>24. Register[7 * 11] = {2, 3, 5, 6, 7}
  <2>1. After({0, 6}) = {2, 3, 5, 6, 7} BY DEF After
  <2> QED BY <1>1, <1>22, <2>1
<1>25. Right(11, {2, 3, 5, 6, 7}, {1, 2, 5})
  <2>1. Lowest({2, 3, 5, 6, 7}) = {1, 2, 5} BY DEF Lowest
  <2> QED BY <1>1, <1>24, <2>1
<1>26. Register[7 * 12] = {0, 2, 4, 6, 7}
  <2>1. After({2, 3, 5, 6, 7}) = {0, 2, 4, 6, 7} BY DEF After
  <2> QED BY <1>1, <1>24, <2>1
<1>27. Right(12, {0, 2, 4, 6, 7}, {0, 1, 2, 3, 4, 5})
  <2>1. Lowest({0, 2, 4, 6, 7}) = {0, 1, 2, 3, 4, 5} BY DEF Lowest
  <2> QED BY <1>1, <1>26, <2>1
<1>28. Register[7 * 13] = {0, 2, 3, 6, 7}
  <2>1. After({0, 2, 4, 6, 7}) = {0, 2, 3, 6, 7} BY DEF After
  <2> QED BY <1>1, <1>26, <2>1
<1>29. Right(13, {0, 2, 3, 6, 7}, {0, 1, 2, 3, 6})
  <2>1. Lowest({0, 2, 3, 6, 7}) = {0, 1, 2, 3, 6} BY DEF Lowest
  <2> QED BY <1>1, <1>28, <2>1
<1>30. Register[7 * 14] = {0, 1, 5, 6}
  <2>1. After({0, 2, 3, 6, 7}) = {0, 1, 5, 6} BY DEF After
  <2> QED BY <1>1, <1>28, <2>1
<1>31. Right(14, {0, 1, 5, 6}, {0, 2, 3, 4, 6})
  <2>1. Lowest({0, 1, 5, 6}) = {0, 2, 3, 4, 6} BY DEF Lowest
  <2> QED BY <1>1, <1>30, <2>1
<1>32. Register[7 * 15] = {0, 1, 3, 5, 7}
  <2>1. After({0, 1, 5, 6}) = {0, 1, 3, 5, 7} BY DEF After
  <2> QED BY <1>1, <1>30, <2>1
<1>33. Right(15, {0, 1, 3, 5, 7}, {0, 1, 4, 6})
  <2>1. Lowest({0, 1, 3, 5, 7}) = {0, 1, 4, 6} BY DEF Lowest
  <2> QED BY <1>1, <1>32, <2>1
<1>34. Register[7 * 16] = {1, 3, 5, 7}
  <2>1. After({0, 1, 3, 5, 7}) = {1, 3, 5, 7} BY DEF After
  <2> QED BY <1>1, <1>32, <2>1
<1>35. Right(16, {1, 3, 5, 7}, {1, 4, 6})
  <2>1. Lowest({1, 3, 5, 7}) = {1, 4, 6} BY DEF Lowest
  <2> QED BY <1>1, <1>34, <2>1
<1>36. Register[7 * 17] = {1, 3, 5}
  <2>1. After({1, 3, 5, 7}) = {1, 3, 5} BY DEF After
  <2> QED BY <1>1, <1>34, <2>1
<1>37. Right(17, {1, 3, 5}, {3, 6})
  <2>1. Lowest({1, 3, 5}) = {3, 6} BY DEF Lowest
  <2> QED BY <1>1, <1>36, <2>1
<1>38. Register[7 * 18] = {1, 4, 5, 6, 7}
  <2>1. After({1, 3, 5}) = {1, 4, 5, 6, 7} BY DEF After
  <2> QED BY <1>1, <1>36, <2>1
<1>39. Right(18, {1, 4, 5, 6, 7}, {1, 2, 4})
  <2>1. Lowest({1, 4, 5, 6, 7}) = {1, 2, 4} BY DEF Lowest
  <2> QED BY <1>1, <1>38, <2>1
<1>40. Register[7 * 19] = {3, 5, 6, 7}
  <2>1. After({1, 4, 5, 6, 7}) = {3, 5, 6, 7} BY DEF After
  <2> QED BY <1>1, <1>38, <2>1
<1>41. Right(19, {3, 5, 6, 7}, {1, 2, 5, 6})
  <2>1. Lowest({3, 5, 6, 7}) = {1, 2, 5, 6} BY DEF Lowest
  <2> QED BY <1>1, <1>40, <2>1
<1>42. Register[7 * 20] = {0, 1, 2, 4, 5}
  <2>1. After({3, 5, 6, 7}) = {0, 1, 2, 4, 5} BY DEF After
  <2> QED BY <1>1, <1>40, <2>1
<1>43. Right(20, {0, 1, 2, 4, 5}, {0, 3, 4, 5, 6})
  <2>1. Lowest({0, 1, 2, 4, 5}) = {0, 3, 4, 5, 6} BY DEF Lowest
  <2> QED BY <1>1, <1>42, <2>1
<1>44. Register[7 * 21] = {1, 2, 3, 4, 5}
  <2>1. After({0, 1, 2, 4, 5}) = {1, 2, 3, 4, 5} BY DEF After
  <2> QED BY <1>1, <1>42, <2>1
<1>45. Right(21, {1, 2, 3, 4, 5}, {3, 4, 6})
  <2>1. Lowest({1, 2, 3, 4, 5}) = {3, 4, 6} BY DEF Lowest
  <2> QED BY <1>1, <1>44, <2>1
<1>46. Register[7 * 22] = {0, 1, 3}
  <2>1. After({1, 2, 3, 4, 5}) = {0, 1, 3} BY DEF After
  <2> QED BY <1>1, <1>44, <2>1
<1>47. Right(22, {0, 1, 3}, {0, 5})
  <2>1. Lowest({0, 1, 3}) = {0, 5} BY DEF Lowest
  <2> QED BY <1>1, <1>46, <2>1
<1>48. Register[7 * 23] = {2, 6}
  <2>1. After({0, 1, 3}) = {2, 6} BY DEF After
  <2> QED BY <1>1, <1>46, <2>1
<1>49. Right(23, {2, 6}, {2, 4, 5, 6})
  <2>1. Lowest({2, 6}) = {2, 4, 5, 6} BY DEF Lowest
  <2> QED BY <1>1, <1>48, <2>1
<1>50. ASSUME NEW r \in 0..23 PROVE Right(r, RegisterAt[r + 1], Marks[r + 1])
  <2>1. r = 0 \/ r = 1 \/ r = 2 \/ r = 3 \/ r = 4 \/ r = 5 \/ r = 6 \/ r = 7 \/ r = 8 \/ r = 9 \/ r = 10 \/ r = 11
        \/ r = 12 \/ r = 13 \/ r = 14 \/ r = 15 \/ r = 16 \/ r = 17 \/ r = 18 \/ r = 19 \/ r = 20 \/ r = 21 \/ r = 22 \/ r = 23
    OBVIOUS
  <2>2. RegisterAt[0 + 1] = {0} /\ Marks[0 + 1] = {0} BY DEF RegisterAt, Marks
  <2>3. RegisterAt[1 + 1] = {7} /\ Marks[1 + 1] = {1, 3, 4} BY DEF RegisterAt, Marks
  <2>4. RegisterAt[2 + 1] = {3, 4, 6, 7} /\ Marks[2 + 1] = {1, 2, 3, 4, 6}
    BY DEF RegisterAt, Marks
  <2>5. RegisterAt[3 + 1] = {1, 3, 4} /\ Marks[3 + 1] = {4, 5, 6} BY DEF RegisterAt, Marks
  <2>6. RegisterAt[4 + 1] = {0, 1, 2, 3, 4, 6, 7} /\ Marks[4 + 1] = {0, 1, 2, 3, 4}
    BY DEF RegisterAt, Marks
  <2>7. RegisterAt[5 + 1] = {0, 3} /\ Marks[5 + 1] = {0, 5} BY DEF RegisterAt, Marks
  <2>8. RegisterAt[6 + 1] = {0, 2, 4, 5} /\ Marks[6 + 1] = {0, 3, 4, 5, 6}
    BY DEF RegisterAt, Marks
  <2>9. RegisterAt[7 + 1] = {0, 1, 2, 3, 6} /\ Marks[7 + 1] = {0, 2, 4, 6}
    BY DEF RegisterAt, Marks
  <2>10. RegisterAt[8 + 1] = {1, 3, 6, 7} /\ Marks[8 + 1] = {1, 2, 3} BY DEF RegisterAt, Marks
  <2>11. RegisterAt[9 + 1] = {4, 5, 6} /\ Marks[9 + 1] = {2, 3} BY DEF RegisterAt, Marks
  <2>12. RegisterAt[10 + 1] = {0, 6} /\ Marks[10 + 1] = {0, 2, 4, 5} BY DEF RegisterAt, Marks
  <2>13. RegisterAt[11 + 1] = {2, 3, 5, 6, 7} /\ Marks[11 + 1] = {1, 2, 5}
    BY DEF RegisterAt, Marks
  <2>14. RegisterAt[12 + 1] = {0, 2, 4, 6, 7} /\ Marks[12 + 1] = {0, 1, 2, 3, 4, 5}
    BY DEF RegisterAt, Marks
  <2>15. RegisterAt[13 + 1] = {0, 2, 3, 6, 7} /\ Marks[13 + 1] = {0, 1, 2, 3, 6}
    BY DEF RegisterAt, Marks
  <2>16. RegisterAt[14 + 1] = {0, 1, 5, 6} /\ Marks[14 + 1] = {0, 2, 3, 4, 6}
    BY DEF RegisterAt, Marks
  <2>17. RegisterAt[15 + 1] = {0, 1, 3, 5, 7} /\ Marks[15 + 1] = {0, 1, 4, 6}
    BY DEF RegisterAt, Marks
  <2>18. RegisterAt[16 + 1] = {1, 3, 5, 7} /\ Marks[16 + 1] = {1, 4, 6} BY DEF RegisterAt, Marks
  <2>19. RegisterAt[17 + 1] = {1, 3, 5} /\ Marks[17 + 1] = {3, 6} BY DEF RegisterAt, Marks
  <2>20. RegisterAt[18 + 1] = {1, 4, 5, 6, 7} /\ Marks[18 + 1] = {1, 2, 4}
    BY DEF RegisterAt, Marks
  <2>21. RegisterAt[19 + 1] = {3, 5, 6, 7} /\ Marks[19 + 1] = {1, 2, 5, 6}
    BY DEF RegisterAt, Marks
  <2>22. RegisterAt[20 + 1] = {0, 1, 2, 4, 5} /\ Marks[20 + 1] = {0, 3, 4, 5, 6}
    BY DEF RegisterAt, Marks
  <2>23. RegisterAt[21 + 1] = {1, 2, 3, 4, 5} /\ Marks[21 + 1] = {3, 4, 6}
    BY DEF RegisterAt, Marks
  <2>24. RegisterAt[22 + 1] = {0, 1, 3} /\ Marks[22 + 1] = {0, 5} BY DEF RegisterAt, Marks
  <2>25. RegisterAt[23 + 1] = {2, 6} /\ Marks[23 + 1] = {2, 4, 5, 6} BY DEF RegisterAt, Marks
  <2>26. CASE r = 0 BY <2>26, <2>2, <1>3
  <2>27. CASE r = 1 BY <2>27, <2>3, <1>5
  <2>28. CASE r = 2 BY <2>28, <2>4, <1>7
  <2>29. CASE r = 3 BY <2>29, <2>5, <1>9
  <2>30. CASE r = 4 BY <2>30, <2>6, <1>11
  <2>31. CASE r = 5 BY <2>31, <2>7, <1>13
  <2>32. CASE r = 6 BY <2>32, <2>8, <1>15
  <2>33. CASE r = 7 BY <2>33, <2>9, <1>17
  <2>34. CASE r = 8 BY <2>34, <2>10, <1>19
  <2>35. CASE r = 9 BY <2>35, <2>11, <1>21
  <2>36. CASE r = 10 BY <2>36, <2>12, <1>23
  <2>37. CASE r = 11 BY <2>37, <2>13, <1>25
  <2>38. CASE r = 12 BY <2>38, <2>14, <1>27
  <2>39. CASE r = 13 BY <2>39, <2>15, <1>29
  <2>40. CASE r = 14 BY <2>40, <2>16, <1>31
  <2>41. CASE r = 15 BY <2>41, <2>17, <1>33
  <2>42. CASE r = 16 BY <2>42, <2>18, <1>35
  <2>43. CASE r = 17 BY <2>43, <2>19, <1>37
  <2>44. CASE r = 18 BY <2>44, <2>20, <1>39
  <2>45. CASE r = 19 BY <2>45, <2>21, <1>41
  <2>46. CASE r = 20 BY <2>46, <2>22, <1>43
  <2>47. CASE r = 21 BY <2>47, <2>23, <1>45
  <2>48. CASE r = 22 BY <2>48, <2>24, <1>47
  <2>49. CASE r = 23 BY <2>49, <2>25, <1>49
  <2> QED
    BY <2>1, <2>26, <2>27, <2>28, <2>29, <2>30, <2>31, <2>32, <2>33, <2>34, <2>35, <2>36,
       <2>37, <2>38, <2>39, <2>40, <2>41, <2>42, <2>43, <2>44, <2>45, <2>46, <2>47, <2>48,
       <2>49
<1> QED BY <1>50 DEF Right

\* The bits of a constant that a set of marks stands for.
Marked(marks) == { (2 ^ k) - 1 : k \in marks }

\* The bits of a byte below 2^7, written out.
Unpacked(v) == { k \in 0..6 :
    \/ k = 0 /\ (v \div 1) % 2 = 1
    \/ k = 1 /\ (v \div 2) % 2 = 1
    \/ k = 2 /\ (v \div 4) % 2 = 1
    \/ k = 3 /\ (v \div 8) % 2 = 1
    \/ k = 4 /\ (v \div 16) % 2 = 1
    \/ k = 5 /\ (v \div 32) % 2 = 1
    \/ k = 6 /\ (v \div 64) % 2 = 1 }

LEMMA SevenBits ==
    ASSUME NEW v \in 0..127
    PROVE  { k \in 0..6 : (v \div (2 ^ k)) % 2 = 1 } = Unpacked(v)
<1>1. 2^0 = 1 /\ 2^1 = 2 /\ 2^2 = 4 /\ 2^3 = 8 /\ 2^4 = 16 /\ 2^5 = 32 /\ 2^6 = 64 OBVIOUS
<1>2. ASSUME NEW k \in 0..6 PROVE (v \div (2 ^ k)) % 2 = 1 <=> k \in Unpacked(v)
  <2>1. CASE k = 0 BY <1>1, <2>1 DEF Unpacked
  <2>2. CASE k = 1 BY <1>1, <2>2 DEF Unpacked
  <2>3. CASE k = 2 BY <1>1, <2>3 DEF Unpacked
  <2>4. CASE k = 3 BY <1>1, <2>4 DEF Unpacked
  <2>5. CASE k = 4 BY <1>1, <2>5 DEF Unpacked
  <2>6. CASE k = 5 BY <1>1, <2>6 DEF Unpacked
  <2>7. CASE k = 6 BY <1>1, <2>7 DEF Unpacked
  <2> QED BY <2>1, <2>2, <2>3, <2>4, <2>5, <2>6, <2>7
<1>3. Unpacked(v) \subseteq 0..6 BY DEF Unpacked
<1> QED BY <1>2, <1>3

\* get_round_constant unpacks from a byte what the register gives.
LEMMA ConstantsUnpacked ==
    \A r \in 0..23 : /\ get_round_constant(r) = Marked(Marks[r + 1])
                      /\ keccakf_rndc[r + 1] = Marked(Marks[r + 1])
                      /\ Marked(Marks[r + 1]) \in SUBSET Bits
<1> DEFINE Right(r) == /\ get_round_constant(r) = Marked(Marks[r + 1])
                       /\ keccakf_rndc[r + 1] = Marked(Marks[r + 1])
                       /\ Marked(Marks[r + 1]) \in SUBSET Bits
           Set(v) == { k \in 0..6 : (v \div (2 ^ k)) % 2 = 1 }
<1>1. ASSUME NEW r, NEW v, NEW marks, NEW constant,
             round_info[r + 1] = v, Set(v) = marks, Marks[r + 1] = marks,
             keccakf_rndc[r + 1] = constant, Marked(marks) = constant, constant \in SUBSET Bits
      PROVE  Right(r)
  BY <1>1 DEF get_round_constant, Marked
<1> HIDE DEF Right
<1>2. Right(0)
  <2>1. Set(1) = {0}
    <3>1. Set(1) = Unpacked(1) BY SevenBits
    <3>2. Unpacked(1) = {0} BY DEF Unpacked
    <3> QED BY <3>1, <3>2
  <2>2. Marked({0}) = {0} BY DEF Marked
  <2>3. round_info[0 + 1] = 1 /\ Marks[0 + 1] = {0} BY DEF round_info, Marks
  <2>4. keccakf_rndc[0 + 1] = {0} BY DEF keccakf_rndc
  <2>5. {0} \in SUBSET Bits BY DEF Bits
  <2> HIDE DEF Set
  <2> QED BY <1>1, <2>1, <2>2, <2>3, <2>4, <2>5
<1>3. Right(1)
  <2>1. Set(26) = {1, 3, 4}
    <3>1. Set(26) = Unpacked(26) BY SevenBits
    <3>2. Unpacked(26) = {1, 3, 4} BY DEF Unpacked
    <3> QED BY <3>1, <3>2
  <2>2. Marked({1, 3, 4}) = {1, 7, 15} BY DEF Marked
  <2>3. round_info[1 + 1] = 26 /\ Marks[1 + 1] = {1, 3, 4} BY DEF round_info, Marks
  <2>4. keccakf_rndc[1 + 1] = {1, 7, 15} BY DEF keccakf_rndc
  <2>5. {1, 7, 15} \in SUBSET Bits BY DEF Bits
  <2> HIDE DEF Set
  <2> QED BY <1>1, <2>1, <2>2, <2>3, <2>4, <2>5
<1>4. Right(2)
  <2>1. Set(94) = {1, 2, 3, 4, 6}
    <3>1. Set(94) = Unpacked(94) BY SevenBits
    <3>2. Unpacked(94) = {1, 2, 3, 4, 6} BY DEF Unpacked
    <3> QED BY <3>1, <3>2
  <2>2. Marked({1, 2, 3, 4, 6}) = {1, 3, 7, 15, 63} BY DEF Marked
  <2>3. round_info[2 + 1] = 94 /\ Marks[2 + 1] = {1, 2, 3, 4, 6} BY DEF round_info, Marks
  <2>4. keccakf_rndc[2 + 1] = {1, 3, 7, 15, 63} BY DEF keccakf_rndc
  <2>5. {1, 3, 7, 15, 63} \in SUBSET Bits BY DEF Bits
  <2> HIDE DEF Set
  <2> QED BY <1>1, <2>1, <2>2, <2>3, <2>4, <2>5
<1>5. Right(3)
  <2>1. Set(112) = {4, 5, 6}
    <3>1. Set(112) = Unpacked(112) BY SevenBits
    <3>2. Unpacked(112) = {4, 5, 6} BY DEF Unpacked
    <3> QED BY <3>1, <3>2
  <2>2. Marked({4, 5, 6}) = {15, 31, 63} BY DEF Marked
  <2>3. round_info[3 + 1] = 112 /\ Marks[3 + 1] = {4, 5, 6} BY DEF round_info, Marks
  <2>4. keccakf_rndc[3 + 1] = {15, 31, 63} BY DEF keccakf_rndc
  <2>5. {15, 31, 63} \in SUBSET Bits BY DEF Bits
  <2> HIDE DEF Set
  <2> QED BY <1>1, <2>1, <2>2, <2>3, <2>4, <2>5
<1>6. Right(4)
  <2>1. Set(31) = {0, 1, 2, 3, 4}
    <3>1. Set(31) = Unpacked(31) BY SevenBits
    <3>2. Unpacked(31) = {0, 1, 2, 3, 4} BY DEF Unpacked
    <3> QED BY <3>1, <3>2
  <2>2. Marked({0, 1, 2, 3, 4}) = {0, 1, 3, 7, 15} BY DEF Marked
  <2>3. round_info[4 + 1] = 31 /\ Marks[4 + 1] = {0, 1, 2, 3, 4} BY DEF round_info, Marks
  <2>4. keccakf_rndc[4 + 1] = {0, 1, 3, 7, 15} BY DEF keccakf_rndc
  <2>5. {0, 1, 3, 7, 15} \in SUBSET Bits BY DEF Bits
  <2> HIDE DEF Set
  <2> QED BY <1>1, <2>1, <2>2, <2>3, <2>4, <2>5
<1>7. Right(5)
  <2>1. Set(33) = {0, 5}
    <3>1. Set(33) = Unpacked(33) BY SevenBits
    <3>2. Unpacked(33) = {0, 5} BY DEF Unpacked
    <3> QED BY <3>1, <3>2
  <2>2. Marked({0, 5}) = {0, 31} BY DEF Marked
  <2>3. round_info[5 + 1] = 33 /\ Marks[5 + 1] = {0, 5} BY DEF round_info, Marks
  <2>4. keccakf_rndc[5 + 1] = {0, 31} BY DEF keccakf_rndc
  <2>5. {0, 31} \in SUBSET Bits BY DEF Bits
  <2> HIDE DEF Set
  <2> QED BY <1>1, <2>1, <2>2, <2>3, <2>4, <2>5
<1>8. Right(6)
  <2>1. Set(121) = {0, 3, 4, 5, 6}
    <3>1. Set(121) = Unpacked(121) BY SevenBits
    <3>2. Unpacked(121) = {0, 3, 4, 5, 6} BY DEF Unpacked
    <3> QED BY <3>1, <3>2
  <2>2. Marked({0, 3, 4, 5, 6}) = {0, 7, 15, 31, 63} BY DEF Marked
  <2>3. round_info[6 + 1] = 121 /\ Marks[6 + 1] = {0, 3, 4, 5, 6} BY DEF round_info, Marks
  <2>4. keccakf_rndc[6 + 1] = {0, 7, 15, 31, 63} BY DEF keccakf_rndc
  <2>5. {0, 7, 15, 31, 63} \in SUBSET Bits BY DEF Bits
  <2> HIDE DEF Set
  <2> QED BY <1>1, <2>1, <2>2, <2>3, <2>4, <2>5
<1>9. Right(7)
  <2>1. Set(85) = {0, 2, 4, 6}
    <3>1. Set(85) = Unpacked(85) BY SevenBits
    <3>2. Unpacked(85) = {0, 2, 4, 6} BY DEF Unpacked
    <3> QED BY <3>1, <3>2
  <2>2. Marked({0, 2, 4, 6}) = {0, 3, 15, 63} BY DEF Marked
  <2>3. round_info[7 + 1] = 85 /\ Marks[7 + 1] = {0, 2, 4, 6} BY DEF round_info, Marks
  <2>4. keccakf_rndc[7 + 1] = {0, 3, 15, 63} BY DEF keccakf_rndc
  <2>5. {0, 3, 15, 63} \in SUBSET Bits BY DEF Bits
  <2> HIDE DEF Set
  <2> QED BY <1>1, <2>1, <2>2, <2>3, <2>4, <2>5
<1>10. Right(8)
  <2>1. Set(14) = {1, 2, 3}
    <3>1. Set(14) = Unpacked(14) BY SevenBits
    <3>2. Unpacked(14) = {1, 2, 3} BY DEF Unpacked
    <3> QED BY <3>1, <3>2
  <2>2. Marked({1, 2, 3}) = {1, 3, 7} BY DEF Marked
  <2>3. round_info[8 + 1] = 14 /\ Marks[8 + 1] = {1, 2, 3} BY DEF round_info, Marks
  <2>4. keccakf_rndc[8 + 1] = {1, 3, 7} BY DEF keccakf_rndc
  <2>5. {1, 3, 7} \in SUBSET Bits BY DEF Bits
  <2> HIDE DEF Set
  <2> QED BY <1>1, <2>1, <2>2, <2>3, <2>4, <2>5
<1>11. Right(9)
  <2>1. Set(12) = {2, 3}
    <3>1. Set(12) = Unpacked(12) BY SevenBits
    <3>2. Unpacked(12) = {2, 3} BY DEF Unpacked
    <3> QED BY <3>1, <3>2
  <2>2. Marked({2, 3}) = {3, 7} BY DEF Marked
  <2>3. round_info[9 + 1] = 12 /\ Marks[9 + 1] = {2, 3} BY DEF round_info, Marks
  <2>4. keccakf_rndc[9 + 1] = {3, 7} BY DEF keccakf_rndc
  <2>5. {3, 7} \in SUBSET Bits BY DEF Bits
  <2> HIDE DEF Set
  <2> QED BY <1>1, <2>1, <2>2, <2>3, <2>4, <2>5
<1>12. Right(10)
  <2>1. Set(53) = {0, 2, 4, 5}
    <3>1. Set(53) = Unpacked(53) BY SevenBits
    <3>2. Unpacked(53) = {0, 2, 4, 5} BY DEF Unpacked
    <3> QED BY <3>1, <3>2
  <2>2. Marked({0, 2, 4, 5}) = {0, 3, 15, 31} BY DEF Marked
  <2>3. round_info[10 + 1] = 53 /\ Marks[10 + 1] = {0, 2, 4, 5} BY DEF round_info, Marks
  <2>4. keccakf_rndc[10 + 1] = {0, 3, 15, 31} BY DEF keccakf_rndc
  <2>5. {0, 3, 15, 31} \in SUBSET Bits BY DEF Bits
  <2> HIDE DEF Set
  <2> QED BY <1>1, <2>1, <2>2, <2>3, <2>4, <2>5
<1>13. Right(11)
  <2>1. Set(38) = {1, 2, 5}
    <3>1. Set(38) = Unpacked(38) BY SevenBits
    <3>2. Unpacked(38) = {1, 2, 5} BY DEF Unpacked
    <3> QED BY <3>1, <3>2
  <2>2. Marked({1, 2, 5}) = {1, 3, 31} BY DEF Marked
  <2>3. round_info[11 + 1] = 38 /\ Marks[11 + 1] = {1, 2, 5} BY DEF round_info, Marks
  <2>4. keccakf_rndc[11 + 1] = {1, 3, 31} BY DEF keccakf_rndc
  <2>5. {1, 3, 31} \in SUBSET Bits BY DEF Bits
  <2> HIDE DEF Set
  <2> QED BY <1>1, <2>1, <2>2, <2>3, <2>4, <2>5
<1>14. Right(12)
  <2>1. Set(63) = {0, 1, 2, 3, 4, 5}
    <3>1. Set(63) = Unpacked(63) BY SevenBits
    <3>2. Unpacked(63) = {0, 1, 2, 3, 4, 5} BY DEF Unpacked
    <3> QED BY <3>1, <3>2
  <2>2. Marked({0, 1, 2, 3, 4, 5}) = {0, 1, 3, 7, 15, 31} BY DEF Marked
  <2>3. round_info[12 + 1] = 63 /\ Marks[12 + 1] = {0, 1, 2, 3, 4, 5} BY DEF round_info, Marks
  <2>4. keccakf_rndc[12 + 1] = {0, 1, 3, 7, 15, 31} BY DEF keccakf_rndc
  <2>5. {0, 1, 3, 7, 15, 31} \in SUBSET Bits BY DEF Bits
  <2> HIDE DEF Set
  <2> QED BY <1>1, <2>1, <2>2, <2>3, <2>4, <2>5
<1>15. Right(13)
  <2>1. Set(79) = {0, 1, 2, 3, 6}
    <3>1. Set(79) = Unpacked(79) BY SevenBits
    <3>2. Unpacked(79) = {0, 1, 2, 3, 6} BY DEF Unpacked
    <3> QED BY <3>1, <3>2
  <2>2. Marked({0, 1, 2, 3, 6}) = {0, 1, 3, 7, 63} BY DEF Marked
  <2>3. round_info[13 + 1] = 79 /\ Marks[13 + 1] = {0, 1, 2, 3, 6} BY DEF round_info, Marks
  <2>4. keccakf_rndc[13 + 1] = {0, 1, 3, 7, 63} BY DEF keccakf_rndc
  <2>5. {0, 1, 3, 7, 63} \in SUBSET Bits BY DEF Bits
  <2> HIDE DEF Set
  <2> QED BY <1>1, <2>1, <2>2, <2>3, <2>4, <2>5
<1>16. Right(14)
  <2>1. Set(93) = {0, 2, 3, 4, 6}
    <3>1. Set(93) = Unpacked(93) BY SevenBits
    <3>2. Unpacked(93) = {0, 2, 3, 4, 6} BY DEF Unpacked
    <3> QED BY <3>1, <3>2
  <2>2. Marked({0, 2, 3, 4, 6}) = {0, 3, 7, 15, 63} BY DEF Marked
  <2>3. round_info[14 + 1] = 93 /\ Marks[14 + 1] = {0, 2, 3, 4, 6} BY DEF round_info, Marks
  <2>4. keccakf_rndc[14 + 1] = {0, 3, 7, 15, 63} BY DEF keccakf_rndc
  <2>5. {0, 3, 7, 15, 63} \in SUBSET Bits BY DEF Bits
  <2> HIDE DEF Set
  <2> QED BY <1>1, <2>1, <2>2, <2>3, <2>4, <2>5
<1>17. Right(15)
  <2>1. Set(83) = {0, 1, 4, 6}
    <3>1. Set(83) = Unpacked(83) BY SevenBits
    <3>2. Unpacked(83) = {0, 1, 4, 6} BY DEF Unpacked
    <3> QED BY <3>1, <3>2
  <2>2. Marked({0, 1, 4, 6}) = {0, 1, 15, 63} BY DEF Marked
  <2>3. round_info[15 + 1] = 83 /\ Marks[15 + 1] = {0, 1, 4, 6} BY DEF round_info, Marks
  <2>4. keccakf_rndc[15 + 1] = {0, 1, 15, 63} BY DEF keccakf_rndc
  <2>5. {0, 1, 15, 63} \in SUBSET Bits BY DEF Bits
  <2> HIDE DEF Set
  <2> QED BY <1>1, <2>1, <2>2, <2>3, <2>4, <2>5
<1>18. Right(16)
  <2>1. Set(82) = {1, 4, 6}
    <3>1. Set(82) = Unpacked(82) BY SevenBits
    <3>2. Unpacked(82) = {1, 4, 6} BY DEF Unpacked
    <3> QED BY <3>1, <3>2
  <2>2. Marked({1, 4, 6}) = {1, 15, 63} BY DEF Marked
  <2>3. round_info[16 + 1] = 82 /\ Marks[16 + 1] = {1, 4, 6} BY DEF round_info, Marks
  <2>4. keccakf_rndc[16 + 1] = {1, 15, 63} BY DEF keccakf_rndc
  <2>5. {1, 15, 63} \in SUBSET Bits BY DEF Bits
  <2> HIDE DEF Set
  <2> QED BY <1>1, <2>1, <2>2, <2>3, <2>4, <2>5
<1>19. Right(17)
  <2>1. Set(72) = {3, 6}
    <3>1. Set(72) = Unpacked(72) BY SevenBits
    <3>2. Unpacked(72) = {3, 6} BY DEF Unpacked
    <3> QED BY <3>1, <3>2
  <2>2. Marked({3, 6}) = {7, 63} BY DEF Marked
  <2>3. round_info[17 + 1] = 72 /\ Marks[17 + 1] = {3, 6} BY DEF round_info, Marks
  <2>4. keccakf_rndc[17 + 1] = {7, 63} BY DEF keccakf_rndc
  <2>5. {7, 63} \in SUBSET Bits BY DEF Bits
  <2> HIDE DEF Set
  <2> QED BY <1>1, <2>1, <2>2, <2>3, <2>4, <2>5
<1>20. Right(18)
  <2>1. Set(22) = {1, 2, 4}
    <3>1. Set(22) = Unpacked(22) BY SevenBits
    <3>2. Unpacked(22) = {1, 2, 4} BY DEF Unpacked
    <3> QED BY <3>1, <3>2
  <2>2. Marked({1, 2, 4}) = {1, 3, 15} BY DEF Marked
  <2>3. round_info[18 + 1] = 22 /\ Marks[18 + 1] = {1, 2, 4} BY DEF round_info, Marks
  <2>4. keccakf_rndc[18 + 1] = {1, 3, 15} BY DEF keccakf_rndc
  <2>5. {1, 3, 15} \in SUBSET Bits BY DEF Bits
  <2> HIDE DEF Set
  <2> QED BY <1>1, <2>1, <2>2, <2>3, <2>4, <2>5
<1>21. Right(19)
  <2>1. Set(102) = {1, 2, 5, 6}
    <3>1. Set(102) = Unpacked(102) BY SevenBits
    <3>2. Unpacked(102) = {1, 2, 5, 6} BY DEF Unpacked
    <3> QED BY <3>1, <3>2
  <2>2. Marked({1, 2, 5, 6}) = {1, 3, 31, 63} BY DEF Marked
  <2>3. round_info[19 + 1] = 102 /\ Marks[19 + 1] = {1, 2, 5, 6} BY DEF round_info, Marks
  <2>4. keccakf_rndc[19 + 1] = {1, 3, 31, 63} BY DEF keccakf_rndc
  <2>5. {1, 3, 31, 63} \in SUBSET Bits BY DEF Bits
  <2> HIDE DEF Set
  <2> QED BY <1>1, <2>1, <2>2, <2>3, <2>4, <2>5
<1>22. Right(20)
  <2>1. Set(121) = {0, 3, 4, 5, 6}
    <3>1. Set(121) = Unpacked(121) BY SevenBits
    <3>2. Unpacked(121) = {0, 3, 4, 5, 6} BY DEF Unpacked
    <3> QED BY <3>1, <3>2
  <2>2. Marked({0, 3, 4, 5, 6}) = {0, 7, 15, 31, 63} BY DEF Marked
  <2>3. round_info[20 + 1] = 121 /\ Marks[20 + 1] = {0, 3, 4, 5, 6} BY DEF round_info, Marks
  <2>4. keccakf_rndc[20 + 1] = {0, 7, 15, 31, 63} BY DEF keccakf_rndc
  <2>5. {0, 7, 15, 31, 63} \in SUBSET Bits BY DEF Bits
  <2> HIDE DEF Set
  <2> QED BY <1>1, <2>1, <2>2, <2>3, <2>4, <2>5
<1>23. Right(21)
  <2>1. Set(88) = {3, 4, 6}
    <3>1. Set(88) = Unpacked(88) BY SevenBits
    <3>2. Unpacked(88) = {3, 4, 6} BY DEF Unpacked
    <3> QED BY <3>1, <3>2
  <2>2. Marked({3, 4, 6}) = {7, 15, 63} BY DEF Marked
  <2>3. round_info[21 + 1] = 88 /\ Marks[21 + 1] = {3, 4, 6} BY DEF round_info, Marks
  <2>4. keccakf_rndc[21 + 1] = {7, 15, 63} BY DEF keccakf_rndc
  <2>5. {7, 15, 63} \in SUBSET Bits BY DEF Bits
  <2> HIDE DEF Set
  <2> QED BY <1>1, <2>1, <2>2, <2>3, <2>4, <2>5
<1>24. Right(22)
  <2>1. Set(33) = {0, 5}
    <3>1. Set(33) = Unpacked(33) BY SevenBits
    <3>2. Unpacked(33) = {0, 5} BY DEF Unpacked
    <3> QED BY <3>1, <3>2
  <2>2. Marked({0, 5}) = {0, 31} BY DEF Marked
  <2>3. round_info[22 + 1] = 33 /\ Marks[22 + 1] = {0, 5} BY DEF round_info, Marks
  <2>4. keccakf_rndc[22 + 1] = {0, 31} BY DEF keccakf_rndc
  <2>5. {0, 31} \in SUBSET Bits BY DEF Bits
  <2> HIDE DEF Set
  <2> QED BY <1>1, <2>1, <2>2, <2>3, <2>4, <2>5
<1>25. Right(23)
  <2>1. Set(116) = {2, 4, 5, 6}
    <3>1. Set(116) = Unpacked(116) BY SevenBits
    <3>2. Unpacked(116) = {2, 4, 5, 6} BY DEF Unpacked
    <3> QED BY <3>1, <3>2
  <2>2. Marked({2, 4, 5, 6}) = {3, 15, 31, 63} BY DEF Marked
  <2>3. round_info[23 + 1] = 116 /\ Marks[23 + 1] = {2, 4, 5, 6} BY DEF round_info, Marks
  <2>4. keccakf_rndc[23 + 1] = {3, 15, 31, 63} BY DEF keccakf_rndc
  <2>5. {3, 15, 31, 63} \in SUBSET Bits BY DEF Bits
  <2> HIDE DEF Set
  <2> QED BY <1>1, <2>1, <2>2, <2>3, <2>4, <2>5
<1>26. ASSUME NEW r \in 0..23 PROVE Right(r)
  BY <1>2, <1>3, <1>4, <1>5, <1>6, <1>7, <1>8, <1>9, <1>10, <1>11, <1>12, <1>13, <1>14,
     <1>15, <1>16, <1>17, <1>18, <1>19, <1>20, <1>21, <1>22, <1>23, <1>24, <1>25
<1> QED BY <1>26 DEF Right

LEMMA ConstantOfStandard ==
    ASSUME NEW r \in 0..23
    PROVE  RoundConstants[r] = Marked(Marks[r + 1])
BY RegisterOfRounds DEF RoundConstants, Marked

\* The bit z of lane l after chi, and after iota with a constant.
ChiBit(s, l, z) ==
    LET i == l - (l % 5)
    IN  ~(z \in s[l] <=> (z \notin s[i + ((l + 1) % 5)] /\ z \in s[i + ((l + 2) % 5)]))

\* Chi and iota of both programs are those of the standard, in every round.
LEMMA ChiIotaOfStandard ==
    ASSUME NEW s \in State, NEW r \in 0..23
    PROVE  /\ [keccak_chi(s) EXCEPT ![0] = xor(@, get_round_constant(r))] = StandardChiIota(s, r)
           /\ [Chi(s) EXCEPT ![0] = xor(@, keccakf_rndc[r + 1])] = StandardChiIota(s, r)
           /\ StandardChiIota(s, r) \in State
<1> DEFINE constant == Marked(Marks[r + 1])
           K == keccak_chi(s)
           S3 == Chi(s)
           N == StandardChiIota(s, r)
<1>1. /\ get_round_constant(r) = constant /\ keccakf_rndc[r + 1] = constant
      /\ RoundConstants[r] = constant /\ constant \in SUBSET Bits
  BY ConstantsUnpacked, ConstantOfStandard
<1> HIDE DEF constant
<1>2. ASSUME NEW l \in Lanes
      PROVE  /\ l - (l % 5) + ((l + 1) % 5) = Lane(X(l) + 1, Y(l))
             /\ l - (l % 5) + ((l + 2) % 5) = Lane(X(l) + 2, Y(l))
             /\ l - (l % 5) + ((l + 1) % 5) \in Lanes /\ l - (l % 5) + ((l + 2) % 5) \in Lanes
  BY DEF Lanes, Lane, X, Y
<1>3. ASSUME NEW l \in Lanes
      PROVE  /\ N[l] \in SUBSET Bits
             /\ \A z \in Bits : z \in N[l] <=> ~(ChiBit(s, l, z) <=> (l = 0 /\ z \in constant))
  <2>1. N[l] = { z \in Bits :
          (z \in s[l]) # (   (z \notin s[Lane(X(l) + 1, Y(l))] /\ z \in s[Lane(X(l) + 2, Y(l))])
                           # (l = 0 /\ z \in RoundConstants[r])) }
    BY DEF StandardChiIota
  <2>2. ASSUME NEW z \in Bits
        PROVE  z \in N[l] <=> ~(ChiBit(s, l, z) <=> (l = 0 /\ z \in constant))
    <3> DEFINE p == z \in s[l]
               u == z \notin s[Lane(X(l) + 1, Y(l))] /\ z \in s[Lane(X(l) + 2, Y(l))]
               v == l = 0 /\ z \in constant
    <3>1. z \in N[l] <=> (p # (u # v)) BY <1>1, <2>1
    <3>2. ChiBit(s, l, z) <=> ~(p <=> u) BY <1>2 DEF ChiBit
    <3>3. (p # (u # v)) <=> ~(~(p <=> u) <=> v)
      <4>1. p \in BOOLEAN /\ u \in BOOLEAN /\ v \in BOOLEAN OBVIOUS
      <4> HIDE DEF p, u, v
      <4>2. CASE u = TRUE BY <4>1, <4>2
      <4>3. CASE u = FALSE BY <4>1, <4>3
      <4> QED BY <4>1, <4>2, <4>3
    <3> HIDE DEF N, p, u
    <3> QED BY <3>1, <3>2, <3>3
  <2> HIDE DEF N
  <2> QED BY <2>1, <2>2
<1>4. ASSUME NEW l \in Lanes
      PROVE  /\ K[l] \in SUBSET Bits /\ S3[l] \in SUBSET Bits
             /\ \A z \in Bits : (z \in K[l] <=> ChiBit(s, l, z)) /\ (z \in S3[l] <=> ChiBit(s, l, z))
  <2> DEFINE m == l - (l % 5) + ((l + 1) % 5)
             n == l - (l % 5) + ((l + 2) % 5)
  <2>1. K[l] = xor(s[l], s[n] \ s[m]) BY DEF keccak_chi, andnot
  <2>2. S3[l] = xor(s[l], s[n] \ s[m]) BY DEF Chi
  <2>3. s[l] \in SUBSET Bits /\ s[m] \in SUBSET Bits /\ s[n] \in SUBSET Bits BY <1>2 DEF State
  <2>4. \A z : z \in xor(s[l], s[n] \ s[m]) <=> ChiBit(s, l, z)
    <3> TAKE z
    <3>1. ChiBit(s, l, z) <=> ~(z \in s[l] <=> (z \notin s[m] /\ z \in s[n])) BY DEF ChiBit
    <3> HIDE DEF m, n
    <3> QED BY <3>1, XorMember
  <2> HIDE DEF K, S3, m, n
  <2>5. xor(s[l], s[n] \ s[m]) \in SUBSET Bits BY <2>3 DEF xor
  <2> QED BY <2>1, <2>2, <2>4, <2>5
<1>5. ASSUME NEW G, DOMAIN G = Lanes, G = [l \in Lanes |-> G[l]],
             \A l \in Lanes : G[l] \in SUBSET Bits /\ \A z \in Bits : z \in G[l] <=> ChiBit(s, l, z)
      PROVE  [G EXCEPT ![0] = xor(@, constant)] = N
  <2> HIDE DEF N
  <2>1. N = [l \in Lanes |-> N[l]] BY DEF N, StandardChiIota
  <2>2. [G EXCEPT ![0] = xor(@, constant)] = [l \in Lanes |-> IF l = 0 THEN xor(G[0], constant) ELSE G[l]]
    BY <1>5
  <2>3. ASSUME NEW l \in Lanes
        PROVE  (IF l = 0 THEN xor(G[0], constant) ELSE G[l]) = N[l]
    <3>1. CASE l = 0
      <4>1. xor(G[0], constant) \in SUBSET Bits BY <1>1, <1>5, <3>1, XorBits
      <4>2. \A z \in Bits : z \in xor(G[0], constant) <=> z \in N[0]
        BY <1>3, <1>5, <3>1, XorMember
      <4>3. N[0] \in SUBSET Bits BY <1>3, <3>1
      <4>4. xor(G[0], constant) = N[0] BY <4>1, <4>2, <4>3
      <4> QED BY <3>1, <4>4
    <3>2. CASE l # 0
      <4>1. \A z \in Bits : z \in G[l] <=> z \in N[l] BY <1>3, <1>5, <3>2
      <4>2. G[l] \in SUBSET Bits /\ N[l] \in SUBSET Bits BY <1>3, <1>5
      <4>3. G[l] = N[l] BY <4>1, <4>2
      <4> QED BY <3>2, <4>3
    <3> QED BY <3>1, <3>2
  <2> QED BY <2>1, <2>2, <2>3
<1>6. /\ DOMAIN K = Lanes /\ K = [l \in Lanes |-> K[l]]
      /\ DOMAIN S3 = Lanes /\ S3 = [l \in Lanes |-> S3[l]]
      /\ N = [l \in Lanes |-> N[l]]
  BY DEF keccak_chi, Chi, StandardChiIota
<1> HIDE DEF K, S3, N
<1>7. [K EXCEPT ![0] = xor(@, constant)] = N BY <1>4, <1>5, <1>6
<1>8. [S3 EXCEPT ![0] = xor(@, constant)] = N BY <1>4, <1>5, <1>6
<1>9. N \in State BY <1>3, <1>6 DEF State
<1> QED BY <1>1, <1>7, <1>8, <1>9 DEF K, S3, N

-----------------------------------------------------------------------------

\* The first block of a message is a state.
LEMMA AbsorbedState == ASSUME NEW m PROVE Absorbed(m) \in State
<1>1. \A i : ByteAt(m, i) \subseteq 0..7 BY DEF ByteAt, BitsOf
<1>2. ASSUME NEW l \in Lanes
      PROVE  (IF l >= 17 THEN {}
              ELSE UNION { { 8 * k + i : i \in ByteAt(m, 8 * l + k) } : k \in 0..7 }) \in SUBSET Bits
  <2>1. \A k \in 0..7, i \in 0..7 : 8 * k + i \in Bits BY DEF Bits
  <2>2. \A k \in 0..7 : { 8 * k + i : i \in ByteAt(m, 8 * l + k) } \in SUBSET Bits BY <1>1, <2>1
  <2> QED BY <2>2
<1> QED BY <1>2 DEF Absorbed, State

\* The inductive invariant: besides the agreement, that lanes are lanes, and
\* that a round that has begun is one of the 24.
Permuting ==
    /\ StepsOfStandard /\ F \in State
    /\ round \in 0..24 /\ step \in {"theta", "rho pi", "chi"}
    /\ step # "theta" => round < 24

\* keccak256.c and sha3.c compute the permutation of FIPS 202, step by step in
\* all 24 rounds, on every block that a message can make: the tables that the
\* two programs pack their rotations, moves and constants in are those that
\* the standard defines by a walk over the lanes and by a shift register.
THEOREM PermutationIsStandard == Spec => []StepsOfStandard
<1>1. Init => Permuting
  BY AbsorbedState DEF Init, Permuting, StepsOfStandard
<1>2. Permuting /\ [Next]_vars => Permuting'
  <2> SUFFICES ASSUME Permuting, [Next]_vars PROVE Permuting'
    OBVIOUS
  <2>1. A = F /\ st = F /\ F \in State /\ round \in 0..24 BY DEF Permuting, StepsOfStandard
  <2>2. CASE ThetaStep
    BY <2>1, <2>2, ThetaOfStandard DEF ThetaStep, Permuting, StepsOfStandard
  <2>3. CASE RhoPiStep
    <3>1. A' = F' /\ st' = F' /\ F' \in State
      BY <2>1, <2>3, RhoPiOfKeccak, RhoPiOfSha3, RhoPiOfStandard DEF RhoPiStep
    <3> QED BY <2>1, <2>3, <3>1 DEF RhoPiStep, Permuting, StepsOfStandard
  <2>4. CASE ChiIotaStep
    <3>1. round \in 0..23 /\ round' = round + 1 /\ step' = "theta"
      BY <2>1, <2>4 DEF ChiIotaStep, Permuting
    <3>2. A' = F' /\ st' = F' /\ F' \in State
      <4>1. /\ [keccak_chi(F) EXCEPT ![0] = xor(@, get_round_constant(round))] = StandardChiIota(F, round)
            /\ [Chi(F) EXCEPT ![0] = xor(@, keccakf_rndc[round + 1])] = StandardChiIota(F, round)
            /\ StandardChiIota(F, round) \in State
        BY <2>1, <3>1, ChiIotaOfStandard
      <4>2. /\ A' = [keccak_chi(F) EXCEPT ![0] = xor(@, get_round_constant(round))]
            /\ st' = [Chi(F) EXCEPT ![0] = xor(@, keccakf_rndc[round + 1])]
            /\ F' = StandardChiIota(F, round)
        BY <2>1, <2>4, Zenon DEF ChiIotaStep
      <4> QED BY <4>1, <4>2, Zenon
    <3>3. round' \in 0..24 BY <3>1
    <3> QED BY <3>1, <3>2, <3>3 DEF Permuting, StepsOfStandard
  <2>5. CASE UNCHANGED vars
    BY <2>5 DEF vars, Permuting, StepsOfStandard
  <2> QED BY <2>2, <2>3, <2>4, <2>5 DEF Next
<1>3. Permuting => StepsOfStandard
  BY DEF Permuting
<1> QED BY <1>1, <1>2, <1>3, PTL DEF Spec
=============================================================================
