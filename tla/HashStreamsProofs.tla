-------------------------- MODULE HashStreamsProofs --------------------------
(***************************************************************************)
(* Both hash implementations are sponges, for blocks, digests, messages    *)
(* and chunks of every size.                                               *)
(***************************************************************************)
EXTENDS HashStreams, NumberLemmas, SequenceTheorems

Octet == SUBSET (0..7)

-----------------------------------------------------------------------------
(* keccak256.c.  While a message is absorbed, hash holds its whole blocks  *)
(* and the buffer what is left of it.                                      *)

\* h consists of the first blocks of m.
BlocksOf(h, m) ==
    /\ h \in Seq([Index -> Octet]) /\ Len(h) * BLOCK_SIZE <= Len(m)
    /\ \A k \in 1..Len(h), i \in Index : h[k][i] = m[(k - 1) * BLOCK_SIZE + i + 1]

\* s is what the message m has behind the blocks h.
Remains(m, h, s) ==
    /\ s \in Seq(Octet) /\ Len(m) = Len(h) * BLOCK_SIZE + Len(s)
    /\ \A j \in 1..Len(s) : s[j] = m[Len(h) * BLOCK_SIZE + j]

\* h with the whole blocks of s.
WithBlocks(h, s) == h \o [k \in 1..Whole(s) |-> Block(s, k)]

KeccakAbsorbed ==
    /\ BlocksOf(hash, input)
    /\ rest \in Index /\ Len(input) = Len(hash) * BLOCK_SIZE + rest
    /\ message \in [Index -> Octet]
    /\ \A i \in 0..(rest - 1) : message[i] = input[Len(hash) * BLOCK_SIZE + i + 1]
    /\ result = << >>

LEMMA BlockSize == BLOCK_SIZE \in Nat \ {0}
BY Keccak256Assumption

\* The places of block k.
LEMMA BlockPlace ==
  ASSUME NEW n \in Nat, NEW k \in 1..n, NEW i \in Index
  PROVE  /\ (k - 1) * BLOCK_SIZE \in Nat /\ n * BLOCK_SIZE \in Nat
         /\ (k - 1) * BLOCK_SIZE + i + 1 \in 1..(n * BLOCK_SIZE)
<1>1. k - 1 \in Nat /\ k \in Nat /\ BLOCK_SIZE \in Nat /\ i \in Nat /\ i < BLOCK_SIZE
  BY BlockSize DEF Index
<1>2. k * BLOCK_SIZE <= n * BLOCK_SIZE
  BY <1>1, ProductMonotone
<1>3. (k - 1) * BLOCK_SIZE = k * BLOCK_SIZE - 1 * BLOCK_SIZE
  BY <1>1, ProductSum
<1>4. (k - 1) * BLOCK_SIZE \in Nat /\ n * BLOCK_SIZE \in Nat /\ k * BLOCK_SIZE \in Nat
  BY <1>1, ProductNat
<1> QED BY <1>1, <1>2, <1>3, <1>4

LEMMA BlocksExtend ==
  ASSUME NEW m \in Seq(Octet), NEW c \in Seq(Octet), NEW h, BlocksOf(h, m)
  PROVE  BlocksOf(h, m \o c)
<1>1. ASSUME NEW k \in 1..Len(h), NEW i \in Index
      PROVE  (m \o c)[(k - 1) * BLOCK_SIZE + i + 1] = m[(k - 1) * BLOCK_SIZE + i + 1]
  <2> DEFINE p == (k - 1) * BLOCK_SIZE + i + 1
  <2>1. Len(h) \in Nat
    BY DEF BlocksOf
  <2>2. p \in 1..(Len(h) * BLOCK_SIZE) /\ Len(h) * BLOCK_SIZE \in Nat
    BY <2>1, BlockPlace
  <2>3. Len(h) * BLOCK_SIZE <= Len(m)
    BY DEF BlocksOf
  <2> HIDE DEF p
  <2>4. p \in 1..Len(m)
    BY <2>2, <2>3
  <2> QED BY <2>4 DEF p
<1>2. Len(h) * BLOCK_SIZE <= Len(m \o c)
  <2>1. Len(h) * BLOCK_SIZE \in Nat
    BY BlockSize, ProductNat DEF BlocksOf
  <2> QED BY <2>1 DEF BlocksOf
<1> QED BY <1>1, <1>2 DEF BlocksOf

LEMMA BlocksAppend ==
  ASSUME NEW m \in Seq(Octet), NEW h, BlocksOf(h, m), NEW b \in [Index -> Octet],
         Len(h) * BLOCK_SIZE + BLOCK_SIZE <= Len(m),
         \A i \in Index : b[i] = m[Len(h) * BLOCK_SIZE + i + 1]
  PROVE  BlocksOf(Append(h, b), m) /\ Len(Append(h, b)) = Len(h) + 1
<1>1. h \in Seq([Index -> Octet]) /\ Len(h) \in Nat
  BY DEF BlocksOf
<1>2. Append(h, b) \in Seq([Index -> Octet]) /\ Len(Append(h, b)) = Len(h) + 1
  BY <1>1
<1>3. (Len(h) + 1) * BLOCK_SIZE = Len(h) * BLOCK_SIZE + BLOCK_SIZE
  BY <1>1, BlockSize, ProductSum
<1>4. ASSUME NEW k \in 1..(Len(h) + 1), NEW i \in Index
      PROVE  Append(h, b)[k][i] = m[(k - 1) * BLOCK_SIZE + i + 1]
  <2>1. CASE k <= Len(h)
    BY <1>1, <2>1 DEF BlocksOf
  <2>2. CASE k = Len(h) + 1
    <3>1. k - 1 = Len(h) /\ Append(h, b)[k] = b
      BY <1>1, <2>2
    <3> QED BY <3>1
  <2> QED BY <1>1, <2>1, <2>2
<1> QED BY <1>2, <1>3, <1>4 DEF BlocksOf

\* The blocks of s behind those of h, if s is the rest of the message.
LEMMA BlocksMore ==
  ASSUME NEW m \in Seq(Octet), NEW h, BlocksOf(h, m), NEW s, Remains(m, h, s)
  PROVE  /\ BlocksOf(WithBlocks(h, s), m) /\ Remains(m, WithBlocks(h, s), Leftover(s))
         /\ Len(Leftover(s)) = Len(s) % BLOCK_SIZE /\ Len(s) \in Nat
         /\ \A k \in 1..Whole(s) : Block(s, k) \in [Index -> Octet]
<1> DEFINE g == WithBlocks(h, s)
<1>0. /\ s \in Seq(Octet) /\ Len(m) = Len(h) * BLOCK_SIZE + Len(s)
      /\ \A j \in 1..Len(s) : s[j] = m[Len(h) * BLOCK_SIZE + j]
  BY DEF Remains
<1>G. g = h \o [k \in 1..Whole(s) |-> Block(s, k)]
  BY DEF WithBlocks
<1> HIDE DEF g
<1> USE <1>0, <1>G
<1> DEFINE B == BLOCK_SIZE  w == Whole(s)  n == Len(s)  q == Len(h)
           u == Len(s) % BLOCK_SIZE
           blocks == [k \in 1..Whole(s) |-> Block(s, k)]
<1>1. B \in Nat \ {0} /\ n \in Nat /\ q \in Nat /\ h \in Seq([Index -> Octet])
  BY BlockSize DEF BlocksOf
<1>2. w \in Nat /\ u \in 0..(B - 1) /\ n = w * B + u
  BY <1>1, QuotientFacts DEF Whole
<1>3. q * B \in Nat /\ w * B \in Nat /\ (q + w) * B = q * B + w * B
  BY <1>1, <1>2, ProductNat, ProductSum
<1>4. ASSUME NEW k \in 1..w, NEW i \in Index
      PROVE  /\ (k - 1) * B + i + 1 \in 1..n
             /\ s[(k - 1) * B + i + 1] = m[(q + k - 1) * B + i + 1]
  <2>1. (k - 1) * B \in Nat /\ (k - 1) * B + i + 1 \in 1..(w * B)
    BY <1>2, BlockPlace
  <2>2. (q + (k - 1)) * B = q * B + (k - 1) * B
    BY <1>1, ProductSum
  <2> DEFINE j == (k - 1) * B + i + 1
  <2>3. j \in 1..n
    <3> HIDE DEF n, w, u
    <3> QED BY <1>2, <1>3, <2>1
  <2>4. s[j] = m[q * B + j]
    BY <2>3
  <2>5. q * B + j = (q + k - 1) * B + i + 1
    <3>1. q + (k - 1) = q + k - 1 /\ i \in Nat
      BY <1>1, <1>2 DEF Index
    <3> DEFINE x == (k - 1) * B  y == q * B
    <3>2. x \in Nat /\ y \in Nat
      BY <1>3, <2>1
    <3>3. (q + k - 1) * B = y + x
      BY <2>2, <3>1
    <3> HIDE DEF x, y
    <3>4. y + (x + i + 1) = (y + x) + i + 1
      BY <3>1, <3>2
    <3> QED BY <3>3, <3>4 DEF x, y
  <2> QED BY <2>3, <2>4, <2>5
<1>5. ASSUME NEW k \in 1..w PROVE Block(s, k) \in [Index -> Octet]
  <2>1. ASSUME NEW i \in Index PROVE s[(k - 1) * B + i + 1] \in Octet
    <3>1. (k - 1) * B + i + 1 \in 1..Len(s)
      BY <1>4
    <3> QED BY <3>1
  <2> QED BY <2>1 DEF Block
<1>6. blocks \in Seq([Index -> Octet]) /\ Len(blocks) = w
  <2> HIDE DEF w
  <2>1. [k \in 1..w |-> Block(s, k)] \in Seq([Index -> Octet])
    BY <1>2, <1>5
  <2> QED BY <1>2, <2>1 DEF w
<1>7. /\ g \in Seq([Index -> Octet]) /\ Len(g) = q + w /\ Len(g) * B = q * B + w * B
  <2>1. g = h \o blocks
    OBVIOUS
  <2>0. Len(h) \in Nat /\ w \in Nat
    BY <1>1, <1>2
  <2> HIDE DEF blocks, w
  <2>2. g \in Seq([Index -> Octet]) /\ Len(g) = q + w
    <3> DEFINE T == [Index -> Octet]
    <3>1. h \in Seq(T) /\ blocks \in Seq(T) /\ Len(blocks) = w
      BY <1>1, <1>6
    <3> HIDE DEF T
    <3>2. h \o blocks \in Seq(T) /\ Len(h \o blocks) = Len(h) + Len(blocks)
      BY <3>1, ConcatProperties
    <3> QED BY <2>1, <3>1, <3>2 DEF T
  <2> QED BY <1>3, <2>2
<1> DEFINE qB == q * B  wB == w * B  gB == Len(g) * B
<1>N. /\ qB \in Nat /\ wB \in Nat /\ u \in Nat /\ n = wB + u /\ Len(m) = qB + n
      /\ gB = qB + wB /\ gB \in Nat
  BY <1>2, <1>3, <1>7
<1>8. BlocksOf(g, m)
  <2>1. gB <= Len(m)
    <3> HIDE DEF n, qB, wB, gB, u
    <3> QED BY <1>N
  <2>2. ASSUME NEW k \in 1..(q + w), NEW i \in Index
        PROVE  g[k][i] = m[(k - 1) * B + i + 1]
    <3>1. CASE k <= q
      <4>1. g[k] = h[k] /\ k \in 1..Len(h)
        BY <1>1, <1>2, <1>6, <3>1
      <4> QED BY <4>1 DEF BlocksOf
    <3>2. CASE k > q
      <4>1. k - q \in 1..w /\ q + (k - q) - 1 = k - 1
        <5>1. q \in Nat /\ w \in Nat
          BY <1>1, <1>2
        <5> HIDE DEF q, w
        <5> QED BY <5>1, <3>2
      <4>2. g[k] = blocks[k - q]
        BY <1>1, <1>2, <1>6, <3>2
      <4>3. g[k][i] = s[(k - q - 1) * B + i + 1]
        BY <4>1, <4>2 DEF Block
      <4>4. s[(k - q - 1) * B + i + 1] = m[(q + (k - q) - 1) * B + i + 1]
        BY <1>4, <4>1
      <4> QED BY <4>1, <4>3, <4>4
    <3> QED BY <1>1, <1>2, <3>1, <3>2
  <2> QED BY <1>7, <2>1, <2>2 DEF BlocksOf
<1>9. /\ Leftover(s) \in Seq(Octet) /\ Len(Leftover(s)) = u
      /\ \A j \in 1..u : Leftover(s)[j] = s[w * B + j]
  <2>1. Leftover(s) = SubSeq(s, wB + 1, Len(s)) /\ Len(s) = wB + u
    BY <1>N DEF Leftover
  <2> HIDE DEF wB, u, w
  <2>2. SubSeq(s, wB + 1, Len(s)) \in Seq(Octet)
    BY <1>N
  <2>3. Len(SubSeq(s, wB + 1, Len(s))) = u
    BY <1>N, <2>1
  <2>4. \A j \in 1..u : SubSeq(s, wB + 1, Len(s))[j] = s[wB + j]
    BY <1>N, <2>1
  <2> QED BY <2>1, <2>2, <2>3, <2>4 DEF wB
<1>10. Len(m) = gB + u
  <2> HIDE DEF n, qB, wB, gB, u
  <2> QED BY <1>N
<1>11. ASSUME NEW j \in 1..u PROVE Leftover(s)[j] = m[Len(g) * B + j]
  <2>1. wB + j \in 1..n /\ qB + (wB + j) = gB + j
    <3> HIDE DEF n, qB, wB, gB, u
    <3> QED BY <1>N
  <2> QED BY <1>9, <2>1
<1>12. Remains(m, g, Leftover(s))
  BY <1>9, <1>10, <1>11 DEF Remains
<1> QED BY <1>1, <1>5, <1>8, <1>9, <1>12 DEF g

LEMMA memcpyType ==
  ASSUME NEW b \in [Index -> Octet], NEW at \in Nat, NEW s \in Seq(Octet)
  PROVE  /\ memcpy(b, at, s) \in [Index -> Octet]
         /\ \A i \in Index : i < at => memcpy(b, at, s)[i] = b[i]
         /\ \A i \in Index : i >= at /\ i < at + Len(s) => memcpy(b, at, s)[i] = s[i - at + 1]
<1>1. \A i \in Index : i \in Nat
  BY BlockSize DEF Index
<1>2. \A i \in at..(at + Len(s) - 1) : i - at + 1 \in 1..Len(s)
  BY <1>1
<1>3. memcpy(b, at, s) = [i \in Index |-> IF i \in at..(at + Len(s) - 1) THEN s[i - at + 1] ELSE b[i]]
  BY DEF memcpy
<1> QED BY <1>1, <1>2, <1>3

\* The end of keccak_update, when h is absorbed and s is left of the message m.
LEMMA AbsorbRest ==
  ASSUME NEW m \in Seq(Octet), NEW h, BlocksOf(h, m), NEW s, Remains(m, h, s),
         NEW b \in [Index -> Octet], NEW aligned,
         message' = memcpy(IF aligned \/ Whole(s) = 0 THEN b ELSE Block(s, Whole(s)),
                           0, Leftover(s)),
         hash' = WithBlocks(h, s), rest' = Len(s) % BLOCK_SIZE, input' = m, result' = << >>
  PROVE  KeccakAbsorbed'
<1> DEFINE t == Leftover(s)  g == WithBlocks(h, s)  gB == Len(g) * BLOCK_SIZE
<1>1. /\ BlocksOf(g, m) /\ Remains(m, g, t)
      /\ Len(t) = Len(s) % BLOCK_SIZE /\ Len(s) \in Nat
      /\ \A k \in 1..Whole(s) : Block(s, k) \in [Index -> Octet]
  BY BlocksMore
<1>2. Whole(s) \in Nat /\ Len(s) % BLOCK_SIZE \in Index
  BY <1>1, BlockSize, QuotientFacts DEF Whole, Index
<1>3. PICK c \in [Index -> Octet] : message' = memcpy(c, 0, t)
  <2>1. Whole(s) # 0 => Whole(s) \in 1..Whole(s)
    BY <1>2
  <2> QED BY <1>1, <2>1
<1>4. /\ t \in Seq(Octet) /\ Len(m) = gB + Len(t)
      /\ \A j \in 1..Len(t) : t[j] = m[gB + j]
  BY <1>1 DEF Remains
<1> HIDE DEF t
<1>5. /\ memcpy(c, 0, t) \in [Index -> Octet]
      /\ \A i \in Index : i >= 0 /\ i < 0 + Len(t) => memcpy(c, 0, t)[i] = t[i - 0 + 1]
  BY <1>4, memcpyType
<1>6. gB \in Nat
  <2>1. Len(g) \in Nat
    BY <1>1 DEF BlocksOf
  <2> HIDE DEF g
  <2> QED BY <2>1, BlockSize, ProductNat
<1>7. ASSUME NEW i \in 0..(Len(t) - 1) PROVE memcpy(c, 0, t)[i] = m[gB + i + 1]
  <2>1. i \in Index /\ i >= 0 /\ i < 0 + Len(t) /\ i - 0 + 1 = i + 1 /\ i + 1 \in 1..Len(t)
    <3>1. Len(t) \in Index /\ Len(t) \in Nat /\ BLOCK_SIZE \in Nat
      BY <1>1, <1>2, <1>4, BlockSize
    <3> QED BY <3>1 DEF Index
  <2>2. t[i + 1] = m[gB + (i + 1)]
    BY <1>4, <2>1
  <2>3. gB + (i + 1) = gB + i + 1
    <3> HIDE DEF gB
    <3> QED BY <1>6
  <2>4. memcpy(c, 0, t)[i] = t[i + 1]
    BY <1>5, <2>1
  <2> QED BY <2>2, <2>3, <2>4
<1>8. rest' = Len(t) /\ Len(t) \in Index
  BY <1>1, <1>2
<1> HIDE DEF g
<1>9. hash' = g
  BY DEF g
<1> QED BY <1>1, <1>3, <1>4, <1>5, <1>7, <1>8, <1>9 DEF KeccakAbsorbed

LEMMA ModuloSmall == ASSUME NEW m \in Nat \ {0}, NEW x \in 0..(m - 1) PROVE x % m = x
OBVIOUS

LEMMA KeccakUpdate ==
  ASSUME KeccakAbsorbed, input \in Seq(Octet), NEW c \in Seq(Octet),
         keccak_update(c), input' = input \o c
  PROVE  KeccakAbsorbed'
<1> DEFINE B == BLOCK_SIZE  q == Len(hash)  qB == Len(hash) * BLOCK_SIZE  m == input \o c
           n == Len(c)  left == BLOCK_SIZE - rest
           filled == memcpy(message, rest, SubSeq(c, 1, left))
<1>1. /\ B \in Nat \ {0} /\ qB \in Nat /\ q \in Nat /\ n \in Nat
      /\ rest \in 0..(B - 1) /\ Len(input) = qB + rest
      /\ left \in 1..B /\ message \in [Index -> Octet] /\ result = << >>
      /\ hash \in Seq([Index -> Octet])
  <2>1. B \in Nat \ {0} /\ q \in Nat
    BY BlockSize DEF KeccakAbsorbed, BlocksOf
  <2>2. qB \in Nat
    BY <2>1, ProductNat
  <2> QED BY <2>1, <2>2 DEF KeccakAbsorbed, Index, BlocksOf
<1>2. m \in Seq(Octet) /\ BlocksOf(hash, m) /\ input' = m
  BY BlocksExtend DEF KeccakAbsorbed
<1>3. /\ Len(m) = qB + rest + n
      /\ \A j \in 1..(qB + rest) : m[j] = input[j]
      /\ \A j \in 1..n : m[qB + rest + j] = c[j]
  <2>1. Len(m) = Len(input) + n /\ Len(input) \in Nat
    OBVIOUS
  <2>2. \A j \in 1..Len(input) : m[j] = input[j]
    OBVIOUS
  <2>3. \A j \in 1..n : m[Len(input) + j] = c[j]
    OBVIOUS
  <2> QED BY <1>1, <2>1, <2>2, <2>3
<1>4. rest' = (rest + n) % B /\ UNCHANGED result
  BY DEF keccak_update
<1>5. CASE rest = 0
  <2>1. AbsorbBlocks(<< >>, message, c)
    BY <1>5 DEF keccak_update
  <2>2. hash' = WithBlocks(hash, c)
    <3>1. hash \o << >> = hash
      BY <1>1, ConcatEmptySeq
    <3> QED BY <2>1, <3>1 DEF AbsorbBlocks, WithBlocks
  <2>3. rest + n = n /\ qB + rest = qB
    <3> HIDE DEF qB, n
    <3> QED BY <1>1, <1>5
  <2>4. Remains(m, hash, c)
    BY <1>3, <2>3 DEF Remains
  <2>6. rest' = Len(c) % BLOCK_SIZE /\ result' = << >>
    BY <1>1, <1>4, <2>3
  <2>7. PICK aligned \in BOOLEAN :
           message' = memcpy(IF aligned \/ Whole(c) = 0 THEN message ELSE Block(c, Whole(c)),
                             0, Leftover(c))
    BY <2>1 DEF AbsorbBlocks
  <2> HIDE DEF m
  <2> QED BY <1>1, <1>2, <2>2, <2>4, <2>6, <2>7, AbsorbRest
<1>6. CASE rest # 0 /\ n < left
  <2>1. message' = memcpy(message, rest, c) /\ hash' = hash
    BY <1>6 DEF keccak_update
  <2>2. rest + n \in 0..(B - 1)
    <3> HIDE DEF n
    <3> QED BY <1>1, <1>6
  <2>3. rest' = rest + n
    <3>1. (rest + n) % B = rest + n
      <4> DEFINE x == rest + n
      <4>1. x \in 0..(B - 1)
        BY <2>2
      <4> HIDE DEF x
      <4>2. x % B = x
        BY <1>1, <4>1, ModuloSmall
      <4> QED BY <4>2 DEF x
    <3> QED BY <1>4, <3>1
  <2>4. /\ message' \in [Index -> Octet]
        /\ \A i \in Index : i < rest => message'[i] = message[i]
        /\ \A i \in Index : i >= rest /\ i < rest + n => message'[i] = c[i - rest + 1]
    <3>1. rest \in Nat
      BY <1>1
    <3>2. message \in [Index -> Octet] /\ c \in Seq(Octet)
      BY <1>1
    <3> QED BY <2>1, <3>1, <3>2, memcpyType
  <2>5. ASSUME NEW i \in 0..(rest + n - 1) PROVE message'[i] = m[qB + i + 1]
    <3>1. i \in Index /\ i \in Nat
      BY <1>1, <2>2 DEF Index
    <3>2. CASE i < rest
      <4>1. qB + i + 1 \in 1..(qB + rest) /\ i \in 0..(rest - 1)
        <5> HIDE DEF qB
        <5> QED BY <1>1, <3>1, <3>2
      <4>2. message[i] = input[qB + i + 1]
        BY <4>1 DEF KeccakAbsorbed
      <4> QED BY <1>3, <2>4, <3>1, <3>2, <4>1, <4>2
    <3>3. CASE i >= rest
      <4>1. i - rest + 1 \in 1..n /\ qB + rest + (i - rest + 1) = qB + i + 1 /\ i < rest + n
        <5> HIDE DEF qB, n
        <5> QED BY <1>1, <3>1, <3>3
      <4>2. m[qB + rest + (i - rest + 1)] = c[i - rest + 1]
        BY <1>3, <4>1
      <4> QED BY <2>4, <3>1, <3>3, <4>1, <4>2
    <3>4. i < rest \/ i >= rest
      BY <1>1, <3>1
    <3> QED BY <3>2, <3>3, <3>4
  <2>6. Len(m) = qB + (rest + n)
    <3> HIDE DEF qB, n
    <3> QED BY <1>1, <1>3
  <2>7. rest' \in Index /\ result' = << >> /\ hash' = hash /\ input' = m
    BY <1>1, <1>2, <1>4, <2>1, <2>2, <2>3 DEF Index
  <2>8. qB = Len(hash') * BLOCK_SIZE /\ BlocksOf(hash', input')
    BY <1>2, <2>7
  <2> HIDE DEF n, m, qB
  <2>9. Len(input') = qB + rest'
    BY <2>3, <2>6, <2>7
  <2>10. ASSUME NEW i \in 0..(rest' - 1) PROVE message'[i] = input'[qB + i + 1]
    <3>1. i \in 0..(rest + n - 1)
      <4>1. rest' \in Int /\ rest \in Int /\ n \in Int
        BY <1>1, <2>3
      <4> QED BY <2>3, <4>1
    <3>2. message'[i] = m[qB + i + 1]
      BY <2>5, <3>1
    <3> QED BY <2>7, <3>2
  <2> QED BY <2>4, <2>7, <2>8, <2>9, <2>10 DEF KeccakAbsorbed
<1>7. CASE rest # 0 /\ ~(n < left)
  <2> DEFINE s == SubSeq(c, left + 1, Len(c))  f == SubSeq(c, 1, left)  h == Append(hash, filled)
  <2>1. AbsorbBlocks(<< filled >>, filled, s)
    BY <1>7 DEF keccak_update
  <2>2. /\ f \in Seq(Octet) /\ Len(f) = left /\ \A j \in 1..left : f[j] = c[j]
        /\ s \in Seq(Octet) /\ Len(s) = n - left /\ \A j \in 1..(n - left) : s[j] = c[left + j]
    <3>1. left \in 1..Len(c)
      BY <1>1, <1>7
    <3> HIDE DEF left
    <3> QED BY <3>1
  <2>3. /\ filled \in [Index -> Octet]
        /\ \A i \in Index : i < rest => filled[i] = message[i]
        /\ \A i \in Index : i >= rest /\ i < rest + left => filled[i] = f[i - rest + 1]
    <3>1. rest \in Nat /\ f \in Seq(Octet) /\ Len(f) = left /\ filled = memcpy(message, rest, f)
      BY <1>1, <2>2
    <3> HIDE DEF left, f, filled
    <3>2. message \in [Index -> Octet]
      BY <1>1
    <3>3. /\ memcpy(message, rest, f) \in [Index -> Octet]
          /\ \A i \in Index : i < rest => memcpy(message, rest, f)[i] = message[i]
          /\ \A i \in Index : i >= rest /\ i < rest + Len(f) => memcpy(message, rest, f)[i] = f[i - rest + 1]
      BY <3>1, <3>2, memcpyType
    <3> QED BY <3>1, <3>3
  <2>4. ASSUME NEW i \in Index PROVE filled[i] = m[qB + i + 1]
    <3>1. i \in Nat /\ i < rest + left /\ rest + left = B
      BY <1>1 DEF Index
    <3>2. CASE i < rest
      <4>1. qB + i + 1 \in 1..(qB + rest) /\ i \in 0..(rest - 1)
        <5> HIDE DEF qB
        <5> QED BY <1>1, <3>1, <3>2
      <4>2. message[i] = input[qB + i + 1]
        BY <4>1 DEF KeccakAbsorbed
      <4> HIDE DEF filled, m
      <4> QED BY <1>3, <2>3, <3>1, <3>2, <4>1, <4>2
    <3>3. CASE i >= rest
      <4>1. /\ i - rest + 1 \in 1..left /\ i - rest + 1 \in 1..n
            /\ qB + rest + (i - rest + 1) = qB + i + 1
        <5> HIDE DEF qB, n, left
        <5> QED BY <1>1, <1>7, <3>1, <3>3
      <4>2. m[qB + rest + (i - rest + 1)] = c[i - rest + 1] /\ f[i - rest + 1] = c[i - rest + 1]
        BY <1>3, <2>2, <4>1
      <4> HIDE DEF filled, m, f
      <4> QED BY <2>3, <3>1, <3>3, <4>1, <4>2
    <3>4. i < rest \/ i >= rest
      BY <1>1, <3>1
    <3> QED BY <3>2, <3>3, <3>4
  <2>5. BlocksOf(h, m) /\ Len(h) = q + 1
    <3>1. qB + B <= Len(m)
      <4> HIDE DEF qB, n, m
      <4> QED BY <1>1, <1>3, <1>7
    <3> HIDE DEF filled, m
    <3> QED BY <1>2, <2>3, <2>4, <3>1, BlocksAppend
  <2>6. Len(h) * B = qB + B
    BY <1>1, <2>5, ProductSum
  <2>7. Len(m) = Len(h) * B + Len(s)
    <3> DEFINE hB == Len(h) * B
    <3>1. hB = qB + B /\ Len(m) = qB + rest + n /\ Len(s) = n - left
      BY <1>3, <2>2, <2>6
    <3> HIDE DEF hB, qB, n, m, s
    <3>2. Len(m) = hB + Len(s)
      BY <1>1, <3>1
    <3> QED BY <3>2 DEF hB
  <2>8. ASSUME NEW j \in 1..Len(s) PROVE s[j] = m[Len(h) * B + j]
    <3>1. j \in 1..(n - left)
      BY <2>2
    <3>2. left + j \in 1..n /\ qB + rest + (left + j) = qB + B + j
      <4> HIDE DEF qB, n
      <4> QED BY <1>1, <3>1
    <3>3. m[qB + rest + (left + j)] = c[left + j]
      BY <1>3, <3>2
    <3> QED BY <2>2, <2>6, <3>1, <3>2, <3>3
  <2>9. hash' = WithBlocks(h, s)
    <3>1. hash \o << filled >> = h
      BY <1>1, <2>3
    <3> QED BY <2>1, <3>1 DEF AbsorbBlocks, WithBlocks
  <2>10. rest' = Len(s) % B
    <3> DEFINE x == Len(s) \div B  y == Len(s) % B  z == n - left
    <3>1. Len(s) = z /\ z \in Nat
      BY <1>1, <1>7, <2>2
    <3>2. x \in Nat /\ y \in 0..(B - 1) /\ z = x * B + y
      <4> HIDE DEF s, z
      <4> QED BY <1>1, <3>1, QuotientFacts
    <3>3. (x + 1) * B = x * B + B
      <4>1. x \in Int /\ B \in Int
        BY <1>1, <3>2
      <4> HIDE DEF x
      <4>2. (x + 1) * B = x * B + 1 * B
        BY <4>1, ProductSum
      <4> QED BY <4>1, <4>2
    <3> HIDE DEF x, y
    <3>4. rest + n = (x + 1) * B + y /\ rest + n \in Nat /\ x + 1 \in Nat
      <4> DEFINE xB == x * B
      <4>1. z = xB + y /\ (x + 1) * B = xB + B
        BY <3>2, <3>3
      <4>2. rest + n = z + B
        <5> HIDE DEF n
        <5> QED BY <1>1
      <4>3. xB \in Nat
        BY <1>1, <3>2, ProductNat
      <4> HIDE DEF xB
      <4> QED BY <1>1, <3>2, <4>1, <4>2, <4>3
    <3>5. (rest + n) % B = y
      BY <1>1, <3>2, <3>4, QuotientUnique
    <3> QED BY <1>4, <3>5 DEF y
  <2>11. PICK aligned \in BOOLEAN :
           message' = memcpy(IF aligned \/ Whole(s) = 0 THEN filled ELSE Block(s, Whole(s)),
                             0, Leftover(s))
    BY <2>1 DEF AbsorbBlocks
  <2>12. Remains(m, h, s) /\ result' = << >>
    BY <1>1, <1>4, <2>2, <2>7, <2>8 DEF Remains
  <2> HIDE DEF m, h, s, filled
  <2> QED BY <1>2, <2>3, <2>5, <2>9, <2>10, <2>11, <2>12, AbsorbRest
<1> QED BY <1>5, <1>6, <1>7

LEMMA DigestLength == digest_length \in Nat /\ digest_length <= BLOCK_SIZE /\ digest_length <= MaxOut
<1>1. digest_length \in Nat
  <2>1. BLOCK_SIZE \in Nat /\ StateBytes \in Nat /\ BLOCK_SIZE < StateBytes
    BY Keccak256Assumption
  <2> QED BY <2>1 DEF digest_length
<1> QED BY <1>1, HashStreamsAssumption

\* Blocks that hold the message m, and behind them one with its rest and the
\* padding, are the blocks of the padded message.
LEMMA KeccakBlocks ==
  ASSUME NEW m \in Seq(Octet), NEW h, BlocksOf(h, m), NEW r \in Index,
         Len(m) = Len(h) * BLOCK_SIZE + r, NEW b \in [Index -> Octet],
         \A i \in 0..(r - 1) : b[i] = m[Len(h) * BLOCK_SIZE + i + 1]
  PROVE  LET pad == padding([i \in Index |-> IF i >= r THEN {} ELSE b[i]], r)
         IN  pad \in [Index -> Octet] /\ Append(h, pad) = K!Blocks({0}, m)
<1> DEFINE B == BLOCK_SIZE  q == Len(h)  qB == Len(h) * BLOCK_SIZE
           pad == padding([i \in Index |-> IF i >= r THEN {} ELSE b[i]], r)
<1>1. B \in Nat \ {0} /\ q \in Nat /\ r \in Nat /\ r \in 0..(B - 1) /\ h \in Seq([Index -> Octet])
  BY BlockSize DEF BlocksOf, Index
<1>2. qB \in Nat /\ Len(m) = qB + r
  BY <1>1, ProductNat
<1>3. Len(m) \div B = q
  <2>1. Len(m) \in Nat /\ Len(m) = q * B + r
    OBVIOUS
  <2> QED BY <1>1, <2>1, QuotientUnique
<1>4. K!Blocks({0}, m) = [k \in 1..(q + 1) |-> K!Padded({0}, m, k - 1)]
  BY <1>3 DEF K!Blocks
<1>5. ASSUME NEW k \in Nat
      PROVE  K!Padded({0}, m, k) =
               [j \in Index |-> IF k * B + j < Len(m) THEN m[k * B + j + 1]
                                ELSE (IF k * B + j = Len(m) THEN {0} ELSE {}) \cup
                                     (IF j = B - 1 THEN {7} ELSE {})]
  BY DEF K!Padded, K!Offsets, Index
<1> DEFINE cleared == [i \in Index |-> IF i >= r THEN {} ELSE b[i]]
           begun == [cleared EXCEPT ![r] = @ \cup {0}]
<1>6. /\ pad \in [Index -> Octet]
      /\ \A j \in Index : pad[j] = (IF j >= r THEN {} ELSE b[j]) \cup
                                   (IF j = r THEN {0} ELSE {}) \cup
                                   (IF j = B - 1 THEN {7} ELSE {})
  <2>1. r \in Index /\ B - 1 \in Index
    BY <1>1 DEF Index
  <2>2. {0} \in Octet /\ {7} \in Octet /\ {} \in Octet /\ \A x, y \in Octet : x \cup y \in Octet
    BY DEF Octet
  <2>3. cleared \in [Index -> Octet] /\ \A j \in Index : cleared[j] = IF j >= r THEN {} ELSE b[j]
    BY <2>2
  <2> HIDE DEF cleared, Index, B, Octet
  <2>4. /\ begun \in [Index -> Octet]
        /\ \A j \in Index : begun[j] = cleared[j] \cup (IF j = r THEN {0} ELSE {})
    BY <2>1, <2>2, <2>3
  <2> HIDE DEF begun
  <2>5. pad = [begun EXCEPT ![BLOCK_SIZE - 1] = @ \cup {7}]
    BY Zenon DEF begun, cleared, padding
  <2> HIDE DEF pad
  <2>6. pad \in [Index -> Octet]
    BY <2>1, <2>2, <2>4, <2>5
  <2>7. \A j \in Index : pad[j] = begun[j] \cup (IF j = BLOCK_SIZE - 1 THEN {7} ELSE {})
    BY <2>1, <2>4, <2>5
  <2> QED BY <2>3, <2>4, <2>6, <2>7 DEF B
<1>7. ASSUME NEW k \in 1..q PROVE h[k] = K!Padded({0}, m, k - 1)
  <2>1. k - 1 \in Nat /\ h[k] \in [Index -> Octet]
    BY <1>1
  <2>2. ASSUME NEW j \in Index PROVE (k - 1) * B + j < Len(m) /\ h[k][j] = m[(k - 1) * B + j + 1]
    <3> DEFINE x == (k - 1) * B
    <3>1. x \in Nat /\ x + j + 1 \in 1..qB
      BY <1>1, BlockPlace
    <3>2. j \in Nat
      BY <1>1 DEF Index
    <3>3. x + j < qB + r
      <4> HIDE DEF x, qB
      <4> QED BY <1>1, <1>2, <3>1, <3>2
    <3>4. h[k][j] = m[(k - 1) * B + j + 1]
      BY DEF BlocksOf
    <3> QED BY <1>2, <3>3, <3>4
  <2>3. h[k] = [j \in Index |-> h[k][j]]
    BY <2>1
  <2> DEFINE p == K!Padded({0}, m, k - 1)
  <2>4. p = [j \in Index |-> p[j]] /\ \A j \in Index : p[j] = m[(k - 1) * B + j + 1]
    BY <1>5, <2>1, <2>2
  <2> HIDE DEF p
  <2>5. \A j \in Index : p[j] = h[k][j]
    BY <2>2, <2>4
  <2> QED BY <2>3, <2>4, <2>5 DEF p
<1>8. pad = K!Padded({0}, m, q)
  <2> DEFINE p == K!Padded({0}, m, q)
  <2>2. ASSUME NEW j \in Index
        PROVE  /\ (qB + j < Len(m) <=> j < r) /\ (qB + j = Len(m) <=> j = r)
               /\ j < r => j # B - 1 /\ b[j] = m[qB + j + 1]
    <3>1. j \in Nat /\ j <= B - 1
      BY <1>1 DEF Index
    <3>2. j < r => j \in 0..(r - 1)
      BY <1>1, <3>1
    <3>3. (qB + j < Len(m) <=> j < r) /\ (qB + j = Len(m) <=> j = r)
      <4> HIDE DEF qB
      <4>1. (qB + j < qB + r <=> j < r) /\ (qB + j = qB + r <=> j = r)
        BY <1>1, <1>2, <3>1
      <4> QED BY <1>2, <4>1
    <3> QED BY <1>1, <3>1, <3>2, <3>3
  <2>3. p = [j \in Index |-> p[j]] /\
        \A j \in Index : p[j] = IF qB + j < Len(m) THEN m[qB + j + 1]
                                ELSE (IF qB + j = Len(m) THEN {0} ELSE {}) \cup
                                     (IF j = B - 1 THEN {7} ELSE {})
    <3> HIDE DEF B
    <3> QED BY <1>1, <1>5 DEF B
  <2> HIDE DEF p, pad, qB, B, Index
  <2>4. ASSUME NEW j \in Index PROVE pad[j] = p[j]
    <3>1. j \in Nat
      BY <1>1 DEF Index, B
    <3>2. CASE j < r
      <4>1. ~(j >= r) /\ j # r /\ j # B - 1 /\ p[j] = b[j]
        BY <1>1, <2>2, <2>3, <3>1, <3>2
      <4> QED BY <1>6, <4>1
    <3>3. CASE j >= r
      <4>1. ~(qB + j < Len(m)) /\ (qB + j = Len(m) <=> j = r)
        BY <1>1, <2>2, <3>1, <3>3
      <4> QED BY <1>6, <2>3, <3>3, <4>1
    <3> QED BY <1>1, <3>1, <3>2, <3>3
  <2>5. pad = [j \in Index |-> pad[j]]
    BY <1>6
  <2> QED BY <2>3, <2>4, <2>5 DEF p
<1> HIDE DEF pad
<1>9. Append(h, pad) = [k \in 1..(q + 1) |-> K!Padded({0}, m, k - 1)]
  <2>0. h \in Seq([Index -> Octet]) /\ pad \in [Index -> Octet] /\ q \in Nat
    BY <1>1, <1>6
  <2>1. Append(h, pad) = [k \in 1..(q + 1) |-> IF k \in 1..q THEN h[k] ELSE pad]
    <3> DEFINE T == [Index -> Octet]  g == Append(h, pad)
    <3>1. h \in Seq(T) /\ pad \in T
      BY <2>0
    <3> HIDE DEF T
    <3>2. g \in Seq(T) /\ Len(g) = q + 1
      BY <3>1
    <3>3. g = [k \in 1..Len(g) |-> g[k]]
      <4> HIDE DEF g
      <4> QED BY <3>2
    <3>4. \A k \in 1..(q + 1) : g[k] = IF k \in 1..q THEN h[k] ELSE pad
      BY <2>0, <3>1
    <3> HIDE DEF g
    <3> QED BY <3>2, <3>3, <3>4 DEF g
  <2>2. \A k \in 1..(q + 1) : k \in 1..q \/ (k \notin 1..q /\ k - 1 = q)
    BY <1>1
  <2>3. \A k \in 1..(q + 1) : (IF k \in 1..q THEN h[k] ELSE pad) = K!Padded({0}, m, k - 1)
    BY <1>7, <1>8, <2>2
  <2> QED BY <2>1, <2>3
<1> QED BY <1>4, <1>6, <1>9 DEF pad

\* As long as one block, the output is read from the state of the last block.
LEMMA KeccakOutput ==
  ASSUME NEW m \in Seq(Octet), NEW n \in 0..BLOCK_SIZE
  PROVE  K!Output({0}, m, n) = [i \in 1..n |-> [h |-> K!Blocks({0}, m), j |-> i - 1]]
<1> DEFINE b == K!Blocks({0}, m)
<1>1. ASSUME NEW i \in 1..n PROVE (i - 1) \div BLOCK_SIZE = 0 /\ (i - 1) % BLOCK_SIZE = i - 1
  <2>1. i - 1 \in Nat /\ i - 1 \in 0..(BLOCK_SIZE - 1) /\ i - 1 = 0 * BLOCK_SIZE + (i - 1)
    BY BlockSize
  <2> QED BY <2>1, BlockSize, QuotientUnique
<1>2. b \o << >> = b
  <2>1. b = [k \in 1..((Len(m) \div BLOCK_SIZE) + 1) |-> K!Padded({0}, m, k - 1)]
    BY DEF K!Blocks
  <2>2. (Len(m) \div BLOCK_SIZE) + 1 \in Nat
    <3>1. Len(m) \in Nat
      OBVIOUS
    <3>2. Len(m) \div BLOCK_SIZE \in Nat
      BY <3>1, BlockSize, QuotientFacts
    <3> QED BY <3>2
  <2> DEFINE w == (Len(m) \div BLOCK_SIZE) + 1  T == {K!Padded({0}, m, k - 1) : k \in 1..w}
  <2>3. b \in Seq(T)
    <3> HIDE DEF w
    <3> QED BY <2>1, <2>2 DEF w
  <2> HIDE DEF b, T
  <2> QED BY <2>3, ConcatEmptySeq
<1>3. \A f : [k \in 1..0 |-> f] = << >>
  OBVIOUS
<1> QED BY <1>1, <1>2, <1>3 DEF K!Output, K!Offsets

KeccakTyped ==
    message \in [Index -> Octet] /\ rest \in Index /\ hash \in Seq([Index -> Octet])

LEMMA KeccakFinal ==
  ASSUME KeccakAbsorbed, input \in Seq(Octet), keccak_final
  PROVE  /\ hash' = K!Blocks({0}, input) /\ KeccakTyped'
         /\ result' = K!Output({0}, input, digest_length)
<1> DEFINE pad == padding([i \in Index |-> IF i >= rest THEN {} ELSE message[i]], rest)
<1>1. /\ BlocksOf(hash, input) /\ rest \in Index
      /\ Len(input) = Len(hash) * BLOCK_SIZE + rest /\ message \in [Index -> Octet]
      /\ \A i \in 0..(rest - 1) : message[i] = input[Len(hash) * BLOCK_SIZE + i + 1]
  BY DEF KeccakAbsorbed
<1>2. pad \in [Index -> Octet] /\ Append(hash, pad) = K!Blocks({0}, input)
  BY <1>1, KeccakBlocks
<1>3. /\ message' = pad /\ hash' = Append(hash, message') /\ rest' = rest
      /\ result' = [i \in 1..digest_length |-> [h |-> hash', j |-> i - 1]]
  BY DEF keccak_final
<1> HIDE DEF pad
<1>4. hash' = K!Blocks({0}, input) /\ hash' \in Seq([Index -> Octet])
  <2>1. hash \in Seq([Index -> Octet])
    BY <1>1 DEF BlocksOf
  <2>2. Append(hash, pad) \in Seq([Index -> Octet])
    BY <1>2, <2>1
  <2> QED BY <1>2, <1>3, <2>2
<1>5. K!Output({0}, input, digest_length)
        = [i \in 1..digest_length |-> [h |-> K!Blocks({0}, input), j |-> i - 1]]
  <2>1. digest_length \in 0..BLOCK_SIZE
    BY DigestLength, BlockSize
  <2> QED BY <2>1, KeccakOutput
<1> QED BY <1>1, <1>2, <1>3, <1>4, <1>5 DEF KeccakTyped

KeccakInv ==
    /\ input \in Seq(Byte) /\ phase \in {"absorb", "final", "xof"}
    /\ KeccakTyped /\ (phase = "absorb" => KeccakAbsorbed)

LEMMA NothingAbsorbed ==
  ASSUME hash = << >>, message = Zero, rest = 0, result = << >>, input = << >>
  PROVE  KeccakAbsorbed /\ KeccakTyped
<1>1. rest \in Index /\ message \in [Index -> Octet] /\ hash \in Seq([Index -> Octet])
  BY BlockSize DEF Index, Zero, Octet
<1>2. Len(hash) * BLOCK_SIZE = 0 /\ Len(input) = 0 /\ Len(hash) = 0
  BY BlockSize
<1> QED BY <1>1, <1>2 DEF KeccakAbsorbed, KeccakTyped, BlocksOf

LEMMA AbsorbedTyped == KeccakAbsorbed => KeccakTyped
BY DEF KeccakAbsorbed, KeccakTyped, BlocksOf

LEMMA Octets == Byte \subseteq Octet /\ \A s \in Seq(Byte) : s \in Seq(Octet)
<1>1. Byte \subseteq Octet
  BY HashStreamsAssumption DEF Octet
<1>2. ASSUME NEW s \in Seq(Byte) PROVE s \in Seq(Octet)
  <2>1. s \in [1..Len(s) -> Octet] /\ Len(s) \in Nat
    BY <1>1
  <2> QED BY <2>1
<1> QED BY <1>1, <1>2

LEMMA PrefixOfConcat ==
  ASSUME NEW T, NEW s \in Seq(T), NEW c \in Seq(T)
  PROVE  /\ s \o c \in Seq(T) /\ Len(s \o c) >= Len(s)
         /\ SubSeq(s \o c, 1, Len(s)) = s
<1>1. /\ s \o c \in Seq(T) /\ Len(s \o c) = Len(s) + Len(c) /\ Len(s) \in Nat /\ Len(c) \in Nat
      /\ \A i \in 1..Len(s) : (s \o c)[i] = s[i]
  OBVIOUS
<1> DEFINE m == s \o c
<1> HIDE DEF m
<1>2. m \in Seq(T) /\ Len(s) <= Len(m) /\ \A i \in 1..Len(s) : m[i] = s[i]
  BY <1>1 DEF m
<1>3. SubSeq(m, 1, Len(s)) = [i \in 1..Len(s) |-> m[i]]
  BY <1>1, <1>2
<1>4. s = [i \in 1..Len(s) |-> s[i]]
  OBVIOUS
<1>5. SubSeq(m, 1, Len(s)) = s
  BY <1>2, <1>3, <1>4
<1> QED BY <1>1, <1>5 DEF m

LEMMA Chunk ==
  ASSUME Update, input \in Seq(Byte)
  PROVE  \E c \in Seq(Byte) : /\ c \in Seq(Octet) /\ keccak_update(c) /\ sha3_update(c)
                              /\ input' = input \o c /\ input' \in Seq(Byte)
<1>1. PICK n \in 0..MaxChunk : \E c \in [1..n -> Byte] :
              keccak_update(c) /\ sha3_update(c) /\ input' = input \o c
  BY DEF Update
<1>2. PICK c \in [1..n -> Byte] : keccak_update(c) /\ sha3_update(c) /\ input' = input \o c
  BY <1>1
<1>3. c \in Seq(Byte)
  BY HashStreamsAssumption
<1>4. input \o c \in Seq(Byte)
  BY <1>3
<1> QED BY <1>2, <1>3, <1>4, Octets

LEMMA KeccakInvNext == KeccakInv /\ [Next]_vars => KeccakInv'
<1> SUFFICES ASSUME KeccakInv, [Next]_vars PROVE KeccakInv'
  OBVIOUS
<1>1. input \in Seq(Byte) /\ input \in Seq(Octet)
  BY Octets DEF KeccakInv
<1>2. CASE Update
  <2>1. PICK c \in Seq(Byte) : c \in Seq(Octet) /\ keccak_update(c) /\ input' = input \o c /\ input' \in Seq(Byte)
    BY <1>1, <1>2, Chunk
  <2>2. KeccakAbsorbed /\ phase' = "absorb"
    BY <1>2 DEF Update, KeccakInv
  <2>3. KeccakAbsorbed'
    BY <1>1, <2>1, <2>2, KeccakUpdate
  <2>4. KeccakTyped'
    BY <2>3 DEF KeccakAbsorbed, KeccakTyped, BlocksOf
  <2> QED BY <2>1, <2>2, <2>3, <2>4 DEF KeccakInv
<1>3. CASE Final \/ Xof
  <2>1. KeccakAbsorbed /\ keccak_final /\ phase' \in {"final", "xof"} /\ input' = input
    BY <1>3 DEF Final, Xof, KeccakInv
  <2>2. KeccakTyped'
    BY <1>1, <2>1, KeccakFinal
  <2> QED BY <1>1, <2>1, <2>2 DEF KeccakInv
<1>4. CASE Again
  <2>1. /\ hash' = << >> /\ message' = Zero /\ rest' = 0 /\ result' = << >> /\ input' = << >>
        /\ phase' = "absorb"
    BY <1>4 DEF Again, keccak_init
  <2>2. rest' \in Index /\ message' \in [Index -> Octet] /\ hash' \in Seq([Index -> Octet])
    BY <2>1, BlockSize DEF Index, Zero, Octet
  <2>3. Len(hash') * BLOCK_SIZE = 0 /\ Len(input') = 0 /\ Len(hash') = 0
    BY <2>1, BlockSize
  <2>4. KeccakAbsorbed' /\ KeccakTyped'
    BY <2>1, <2>2, <2>3 DEF KeccakAbsorbed, KeccakTyped, BlocksOf
  <2> QED BY <2>1, <2>4 DEF KeccakInv
<1>5. CASE Out \/ UNCHANGED vars
  BY <1>5 DEF Out, vars, keccakVars, KeccakInv, KeccakTyped, KeccakAbsorbed, BlocksOf
<1> QED BY <1>2, <1>3, <1>4, <1>5 DEF Next

LEMMA KeccakInvariant == Spec => []KeccakInv
<1>1. Init => KeccakInv
  <2> SUFFICES ASSUME Init PROVE KeccakInv
    OBVIOUS
  <2>1. KeccakAbsorbed /\ KeccakTyped
    BY NothingAbsorbed DEF Init
  <2> QED BY <2>1 DEF Init, KeccakInv
<1> QED BY <1>1, KeccakInvNext, PTL DEF Spec

LEMMA KeccakStep ==
  KeccakInv /\ [Next]_vars
    => [K!Absorb \/ K!Squeeze \/ K!Restart]_<< input, result, phase >>
<1> SUFFICES ASSUME KeccakInv, [Next]_vars
             PROVE  [K!Absorb \/ K!Squeeze \/ K!Restart]_<< input, result, phase >>
  OBVIOUS
<1>1. input \in Seq(Byte) /\ input \in Seq(Octet)
  BY Octets DEF KeccakInv
<1>2. CASE Update
  <2>1. PICK c \in Seq(Byte) : c \in Seq(Octet) /\ keccak_update(c) /\ input' = input \o c
    BY <1>1, <1>2, Chunk
  <2>2. result' = << >>
    BY <1>2, <2>1 DEF Update, KeccakInv, KeccakAbsorbed, keccak_update
  <2>3. Len(input') >= Len(input) /\ SubSeq(input', 1, Len(input)) = input
    BY <1>1, <2>1, PrefixOfConcat
  <2>4. K!Absorb
    BY <1>2, <2>2, <2>3 DEF K!Absorb, Update
  <2> QED BY <2>4
<1>3. CASE Final \/ Xof
  <2>1. /\ KeccakAbsorbed /\ keccak_final /\ input' = input /\ result = << >>
        /\ phase = "absorb" /\ phase' \in {"final", "xof"}
    BY <1>3 DEF Final, Xof, KeccakInv, KeccakAbsorbed
  <2>2. result' = K!Output({0}, input, digest_length)
    BY <1>1, <2>1, KeccakFinal
  <2>3. digest_length \in Len(result)..MaxOut
    BY <2>1, DigestLength, HashStreamsAssumption
  <2> DEFINE suffix == [p \in {"final", "xof"} |-> {0}]
  <2>4. DOMAIN suffix = {"final", "xof"} /\ suffix[phase'] = {0}
    BY <2>1
  <2>5. \E n \in Len(result)..MaxOut : result' = K!Output(suffix[phase'], input, n)
    BY <2>2, <2>3, <2>4
  <2>6. K!Squeeze
    BY <2>1, <2>4, <2>5 DEF K!Squeeze
  <2> QED BY <2>6
<1>4. CASE Again
  BY <1>4 DEF Again, keccak_init, K!Restart
<1>5. CASE Out \/ UNCHANGED vars
  BY <1>5 DEF Out, vars, keccakVars
<1> QED BY <1>2, <1>3, <1>4, <1>5 DEF Next

\* keccak256.c computes the Keccak of the whole message, for every length of it
\* and however keccak_update is given it.
THEOREM KeccakImplementsSponge == Spec => KeccakIsSponge
<1>1. Init => K!Init
  BY DEF Init, K!Init
<1> QED BY <1>1, KeccakInvariant, KeccakStep, PTL DEF Spec, KeccakIsSponge, K!Spec

-----------------------------------------------------------------------------
(* sha3.c.  A context holds the message m if st has its whole blocks and   *)
(* delta the bytes behind them.                                            *)

ShaBlock == [Rated -> Octet]
Contexts == [st : Seq(ShaBlock), delta : ShaBlock, pt : 0..rsiz]

Holds(c, m) ==
    /\ c \in Contexts /\ c.pt \in Rated
    /\ Len(m) = Len(c.st) * rsiz + c.pt
    /\ \A k \in 1..Len(c.st), i \in Rated : c.st[k][i] = m[(k - 1) * rsiz + i + 1]
    /\ \A i \in Rated : c.delta[i] = IF i < c.pt THEN m[Len(c.st) * rsiz + i + 1] ELSE {}

LEMMA RateSize == rsiz \in Nat \ {0} /\ mdlen \in Nat /\ mdlen <= rsiz /\ mdlen <= MaxOut /\ MaxOut \in Nat
<1>1. mdlen \in Nat /\ StateSize \in Nat /\ 2 * mdlen < StateSize
  BY SHA3Assumption
<1>2. rsiz \in Nat \ {0}
  BY <1>1 DEF rsiz
<1> QED BY <1>1, <1>2, HashStreamsAssumption

\* The places of block k.
LEMMA RatedPlace ==
  ASSUME NEW n \in Nat, NEW k \in 1..n, NEW i \in Rated
  PROVE  /\ (k - 1) * rsiz \in Nat /\ n * rsiz \in Nat
         /\ (k - 1) * rsiz + i + 1 \in 1..(n * rsiz)
<1>1. k - 1 \in Nat /\ k \in Nat /\ rsiz \in Nat /\ i \in Nat /\ i < rsiz
  BY RateSize DEF Rated
<1>2. k * rsiz <= n * rsiz
  BY <1>1, ProductMonotone
<1>3. (k - 1) * rsiz = k * rsiz - 1 * rsiz
  BY <1>1, ProductSum
<1>4. (k - 1) * rsiz \in Nat /\ n * rsiz \in Nat /\ k * rsiz \in Nat
  BY <1>1, ProductNat
<1> QED BY <1>1, <1>2, <1>3, <1>4

LEMMA xorType ==
  ASSUME NEW a \in Octet, NEW b \in Octet
  PROVE  xor(a, b) \in Octet /\ xor({}, b) = b /\ {} \in Octet
BY DEF xor, Octet

LEMMA AddType ==
  ASSUME NEW c \in Contexts, NEW i \in Rated, NEW b \in Octet
  PROVE  /\ Add(c, i, b) \in Contexts
         /\ Add(c, i, b).st = c.st /\ Add(c, i, b).pt = c.pt
         /\ \A j \in Rated : Add(c, i, b).delta[j] = IF j = i THEN xor(c.delta[i], b) ELSE c.delta[j]
<1>1. c.delta \in ShaBlock /\ c.delta[i] \in Octet /\ xor(c.delta[i], b) \in Octet
  BY xorType DEF Contexts, ShaBlock
<1>2. Add(c, i, b) = [c EXCEPT !.delta = [c.delta EXCEPT ![i] = xor(c.delta[i], b)]]
  BY DEF Add
<1>3. [c.delta EXCEPT ![i] = xor(c.delta[i], b)] \in ShaBlock
  BY <1>1 DEF ShaBlock
<1>4. Add(c, i, b) \in Contexts /\ Add(c, i, b).st = c.st /\ Add(c, i, b).pt = c.pt
      /\ Add(c, i, b).delta = [c.delta EXCEPT ![i] = xor(c.delta[i], b)]
  BY <1>2, <1>3 DEF Contexts
<1>5. \A j \in Rated : [c.delta EXCEPT ![i] = xor(c.delta[i], b)][j]
                         = IF j = i THEN xor(c.delta[i], b) ELSE c.delta[j]
  BY <1>1 DEF ShaBlock
<1> QED BY <1>4, <1>5

LEMMA PermutedType ==
  ASSUME NEW c \in Contexts, NEW p \in 0..rsiz
  PROVE  /\ Permuted(c, p) \in Contexts /\ Permuted(c, p).st = Append(c.st, c.delta)
         /\ Permuted(c, p).delta = NoDelta /\ Permuted(c, p).pt = p
         /\ Len(Permuted(c, p).st) = Len(c.st) + 1 /\ Len(c.st) \in Nat
         /\ \A k \in 1..Len(c.st) : Permuted(c, p).st[k] = c.st[k]
         /\ Permuted(c, p).st[Len(c.st) + 1] = c.delta
<1>1. c.st \in Seq(ShaBlock) /\ c.delta \in ShaBlock
  BY DEF Contexts
<1>2. /\ Append(c.st, c.delta) \in Seq(ShaBlock) /\ Len(Append(c.st, c.delta)) = Len(c.st) + 1
      /\ Len(c.st) \in Nat /\ \A k \in 1..Len(c.st) : Append(c.st, c.delta)[k] = c.st[k]
      /\ Append(c.st, c.delta)[Len(c.st) + 1] = c.delta
  BY <1>1
<1>3. NoDelta \in ShaBlock
  BY DEF NoDelta, ShaBlock, Octet
<1>4. Permuted(c, p) = [st |-> Append(c.st, c.delta), delta |-> NoDelta, pt |-> p]
  BY DEF Permuted, Context
<1> QED BY <1>2, <1>3, <1>4 DEF Contexts

\* A byte is added.
LEMMA HoldsByte ==
  ASSUME NEW m \in Seq(Octet), NEW b \in Octet, NEW c, Holds(c, m)
  PROVE  Holds(UpdateByte(c, b), Append(m, b))
<1> DEFINE M == Append(m, b)  q == Len(c.st)  qR == Len(c.st) * rsiz
           a == Add(c, c.pt, b)  d == UpdateByte(c, b)
<1>1. /\ c \in Contexts /\ c.pt \in Rated /\ c.st \in Seq(ShaBlock) /\ q \in Nat
      /\ rsiz \in Nat \ {0} /\ c.pt \in Nat /\ c.pt < rsiz
  BY RateSize DEF Holds, Contexts, Rated
<1>2. qR \in Nat /\ Len(m) = qR + c.pt
  BY <1>1, ProductNat DEF Holds
<1>3. M \in Seq(Octet) /\ Len(M) = qR + c.pt + 1 /\ M[qR + c.pt + 1] = b
      /\ \A j \in 1..(qR + c.pt) : M[j] = m[j]
  <2> HIDE DEF qR
  <2> QED BY <1>2
<1>4. a \in Contexts /\ a.st = c.st /\ a.pt = c.pt
      /\ \A j \in Rated : a.delta[j] = IF j = c.pt THEN xor(c.delta[c.pt], b) ELSE c.delta[j]
  BY <1>1, AddType
<1>5. ASSUME NEW i \in Rated
      PROVE  a.delta[i] = IF i < c.pt + 1 THEN M[qR + i + 1] ELSE {}
  <2>1. c.delta[i] = (IF i < c.pt THEN m[qR + i + 1] ELSE {}) /\ i \in Nat
    BY <1>1 DEF Holds, Rated
  <2>2. CASE i < c.pt
    <3>1. qR + i + 1 \in 1..(qR + c.pt) /\ i < c.pt + 1 /\ i # c.pt
      <4> HIDE DEF qR
      <4> QED BY <1>1, <1>2, <2>1, <2>2
    <3> HIDE DEF a, M, qR
    <3> QED BY <1>3, <1>4, <2>1, <2>2, <3>1
  <2>3. CASE i = c.pt
    <3>1. c.delta[c.pt] = {} /\ i < c.pt + 1 /\ xor({}, b) = b
      BY <1>1, <2>1, <2>3, xorType
    <3> HIDE DEF a, M, qR
    <3> QED BY <1>3, <1>4, <2>3, <3>1
  <2>4. CASE i > c.pt
    <3>1. ~(i < c.pt) /\ ~(i < c.pt + 1) /\ i # c.pt
      BY <1>1, <2>1, <2>4
    <3> HIDE DEF a, M, qR
    <3> QED BY <1>4, <2>1, <3>1
  <2>5. i < c.pt \/ i = c.pt \/ i > c.pt
    <3>1. i \in Nat /\ c.pt \in Nat
      BY <1>1, <2>1
    <3> QED BY <3>1
  <2> QED BY <2>2, <2>3, <2>4, <2>5
<1>6. ASSUME NEW k \in 1..q, NEW i \in Rated
      PROVE  c.st[k][i] = M[(k - 1) * rsiz + i + 1]
  <2> DEFINE p == (k - 1) * rsiz + i + 1
  <2>1. p \in 1..qR
    BY <1>1, RatedPlace
  <2>2. c.st[k][i] = m[p]
    BY DEF Holds
  <2> HIDE DEF p, qR
  <2>3. p \in 1..(qR + c.pt)
    BY <1>1, <1>2, <2>1
  <2> QED BY <1>3, <2>2, <2>3 DEF p
<1>7. CASE c.pt + 1 >= rsiz
  <2>1. d = Permuted(a, 0) /\ c.pt + 1 = rsiz
    BY <1>1, <1>7 DEF UpdateByte
  <2>2. /\ d \in Contexts /\ d.delta = NoDelta /\ d.pt = 0 /\ Len(d.st) = q + 1
        /\ \A k \in 1..q : d.st[k] = c.st[k]
        /\ d.st[q + 1] = a.delta
    <3>1. 0 \in 0..rsiz
      BY <1>1
    <3>2. a \in Contexts /\ a.st = c.st
      BY <1>4
    <3> HIDE DEF a
    <3>3. /\ Permuted(a, 0) \in Contexts /\ Permuted(a, 0).delta = NoDelta
          /\ Permuted(a, 0).pt = 0 /\ Len(Permuted(a, 0).st) = Len(a.st) + 1
      BY <3>1, <3>2, PermutedType
    <3>4. /\ \A k \in 1..Len(a.st) : Permuted(a, 0).st[k] = a.st[k]
          /\ Permuted(a, 0).st[Len(a.st) + 1] = a.delta
      BY <3>1, <3>2, PermutedType
    <3> QED BY <2>1, <3>2, <3>3, <3>4
  <2>3. Len(d.st) * rsiz = qR + rsiz /\ (q + 1 - 1) * rsiz = qR
    <3>1. (q + 1) * rsiz = q * rsiz + rsiz /\ q + 1 - 1 = q
      <4>1. q \in Nat /\ rsiz \in Nat
        BY <1>1
      <4> HIDE DEF q
      <4>2. (q + 1) * rsiz = q * rsiz + 1 * rsiz
        BY <4>1, ProductSum
      <4> QED BY <4>1, <4>2
    <3> QED BY <1>1, <2>2, <3>1
  <2>4. Len(M) = qR + rsiz
    <3> HIDE DEF qR, M
    <3> QED BY <1>1, <1>2, <1>3, <2>1
  <2>5. ASSUME NEW k \in 1..(q + 1), NEW i \in Rated
        PROVE  d.st[k][i] = M[(k - 1) * rsiz + i + 1]
    <3>1. CASE k \in 1..q
      BY <1>6, <2>2, <3>1
    <3>2. CASE k = q + 1
      <4>1. d.st[k][i] = a.delta[i] /\ i < c.pt + 1
        BY <1>1, <2>1, <2>2, <3>2 DEF Rated
      <4>2. a.delta[i] = M[qR + i + 1]
        BY <1>5, <4>1
      <4>3. (k - 1) * rsiz = qR
        BY <2>3, <3>2
      <4> HIDE DEF qR, d, M, a
      <4> QED BY <4>1, <4>2, <4>3
    <3>3. k \in 1..q \/ k = q + 1
      <4>1. q \in Nat
        BY <1>1
      <4> HIDE DEF q
      <4> QED BY <4>1
    <3> QED BY <3>1, <3>2, <3>3
  <2>6. d.pt \in Rated /\ \A i \in Rated : d.delta[i] = {} /\ ~(i < 0)
    BY <1>1, <2>2 DEF Rated, NoDelta
  <2>7. Len(M) = Len(d.st) * rsiz + d.pt
    <3> DEFINE dR == Len(d.st) * rsiz
    <3>1. dR = qR + rsiz /\ d.pt = 0
      BY <2>2, <2>3
    <3> HIDE DEF dR, qR, d, M
    <3> QED BY <1>1, <1>2, <2>4, <3>1 DEF dR
  <2>8. \A k \in 1..Len(d.st), i \in Rated : d.st[k][i] = M[(k - 1) * rsiz + i + 1]
    BY <2>2, <2>5
  <2>9. \A i \in Rated : d.delta[i] = IF i < d.pt THEN M[Len(d.st) * rsiz + i + 1] ELSE {}
    BY <2>2, <2>6
  <2> HIDE DEF d, M
  <2>10. Holds(d, M)
    BY <2>2, <2>6, <2>7, <2>8, <2>9 DEF Holds
  <2> QED BY <2>10 DEF d, M
<1>8. CASE ~(c.pt + 1 >= rsiz)
  <2>1. d = [a EXCEPT !.pt = c.pt + 1] /\ c.pt + 1 < rsiz
    BY <1>1, <1>8 DEF UpdateByte
  <2>2. /\ d \in Contexts /\ d.st = c.st /\ d.delta = a.delta /\ d.pt = c.pt + 1
        /\ d.pt \in Rated
    <3>1. c.pt + 1 \in 0..rsiz /\ c.pt + 1 \in Rated
      BY <1>1, <2>1 DEF Rated
    <3> HIDE DEF a, d
    <3> QED BY <1>4, <2>1, <3>1 DEF Contexts
  <2>3. Len(M) = Len(d.st) * rsiz + d.pt
    <3>1. Len(d.st) * rsiz = qR /\ d.pt = c.pt + 1
      BY <2>2
    <3>2. qR + c.pt + 1 = qR + (c.pt + 1)
      <4> HIDE DEF qR
      <4> QED BY <1>1, <1>2
    <3> QED BY <1>3, <3>1, <3>2
  <2> HIDE DEF d, M, a
  <2>4. \A i \in Rated : d.delta[i] = IF i < d.pt THEN M[Len(d.st) * rsiz + i + 1] ELSE {}
    BY <1>5, <2>2
  <2>5. \A k \in 1..Len(d.st), i \in Rated : d.st[k][i] = M[(k - 1) * rsiz + i + 1]
    BY <1>6, <2>2
  <2>6. Holds(d, M)
    BY <2>2, <2>3, <2>4, <2>5 DEF Holds
  <2> QED BY <2>6 DEF d, M
<1> QED BY <1>7, <1>8

\* f[i] is the context after i turns of the loop of sha3_update.
UpdateLoop(f, a, data, n) ==
    f = [i \in 0..n |-> IF i = 0 THEN a
                        ELSE CHOOSE d \in { UpdateByte(c, data[i]) : c \in {f[i - 1]} } : TRUE]

\* The turns of the loop of sha3_update exist: a recursive function on 0..n is
\* extended to 0..(n + 1) by one more turn.
LEMMA UpdateTurnsExist ==
  ASSUME NEW a, NEW data, NEW N \in Nat
  PROVE  \E f : UpdateLoop(f, a, data, N)
<1> DEFINE Good(f, n) == f = [i \in 0..n |-> IF i = 0 THEN a ELSE UpdateByte(f[i - 1], data[i])]
           Reached == {n \in Nat : \E f : Good(f, n)}
<1>1. 0 \in Reached
  <2>1. [i \in 0..0 |-> a] = [i \in 0..0 |-> IF i = 0 THEN a ELSE UpdateByte([j \in 0..0 |-> a][i - 1], data[i])]
    OBVIOUS
  <2>2. Good([i \in 0..0 |-> a], 0)
    BY <2>1
  <2> QED BY <2>2
<1>2. ASSUME NEW n \in Nat, n \in Reached PROVE n + 1 \in Reached
  <2>1. PICK f : Good(f, n)
    BY <1>2
  <2> DEFINE g == [i \in 0..(n + 1) |-> IF i = n + 1 THEN UpdateByte(f[n], data[n + 1]) ELSE f[i]]
  <2>2. \A i \in 0..n : g[i] = f[i] /\ f[i] = IF i = 0 THEN a ELSE UpdateByte(f[i - 1], data[i])
    BY <2>1
  <2>3. ASSUME NEW i \in 0..(n + 1) PROVE g[i] = IF i = 0 THEN a ELSE UpdateByte(g[i - 1], data[i])
    <3>1. CASE i = 0
      <4>1. g[0] = a
        <5>1. 0 \in 0..n
          OBVIOUS
        <5> HIDE DEF g
        <5> QED BY <2>2, <5>1
      <4> QED BY <3>1, <4>1
    <3>2. CASE i \in 1..n
      <4>1. i # 0 /\ i \in 0..n /\ i - 1 \in 0..n
        BY <3>2
      <4>2. g[i] = UpdateByte(f[i - 1], data[i]) /\ g[i - 1] = f[i - 1]
        BY <2>2, <4>1
      <4> QED BY <4>1, <4>2
    <3>3. CASE i = n + 1
      <4>1. g[i] = UpdateByte(f[n], data[i]) /\ g[n] = f[n] /\ i - 1 = n /\ i # 0
        BY <2>2, <3>3
      <4> QED BY <4>1
    <3> QED BY <3>1, <3>2, <3>3
  <2>4. g = [i \in 0..(n + 1) |-> g[i]]
    OBVIOUS
  <2> HIDE DEF g
  <2>5. Good(g, n + 1)
    BY <2>3, <2>4
  <2> QED BY <2>5
<1>3. N \in Reached
  <2> HIDE DEF Reached
  <2>1. Nat \subseteq Reached
    BY <1>1, <1>2, InductionOverNat
  <2> QED BY <2>1
<1>4. PICK f : f = [i \in 0..N |-> IF i = 0 THEN a ELSE UpdateByte(f[i - 1], data[i])]
  BY <1>3
<1>5. \A x, y : (CHOOSE d \in { UpdateByte(c, y) : c \in {x} } : TRUE) = UpdateByte(x, y)
  OBVIOUS
<1> QED BY <1>4, <1>5 DEF UpdateLoop

LEMMA UpdateTurns ==
  ASSUME NEW data \in Seq(Octet), sha3_update(data)
  PROVE  \E f : /\ f[0] = ctx /\ \A i \in 1..Len(data) : f[i] = UpdateByte(f[i - 1], data[i])
                /\ ctx' = f[Len(data)] /\ md' = md
<1> DEFINE N == Len(data)
           turn == CHOOSE f : f = [i \in 0..N |->
                      IF i = 0 THEN ctx
                      ELSE CHOOSE d \in { UpdateByte(c, data[i]) : c \in {f[i - 1]} } : TRUE]
<1>1. N \in Nat
  OBVIOUS
<1>2. turn = [i \in 0..N |-> IF i = 0 THEN ctx
                             ELSE CHOOSE d \in { UpdateByte(c, data[i]) : c \in {turn[i - 1]} } : TRUE]
  <2>1. \E f : f = [i \in 0..N |-> IF i = 0 THEN ctx
                             ELSE CHOOSE d \in { UpdateByte(c, data[i]) : c \in {f[i - 1]} } : TRUE]
    <3> HIDE DEF N
    <3>1. \E f : UpdateLoop(f, ctx, data, N)
      BY <1>1, UpdateTurnsExist
    <3> QED BY <3>1 DEF UpdateLoop
  <2> QED BY <2>1
<1>3. ctx' = turn[N] /\ md' = md
  BY DEF sha3_update
<1>4. \A x, y : (CHOOSE d \in { UpdateByte(c, y) : c \in {x} } : TRUE) = UpdateByte(x, y)
  OBVIOUS
<1> HIDE DEF turn, N
<1>5. turn[0] = ctx /\ \A i \in 1..N : turn[i] = UpdateByte(turn[i - 1], data[i])
  BY <1>1, <1>2, <1>4
<1> QED BY <1>3, <1>5 DEF N

LEMMA ShaUpdate ==
  ASSUME NEW data \in Seq(Octet), sha3_update(data), input \in Seq(Octet), Holds(ctx, input)
  PROVE  Holds(ctx', input \o data) /\ md' = md
<1> DEFINE N == Len(data)  m(i) == input \o SubSeq(data, 1, i)
<1>1. PICK f : /\ f[0] = ctx /\ \A i \in 1..Len(data) : f[i] = UpdateByte(f[i - 1], data[i])
               /\ ctx' = f[Len(data)] /\ md' = md
  BY UpdateTurns
<1> DEFINE Reached == {i \in 0..N : Holds(f[i], m(i))}
<1>2. N \in Nat
  OBVIOUS
<1>3. 0 \in Reached
  <2>1. m(0) = input
    <3>1. SubSeq(data, 1, 0) = << >>
      OBVIOUS
    <3> QED BY <3>1
  <2> HIDE DEF m
  <2>2. Holds(f[0], m(0)) /\ 0 \in 0..N
    BY <1>1, <1>2, <2>1
  <2> QED BY <2>2
<1>4. ASSUME NEW i \in 0..(N - 1), i \in Reached PROVE i + 1 \in Reached
  <2>1. i \in Nat /\ i + 1 \in 1..N /\ i + 1 - 1 = i /\ i + 1 \in 0..N
    BY <1>2
  <2>2. data[i + 1] \in Octet /\ SubSeq(data, 1, i) \in Seq(Octet)
    BY <2>1
  <2>3. m(i) \in Seq(Octet)
    BY <2>2
  <2>4. m(i + 1) = Append(m(i), data[i + 1])
    <3>1. SubSeq(data, 1, i + 1) = Append(SubSeq(data, 1, i), data[i + 1])
      BY <2>1
    <3> DEFINE t == SubSeq(data, 1, i)
    <3>2. t \in Seq(Octet)
      BY <2>2
    <3> HIDE DEF t
    <3>3. input \o Append(t, data[i + 1]) = Append(input \o t, data[i + 1])
      BY <2>2, <3>2
    <3> QED BY <3>1, <3>3 DEF t
  <2> HIDE DEF m
  <2>5. Holds(f[i], m(i))
    BY <1>4
  <2>6. Holds(UpdateByte(f[i], data[i + 1]), Append(m(i), data[i + 1]))
    BY <2>2, <2>3, <2>5, HoldsByte
  <2>7. f[i + 1] = UpdateByte(f[i], data[i + 1])
    BY <1>1, <2>1
  <2> QED BY <2>1, <2>4, <2>6, <2>7
<1>5. N \in Reached
  <2> HIDE DEF Reached, N
  <2>1. 0..N \subseteq Reached
    BY <1>2, <1>3, <1>4, InductionUpTo
  <2> QED BY <1>2, <2>1
<1>6. m(N) = input \o data
  OBVIOUS
<1> QED BY <1>1, <1>5, <1>6

\* The state of the padded message.
LEMMA ShaFinished ==
  ASSUME NEW m \in Seq(Octet), Holds(ctx, m), NEW s \in Octet, 7 \notin s, NEW p \in 0..rsiz
  PROVE  LET c == Finished(s, p)
         IN  c \in Contexts /\ c.st = S!Blocks(s, m) /\ c.delta = NoDelta /\ c.pt = p
<1> DEFINE q == Len(ctx.st)  qR == Len(ctx.st) * rsiz  r == ctx.pt  d == ctx.delta
           a == Add(ctx, ctx.pt, s)  z == Add(a, rsiz - 1, {7})  h == ctx.st
<1>1. /\ ctx \in Contexts /\ r \in Rated /\ h \in Seq(ShaBlock) /\ q \in Nat
      /\ rsiz \in Nat \ {0} /\ r \in Nat /\ r < rsiz /\ rsiz - 1 \in Rated
  BY RateSize DEF Holds, Contexts, Rated
<1>2. qR \in Nat /\ Len(m) = qR + r
  BY <1>1, ProductNat DEF Holds
<1>3. Len(m) \div rsiz = q
  <2>1. Len(m) \in Nat /\ Len(m) = q * rsiz + r /\ r \in 0..(rsiz - 1)
    BY <1>1 DEF Holds, Rated
  <2> QED BY <1>1, <2>1, QuotientUnique
<1>4. S!Blocks(s, m) = [k \in 1..(q + 1) |-> S!Padded(s, m, k - 1)]
  BY <1>3 DEF S!Blocks
<1>5. ASSUME NEW k \in Nat
      PROVE  S!Padded(s, m, k) =
               [j \in Rated |-> IF k * rsiz + j < Len(m) THEN m[k * rsiz + j + 1]
                                ELSE (IF k * rsiz + j = Len(m) THEN s ELSE {}) \cup
                                     (IF j = rsiz - 1 THEN {7} ELSE {})]
  BY DEF S!Padded, S!Offsets, Rated
<1>6. /\ {7} \in Octet
      /\ a \in Contexts /\ a.st = h
      /\ \A j \in Rated : a.delta[j] = IF j = r THEN xor(d[r], s) ELSE d[j]
  <2>1. {7} \in Octet
    BY DEF Octet
  <2>2. Add(ctx, ctx.pt, s) \in Contexts /\ Add(ctx, ctx.pt, s).st = ctx.st
    BY <1>1, AddType
  <2>3. \A j \in Rated : Add(ctx, ctx.pt, s).delta[j] = IF j = ctx.pt THEN xor(ctx.delta[ctx.pt], s) ELSE ctx.delta[j]
    BY <1>1, AddType
  <2> QED BY <2>1, <2>2, <2>3
<1>7. /\ z \in Contexts /\ z.st = h
      /\ \A j \in Rated : z.delta[j] = IF j = rsiz - 1 THEN xor(a.delta[rsiz - 1], {7}) ELSE a.delta[j]
  <2> HIDE DEF a
  <2> QED BY <1>1, <1>6, AddType
<1>8. ASSUME NEW k \in 1..q PROVE h[k] = S!Padded(s, m, k - 1)
  <2>1. k - 1 \in Nat /\ h[k] \in [Rated -> Octet]
    BY <1>1 DEF ShaBlock
  <2>2. ASSUME NEW j \in Rated PROVE (k - 1) * rsiz + j < Len(m) /\ h[k][j] = m[(k - 1) * rsiz + j + 1]
    <3> DEFINE x == (k - 1) * rsiz
    <3>1. x \in Nat /\ x + j + 1 \in 1..qR
      BY <1>1, RatedPlace
    <3>2. j \in Nat
      BY <1>1 DEF Rated
    <3>3. x + j < qR + r
      <4> HIDE DEF x, qR, r
      <4> QED BY <1>1, <1>2, <3>1, <3>2
    <3>4. h[k][j] = m[(k - 1) * rsiz + j + 1]
      BY DEF Holds
    <3> QED BY <1>2, <3>3, <3>4
  <2>3. h[k] = [j \in Rated |-> h[k][j]]
    BY <2>1
  <2> DEFINE b == S!Padded(s, m, k - 1)
  <2>4. b = [j \in Rated |-> b[j]] /\ \A j \in Rated : b[j] = m[(k - 1) * rsiz + j + 1]
    BY <1>5, <2>1, <2>2
  <2> HIDE DEF b
  <2>5. \A j \in Rated : b[j] = h[k][j]
    BY <2>2, <2>4
  <2> QED BY <2>3, <2>4, <2>5 DEF b
<1>9. z.delta = S!Padded(s, m, q)
  <2> DEFINE b == S!Padded(s, m, q)
  <2>1. b = [j \in Rated |-> b[j]] /\
        \A j \in Rated : b[j] = IF qR + j < Len(m) THEN m[qR + j + 1]
                                ELSE (IF qR + j = Len(m) THEN s ELSE {}) \cup
                                     (IF j = rsiz - 1 THEN {7} ELSE {})
    BY <1>1, <1>5
  <2>2. ASSUME NEW j \in Rated
        PROVE  /\ j \in Nat /\ (qR + j < Len(m) <=> j < r) /\ (qR + j = Len(m) <=> j = r)
               /\ d[j] = IF j < r THEN m[qR + j + 1] ELSE {}
    <3>1. j \in Nat
      BY <1>1 DEF Rated
    <3>2. (qR + j < qR + r <=> j < r) /\ (qR + j = qR + r <=> j = r)
      <4> HIDE DEF qR, r
      <4> QED BY <1>1, <1>2, <3>1
    <3>3. d[j] = IF j < r THEN m[qR + j + 1] ELSE {}
      BY DEF Holds
    <3> QED BY <1>2, <3>1, <3>2, <3>3
  <2>3. xor({}, s) = s /\ xor({}, {7}) = {7} /\ xor(s, {7}) = s \cup {7}
    BY DEF xor
  <2> HIDE DEF b, z, a, qR, q, r, d
  <2>4. \A j \in Rated : a.delta[j] = IF j < r THEN m[qR + j + 1] ELSE IF j = r THEN s ELSE {}
    <3> SUFFICES ASSUME NEW j \in Rated
                 PROVE  a.delta[j] = IF j < r THEN m[qR + j + 1] ELSE IF j = r THEN s ELSE {}
      OBVIOUS
    <3>1. CASE j < r
      <4>1. j # r
        BY <1>1, <2>2, <3>1
      <4> QED BY <1>6, <2>2, <3>1, <4>1
    <3>2. CASE j = r
      <4>1. ~(j < r)
        BY <1>1, <3>2
      <4> QED BY <1>6, <2>2, <2>3, <3>2, <4>1
    <3>3. CASE ~(j < r) /\ j # r
      BY <1>6, <2>2, <3>3
    <3> QED BY <3>1, <3>2, <3>3
  <2>5. ASSUME NEW j \in Rated PROVE z.delta[j] = b[j]
    <3>1. CASE j # rsiz - 1
      BY <1>7, <2>1, <2>2, <2>4, <3>1
    <3>2. CASE j = rsiz - 1
      <4>1. ~(j < r)
        BY <1>1, <3>2
      <4>2. z.delta[j] = xor(IF j = r THEN s ELSE {}, {7})
        BY <1>7, <2>4, <3>2, <4>1
      <4>3. b[j] = (IF j = r THEN s ELSE {}) \cup {7}
        BY <2>1, <2>2, <3>2, <4>1
      <4> QED BY <2>3, <4>2, <4>3
    <3> QED BY <3>1, <3>2
  <2>6. z.delta = [j \in Rated |-> z.delta[j]]
    BY <1>7 DEF Contexts, ShaBlock
  <2> QED BY <2>1, <2>5, <2>6 DEF b
<1>10. Append(h, z.delta) = [k \in 1..(q + 1) |-> S!Padded(s, m, k - 1)]
  <2> DEFINE e == z.delta  g == Append(h, e)
  <2>1. h \in Seq(ShaBlock) /\ e \in ShaBlock /\ q \in Nat
    BY <1>1, <1>7 DEF Contexts
  <2> HIDE DEF e
  <2>2. g \in Seq(ShaBlock) /\ Len(g) = q + 1
    BY <2>1
  <2>3. g = [k \in 1..Len(g) |-> g[k]]
    <3> HIDE DEF g
    <3> QED BY <2>2
  <2>4. \A k \in 1..(q + 1) : g[k] = IF k \in 1..q THEN h[k] ELSE e
    BY <2>1
  <2>5. \A k \in 1..(q + 1) : k \in 1..q \/ (k \notin 1..q /\ k - 1 = q)
    BY <2>1
  <2> HIDE DEF g, h, q
  <2>6. \A k \in 1..(q + 1) : g[k] = S!Padded(s, m, k - 1)
    BY <1>8, <1>9, <2>4, <2>5 DEF e
  <2> QED BY <2>2, <2>3, <2>6 DEF e, g
<1>11. Finished(s, p) = Permuted(z, p)
  BY DEF Finished
<1> HIDE DEF z, h, q
<1>12. /\ Permuted(z, p) \in Contexts /\ Permuted(z, p).st = Append(z.st, z.delta)
       /\ Permuted(z, p).delta = NoDelta /\ Permuted(z, p).pt = p
  BY <1>7, PermutedType
<1> QED BY <1>4, <1>7, <1>10, <1>11, <1>12

\* A state from which a block is read: the padded message and z empty blocks.
Squeezed(s, m, z) == S!Blocks(s, m) \o [k \in 1..z |-> NoDelta]

LEMMA BlocksSeq ==
  ASSUME NEW m \in Seq(Octet), NEW s
  PROVE  \E T : NoDelta \in T /\ S!Blocks(s, m) \in Seq(T)
<1> DEFINE w == (Len(m) \div rsiz) + 1
           T == {S!Padded(s, m, k - 1) : k \in 1..w} \cup {NoDelta}
<1>1. w \in Nat
  <2>1. Len(m) \in Nat
    OBVIOUS
  <2>2. Len(m) \div rsiz \in Nat
    BY <2>1, RateSize, QuotientFacts
  <2> QED BY <2>2
<1>2. S!Blocks(s, m) = [k \in 1..w |-> S!Padded(s, m, k - 1)]
  BY DEF S!Blocks
<1>3. S!Blocks(s, m) \in Seq(T)
  <2>1. \A k \in 1..w : S!Padded(s, m, k - 1) \in T
    OBVIOUS
  <2> HIDE DEF w, T
  <2>2. [k \in 1..w |-> S!Padded(s, m, k - 1)] \in Seq(T)
    BY <1>1, <2>1
  <2> QED BY <1>2, <2>2
<1> QED BY <1>3

LEMMA SqueezedMore ==
  ASSUME NEW m \in Seq(Octet), NEW s, NEW z \in Nat
  PROVE  /\ Squeezed(s, m, 0) = S!Blocks(s, m)
         /\ Append(Squeezed(s, m, z), NoDelta) = Squeezed(s, m, z + 1)
<1>1. PICK T : NoDelta \in T /\ S!Blocks(s, m) \in Seq(T)
  BY BlocksSeq
<1> DEFINE b == S!Blocks(s, m)  e == [k \in 1..z |-> NoDelta]  f == [k \in 1..(z + 1) |-> NoDelta]
<1>2. b \o << >> = b /\ [k \in 1..0 |-> NoDelta] = << >>
  <2> HIDE DEF b
  <2>1. b \o << >> = b
    BY <1>1, ConcatEmptySeq DEF b
  <2> QED BY <2>1
<1>3. Append(e, NoDelta) = f /\ e \in Seq(T)
  <2>1. e \in Seq(T) /\ Len(e) = z
    BY <1>1
  <2>2. f \in Seq(T) /\ Len(f) = z + 1
    BY <1>1
  <2> DEFINE g == Append(e, NoDelta)
  <2>3. g \in Seq(T) /\ Len(g) = z + 1 /\ \A k \in 1..(z + 1) : g[k] = NoDelta
    BY <1>1, <2>1
  <2>4. \A k \in 1..(z + 1) : f[k] = NoDelta
    OBVIOUS
  <2> HIDE DEF g, f
  <2>5. g = f
    BY <2>2, <2>3, <2>4, SeqEqual
  <2> QED BY <2>1, <2>5 DEF g
<1>4. Append(b \o e, NoDelta) = b \o Append(e, NoDelta)
  <2>1. b \in Seq(T) /\ e \in Seq(T) /\ NoDelta \in T
    BY <1>1, <1>3
  <2> HIDE DEF b, e, NoDelta
  <2> QED BY <2>1
<1> QED BY <1>2, <1>3, <1>4 DEF Squeezed

\* Byte i of the output is read from the state with (i - 1) \div rsiz empty blocks.
LEMMA OutputBytes ==
  ASSUME NEW m, NEW s, NEW n \in Nat
  PROVE  S!Output(s, m, n) = [i \in 1..n |-> [h |-> Squeezed(s, m, (i - 1) \div rsiz), j |-> (i - 1) % rsiz]]
BY DEF S!Output, S!Offsets, Squeezed, NoDelta, Rated

\* The context c has given the n bytes o of SHAKE output for the message m.
Gives(c, o, m, n) ==
    /\ c \in Contexts /\ c.delta = NoDelta /\ o = S!Output(0..4, m, n)
    /\ \E z \in Nat : c.st = Squeezed(0..4, m, z) /\ n = z * rsiz + c.pt

LEMMA OutputAppend ==
  ASSUME NEW m \in Seq(Octet), NEW s, NEW n \in Nat, NEW z \in Nat, NEW r \in 0..(rsiz - 1), n = z * rsiz + r
  PROVE  Append(S!Output(s, m, n), [h |-> Squeezed(s, m, z), j |-> r]) = S!Output(s, m, n + 1)
<1> DEFINE e(i) == [h |-> Squeezed(s, m, (i - 1) \div rsiz), j |-> (i - 1) % rsiz]
           T == {e(i) : i \in 1..(n + 1)}
           o == S!Output(s, m, n)  x == S!Output(s, m, n + 1)
           y == [h |-> Squeezed(s, m, z), j |-> r]
<1>1. o = [i \in 1..n |-> e(i)] /\ x = [i \in 1..(n + 1) |-> e(i)]
  <2>1. n + 1 \in Nat
    OBVIOUS
  <2>2. o = [i \in 1..n |-> e(i)]
    BY OutputBytes
  <2>3. x = [i \in 1..(n + 1) |-> e(i)]
    <3> DEFINE k == n + 1
    <3>1. k \in Nat
      BY <2>1
    <3> HIDE DEF k
    <3>2. S!Output(s, m, k) = [i \in 1..k |-> e(i)]
      BY <3>1, OutputBytes
    <3> QED BY <3>2 DEF k
  <2> QED BY <2>2, <2>3
<1>2. e(n + 1) = y
  <2>1. n \div rsiz = z /\ n % rsiz = r
    BY RateSize, QuotientUnique
  <2>2. n + 1 - 1 = n
    OBVIOUS
  <2> QED BY <2>1, <2>2
<1>3. \A i \in 1..(n + 1) : e(i) \in T
  OBVIOUS
<1>4. y \in T
  <2>1. n + 1 \in 1..(n + 1)
    OBVIOUS
  <2> HIDE DEF e, T, y
  <2> QED BY <1>2, <1>3, <2>1
<1> HIDE DEF e, T, o, x, y
<1>5. o \in Seq(T) /\ Len(o) = n /\ x \in Seq(T) /\ Len(x) = n + 1
  <2>1. \A i \in 1..n : e(i) \in T
    BY <1>3
  <2>2. [i \in 1..n |-> e(i)] \in Seq(T) /\ [i \in 1..(n + 1) |-> e(i)] \in Seq(T)
    BY <1>3, <2>1
  <2> QED BY <1>1, <2>2
<1> DEFINE g == Append(o, y)
<1>6. g \in Seq(T) /\ Len(g) = n + 1 /\ g[n + 1] = y /\ \A i \in 1..n : g[i] = o[i]
  BY <1>4, <1>5
<1> HIDE DEF g
<1>7. \A i \in 1..(n + 1) : g[i] = x[i]
  BY <1>1, <1>2, <1>6
<1>8. g = x
  BY <1>5, <1>6, <1>7, SeqEqual
<1> QED BY <1>8 DEF g, o, x, y

LEMMA GivesByte ==
  ASSUME NEW m \in Seq(Octet), NEW c, NEW o, NEW n \in Nat, Gives(c, o, m, n)
  PROVE  Gives(OutByte(c, o).c, OutByte(c, o).o, m, n + 1)
<1>1. PICK z \in Nat : c.st = Squeezed(0..4, m, z) /\ n = z * rsiz + c.pt
  BY DEF Gives
<1>2. /\ c \in Contexts /\ c.delta = NoDelta /\ c.pt \in 0..rsiz /\ o = S!Output(0..4, m, n)
      /\ rsiz \in Nat \ {0}
  BY RateSize DEF Gives, Contexts
<1> DEFINE full == IF c.pt >= rsiz THEN Permuted(c, 0) ELSE c
<1>3. \E y \in Nat : /\ full \in Contexts /\ full.delta = NoDelta /\ full.pt \in 0..(rsiz - 1)
                     /\ full.st = Squeezed(0..4, m, y) /\ n = y * rsiz + full.pt
  <2>1. CASE c.pt >= rsiz
    <3>1. c.pt = rsiz
      BY <1>2, <2>1
    <3>2. /\ full \in Contexts /\ full.delta = NoDelta /\ full.pt = 0
          /\ full.st = Append(c.st, c.delta)
      <4>1. full = Permuted(c, 0) /\ 0 \in 0..rsiz
        BY <1>2, <2>1
      <4> HIDE DEF full
      <4> QED BY <1>2, <4>1, PermutedType
    <3>3. full.st = Squeezed(0..4, m, z + 1)
      BY <1>1, <1>2, <3>2, SqueezedMore
    <3>4. (z + 1) * rsiz = z * rsiz + 1 * rsiz /\ z * rsiz \in Nat
      BY <1>2, ProductSum, ProductNat
    <3>5. n = (z + 1) * rsiz + full.pt /\ z + 1 \in Nat
      <4> DEFINE zR == z * rsiz  yR == (z + 1) * rsiz
      <4>1. n = zR + rsiz /\ yR = zR + rsiz /\ zR \in Nat /\ full.pt = 0
        BY <1>1, <1>2, <3>1, <3>2, <3>4
      <4> HIDE DEF zR, yR, full
      <4> QED BY <1>2, <4>1 DEF yR
    <3> HIDE DEF full
    <3>6. 0 \in 0..(rsiz - 1)
      BY <1>2
    <3> QED BY <3>2, <3>3, <3>5, <3>6
  <2>2. CASE ~(c.pt >= rsiz)
    <3>1. full = c /\ c.pt \in 0..(rsiz - 1)
      BY <1>2, <2>2
    <3> HIDE DEF full
    <3> QED BY <1>1, <1>2, <3>1
  <2> QED BY <2>1, <2>2
<1>4. PICK y \in Nat : /\ full \in Contexts /\ full.delta = NoDelta /\ full.pt \in 0..(rsiz - 1)
                       /\ full.st = Squeezed(0..4, m, y) /\ n = y * rsiz + full.pt
  BY <1>3
<1>5. OutByte(c, o) = [c |-> [full EXCEPT !.pt = full.pt + 1],
                       o |-> Append(o, [h |-> full.st, j |-> full.pt])]
  BY DEF OutByte
<1> HIDE DEF full
<1> DEFINE d == [full EXCEPT !.pt = full.pt + 1]
<1>6. d \in Contexts /\ d.delta = NoDelta /\ d.st = full.st /\ d.pt = full.pt + 1
  <2>1. full.pt + 1 \in 0..rsiz
    BY <1>2, <1>4
  <2> QED BY <1>4, <2>1 DEF Contexts
<1>7. Append(o, [h |-> full.st, j |-> full.pt]) = S!Output(0..4, m, n + 1)
  <2> DEFINE r == full.pt
  <2>1. r \in 0..(rsiz - 1) /\ n = y * rsiz + r /\ full.st = Squeezed(0..4, m, y)
    BY <1>4
  <2> HIDE DEF r
  <2>2. Append(S!Output(0..4, m, n), [h |-> Squeezed(0..4, m, y), j |-> r]) = S!Output(0..4, m, n + 1)
    BY <2>1, OutputAppend
  <2> QED BY <1>2, <2>1, <2>2 DEF r
<1>8. n + 1 = y * rsiz + d.pt
  <2> DEFINE yR == y * rsiz
  <2>1. yR \in Nat /\ n = yR + full.pt /\ full.pt \in Nat
    BY <1>2, <1>4, ProductNat
  <2> HIDE DEF yR, d
  <2>2. n + 1 = yR + (full.pt + 1)
    BY <2>1
  <2> QED BY <1>6, <2>2 DEF yR
<1>9. OutByte(c, o).c = d /\ OutByte(c, o).o = S!Output(0..4, m, n + 1)
  BY <1>5, <1>7
<1> HIDE DEF d
<1>10. Gives(d, S!Output(0..4, m, n + 1), m, n + 1)
  BY <1>4, <1>6, <1>8 DEF Gives
<1> QED BY <1>9, <1>10

\* f[i] is what shake_out has after i turns of its loop.
OutLoop(f, a, n) ==
    f = [i \in 0..n |-> IF i = 0 THEN a
                        ELSE CHOOSE r \in { OutByte(t.c, t.o) : t \in {f[i - 1]} } : TRUE]

LEMMA OutTurnsExist ==
  ASSUME NEW a, NEW N \in Nat
  PROVE  \E f : OutLoop(f, a, N)
<1> DEFINE Good(f, n) == f = [i \in 0..n |-> IF i = 0 THEN a ELSE OutByte(f[i - 1].c, f[i - 1].o)]
           T == {n \in Nat : \E f : Good(f, n)}
<1>1. 0 \in T
  <2>1. [i \in 0..0 |-> a] = [i \in 0..0 |-> IF i = 0 THEN a
              ELSE OutByte([j \in 0..0 |-> a][i - 1].c, [j \in 0..0 |-> a][i - 1].o)]
    OBVIOUS
  <2>2. Good([i \in 0..0 |-> a], 0)
    BY <2>1
  <2> QED BY <2>2
<1>2. ASSUME NEW n \in Nat, n \in T PROVE n + 1 \in T
  <2>1. PICK f : Good(f, n)
    BY <1>2
  <2> DEFINE g == [i \in 0..(n + 1) |-> IF i = n + 1 THEN OutByte(f[n].c, f[n].o) ELSE f[i]]
  <2>2. \A i \in 0..n : g[i] = f[i] /\ f[i] = IF i = 0 THEN a ELSE OutByte(f[i - 1].c, f[i - 1].o)
    BY <2>1
  <2>3. ASSUME NEW i \in 0..(n + 1) PROVE g[i] = IF i = 0 THEN a ELSE OutByte(g[i - 1].c, g[i - 1].o)
    <3>1. CASE i = 0
      <4>1. g[0] = a
        <5>1. 0 \in 0..n
          OBVIOUS
        <5> HIDE DEF g
        <5> QED BY <2>2, <5>1
      <4> QED BY <3>1, <4>1
    <3>2. CASE i \in 1..n
      <4>1. i # 0 /\ i \in 0..n /\ i - 1 \in 0..n
        BY <3>2
      <4>2. g[i] = OutByte(f[i - 1].c, f[i - 1].o) /\ g[i - 1] = f[i - 1]
        BY <2>2, <4>1
      <4> QED BY <4>1, <4>2
    <3>3. CASE i = n + 1
      <4>1. g[i] = OutByte(f[n].c, f[n].o) /\ g[n] = f[n] /\ i - 1 = n /\ i # 0
        BY <2>2, <3>3
      <4> QED BY <4>1
    <3> QED BY <3>1, <3>2, <3>3
  <2>4. g = [i \in 0..(n + 1) |-> g[i]]
    OBVIOUS
  <2> HIDE DEF g
  <2>5. Good(g, n + 1)
    BY <2>3, <2>4
  <2> QED BY <2>5
<1>3. N \in T
  <2> HIDE DEF T
  <2>1. Nat \subseteq T
    BY <1>1, <1>2, InductionOverNat
  <2> QED BY <2>1
<1>4. PICK f : f = [i \in 0..N |-> IF i = 0 THEN a ELSE OutByte(f[i - 1].c, f[i - 1].o)]
  BY <1>3
<1>5. \A x : (CHOOSE r \in { OutByte(t.c, t.o) : t \in {x} } : TRUE) = OutByte(x.c, x.o)
  OBVIOUS
<1> QED BY <1>4, <1>5 DEF OutLoop

LEMMA OutTurns ==
  ASSUME NEW N \in Nat, shake_out(N)
  PROVE  \E f : /\ f[0] = [c |-> ctx, o |-> md]
                /\ \A i \in 1..N : f[i] = OutByte(f[i - 1].c, f[i - 1].o)
                /\ ctx' = f[N].c /\ md' = f[N].o
<1> DEFINE turn == CHOOSE f : f = [i \in 0..N |->
                      IF i = 0 THEN [c |-> ctx, o |-> md]
                      ELSE CHOOSE r \in { OutByte(t.c, t.o) : t \in {f[i - 1]} } : TRUE]
<1>2. turn = [i \in 0..N |-> IF i = 0 THEN [c |-> ctx, o |-> md]
                             ELSE CHOOSE r \in { OutByte(t.c, t.o) : t \in {turn[i - 1]} } : TRUE]
  <2>1. \E f : OutLoop(f, [c |-> ctx, o |-> md], N)
    BY OutTurnsExist
  <2> QED BY <2>1 DEF OutLoop
<1>3. ctx' = turn[N].c /\ md' = turn[N].o
  BY DEF shake_out
<1>4. \A x : (CHOOSE r \in { OutByte(t.c, t.o) : t \in {x} } : TRUE) = OutByte(x.c, x.o)
  OBVIOUS
<1> HIDE DEF turn
<1>5. turn[0] = [c |-> ctx, o |-> md] /\ \A i \in 1..N : turn[i] = OutByte(turn[i - 1].c, turn[i - 1].o)
  BY <1>2, <1>4
<1> QED BY <1>3, <1>5

LEMMA ShaOut ==
  ASSUME NEW N \in Nat, shake_out(N), input \in Seq(Octet), NEW n \in Nat, Gives(ctx, md, input, n)
  PROVE  Gives(ctx', md', input, n + N)
<1>1. PICK f : /\ f[0] = [c |-> ctx, o |-> md]
               /\ \A i \in 1..N : f[i] = OutByte(f[i - 1].c, f[i - 1].o)
               /\ ctx' = f[N].c /\ md' = f[N].o
  BY OutTurns
<1> DEFINE T == {i \in 0..N : Gives(f[i].c, f[i].o, input, n + i)}
<1>2. 0 \in T
  <2>1. f[0].c = ctx /\ f[0].o = md /\ n + 0 = n /\ 0 \in 0..N
    BY <1>1
  <2>2. Gives(f[0].c, f[0].o, input, n + 0)
    BY <2>1
  <2> QED BY <2>1, <2>2
<1>3. ASSUME NEW i \in 0..(N - 1), i \in T PROVE i + 1 \in T
  <2>1. i + 1 \in 1..N /\ i + 1 \in 0..N /\ i + 1 - 1 = i /\ n + i \in Nat /\ n + i + 1 = n + (i + 1)
    OBVIOUS
  <2>2. Gives(OutByte(f[i].c, f[i].o).c, OutByte(f[i].c, f[i].o).o, input, n + i + 1)
    BY <1>3, <2>1, GivesByte
  <2>3. f[i + 1] = OutByte(f[i].c, f[i].o)
    BY <1>1, <2>1
  <2>4. Gives(f[i + 1].c, f[i + 1].o, input, n + (i + 1))
    BY <2>1, <2>2, <2>3
  <2> QED BY <2>1, <2>4
<1>4. N \in T
  <2> HIDE DEF T
  <2>1. 0..N \subseteq T
    BY <1>2, <1>3, InductionUpTo
  <2> QED BY <2>1
<1> QED BY <1>1, <1>4

LEMMA OutputLength ==
  ASSUME NEW m, NEW s, NEW n \in Nat
  PROVE  Len(S!Output(s, m, n)) = n
<1> DEFINE e(i) == [h |-> Squeezed(s, m, (i - 1) \div rsiz), j |-> (i - 1) % rsiz]
<1>1. S!Output(s, m, n) = [i \in 1..n |-> e(i)]
  BY OutputBytes
<1> HIDE DEF e
<1> QED BY <1>1

\* A digest is read from one state.
LEMMA ShaDigest ==
  ASSUME NEW m \in Seq(Octet), NEW s, NEW n \in 0..rsiz
  PROVE  S!Output(s, m, n) = [i \in 1..n |-> [h |-> S!Blocks(s, m), j |-> i - 1]]
<1>1. ASSUME NEW i \in 1..n PROVE (i - 1) \div rsiz = 0 /\ (i - 1) % rsiz = i - 1
  <2>1. i - 1 \in Nat /\ i - 1 \in 0..(rsiz - 1) /\ i - 1 = 0 * rsiz + (i - 1)
    BY RateSize
  <2> QED BY <2>1, RateSize, QuotientUnique
<1>2. Squeezed(s, m, 0) = S!Blocks(s, m)
  BY SqueezedMore
<1>3. n \in Nat
  BY RateSize
<1>4. S!Output(s, m, n) = [i \in 1..n |-> [h |-> Squeezed(s, m, (i - 1) \div rsiz), j |-> (i - 1) % rsiz]]
  BY <1>3, OutputBytes
<1> QED BY <1>1, <1>2, <1>4

LEMMA ShaFinal ==
  ASSUME input \in Seq(Octet), Holds(ctx, input), sha3_final
  PROVE  ctx' \in Contexts /\ md' = S!Output({1, 2}, input, mdlen)
<1>1. {1, 2} \in Octet /\ 7 \notin {1, 2}
  BY DEF Octet
<1>2. ctx.pt \in 0..rsiz
  BY DEF Holds, Contexts
<1> DEFINE c == Finished({1, 2}, ctx.pt)
<1>3. c \in Contexts /\ c.st = S!Blocks({1, 2}, input)
  BY <1>1, <1>2, ShaFinished
<1>4. ctx' = c /\ md' = [i \in 1..mdlen |-> [h |-> ctx'.st, j |-> i - 1]]
  BY DEF sha3_final
<1> HIDE DEF c
<1>5. mdlen \in 0..rsiz
  BY RateSize
<1>6. S!Output({1, 2}, input, mdlen) = [i \in 1..mdlen |-> [h |-> S!Blocks({1, 2}, input), j |-> i - 1]]
  BY <1>5, ShaDigest
<1> QED BY <1>3, <1>4, <1>6

LEMMA ShaXof ==
  ASSUME input \in Seq(Octet), Holds(ctx, input), md = << >>, shake_xof
  PROVE  Gives(ctx', md', input, 0) /\ md' = << >>
<1>1. 0..4 \in Octet /\ 7 \notin 0..4 /\ {0, 1, 2, 3, 4} = 0..4 /\ 0 \in 0..rsiz
  BY RateSize DEF Octet
<1> DEFINE c == Finished(0..4, 0)
<1>2. c \in Contexts /\ c.st = S!Blocks(0..4, input) /\ c.delta = NoDelta /\ c.pt = 0
  BY <1>1, ShaFinished
<1>3. ctx' = c /\ md' = << >>
  BY <1>1 DEF shake_xof
<1> HIDE DEF c
<1>4. c.st = Squeezed(0..4, input, 0)
  BY <1>2, SqueezedMore
<1>5. 0 = 0 * rsiz + c.pt /\ 0 \in Nat
  BY <1>2, RateSize
<1>6. S!Output(0..4, input, 0) = << >>
  <2>1. 0 \in 0..rsiz
    BY <1>1
  <2>2. S!Output(0..4, input, 0) = [i \in 1..0 |-> [h |-> S!Blocks(0..4, input), j |-> i - 1]]
    BY <2>1, ShaDigest
  <2> DEFINE b == S!Blocks(0..4, input)
  <2> HIDE DEF b
  <2>3. [i \in 1..0 |-> [h |-> b, j |-> i - 1]] = << >>
    OBVIOUS
  <2> QED BY <2>2, <2>3 DEF b
<1> QED BY <1>2, <1>3, <1>4, <1>5, <1>6 DEF Gives

ShaInv ==
    /\ input \in Seq(Byte) /\ phase \in {"absorb", "final", "xof"} /\ ctx \in Contexts
    /\ phase = "absorb" => Holds(ctx, input) /\ md = << >>
    /\ phase = "xof" => /\ Len(md) \in Nat /\ Len(md) <= MaxOut
                        /\ Gives(ctx, md, input, Len(md))

LEMMA NoMessage ==
  Context(<< >>, NoDelta, 0) \in Contexts /\ Holds(Context(<< >>, NoDelta, 0), << >>)
<1> DEFINE c == Context(<< >>, NoDelta, 0)
<1>1. c.st = << >> /\ c.delta = NoDelta /\ c.pt = 0
  BY DEF Context
<1>2. 0 \in Rated /\ 0 \in 0..rsiz /\ NoDelta \in ShaBlock /\ \A i \in Rated : NoDelta[i] = {} /\ ~(i < 0)
  BY RateSize DEF Rated, NoDelta, ShaBlock, Octet
<1>3. c \in Contexts
  <2>1. << >> \in Seq(ShaBlock)
    OBVIOUS
  <2> QED BY <1>2, <2>1 DEF Contexts, Context
<1> HIDE DEF c
<1>4. Len(c.st) * rsiz = 0 /\ Len(<< >>) = 0 /\ Len(c.st) = 0
  BY <1>1, RateSize
<1>5. Holds(c, << >>)
  <2> DEFINE m == << >>
  <2>1. Len(m) = Len(c.st) * rsiz + c.pt /\ c.pt \in Rated
    BY <1>1, <1>2, <1>4
  <2>2. \A k \in 1..Len(c.st), i \in Rated : c.st[k][i] = m[(k - 1) * rsiz + i + 1]
    BY <1>4
  <2>3. \A i \in Rated : c.delta[i] = {} /\ ~(i < c.pt)
    BY <1>1, <1>2
  <2> HIDE DEF m
  <2>4. Holds(c, m)
    BY <1>3, <2>1, <2>2, <2>3 DEF Holds
  <2> QED BY <2>4 DEF m
<1> QED BY <1>3, <1>5 DEF c

LEMMA ShaInvNext == ShaInv /\ [Next]_vars => ShaInv'
<1> SUFFICES ASSUME ShaInv, [Next]_vars PROVE ShaInv'
  OBVIOUS
<1>1. input \in Seq(Byte) /\ input \in Seq(Octet)
  BY Octets DEF ShaInv
<1>2. CASE Update
  <2>1. PICK c \in Seq(Byte) : c \in Seq(Octet) /\ sha3_update(c) /\ input' = input \o c /\ input' \in Seq(Byte)
    BY <1>1, <1>2, Chunk
  <2>2. Holds(ctx, input) /\ md = << >> /\ phase' = "absorb"
    BY <1>2 DEF Update, ShaInv
  <2>3. Holds(ctx', input') /\ md' = << >>
    BY <1>1, <2>1, <2>2, ShaUpdate
  <2>4. ctx' \in Contexts
    BY <2>3 DEF Holds
  <2> QED BY <2>1, <2>2, <2>3, <2>4 DEF ShaInv
<1>3. CASE Final
  <2>1. Holds(ctx, input) /\ sha3_final /\ phase' = "final" /\ input' = input
    BY <1>3 DEF Final, ShaInv
  <2>2. ctx' \in Contexts
    BY <1>1, <2>1, ShaFinal
  <2> QED BY <1>1, <2>1, <2>2 DEF ShaInv
<1>4. CASE Xof
  <2>1. Holds(ctx, input) /\ md = << >> /\ shake_xof /\ phase' = "xof" /\ input' = input
    BY <1>4 DEF Xof, ShaInv
  <2>2. Gives(ctx', md', input, 0) /\ md' = << >>
    BY <1>1, <2>1, ShaXof
  <2>3. Len(md') = 0 /\ 0 \in Nat /\ 0 <= MaxOut
    BY <2>2, RateSize
  <2>4. ctx' \in Contexts
    BY <2>2 DEF Gives
  <2> QED BY <1>1, <2>1, <2>2, <2>3, <2>4 DEF ShaInv
<1>5. CASE Out
  <2> DEFINE l == Len(md)
  <2>1. phase = "xof" /\ phase' = "xof" /\ input' = input /\ l \in Nat /\ Gives(ctx, md, input, l)
    BY <1>5 DEF Out, ShaInv
  <2>2. PICK n \in 1..(MaxOut - l) : shake_out(n)
    BY <1>5 DEF Out
  <2>3. n \in Nat /\ l + n \in Nat /\ l + n <= MaxOut
    <3> HIDE DEF l
    <3> QED BY <2>1, RateSize
  <2>4. Gives(ctx', md', input, l + n)
    <3> HIDE DEF l
    <3> QED BY <1>1, <2>1, <2>2, <2>3, ShaOut
  <2>5. Len(md') = l + n
    <3> HIDE DEF l
    <3>1. md' = S!Output(0..4, input, l + n)
      BY <2>4 DEF Gives
    <3> DEFINE x == l + n
    <3>2. x \in Nat
      BY <2>3
    <3> HIDE DEF x
    <3>3. Len(S!Output(0..4, input, x)) = x
      BY <3>2, OutputLength
    <3> QED BY <3>1, <3>3 DEF x
  <2>6. ctx' \in Contexts
    BY <2>4 DEF Gives
  <2> HIDE DEF l
  <2> QED BY <1>1, <2>1, <2>3, <2>4, <2>5, <2>6 DEF ShaInv
<1>6. CASE Again
  <2>1. ctx' = Context(<< >>, NoDelta, 0) /\ md' = << >> /\ input' = << >> /\ phase' = "absorb"
    BY <1>6 DEF Again, sha3_init
  <2>2. input' \in Seq(Byte)
    BY <2>1
  <2> QED BY <2>1, <2>2, NoMessage DEF ShaInv
<1>7. CASE UNCHANGED vars
  BY <1>7 DEF vars, sha3Vars, ShaInv
<1> QED BY <1>2, <1>3, <1>4, <1>5, <1>6, <1>7 DEF Next

LEMMA ShaInvariant == Spec => []ShaInv
<1>1. Init => ShaInv
  <2> SUFFICES ASSUME Init PROVE ShaInv
    OBVIOUS
  <2>1. ctx = Context(<< >>, NoDelta, 0) /\ md = << >> /\ input = << >> /\ phase = "absorb"
    BY DEF Init
  <2>2. input \in Seq(Byte)
    BY <2>1
  <2> QED BY <2>1, <2>2, NoMessage DEF ShaInv
<1> QED BY <1>1, ShaInvNext, PTL DEF Spec

LEMMA ShaStep ==
  ShaInv /\ [Next]_vars
    => [S!Absorb \/ S!Squeeze \/ S!Restart]_<< input, md, phase >>
<1> SUFFICES ASSUME ShaInv, [Next]_vars
             PROVE  [S!Absorb \/ S!Squeeze \/ S!Restart]_<< input, md, phase >>
  OBVIOUS
<1> DEFINE suffix == [final |-> {1, 2}, xof |-> 0..4]
<1>1. input \in Seq(Byte) /\ input \in Seq(Octet)
  BY Octets DEF ShaInv
<1>0. DOMAIN suffix = {"final", "xof"} /\ suffix["final"] = {1, 2} /\ suffix["xof"] = 0..4
  OBVIOUS
<1>2. CASE Update
  <2>1. PICK c \in Seq(Byte) : c \in Seq(Octet) /\ sha3_update(c) /\ input' = input \o c
    BY <1>1, <1>2, Chunk
  <2>2. md' = << >>
    BY <1>2, <2>1 DEF Update, ShaInv, sha3_update
  <2>3. Len(input') >= Len(input) /\ SubSeq(input', 1, Len(input)) = input
    BY <1>1, <2>1, PrefixOfConcat
  <2>4. S!Absorb
    BY <1>2, <2>2, <2>3 DEF S!Absorb, Update
  <2> QED BY <2>4
<1>3. CASE Final
  <2>1. Holds(ctx, input) /\ md = << >> /\ sha3_final /\ phase = "absorb" /\ phase' = "final" /\ input' = input
    BY <1>3 DEF Final, ShaInv
  <2>2. md' = S!Output({1, 2}, input, mdlen)
    BY <1>1, <2>1, ShaFinal
  <2>3. mdlen \in Len(md)..MaxOut
    BY <2>1, RateSize
  <2>4. \E n \in Len(md)..MaxOut : md' = S!Output(suffix[phase'], input, n)
    BY <1>0, <2>1, <2>2, <2>3
  <2>5. S!Squeeze
    BY <1>0, <2>1, <2>4 DEF S!Squeeze
  <2> QED BY <2>5
<1>4. CASE Xof
  <2>1. Holds(ctx, input) /\ md = << >> /\ shake_xof /\ phase = "absorb" /\ phase' = "xof" /\ input' = input
    BY <1>4 DEF Xof, ShaInv
  <2>2. md' = S!Output(0..4, input, 0)
    BY <1>1, <2>1, ShaXof DEF Gives
  <2>3. 0 \in Len(md)..MaxOut
    BY <2>1, RateSize
  <2>4. \E n \in Len(md)..MaxOut : md' = S!Output(suffix[phase'], input, n)
    BY <1>0, <2>1, <2>2, <2>3
  <2>5. S!Squeeze
    BY <1>0, <2>1, <2>4 DEF S!Squeeze
  <2> QED BY <2>5
<1>5. CASE Out
  <2> DEFINE l == Len(md)
  <2>1. phase = "xof" /\ phase' = "xof" /\ input' = input /\ l \in Nat /\ Gives(ctx, md, input, l)
    BY <1>5 DEF Out, ShaInv
  <2>2. PICK n \in 1..(MaxOut - l) : shake_out(n)
    BY <1>5 DEF Out
  <2>3. n \in Nat /\ l + n \in l..MaxOut
    <3> HIDE DEF l
    <3> QED BY <2>1, RateSize
  <2>4. md' = S!Output(0..4, input, l + n)
    <3> HIDE DEF l
    <3> QED BY <1>1, <2>1, <2>2, <2>3, ShaOut DEF Gives
  <2>5. \E k \in Len(md)..MaxOut : md' = S!Output(suffix[phase'], input, k)
    BY <1>0, <2>1, <2>3, <2>4
  <2>6. S!Squeeze
    BY <1>0, <2>1, <2>5 DEF S!Squeeze
  <2> QED BY <2>6
<1>6. CASE Again
  BY <1>6 DEF Again, sha3_init, S!Restart
<1>7. CASE UNCHANGED vars
  BY <1>7 DEF vars, sha3Vars
<1> QED BY <1>2, <1>3, <1>4, <1>5, <1>6, <1>7 DEF Next

\* sha3.c computes SHA-3 and SHAKE of the whole message, for every length of
\* it, however sha3_update is given it and shake_out asked for the output.
THEOREM Sha3ImplementsSponge == Spec => Sha3IsSponge
<1>1. Init => S!Init
  BY DEF Init, S!Init
<1> QED BY <1>1, ShaInvariant, ShaStep, PTL DEF Spec, Sha3IsSponge, S!Spec

\* Neither implementation leaves its buffer: rest and pt stay inside a block,
\* at every step of every sequence of calls.
THEOREM HashTypeCorrect == Spec => []TypeOK
<1>1. KeccakInv /\ ShaInv => TypeOK
  <2> SUFFICES ASSUME KeccakInv, ShaInv PROVE TypeOK
    OBVIOUS
  <2>1. /\ message \in [Index -> Octet] /\ rest \in Index
        /\ \A k \in 1..Len(hash) : hash[k] \in [Index -> Octet]
    BY DEF KeccakInv, KeccakTyped
  <2>2. /\ ctx.pt \in 0..rsiz /\ ctx.delta \in [Rated -> Octet]
        /\ \A k \in 1..Len(ctx.st) : ctx.st[k] \in [Rated -> Octet]
    BY DEF ShaInv, Contexts, ShaBlock
  <2> QED BY <2>1, <2>2 DEF TypeOK, KeccakInv, Octet
<1> QED BY <1>1, KeccakInvariant, ShaInvariant, PTL
=============================================================================
