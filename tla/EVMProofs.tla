------------------------------ MODULE EVMProofs ------------------------------
(***************************************************************************)
(* Type correctness and the safety properties of the machine, for memories,*)
(* stacks, storages, limits and bytecodes of every size, and then those of *)
(* the application that runs it twice; last, what its instructions compute,*)
(* by the lemmas on the functions of uint256.c.                            *)
(*                                                                         *)
(* The inductive invariant is Inv.  FetchGuarded, what the test of the     *)
(* loop establishes, keeps the gas below the limit before an instruction   *)
(* is charged for, and the bytecode without CALLDATACOPY away from SP; both*)
(* are needed for the next state.  Inv is split in LoopOK (what the rest   *)
(* of the loop body maintains) and DataOK (what the instructions write),   *)
(* and each way an instruction can end is treated once: Continue, Leave,   *)
(* Stuck, StoreTop, MemWrite and Result.                                   *)
(***************************************************************************)
EXTENDS EthereumApp, UInt256Lemmas

\* An instruction is decoded only in front of the last byte of the bytecode,
\* with the gas within its limit, and a STOP only as the first instruction.
FetchGuarded ==
    status = "run" =>
        /\ PC < Len(code) - 1
        /\ GAS_Charge <= GAS_LIMIT
        /\ code[PC + 1] = STOP => PC = 0

Inv == TypeOK /\ StackBounded /\ FetchGuarded

\* What the stack pointer may be: anything, once a copy can reach it.
SPOK(sp) == sp \in Int /\ (NoHeaderCopy => sp <= STACK_SPACE)

LoopOK ==
    /\ code \in Seq(byte)
    /\ PC \in 0..(U32 - 1)
    /\ SPOK(SP)
    /\ GAS_Charge \in 0..(U32 - 1)
    /\ max_sp \in Int /\ SP <= max_sp /\ 0 <= max_sp
    /\ status \in Statuses
    /\ stray \in StrayBytes
    /\ FetchGuarded

DataOK ==
    /\ MEM \in [0..(MemEnd - 1) -> byte]
    /\ words \in [Slots -> uint256]
    /\ message \in MessageType
    /\ max_mem_offset \in Nat /\ max_storage_counter \in Nat
    /\ deployed_contract \in [0..(DEPLOY_LENGTH - 1) -> byte]
    /\ DeployLength \in Nat

\* What has to be shown of a step.
Safe == Inv' /\ GasStep /\ StorageStep /\ MemoryStep

LEMMA AlignedUp ==
  ASSUME NEW at \in Int, NEW size \in Nat \ {0}
  PROVE  Aligned(at, size) \in at..(at + size - 1)
<1>1. (-at) % size \in 0..(size - 1)
  OBVIOUS
<1> DEFINE r == (-at) % size
<1> HIDE DEF r
<1>2. at + r \in at..(at + size - 1)
  BY <1>1 DEF r
<1> QED
  BY <1>2 DEF Aligned, r

LEMMA ConstFacts ==
  /\ LB \in Nat \ {0} /\ WordBytes \in Nat \ {0} /\ WordBytes = 4 * LB
  /\ IntBytes \in Nat \ {0} /\ IntBytes <= LB /\ Header = 2 * IntBytes
  /\ MEMORY_SPACE \in Nat \ {0} /\ MemEnd \in Nat /\ MEMORY_SPACE <= MemEnd
  /\ STACK_SPACE \in Nat \ {0} /\ STORAGE_SPACE \in Nat \ {0}
  /\ MESSAGEDATASIZE \in Nat /\ DEPLOY_LENGTH \in Nat \ {0}
  /\ GAS_LIMIT \in Nat /\ U32 \in Nat \ {0} /\ U32 > GAS_LIMIT + 20000
  /\ CODECOPY_SHORT \in Nat
  /\ Base \in Nat \ {0}
<1>1. Base \in Nat \ {0}
  <2> DEFINE k == HalfBase
  <2>1. k \in Nat /\ k > 1 /\ k * k = Base
    BY LimbBitsAssumption
  <2> HIDE DEF k
  <2>2. k * k > 0
    BY <2>1
  <2> QED BY <2>1, <2>2, LimbBitsAssumption
<1>2. LB \in Nat \ {0} /\ WordBytes = 4 * LB /\ MEMORY_SPACE \in Nat \ {0}
  BY EVMAssumption DEF WordBytes
<1>3. MemEnd \in Nat /\ MEMORY_SPACE <= MemEnd
  BY <1>2, AlignedUp DEF MemEnd
<1> QED
  BY <1>1, <1>2, <1>3, EVMAssumption DEF Header

LEMMA InvSplits == Inv <=> LoopOK /\ DataOK
BY ConstFacts DEF Inv, TypeOK, StackBounded, LoopOK, DataOK, SPOK

LEMMA InvSplitsPrime == Inv' <=> LoopOK' /\ DataOK'
BY InvSplits, PTL

-----------------------------------------------------------------------------
(* The layout of the machine.                                              *)

LEMMA SlotOrder ==
  /\ SlotAt(0) = MemEnd
  /\ \A i \in Int : SlotAt(i) \in Int /\ SlotAt(i + 1) = SlotAt(i) + WordBytes
  /\ \A i, j \in Int : i < j => SlotAt(i) + WordBytes <= SlotAt(j)
<1> DEFINE b == WordBytes  m == MemEnd
<1>1. b \in Nat \ {0} /\ m \in Nat
  BY ConstFacts
<1>2. \A i : SlotAt(i) = m + b * i
  BY DEF SlotAt
<1> HIDE DEF b, m
<1>3. b * 0 = 0
  BY <1>1
<1>4. \A i \in Int : b * i \in Int /\ b * (i + 1) = b * i + b
  BY <1>1
<1>5. ASSUME NEW i \in Int, NEW j \in Int, i < j PROVE b * i + b <= b * j
  <2> DEFINE d == j - i - 1
  <2>1. d \in Nat /\ j = (i + 1) + d
    BY <1>5
  <2> HIDE DEF d
  <2>2. b * j = b * (i + 1) + b * d
    BY <1>1, <2>1, ProductSum
  <2>3. b * d \in Nat /\ b * i \in Int
    BY <1>1, <2>1, ProductNat
  <2> QED BY <1>1, <1>4, <2>2, <2>3
<1>6. SlotAt(0) = m
  BY <1>1, <1>2, <1>3
<1>7. ASSUME NEW i \in Int PROVE SlotAt(i) \in Int /\ SlotAt(i + 1) = SlotAt(i) + b
  <2> DEFINE x == b * i  y == b * (i + 1)
  <2>1. x \in Int /\ y = x + b /\ SlotAt(i) = m + x /\ SlotAt(i + 1) = m + y
    BY <1>2, <1>4
  <2> HIDE DEF x, y
  <2> QED BY <1>1, <2>1
<1>8. ASSUME NEW i \in Int, NEW j \in Int, i < j PROVE SlotAt(i) + b <= SlotAt(j)
  <2> DEFINE x == b * i  y == b * j
  <2>1. x \in Int /\ y \in Int /\ x + b <= y /\ SlotAt(i) = m + x /\ SlotAt(j) = m + y
    BY <1>2, <1>4, <1>5, <1>8
  <2> HIDE DEF x, y
  <2> QED BY <1>1, <2>1
<1> QED
  BY <1>6, <1>7, <1>8 DEF b, m

\* The members of the machine follow each other in memory.
LEMMA Layout ==
  /\ GasAt \in Nat /\ MemEnd + WordBytes <= GasAt
  /\ MessageAt \in Nat /\ GasAt + IntBytes <= MessageAt
  /\ DataAt = MessageAt + 3 * WordBytes
  /\ SizesAt \in Nat /\ DataAt + MESSAGEDATASIZE <= SizesAt
  /\ MachineEnd \in Nat /\ SizesAt + 2 * IntBytes <= MachineEnd
<1>1. GasAt \in Nat /\ MemEnd + WordBytes <= GasAt
  <2>1. STACK_SPACE + STORAGE_SPACE \in Int /\ 0 < STACK_SPACE + STORAGE_SPACE
    BY ConstFacts
  <2> DEFINE n == STACK_SPACE + STORAGE_SPACE
  <2> HIDE DEF n
  <2>2. n \in Int /\ 0 < n /\ GasAt = SlotAt(n)
    BY <2>1 DEF n, GasAt
  <2>3. SlotAt(n) \in Int /\ SlotAt(0) + WordBytes <= SlotAt(n) /\ SlotAt(0) = MemEnd
    BY <2>2, SlotOrder
  <2> QED BY <2>2, <2>3, ConstFacts
<1>2. MessageAt \in Nat /\ GasAt + IntBytes <= MessageAt
  <2>1. Aligned(IntBytes, LB) \in IntBytes..(IntBytes + LB - 1)
    BY ConstFacts, AlignedUp
  <2> QED BY <1>1, <2>1, ConstFacts DEF MessageAt
<1>3. DataAt = MessageAt + 3 * WordBytes
  BY DEF DataAt
<1>4. SizesAt \in Nat /\ DataAt + MESSAGEDATASIZE <= SizesAt
  <2>1. DataAt + MESSAGEDATASIZE \in Nat
    BY <1>2, <1>3, ConstFacts
  <2>2. SizesAt \in (DataAt + MESSAGEDATASIZE)..(DataAt + MESSAGEDATASIZE + IntBytes - 1)
    BY <2>1, ConstFacts, AlignedUp DEF SizesAt
  <2> QED BY <2>1, <2>2, ConstFacts
<1>5. MachineEnd \in Nat /\ SizesAt + 2 * IntBytes <= MachineEnd
  <2>1. SizesAt + 2 * IntBytes \in Nat
    BY <1>4, ConstFacts
  <2> DEFINE x == SizesAt + 2 * IntBytes
  <2> HIDE DEF x
  <2>2. x \in Int /\ LB \in Nat \ {0} /\ MachineEnd = Aligned(x, LB)
    BY <2>1, ConstFacts DEF MachineEnd, x
  <2>3. MachineEnd \in x..(x + LB - 1)
    BY <2>2, AlignedUp
  <2> QED BY <2>1, <2>2, <2>3, ConstFacts DEF x
<1> QED
  BY <1>1, <1>2, <1>3, <1>4, <1>5

\* The slots below slot 0 down to LowestSlot lie in MEM.
LEMMA LowSlots ==
  /\ LowestSlot \in Int /\ LowestSlot <= 0 /\ 0 <= SlotAt(LowestSlot)
  /\ \A i \in LowestSlot..(-1) : 0 <= SlotAt(i) /\ SlotAt(i) + WordBytes <= MemEnd
<1> DEFINE q == MemEnd \div WordBytes
<1>1. q \in Nat /\ MemEnd = q * WordBytes + (MemEnd % WordBytes) /\ MemEnd % WordBytes \in Nat
  <2> DEFINE b == WordBytes  m == MemEnd
  <2>1. b \in Nat \ {0} /\ m \in Nat
    BY ConstFacts
  <2> HIDE DEF b, m
  <2>2. m \div b \in Nat /\ m % b \in 0..(b - 1) /\ m = (m \div b) * b + (m % b)
    BY <2>1, QuotientFacts
  <2>3. m % b \in Nat
    BY <2>1, <2>2
  <2> QED BY <2>2, <2>3 DEF b, m
<1>2. LowestSlot = -q
  BY DEF LowestSlot
<1> HIDE DEF q
<1>3. SlotAt(-q) = MemEnd % WordBytes
  <2> DEFINE b == WordBytes  m == MemEnd  r == MemEnd % WordBytes
  <2>1. b \in Nat \ {0} /\ m \in Nat /\ r \in Nat /\ m = q * b + r /\ SlotAt(-q) = m + b * (-q)
    BY <1>1, ConstFacts DEF SlotAt
  <2> HIDE DEF b, m, r
  <2>2. b * (-q) = -(q * b)
    BY <1>1, <2>1
  <2>3. q * b \in Nat
    BY <1>1, <2>1, ProductNat
  <2> QED BY <2>1, <2>2, <2>3 DEF r
<1>4. LowestSlot \in Int /\ LowestSlot <= 0 /\ SlotAt(LowestSlot) \in Int /\ 0 <= SlotAt(LowestSlot)
  BY <1>1, <1>2, <1>3
<1>5. ASSUME NEW i \in LowestSlot..(-1) PROVE 0 <= SlotAt(i) /\ SlotAt(i) + WordBytes <= MemEnd
  <2>1. i \in Int /\ i < 0 /\ SlotAt(i) \in Int /\ 0 \in Int
    BY <1>4, SlotOrder
  <2>2. SlotAt(i) + WordBytes <= SlotAt(0) /\ SlotAt(0) = MemEnd
    BY <2>1, SlotOrder
  <2>3. CASE i = LowestSlot
    BY <1>4, <2>2, <2>3
  <2>4. CASE LowestSlot < i
    <3>1. SlotAt(LowestSlot) + WordBytes <= SlotAt(i)
      BY <1>4, <2>1, <2>4, SlotOrder
    <3> QED BY <1>4, <2>1, <2>2, <3>1, ConstFacts
  <2> QED BY <1>4, <2>1, <2>3, <2>4
<1> QED
  BY <1>4, <1>5

-----------------------------------------------------------------------------
(* Bytes.                                                                  *)

LEMMA BytePowers == \A n \in 0..LB : 256^n \in Nat \ {0}
<1> DEFINE S == {n \in 0..LB : 256^n \in Nat \ {0}}
<1>1. 0 \in S
  BY ConstFacts, EVMAssumption
<1>2. ASSUME NEW n \in 0..(LB - 1), n \in S PROVE n + 1 \in S
  <2> DEFINE p == 256^n  r == 256^(n + 1)
  <2>1. p \in Nat \ {0} /\ r = 256 * p
    BY <1>2, EVMAssumption
  <2> HIDE DEF p, r
  <2>2. r \in Nat \ {0}
    BY <2>1
  <2>3. n + 1 \in 0..LB
    BY ConstFacts
  <2> QED BY <2>2, <2>3 DEF r
<1>3. 0..LB \subseteq S
  <2> HIDE DEF S
  <2> QED BY ConstFacts, <1>1, <1>2, InductionUpTo
<1> QED
  BY <1>3

LEMMA ByteDigit ==
  ASSUME NEW x \in Nat, NEW j \in 0..LB
  PROVE  (x \div 256^j) % 256 \in byte
<1> DEFINE p == 256^j
<1>1. p \in Nat \ {0}
  BY BytePowers
<1> HIDE DEF p
<1>2. x \div p \in Nat
  BY <1>1, QuotientFacts
<1>3. (x \div p) % 256 \in 0..255
  BY <1>2
<1> QED
  BY <1>3 DEF p, byte

LEMMA IntByteType ==
  ASSUME NEW x \in Nat, NEW j \in 0..(IntBytes - 1) PROVE IntByte(x, j) \in byte
<1>1. j \in 0..LB
  BY ConstFacts
<1> QED
  BY <1>1, ByteDigit DEF IntByte

LEMMA Quotient ==
  ASSUME NEW m \in Nat \ {0}, NEW x \in Nat
  PROVE  /\ x \div m \in Nat
         /\ x % m \in 0..(m - 1)
         /\ x < 4 * m => x \div m \in 0..3
         /\ x >= m => x \div m >= 1
<1> DEFINE q == x \div m  t == x % m
<1>1. q \in Int /\ t \in 0..(m - 1) /\ x = m * q + t
  OBVIOUS
<1> HIDE DEF q, t
<1>2. q >= 0
  <2>1. SUFFICES ASSUME q < 0 PROVE FALSE
    BY <1>1
  <2>2. m * q <= m * (-1)
    BY <1>1, <2>1
  <2> QED BY <1>1, <2>2
<1>3. x < 4 * m => q <= 3
  <2>1. SUFFICES ASSUME x < 4 * m, q >= 4 PROVE FALSE
    BY <1>1
  <2>2. m * q >= m * 4
    BY <1>1, <2>1
  <2> QED BY <1>1, <2>1, <2>2
<1>4. x >= m => q >= 1
  <2>1. SUFFICES ASSUME x >= m, q <= 0 PROVE FALSE
    BY <1>1
  <2>2. m * q <= 0
    BY <1>1, <2>1
  <2> QED BY <1>1, <2>1, <2>2
<1> QED
  BY <1>1, <1>2, <1>3, <1>4 DEF q, t

LEMMA ByteOfType ==
  ASSUME NEW w \in uint256, NEW i \in 0..(WordBytes - 1)
  PROVE  ByteOf(w, i) \in byte
<1>1. i \in Nat /\ i < 4 * LB /\ LB \in Nat \ {0}
  BY ConstFacts DEF WordBytes
<1>2. i \div LB \in 0..3 /\ i % LB \in 0..(LB - 1)
  BY <1>1, Quotient
<1>3. Limbs(w)[i \div LB + 1] \in Nat
  <2>1. /\ UPPER(UPPER(w)) \in Nat /\ LOWER(UPPER(w)) \in Nat
        /\ UPPER(LOWER(w)) \in Nat /\ LOWER(LOWER(w)) \in Nat
    BY ConstFacts DEF uint256, uint128, uint64, UPPER, LOWER
  <2> DEFINE k == i \div LB + 1
  <2>2. k \in 1..4
    BY <1>2
  <2> HIDE DEF k
  <2>3. Limbs(w)[k] \in Nat
    BY <2>1, <2>2 DEF Limbs
  <2> QED BY <2>3 DEF k
<1>4. i % LB \in 0..LB
  BY <1>1, <1>2
<1> QED
  BY <1>3, <1>4, ByteDigit DEF ByteOf

\* LittleEndian adds up the bytes, from the lowest.
LEMMA ByteSums ==
  ASSUME NEW G, NEW n \in Nat
  PROVE  \E f : /\ LittleEndian(G, n) = f[n] /\ f[0] = 0
                /\ \A k \in 0..(n - 1) : f[k + 1] = f[k] + G[k] * 256^k
<1> DEFINE E(f) == f = [k \in 0..n |-> IF k = 0 THEN 0 ELSE f[k - 1] + G[k - 1] * 256^(k - 1)]
           sum == CHOOSE f : E(f)
<1>1. \E f : E(f)
  <2> DEFINE c == [k \in 0..n |-> G[k - 1] * 256^(k - 1)]
  <2>1. PICK f : f = [k \in 0..n |-> IF k = 0 THEN 0 ELSE f[k - 1] + c[k]]
    <3> HIDE DEF c
    <3> QED BY PartialSums
  <2>2. \A k \in 0..n : c[k] = G[k - 1] * 256^(k - 1)
    OBVIOUS
  <2> HIDE DEF c
  <2>3. E(f)
    BY <2>1, <2>2
  <2> QED BY <2>3
<1>2. E(sum)
  <2> HIDE DEF E
  <2> QED BY <1>1
<1>3. LittleEndian(G, n) = sum[n]
  BY Zenon DEF LittleEndian
<1> HIDE DEF sum
<1>4. sum[0] = 0
  BY <1>2
<1>5. ASSUME NEW k \in 0..(n - 1) PROVE sum[k + 1] = sum[k] + G[k] * 256^k
  <2>1. k + 1 \in 0..n /\ k + 1 # 0 /\ (k + 1) - 1 = k
    OBVIOUS
  <2>2. sum[k + 1] = sum[(k + 1) - 1] + G[(k + 1) - 1] * 256^((k + 1) - 1)
    BY <1>2, <2>1
  <2> QED BY <2>1, <2>2
<1> QED BY <1>3, <1>4, <1>5

LEMMA LittleEndianType ==
  ASSUME NEW n \in 0..LB, NEW G, \A j \in 0..(n - 1) : G[j] \in byte
  PROVE  LittleEndian(G, n) \in 0..(256^n - 1)
<1>1. n \in Nat
  BY ConstFacts
<1>2. PICK f : /\ LittleEndian(G, n) = f[n] /\ f[0] = 0
               /\ \A k \in 0..(n - 1) : f[k + 1] = f[k] + G[k] * 256^k
  BY <1>1, ByteSums
<1> DEFINE S == {k \in 0..n : f[k] \in 0..(256^k - 1)}
<1>3. 0 \in S
  <2>1. 256^0 = 1 /\ 0 \in 0..n /\ 0 \in 0..(1 - 1)
    BY <1>1, EVMAssumption
  <2> QED BY <1>2, <2>1
<1>4. ASSUME NEW k \in 0..(n - 1), k \in S PROVE k + 1 \in S
  <2>1. k \in 0..(LB - 1) /\ k \in 0..LB /\ k + 1 \in 0..n
    BY <1>1, ConstFacts
  <2> DEFINE p == 256^k  x == f[k]  y == f[k + 1]  g == G[k]
  <2>2. p \in Nat \ {0} /\ 256^(k + 1) = 256 * p /\ x \in 0..(p - 1) /\ y = x + g * p /\ g \in 0..255
    BY <1>2, <1>4, <2>1, BytePowers, EVMAssumption DEF byte
  <2> HIDE DEF p, x, y, g
  <2>3. g * p >= 0 /\ g * p <= 255 * p /\ g * p \in Int
    BY <2>2
  <2>4. y \in 0..(256 * p - 1)
    BY <2>2, <2>3
  <2> QED BY <2>1, <2>2, <2>4 DEF y
<1>5. 0..n \subseteq S
  <2> HIDE DEF S
  <2> QED BY <1>1, <1>3, <1>4, InductionUpTo
<1>6. n \in 0..n
  BY <1>1
<1> QED
  BY <1>2, <1>5, <1>6

LEMMA BigEndianType ==
  ASSUME NEW n \in 0..LB, NEW G, \A j \in 0..(n - 1) : G[j] \in byte
  PROVE  BigEndian(G, n) \in 0..(256^n - 1)
<1> DEFINE R == [j \in 0..(n - 1) |-> G[n - 1 - j]]
<1>1. \A j \in 0..(n - 1) : n - 1 - j \in 0..(n - 1)
  BY ConstFacts
<1>2. \A j \in 0..(n - 1) : R[j] \in byte
  BY <1>1
<1> HIDE DEF R
<1>3. LittleEndian(R, n) \in 0..(256^n - 1)
  BY <1>2, LittleEndianType
<1> QED
  BY <1>3 DEF BigEndian, R

IsBytes(B) == \A i \in Octets : B[i] \in byte

LEMMA LimbType ==
  ASSUME NEW B, IsBytes(B), NEW k \in 0..3
  PROVE  LimbLE(B, k) \in uint64 /\ LimbBE(B, k) \in uint64
<1>1. ASSUME NEW j \in 0..(LB - 1) PROVE LB * k + j \in Octets
  <2>1. LB * k \in 0..(3 * LB)
    BY ConstFacts
  <2> QED BY <2>1, ConstFacts DEF Octets
<1>2. \A j \in 0..(LB - 1) : Group(B, k)[j] \in byte
  BY <1>1 DEF Group, IsBytes
<1>3. LB \in 0..LB /\ 256^LB = Base
  BY ConstFacts, EVMAssumption
<1>4. LittleEndian(Group(B, k), LB) \in 0..(Base - 1)
  BY <1>2, <1>3, LittleEndianType
<1>5. BigEndian(Group(B, k), LB) \in 0..(Base - 1)
  BY <1>2, <1>3, BigEndianType
<1> QED
  BY <1>4, <1>5 DEF LimbLE, LimbBE, uint64

LEMMA WordOfType ==
  ASSUME NEW B, IsBytes(B)
  PROVE  WordOf(B) \in uint256 /\ readu256BE(B) \in uint256
<1>1. \A k \in 0..3 : LimbLE(B, k) \in uint64 /\ LimbBE(B, k) \in uint64
  BY LimbType
<1>2. 0 \in 0..3 /\ 1 \in 0..3 /\ 2 \in 0..3 /\ 3 \in 0..3
  OBVIOUS
<1> QED
  BY <1>1, <1>2 DEF WordOf, readu256BE, uint256, uint128

LEMMA CodeByteType ==
  ASSUME LoopOK, NEW i \in Int PROVE CodeByte(i) \in byte
<1>1. code \in Seq(byte) /\ stray \in byte
  BY EVMAssumption DEF LoopOK
<1>2. i % U32 \in Nat
  BY ConstFacts
<1> QED
  BY <1>1, <1>2 DEF CodeByte

-----------------------------------------------------------------------------
(* The machine as bytes.                                                   *)

LEMMA WordByteType ==
  ASSUME NEW n \in Nat, NEW w, \A i \in 0..(n - 1) : w[i] \in uint256,
         NEW x \in 0..(WordBytes * n - 1)
  PROVE  /\ x \div WordBytes \in 0..(n - 1)
         /\ ByteOf(w[x \div WordBytes], x % WordBytes) \in byte
<1> DEFINE b == WordBytes
<1>1. b \in Nat \ {0} /\ x \in 0..(b * n - 1)
  BY ConstFacts
<1> HIDE DEF b
<1>2. x \div b \in 0..(n - 1)
  BY <1>1, QuotientBelow
<1>3. x \in Nat
  BY <1>1, ProductNat
<1>4. x % b \in 0..(b - 1)
  BY <1>1, <1>3, QuotientFacts
<1>5. x \div b \in 0..(n - 1) /\ x % b \in 0..(WordBytes - 1) /\ b = WordBytes
  BY <1>2, <1>4 DEF b
<1> DEFINE j == x \div b  t == x % b
<1>6. j \in 0..(n - 1) /\ t \in 0..(WordBytes - 1)
  BY <1>5
<1> HIDE DEF j, t
<1>7. ByteOf(w[j], t) \in byte
  BY <1>6, ByteOfType
<1> QED
  BY <1>5, <1>7 DEF j, t

LEMMA MessageTypes ==
  ASSUME DataOK
  PROVE  /\ message.call_value \in uint256 /\ message.caller \in uint256
         /\ message.address \in uint256
         /\ message.data \in [0..(MESSAGEDATASIZE - 1) -> byte]
         /\ message.datasize \in 0..(U32 - 1) /\ message.codesize \in 0..(U32 - 1)
BY DEF DataOK, MessageType

LEMMA MachineByteType ==
  ASSUME LoopOK, DataOK, NEW sp \in Int, NEW at \in Int
  PROVE  MachineByte(sp, at) \in byte
<1>1. stray \in byte
  BY EVMAssumption DEF LoopOK
<1>2. PC \in Nat /\ GAS_Charge \in Nat /\ sp % U32 \in Nat
  BY ConstFacts DEF LoopOK
<1>3. ASSUME at \in (-Header)..(-IntBytes - 1) PROVE IntByte(PC, at + Header) \in byte
  <2>1. at + Header \in 0..(IntBytes - 1)
    BY <1>3, ConstFacts
  <2> QED BY <1>2, <2>1, IntByteType
<1>4. ASSUME at \in (-IntBytes)..(-1) PROVE IntByte(sp % U32, at + IntBytes) \in byte
  <2>1. at + IntBytes \in 0..(IntBytes - 1)
    BY <1>4, ConstFacts
  <2> QED BY <1>2, <2>1, IntByteType
<1>5. ASSUME at \in 0..(MemEnd - 1) PROVE MEM[at] \in byte
  BY <1>5 DEF DataOK
<1>6. ASSUME at \in MemEnd..(GasAt - 1)
      PROVE  ByteOf(words[(at - MemEnd) \div WordBytes], (at - MemEnd) % WordBytes) \in byte
  <2> DEFINE n == STACK_SPACE + STORAGE_SPACE  x == at - MemEnd
  <2>1. n \in Nat /\ \A i \in 0..(n - 1) : words[i] \in uint256
    BY ConstFacts DEF DataOK, Slots
  <2>2. GasAt = MemEnd + WordBytes * n
    BY DEF GasAt, SlotAt
  <2>3. WordBytes * n \in Nat
    BY <2>1, ConstFacts, ProductNat
  <2>4. x \in 0..(WordBytes * n - 1)
    <3> DEFINE t == WordBytes * n
    <3> HIDE DEF t
    <3>1. t \in Nat /\ GasAt = MemEnd + t
      BY <2>2, <2>3 DEF t
    <3>2. x \in 0..(t - 1)
      BY <1>6, <3>1, ConstFacts
    <3> QED BY <3>2 DEF t
  <2> HIDE DEF n, x
  <2>5. ByteOf(words[x \div WordBytes], x % WordBytes) \in byte
    BY <2>1, <2>4, WordByteType
  <2> QED BY <2>5 DEF x
<1>7. ASSUME at \in GasAt..(GasAt + IntBytes - 1) PROVE IntByte(GAS_Charge, at - GasAt) \in byte
  <2>1. at - GasAt \in 0..(IntBytes - 1)
    BY <1>7, ConstFacts, Layout
  <2> QED BY <1>2, <2>1, IntByteType
<1>8. ASSUME at \in MessageAt..(DataAt - 1)
      PROVE  ByteOf(MessageWords[(at - MessageAt) \div WordBytes + 1],
                    (at - MessageAt) % WordBytes) \in byte
  <2> DEFINE x == at - MessageAt  w == [i \in 0..2 |-> MessageWords[i + 1]]
  <2>1. \A i \in 0..(3 - 1) : w[i] \in uint256
    BY MessageTypes DEF MessageWords
  <2>2. x \in 0..(WordBytes * 3 - 1)
    BY <1>8, Layout, ConstFacts
  <2>3. \A i \in 0..(3 - 1) : w[i] = MessageWords[i + 1]
    OBVIOUS
  <2> HIDE DEF x, w
  <2>4. x \div WordBytes \in 0..(3 - 1) /\ ByteOf(w[x \div WordBytes], x % WordBytes) \in byte
    BY <2>1, <2>2, WordByteType
  <2>5. w[x \div WordBytes] = MessageWords[x \div WordBytes + 1]
    BY <2>3, <2>4
  <2> QED BY <2>4, <2>5 DEF x
<1>9. ASSUME at \in DataAt..(DataAt + MESSAGEDATASIZE - 1) PROVE message.data[at - DataAt] \in byte
  <2>1. at - DataAt \in 0..(MESSAGEDATASIZE - 1)
    BY <1>9, Layout, ConstFacts
  <2> QED BY <2>1, MessageTypes
<1>10. ASSUME at \in SizesAt..(SizesAt + IntBytes - 1)
       PROVE  IntByte(message.datasize, at - SizesAt) \in byte
  <2>1. at - SizesAt \in 0..(IntBytes - 1) /\ message.datasize \in Nat
    BY <1>10, Layout, ConstFacts, MessageTypes
  <2> QED BY <2>1, IntByteType
<1>11. ASSUME at \in (SizesAt + IntBytes)..(SizesAt + Header - 1)
       PROVE  IntByte(message.codesize, at - SizesAt - IntBytes) \in byte
  <2>1. at - SizesAt - IntBytes \in 0..(IntBytes - 1) /\ message.codesize \in Nat
    BY <1>11, Layout, ConstFacts, MessageTypes
  <2> QED BY <2>1, IntByteType
<1> QED
  BY <1>1, <1>3, <1>4, <1>5, <1>6, <1>7, <1>8, <1>9, <1>10, <1>11 DEF MachineByte

LEMMA WordAtType ==
  ASSUME LoopOK, DataOK, NEW sp \in Int, NEW at \in Int
  PROVE  /\ WordAt(sp, at) \in uint256
         /\ readu256BE([i \in Octets |-> MachineByte(sp, at + i)]) \in uint256
<1> DEFINE B == [j \in Octets |-> MachineByte(sp, at + j)]
<1>1. IsBytes(B)
  <2>1. \A j \in Octets : at + j \in Int
    BY ConstFacts DEF Octets
  <2> QED BY <2>1, MachineByteType DEF IsBytes
<1> HIDE DEF B
<1>2. WordOf(B) \in uint256 /\ readu256BE(B) \in uint256
  BY <1>1, WordOfType
<1> QED
  BY <1>2 DEF WordAt, B

LEMMA SlotType ==
  ASSUME LoopOK, DataOK, NEW i \in Int PROVE Slot(i) \in uint256
<1>1. WordAt(i, SlotAt(i)) \in uint256
  BY SlotOrder, WordAtType
<1> QED
  BY <1>1 DEF Slot, DataOK

\* Whatever is popped, from wherever in the machine or behind it, is a word.
LEMMA ArgType ==
  ASSUME LoopOK, DataOK, NEW n \in 1..3
  PROVE  Arg(n) \in uint256 /\ Low(n) \in uint64 /\ Low(n) \in Nat
<1>1. SP - (n - 1) \in Int
  BY DEF LoopOK, SPOK
<1>2. Arg(n) \in uint256
  BY <1>1, SlotType DEF Arg
<1>3. Low(n) \in uint64
  BY <1>2 DEF Low, uint256, uint128, LOWER
<1> QED
  BY <1>2, <1>3, ConstFacts DEF uint64

-----------------------------------------------------------------------------
(* What a copy of bytes leaves.                                            *)

IsCopy(copy, lo, hi) ==
    /\ lo \in Int /\ hi \in Int
    /\ DOMAIN copy = lo..(hi - 1)
    /\ \A at \in lo..(hi - 1) : copy[at] \in byte

LEMMA PatchedType ==
  ASSUME NEW copy, NEW lo, NEW hi, IsCopy(copy, lo, hi), NEW at \in Int, NEW old \in byte
  PROVE  /\ Patched(copy, at, old) \in byte
         /\ at \notin lo..(hi - 1) => Patched(copy, at, old) = old
BY DEF IsCopy, Patched

LEMMA NewWordType ==
  ASSUME NEW copy, NEW lo, NEW hi, IsCopy(copy, lo, hi), NEW at \in Int, NEW w \in uint256
  PROVE  /\ NewWord(copy, at, w) \in uint256
         /\ hi <= at => NewWord(copy, at, w) = w
<1> DEFINE B == [j \in Octets |-> Patched(copy, at + j, ByteOf(w, j))]
<1>1. IsBytes(B)
  <2>1. \A j \in Octets : at + j \in Int /\ ByteOf(w, j) \in byte
    BY ConstFacts, ByteOfType DEF Octets
  <2> QED BY <2>1, PatchedType DEF IsBytes
<1>2. WordOf(B) \in uint256
  <2> HIDE DEF B
  <2> QED BY <1>1, WordOfType
<1>3. hi <= at => ~Touches(copy, at, WordBytes)
  BY ConstFacts DEF Touches, IsCopy
<1> QED
  BY <1>2, <1>3 DEF NewWord

LEMMA NewIntType ==
  ASSUME NEW copy, NEW lo, NEW hi, IsCopy(copy, lo, hi), NEW at \in Int,
         NEW x \in 0..(U32 - 1)
  PROVE  /\ NewInt(copy, at, x) \in 0..(U32 - 1)
         /\ hi <= at => NewInt(copy, at, x) = x
<1> DEFINE B == [j \in 0..(IntBytes - 1) |-> Patched(copy, at + j, IntByte(x, j))]
<1>1. \A j \in 0..(IntBytes - 1) : B[j] \in byte
  <2>1. x \in Nat /\ \A j \in 0..(IntBytes - 1) : at + j \in Int
    BY ConstFacts
  <2>2. \A j \in 0..(IntBytes - 1) : IntByte(x, j) \in byte
    BY <2>1, IntByteType
  <2> QED BY <2>1, <2>2, PatchedType
<1>2. LittleEndian(B, IntBytes) \in 0..(U32 - 1)
  <2> HIDE DEF B
  <2>1. IntBytes \in 0..LB /\ 256^IntBytes = U32
    BY ConstFacts, EVMAssumption
  <2> QED BY <1>1, <2>1, LittleEndianType
<1>3. hi <= at => ~Touches(copy, at, IntBytes)
  BY ConstFacts DEF Touches, IsCopy
<1> QED
  BY <1>2, <1>3 DEF NewInt

LEMMA NewMessageType ==
  ASSUME DataOK, NEW copy, NEW lo, NEW hi, IsCopy(copy, lo, hi)
  PROVE  NewMessage(copy) \in MessageType
<1>1. /\ MessageAt \in Int /\ MessageAt + WordBytes \in Int /\ MessageAt + 2 * WordBytes \in Int
      /\ DataAt \in Int /\ SizesAt \in Int /\ SizesAt + IntBytes \in Int
  BY Layout, ConstFacts
<1>2. /\ NewWord(copy, MessageAt, message.call_value) \in uint256
      /\ NewWord(copy, MessageAt + WordBytes, message.caller) \in uint256
      /\ NewWord(copy, MessageAt + 2 * WordBytes, message.address) \in uint256
  BY <1>1, MessageTypes, NewWordType
<1>3. /\ NewInt(copy, SizesAt, message.datasize) \in 0..(U32 - 1)
      /\ NewInt(copy, SizesAt + IntBytes, message.codesize) \in 0..(U32 - 1)
  BY <1>1, MessageTypes, NewIntType
<1>4. ASSUME NEW i \in 0..(MESSAGEDATASIZE - 1)
      PROVE  Patched(copy, DataAt + i, message.data[i]) \in byte
  <2>1. DataAt + i \in Int /\ message.data[i] \in byte
    BY <1>1, MessageTypes, ConstFacts
  <2> QED BY <2>1, PatchedType
<1> QED
  BY <1>2, <1>3, <1>4 DEF NewMessage, MessageType

\* A copy changes the bytes of MEM in its range, and no word that begins
\* behind its end.
LEMMA MemWriteStep ==
  ASSUME DataOK, NEW copy, NEW lo, NEW hi, IsCopy(copy, lo, hi), MemWrite(copy)
  PROVE  /\ MEM' \in [0..(MemEnd - 1) -> byte]
         /\ words' \in [Slots -> uint256]
         /\ \A i \in 0..(MemEnd - 1) : MEM'[i] # MEM[i] => i \in lo..(hi - 1)
         /\ \A i \in Slots : hi <= SlotAt(i) => words'[i] = words[i]
<1>1. ASSUME NEW i \in 0..(MemEnd - 1)
      PROVE  /\ Patched(copy, i, MEM[i]) \in byte
             /\ i \notin lo..(hi - 1) => Patched(copy, i, MEM[i]) = MEM[i]
  <2>1. i \in Int /\ MEM[i] \in byte
    BY ConstFacts DEF DataOK
  <2> QED BY <2>1, PatchedType
<1>2. ASSUME NEW i \in Slots
      PROVE  /\ NewWord(copy, SlotAt(i), words[i]) \in uint256
             /\ hi <= SlotAt(i) => NewWord(copy, SlotAt(i), words[i]) = words[i]
  <2>1. i \in Int
    BY ConstFacts DEF Slots
  <2>2. SlotAt(i) \in Int /\ words[i] \in uint256
    BY <2>1, SlotOrder DEF DataOK
  <2> QED BY <2>2, NewWordType
<1>3. DOMAIN MEM = 0..(MemEnd - 1)
  BY DEF DataOK
<1> QED
  BY <1>1, <1>2, <1>3 DEF MemWrite

LEMMA WordCopyType ==
  ASSUME NEW to \in Int, NEW w \in uint256 PROVE IsCopy(WordCopy(to, w), to, to + WordBytes)
<1>1. \A at \in to..(to + WordBytes - 1) : at - to \in 0..(WordBytes - 1)
  BY ConstFacts
<1> QED
  BY <1>1, ByteOfType, ConstFacts DEF IsCopy, WordCopy

LEMMA CodeBytesType ==
  ASSUME LoopOK, NEW to \in Int, NEW n \in Nat, NEW from \in Int
  PROVE  IsCopy(CodeBytes(to, n, from), to, to + n)
<1>1. \A at \in to..(to + n - 1) : from + (at - to) \in Int
  OBVIOUS
<1> QED
  BY <1>1, CodeByteType DEF IsCopy, CodeBytes

-----------------------------------------------------------------------------
(* The instruction, and the rest of the loop body.                         *)

LEMMA OpcodeType == LoopOK /\ status = "run" => opcode \in byte
BY DEF LoopOK, FetchGuarded, opcode

LEMMA PopsType == \A op : Pops(op) \in 0..3
BY DEF Pops

LEMMA PopsValues ==
  /\ \A op \in {SHA3, MSTORE, MSTORE8, SSTORE, RETURN, REVERT} : Pops(op) = 2
  /\ \A op \in {CALLDATACOPY, CODECOPY} : Pops(op) = 3
<1>1. \A op \in Pop1 : op \in {21, 25, 53, 80, 81, 84, 86}
  BY DEF Pop1, ISZERO, NOT, CALLDATALOAD, POP, MLOAD, SLOAD, JUMP
<1>2. \A op \in Pop2 : op \notin {55, 57}
  BY DEF Pop2, ADD, MUL, SUB, DIV, SDIV, MOD, SMOD, EXP, LT, GT, SLT, SGT, EQ, AND, OR,
         XOR, BYTE, SHL, SHR, SAR, SHA3, MSTORE, MSTORE8, SSTORE, JUMPI, RETURN, REVERT
<1>3. ASSUME NEW op \in {SHA3, MSTORE, MSTORE8, SSTORE, RETURN, REVERT} PROVE Pops(op) = 2
  <2>1. op \in Pop2
    BY DEF Pop2
  <2>2. op \notin {21, 25, 53, 80, 81, 84, 86}
    BY DEF SHA3, MSTORE, MSTORE8, SSTORE, RETURN, REVERT
  <2> QED BY <1>1, <2>1, <2>2 DEF Pops
<1>4. ASSUME NEW op \in {CALLDATACOPY, CODECOPY} PROVE Pops(op) = 3
  <2>1. op \in Pop3 /\ op \in {55, 57}
    BY DEF Pop3, CALLDATACOPY, CODECOPY
  <2> QED BY <1>1, <1>2, <2>1 DEF Pops
<1> QED
  BY <1>3, <1>4

LEMMA ContinueLoop ==
  ASSUME LoopOK, NEW pc \in Nat, Continue(pc),
         SPOK(SP'), GAS_Charge' \in 0..(U32 - 1)
  PROVE  LoopOK'
<1>1. PC' \in 0..(U32 - 1)
  BY ConstFacts DEF Continue
<1>2. max_sp' \in Int /\ SP' <= max_sp' /\ 0 <= max_sp'
  BY ConstFacts DEF Continue, Larger, LoopOK, SPOK
<1>3. /\ code' = code /\ code \in Seq(byte) /\ status' = LoopStatus(PC', GAS_Charge')
      /\ stray' \in StrayBytes
  BY DEF Continue, LoopOK
<1>4. status' \in Statuses
  BY <1>3 DEF LoopStatus, Statuses
<1>5. FetchGuarded'
  <2>1. Len(code) \in Nat
    BY <1>3
  <2>2. ASSUME status' = "run"
        PROVE  PC' < Len(code) - 1 /\ GAS_Charge' <= GAS_LIMIT /\ code[PC' + 1] # STOP
    BY <1>1, <1>3, <2>1, <2>2, ConstFacts DEF LoopStatus
  <2> QED BY <1>3, <2>2 DEF FetchGuarded
<1>6. SPOK(SP)'
  BY <1>3 DEF SPOK, NoHeaderCopy
<1> QED
  BY <1>1, <1>2, <1>3, <1>4, <1>5, <1>6 DEF LoopOK

LEMMA LeaveLoop ==
  ASSUME LoopOK, NEW how \in Statuses \ {"run"}, Leave(how), SPOK(SP')
  PROVE  LoopOK' /\ GasStep
<1>1. max_sp' \in Int /\ SP' <= max_sp' /\ 0 <= max_sp'
  BY ConstFacts DEF Leave, Larger, LoopOK, SPOK
<1>2. /\ code' = code /\ PC' = PC /\ GAS_Charge' = GAS_Charge /\ status' = how
      /\ stray' \in StrayBytes
  BY DEF Leave
<1>3. FetchGuarded'
  BY <1>2 DEF FetchGuarded
<1>4. GAS_Charge' - GAS_Charge \in 0..20000
  BY <1>2, ConstFacts DEF LoopOK
<1>5. SPOK(SP)'
  BY <1>2 DEF SPOK, NoHeaderCopy
<1> QED
  BY <1>1, <1>2, <1>3, <1>4, <1>5 DEF LoopOK, GasStep

LEMMA NoWrite ==
  /\ UNCHANGED words => StorageStep
  /\ UNCHANGED MEM => MemoryStep
BY DEF StorageStep, MemoryStep

LEMMA StuckStep ==
  ASSUME LoopOK, DataOK, NEW how \in Statuses \ {"run"}, Stuck(how)
  PROVE  Safe
<1>1. LoopOK'
  BY DEF Stuck, LoopOK, FetchGuarded, SPOK, NoHeaderCopy
<1>2. DataOK'
  BY DEF Stuck, DataOK
<1>3. GasStep
  BY ConstFacts DEF Stuck, LoopOK, GasStep
<1>4. StorageStep /\ MemoryStep
  BY NoWrite DEF Stuck
<1> QED
  BY <1>1, <1>2, <1>3, <1>4, InvSplitsPrime DEF Safe

\* The limit is tested before an instruction, which adds too little to wrap.
LEMMA ChargeGas ==
  ASSUME LoopOK, GAS_Charge <= GAS_LIMIT, NEW gas \in Nat, gas <= 20000, Charge(gas)
  PROVE  GAS_Charge' \in 0..(U32 - 1) /\ GasStep
<1>1. GAS_Charge + gas \in 0..(U32 - 1)
  BY ConstFacts DEF LoopOK, FetchGuarded
<1>2. (GAS_Charge + gas) % U32 = GAS_Charge + gas
  BY <1>1, ConstFacts
<1>3. GAS_Charge' = GAS_Charge + gas
  BY <1>2 DEF Charge
<1> QED
  BY <1>1, <1>3, ConstFacts DEF GasStep, LoopOK

LEMMA ContinueStep ==
  ASSUME LoopOK, status = "run", NEW pc \in Nat, NEW gas \in Nat, gas <= 20000,
         Charge(gas), Continue(pc), SPOK(SP')
  PROVE  LoopOK' /\ GasStep
<1>1. GAS_Charge <= GAS_LIMIT
  BY DEF LoopOK, FetchGuarded
<1>2. GAS_Charge' \in 0..(U32 - 1)
  BY <1>1, ChargeGas
<1>3. GasStep
  BY <1>1, ChargeGas
<1>4. LoopOK'
  BY <1>2, ContinueLoop
<1> QED
  BY <1>3, <1>4

-----------------------------------------------------------------------------
(* The stack.  A push above slot 0 changes one word, one below it the bytes *)
(* of MEM where its slot lies.                                             *)

LEMMA StoreTopStep ==
  ASSUME LoopOK, DataOK, NEW i \in Int, i <= STACK_SPACE, NEW item, StoreTop(i, item)
  PROVE  /\ SP' = i /\ SPOK(SP')
         /\ MEM' \in [0..(MemEnd - 1) -> byte]
         /\ words' \in [Slots -> uint256]
         /\ \A j \in Slots : j # i => words'[j] = words[j]
         /\ i \in Slots => words'[i] = item /\ UNCHANGED MEM
         /\ StorageStep /\ MemoryStep
<1>0. item \in uint256 /\ SP' = i
  BY DEF StoreTop
<1>1. SPOK(SP')
  BY <1>0, ConstFacts DEF SPOK
<1>2. CASE i \in Slots /\ words' = [words EXCEPT ![i] = item] /\ UNCHANGED MEM
  <2>1. MEM' \in [0..(MemEnd - 1) -> byte] /\ words' \in [Slots -> uint256]
    BY <1>0, <1>2 DEF DataOK
  <2>2. \A j \in Slots : words'[j] = IF j = i THEN item ELSE words[j]
    BY <1>2 DEF DataOK
  <2>3. ASSUME NEW k \in 0..(STORAGE_SPACE - 1),
               words'[StorageSlot(k)] # words[StorageSlot(k)]
        PROVE  k = 0 /\ SP' = STACK_SPACE
    <3>1. StorageSlot(k) \in Slots
      BY ConstFacts DEF StorageSlot, Slots
    <3>2. StorageSlot(k) = i
      BY <2>2, <2>3, <3>1
    <3> QED BY <1>0, <3>2, ConstFacts DEF StorageSlot
  <2>4. StorageStep
    BY <2>3 DEF StorageStep
  <2> QED BY <1>0, <1>1, <1>2, <2>1, <2>2, <2>4, NoWrite
<1>3. CASE i \in LowestSlot..(-1) /\ MemWrite(WordCopy(SlotAt(i), item))
  <2> DEFINE copy == WordCopy(SlotAt(i), item)  lo == SlotAt(i)  hi == SlotAt(i) + WordBytes
  <2>0. i < 0 /\ i \notin Slots
    BY <1>3, ConstFacts DEF Slots
  <2>1. lo \in Int /\ hi \in Int /\ hi <= MemEnd
    BY <1>3, SlotOrder, LowSlots, ConstFacts
  <2>2. IsCopy(copy, lo, hi)
    BY <1>0, <2>1, WordCopyType
  <2> HIDE DEF copy, lo, hi
  <2>3. MemWrite(copy)
    BY <1>3 DEF copy
  <2>4. /\ MEM' \in [0..(MemEnd - 1) -> byte]
        /\ words' \in [Slots -> uint256]
        /\ \A m \in 0..(MemEnd - 1) : MEM'[m] # MEM[m] => m \in lo..(hi - 1)
        /\ \A j \in Slots : hi <= SlotAt(j) => words'[j] = words[j]
    BY <2>2, <2>3, MemWriteStep
  <2>5. ASSUME NEW j \in Slots PROVE words'[j] = words[j]
    <3>1. j \in Int /\ 0 <= j
      BY ConstFacts DEF Slots
    <3>2. SlotAt(j) \in Int /\ MemEnd <= SlotAt(j)
      <4>1. SlotAt(0) = MemEnd /\ SlotAt(j) \in Int
        BY <3>1, SlotOrder
      <4>2. 0 < j => MemEnd + WordBytes <= SlotAt(j)
        BY <3>1, <4>1, SlotOrder
      <4> QED BY <3>1, <4>1, <4>2, ConstFacts
    <3> QED BY <2>1, <2>4, <3>2, ConstFacts
  <2>6. StorageStep
    <3>1. \A k \in 0..(STORAGE_SPACE - 1) : StorageSlot(k) \in Slots
      BY ConstFacts DEF StorageSlot, Slots
    <3> QED BY <2>5, <3>1 DEF StorageStep
  <2>7. MemoryStep
    <3>1. ASSUME NEW m \in 0..(MemEnd - 1), MEM'[m] # MEM[m]
          PROVE  SP' < 0 /\ m - SlotAt(SP') \in 0..(WordBytes - 1)
      <4>1. m \in lo..(hi - 1) /\ SP' = i
        BY <1>0, <2>4, <3>1
      <4>2. lo = SlotAt(SP') /\ hi = lo + WordBytes
        BY <1>0 DEF lo, hi
      <4> QED BY <1>0, <2>0, <2>1, <4>1, <4>2, ConstFacts
    <3> QED BY <3>1 DEF MemoryStep
  <2> QED BY <1>0, <1>1, <2>0, <2>4, <2>5, <2>6, <2>7
<1> QED
  BY <1>2, <1>3 DEF StoreTop

LEMMA PushWord ==
  ASSUME LoopOK, DataOK, NEW sp \in Int, NoHeaderCopy => sp <= STACK_SPACE,
         NEW item, stack_push(sp, item)
  PROVE  /\ SPOK(SP')
         /\ MEM' \in [0..(MemEnd - 1) -> byte]
         /\ words' \in [Slots -> uint256]
         /\ StorageStep /\ MemoryStep
<1>1. CASE sp >= STACK_SPACE
  BY <1>1, NoWrite, ConstFacts DEF stack_push, DataOK, SPOK
<1>2. CASE ~(sp >= STACK_SPACE)
  <2>1. StoreTop(sp + 1, item) /\ sp + 1 \in Int /\ sp + 1 <= STACK_SPACE
    BY <1>2, ConstFacts DEF stack_push
  <2> QED BY <2>1, StoreTopStep
<1> QED
  BY <1>1, <1>2

-----------------------------------------------------------------------------
(* The instructions that touch the stack only.                             *)

LEMMA StackOnlyStep ==
  ASSUME LoopOK, DataOK, status = "run", NEW pc \in Nat, NEW gas \in Nat, gas <= 20000,
         Charge(gas), Continue(pc), OnlyStack, SPOK(SP'),
         MEM' \in [0..(MemEnd - 1) -> byte], words' \in [Slots -> uint256],
         StorageStep, MemoryStep
  PROVE  Safe
<1>1. LoopOK' /\ GasStep
  BY ContinueStep
<1>2. DataOK'
  BY DEF OnlyStack, deployVars, DataOK
<1> QED
  BY <1>1, <1>2, InvSplitsPrime DEF Safe

LEMMA StackOnlyLeave ==
  ASSUME LoopOK, DataOK, NEW how \in Statuses \ {"run"}, Leave(how), OnlyStack,
         SPOK(SP'), UNCHANGED << MEM, words >>
  PROVE  Safe
<1>1. LoopOK' /\ GasStep
  BY LeaveLoop
<1>2. DataOK'
  BY DEF OnlyStack, deployVars, DataOK
<1> QED
  BY <1>1, <1>2, NoWrite, InvSplitsPrime DEF Safe

LEMMA FewerWords ==
  ASSUME LoopOK, NEW n \in Nat PROVE SPOK(SP - n) /\ SP - n \in Int
BY ConstFacts DEF LoopOK, SPOK

\* The instructions that pop their operands and push one result.
LEMMA ResultStep ==
  ASSUME LoopOK, DataOK, status = "run",
         NEW item, NEW gas \in Nat, gas <= 20000, Result(item, gas)
  PROVE  Safe
<1>0. "fault" \in Statuses \ {"run"}
  BY DEF Statuses
<1>1. CASE stack_push(SP - Pops(opcode), item) /\ Charge(gas) /\ Continue(PC) /\ OnlyStack
  <2>1. SP - Pops(opcode) \in Int /\ (NoHeaderCopy => SP - Pops(opcode) <= STACK_SPACE)
    <3>1. Pops(opcode) \in Nat
      BY PopsType
    <3> QED BY <3>1, FewerWords DEF SPOK
  <2>2. /\ SPOK(SP') /\ MEM' \in [0..(MemEnd - 1) -> byte]
        /\ words' \in [Slots -> uint256] /\ StorageStep /\ MemoryStep
    BY <1>1, <2>1, PushWord
  <2>3. PC \in Nat
    BY ConstFacts DEF LoopOK
  <2> QED BY <1>1, <2>2, <2>3, StackOnlyStep
<1>2. CASE Stuck("fault")
  BY <1>0, <1>2, StuckStep
<1> QED
  BY <1>1, <1>2 DEF Result

\* Every instruction that pushes one result.
LEMMA ResultActions ==
  ASSUME LoopOK, DataOK,
         \/ Arithmetic \/ Divide \/ DivideUnchecked \/ ModularArithmetic
         \/ Exponent \/ Compare \/ BitLogic \/ Shift \/ PushMessage \/ Timestamp
  PROVE  Safe
<1>1. ASSUME NEW ops, Executes(ops), NEW item, NEW gas \in {0, 2, 3, 5, 8, 10},
             Result(item, gas)
      PROVE  Safe
  <2>1. status = "run"
    BY <1>1 DEF Executes
  <2>2. gas \in Nat /\ gas <= 20000
    OBVIOUS
  <2> QED BY <1>1, <2>1, <2>2, ResultStep
<1>2. "hang" \in Statuses \ {"run"} /\ "fault" \in Statuses \ {"run"}
  BY DEF Statuses
<1>3. CASE Arithmetic
  BY <1>1, <1>3 DEF Arithmetic
<1>4. CASE Divide
  BY <1>1, <1>2, <1>4, StuckStep DEF Divide
<1>5. CASE DivideUnchecked
  BY <1>1, <1>2, <1>5, StuckStep DEF DivideUnchecked
<1>6. CASE ModularArithmetic
  BY <1>1, <1>2, <1>6, StuckStep DEF ModularArithmetic
<1>7. CASE Exponent
  BY <1>1, <1>7 DEF Exponent
<1>8. CASE Compare
  BY <1>1, <1>8 DEF Compare
<1>9. CASE BitLogic
  BY <1>1, <1>9 DEF BitLogic
<1>10. CASE Shift
  BY <1>1, <1>10 DEF Shift
<1>11. CASE PushMessage
  BY <1>1, <1>11 DEF PushMessage
<1>12. CASE Timestamp
  BY <1>1, <1>12 DEF Timestamp
<1> QED
  BY <1>3, <1>4, <1>5, <1>6, <1>7, <1>8, <1>9, <1>10, <1>11, <1>12

\* A leading STOP: PC, SP and GAS_Charge are reset.
LEMMA StopStep == ASSUME LoopOK, DataOK, Stop PROVE Safe
<1>1. /\ status = "run" /\ opcode = STOP /\ SP' = 0 /\ GAS_Charge' = 0
      /\ Continue(0) /\ UNCHANGED << MEM, words >> /\ OnlyStack
  BY DEF Stop, Executes
<1>2. PC = 0
  BY <1>1 DEF LoopOK, FetchGuarded, opcode
<1>3. SPOK(SP')
  BY <1>1, ConstFacts DEF SPOK
<1>4. LoopOK'
  BY <1>1, <1>3, ContinueLoop, ConstFacts
<1>5. DataOK'
  BY <1>1 DEF OnlyStack, deployVars, DataOK
<1>6. GasStep
  BY <1>1, <1>2 DEF GasStep
<1> QED
  BY <1>1, <1>4, <1>5, <1>6, NoWrite, InvSplitsPrime DEF Safe

\* The bound of PUSH, on the bytes of the operand, keeps it inside STACK.
LEMMA PushStep == ASSUME LoopOK, DataOK, Push PROVE Safe
<1> DEFINE n == opcode - PUSH1 + 1
<1>1. status = "run" /\ n \in Nat /\ n >= 1 /\ "fault" \in Statuses \ {"run"}
  BY OpcodeType DEF Push, Executes, PushOps, byte, PUSH1, Statuses
<1>2. CASE UNCHANGED << SP, MEM, words >> /\ Leave("error") /\ OnlyStack
  <2>1. SPOK(SP') /\ "error" \in Statuses \ {"run"}
    BY <1>2 DEF LoopOK, Statuses
  <2> QED BY <1>2, <2>1, StackOnlyLeave
<1>3. CASE /\ SP + n < STACK_SPACE
           /\ StoreTop(SP + 1, PushItem(n))
           /\ Charge(2) /\ Continue(PC + n) /\ OnlyStack
  <2> HIDE DEF n
  <2>1. SP + 1 \in Int /\ SP + 1 <= STACK_SPACE
    BY <1>1, <1>3, ConstFacts DEF LoopOK, SPOK
  <2>2. /\ SPOK(SP') /\ MEM' \in [0..(MemEnd - 1) -> byte]
        /\ words' \in [Slots -> uint256] /\ StorageStep /\ MemoryStep
    BY <1>3, <2>1, StoreTopStep
  <2>3. PC + n \in Nat
    BY <1>1, ConstFacts DEF LoopOK
  <2> QED BY <1>1, <1>3, <2>2, <2>3, StackOnlyStep
<1>4. CASE Stuck("fault")
  BY <1>1, <1>4, StuckStep
<1> QED
  BY <1>2, <1>3, <1>4 DEF Push

\* Instructions that pop n words and push none, or push nothing at all.
LEMMA NoPushStep ==
  ASSUME LoopOK, DataOK, status = "run", NEW pc \in Nat, NEW gas \in Nat, gas <= 20000,
         NEW n \in Nat, Popped(n),
         Charge(gas), Continue(pc), OnlyStack, UNCHANGED << MEM, words >>
  PROVE  Safe
<1>1. SPOK(SP')
  BY FewerWords DEF Popped
<1>2. MEM' \in [0..(MemEnd - 1) -> byte] /\ words' \in [Slots -> uint256]
  BY DEF DataOK
<1> QED
  BY <1>1, <1>2, NoWrite, StackOnlyStep

LEMMA PopStep == ASSUME LoopOK, DataOK, Pop PROVE Safe
<1>1. status = "run" /\ PC \in Nat
  BY ConstFacts DEF Pop, Executes, LoopOK
<1> QED
  BY <1>1, NoPushStep DEF Pop

LEMMA JumpStep == ASSUME LoopOK, DataOK, Jump PROVE Safe
<1> DEFINE pc == IF opcode = JUMP \/ Low(2) # 0 THEN Low(1) % U32 ELSE PC
<1>1. status = "run" /\ Pops(opcode) \in Nat
  BY PopsType DEF Jump, Executes
<1>2. Low(1) \in Nat
  BY ArgType
<1>3. pc \in Nat
  BY <1>2, ConstFacts DEF LoopOK
<1>4. /\ Popped(Pops(opcode)) /\ UNCHANGED << MEM, words >> /\ Charge(0)
      /\ Continue(pc) /\ OnlyStack
  BY DEF Jump
<1> HIDE DEF pc
<1> QED
  BY <1>1, <1>3, <1>4, NoPushStep

LEMMA NoOpStep == ASSUME LoopOK, DataOK, NoOp PROVE Safe
<1> DEFINE gas == IF opcode = SIGNEXTEND THEN 5 ELSE 0
<1>1. /\ status = "run" /\ UNCHANGED << SP, MEM, words >> /\ Charge(gas)
      /\ Continue(PC) /\ OnlyStack
  BY DEF NoOp, Executes
<1>2. gas \in Nat /\ gas <= 20000 /\ PC \in Nat
  BY ConstFacts DEF LoopOK
<1> HIDE DEF gas
<1>3. Popped(0)
  BY <1>1 DEF Popped, LoopOK, SPOK
<1> QED
  BY <1>1, <1>2, <1>3, NoPushStep

LEMMA DupStep == ASSUME LoopOK, DataOK, Dup PROVE Safe
<1>1. status = "run" /\ PC \in Nat
  BY ConstFacts DEF Dup, Executes, LoopOK
<1>2. CASE /\ UNCHANGED << SP, MEM, words >> /\ Charge(0) /\ Continue(PC) /\ OnlyStack
  <2>1. Popped(0)
    BY <1>2 DEF Popped, LoopOK, SPOK
  <2> QED BY <1>1, <1>2, <2>1, NoPushStep
<1>3. CASE Result(Slot(SP - (opcode - DUP1)), 0)
  BY <1>1, <1>3, ResultStep
<1> QED
  BY <1>2, <1>3 DEF Dup

\* A swap of a full stack exchanges STORAGE[0], with SP = STACK_SPACE.
LEMMA SwapStep == ASSUME LoopOK, DataOK, Swap PROVE Safe
<1> DEFINE other == SP - (opcode - SWAP1 + 1)
<1>1. /\ status = "run" /\ opcode \in SwapOps /\ PC \in Nat /\ SP \in Int
      /\ "fault" \in Statuses \ {"run"}
  BY ConstFacts DEF Swap, Executes, LoopOK, SPOK, Statuses
<1>2. other \in Int /\ other < SP
  <2>1. opcode \in 144..159
    BY <1>1 DEF SwapOps, SWAP1
  <2> QED BY <1>1, <2>1 DEF SWAP1
<1>3. CASE Stuck("fault")
  BY <1>1, <1>3, StuckStep
<1>4. CASE /\ other \notin 0..STACK_SPACE \/ SP \in Slots
           /\ words' = IF other < 0 \/ other > STACK_SPACE THEN words
                       ELSE [words EXCEPT ![SP] = words[other], ![other] = words[SP]]
           /\ UNCHANGED << SP, MEM >> /\ Charge(0) /\ Continue(PC) /\ OnlyStack
  <2> HIDE DEF other
  <2>1. words' \in [Slots -> uint256] /\ StorageStep
    <3>1. CASE other < 0 \/ other > STACK_SPACE
      BY <1>4, <3>1, NoWrite DEF DataOK
    <3>2. CASE ~(other < 0 \/ other > STACK_SPACE)
      <4>1. /\ words' = [words EXCEPT ![SP] = words[other], ![other] = words[SP]]
            /\ SP \in Slots /\ other \in Slots
        BY <1>2, <1>4, <3>2, ConstFacts DEF Slots
      <4>2. words' \in [Slots -> uint256]
        BY <4>1 DEF DataOK
      <4>3. ASSUME NEW k \in 0..(STORAGE_SPACE - 1),
                   words'[StorageSlot(k)] # words[StorageSlot(k)]
            PROVE  \/ k = 0 /\ SP' = STACK_SPACE
                   \/ opcode \in SwapOps /\ SP > STACK_SPACE
        <5>1. StorageSlot(k) \in Slots /\ StorageSlot(k) >= STACK_SPACE
          BY ConstFacts DEF StorageSlot, Slots
        <5>2. StorageSlot(k) \in {SP, other}
          BY <4>1, <4>3, <5>1 DEF DataOK
        <5>3. SP = STACK_SPACE => k = 0
          BY <1>2, <5>1, <5>2, ConstFacts DEF StorageSlot
        <5>4. SP >= STACK_SPACE
          BY <1>1, <1>2, <5>1, <5>2, ConstFacts
        <5> QED BY <1>1, <1>4, <5>3, <5>4, ConstFacts
      <4>4. StorageStep
        BY <4>3 DEF StorageStep
      <4> QED BY <4>2, <4>4
    <3> QED BY <3>1, <3>2
  <2>2. SPOK(SP') /\ MEM' \in [0..(MemEnd - 1) -> byte] /\ MemoryStep
    BY <1>4, NoWrite DEF LoopOK, DataOK
  <2> QED BY <1>1, <1>4, <2>1, <2>2, StackOnlyStep
<1> QED
  BY <1>3, <1>4 DEF Swap

LEMMA LoadSteps == ASSUME LoopOK, DataOK, MLoad \/ SLoad \/ CallDataLoad PROVE Safe
<1>1. status = "run" /\ PC \in Nat
  BY ConstFacts DEF MLoad, SLoad, CallDataLoad, Executes, LoopOK
<1>2. CASE \E gas \in {0, 3} : /\ Popped(1) /\ UNCHANGED << MEM, words >>
                               /\ Charge(gas) /\ Continue(PC) /\ OnlyStack
  <2>1. PICK gas \in {0, 3} : /\ Popped(1) /\ UNCHANGED << MEM, words >>
                              /\ Charge(gas) /\ Continue(PC) /\ OnlyStack
    BY <1>2
  <2>2. gas \in Nat /\ gas <= 20000
    OBVIOUS
  <2> QED BY <1>1, <2>1, <2>2, NoPushStep
<1>3. CASE \E item : \E gas \in {0, 3} : Result(item, gas)
  <2>1. PICK item : \E gas \in {0, 3} : Result(item, gas)
    BY <1>3
  <2>2. PICK gas \in {0, 3} : Result(item, gas)
    BY <2>1
  <2>3. gas \in Nat /\ gas <= 20000
    OBVIOUS
  <2> QED BY <1>1, <2>2, <2>3, ResultStep
<1>4. CASE MLoad
  BY <1>2, <1>3, <1>4 DEF MLoad
<1>5. CASE SLoad
  BY <1>2, <1>3, <1>5 DEF SLoad
<1>6. CASE CallDataLoad
  BY <1>2, <1>3, <1>6 DEF CallDataLoad
<1> QED
  BY <1>4, <1>5, <1>6

LEMMA Sha3Step == ASSUME LoopOK, DataOK, Sha3 PROVE Safe
<1>1. /\ status = "run" /\ "fault" \in Statuses \ {"run"} /\ "error" \in Statuses \ {"run"}
  BY DEF Sha3, Executes, Statuses
<1>2. CASE Popped(2) /\ Leave("error") /\ UNCHANGED << MEM, words >> /\ OnlyStack
  <2>1. SPOK(SP')
    BY <1>2, FewerWords DEF Popped
  <2> QED BY <1>1, <1>2, <2>1, StackOnlyLeave
<1>3. CASE \E digest \in Digests : Result(digest, 0)
  BY <1>1, <1>3, ResultStep
<1>4. CASE Stuck("fault")
  BY <1>1, <1>4, StuckStep
<1> QED
  BY <1>2, <1>3, <1>4 DEF Sha3

LEMMA RevertStep == ASSUME LoopOK, DataOK, Revert PROVE Safe
<1>1. /\ status = "run" /\ PC \in Nat
      /\ "fault" \in Statuses \ {"run"} /\ "return" \in Statuses \ {"run"}
  BY ConstFacts DEF Revert, Executes, Statuses, LoopOK
<1>2. CASE Popped(2) /\ Charge(3) /\ Continue(PC) /\ UNCHANGED << MEM, words >> /\ OnlyStack
  BY <1>1, <1>2, NoPushStep
<1>3. CASE Popped(2) /\ Leave("return") /\ UNCHANGED << MEM, words >> /\ OnlyStack
  <2>1. SPOK(SP')
    BY <1>3, FewerWords DEF Popped
  <2> QED BY <1>1, <1>3, <2>1, StackOnlyLeave
<1>4. CASE Stuck("fault")
  BY <1>1, <1>4, StuckStep
<1> QED
  BY <1>2, <1>3, <1>4 DEF Revert

LEMMA UnsupportedStep == ASSUME LoopOK, DataOK, Unsupported PROVE Safe
<1>1. UNCHANGED << SP, MEM, words >> /\ Leave("error") /\ OnlyStack
  BY DEF Unsupported
<1>2. SPOK(SP') /\ "error" \in Statuses \ {"run"}
  BY <1>1 DEF LoopOK, Statuses
<1> QED
  BY <1>1, <1>2, StackOnlyLeave

LEMMA StackUnderrunStep == ASSUME LoopOK, DataOK, StackUnderrun PROVE Safe
<1>1. "fault" \in Statuses \ {"run"}
  BY DEF Statuses
<1> QED
  BY <1>1, StuckStep DEF StackUnderrun

-----------------------------------------------------------------------------
(* The instructions that write MEM.                                        *)

LEMMA HigherSlot ==
  ASSUME NEW i \in Int, i >= 1 PROVE SlotAt(1) <= SlotAt(i)
<1>1. SlotAt(1) \in Int /\ SlotAt(i) \in Int
  BY SlotOrder
<1>2. 1 < i => SlotAt(1) + WordBytes <= SlotAt(i)
  BY SlotOrder
<1> QED
  BY <1>1, <1>2, ConstFacts

\* The words above STACK[0] stay.
TailKept == \A i \in Slots : i >= 1 => words'[i] = words[i]

\* An overrun of MEM that ends in STACK[0] leaves the other words alone.
LEMMA ShortWrite ==
  ASSUME DataOK, NEW copy, NEW lo, NEW hi, IsCopy(copy, lo, hi), hi <= SlotAt(1),
         MemWrite(copy)
  PROVE  /\ MEM' \in [0..(MemEnd - 1) -> byte]
         /\ words' \in [Slots -> uint256]
         /\ \A i \in 0..(MemEnd - 1) : MEM'[i] # MEM[i] => i \in lo..(hi - 1)
         /\ TailKept
         /\ StorageStep
<1>1. /\ MEM' \in [0..(MemEnd - 1) -> byte]
      /\ words' \in [Slots -> uint256]
      /\ \A i \in 0..(MemEnd - 1) : MEM'[i] # MEM[i] => i \in lo..(hi - 1)
      /\ \A i \in Slots : hi <= SlotAt(i) => words'[i] = words[i]
  BY MemWriteStep
<1>2. ASSUME NEW i \in Slots, i >= 1 PROVE words'[i] = words[i]
  <2>1. i \in Int
    BY ConstFacts DEF Slots
  <2>2. SlotAt(1) <= SlotAt(i) /\ SlotAt(1) \in Int /\ SlotAt(i) \in Int /\ hi \in Int
    BY <1>2, <2>1, HigherSlot, SlotOrder DEF IsCopy
  <2>3. hi <= SlotAt(i)
    BY <2>2
  <2> QED BY <1>1, <2>3
<1>3. \A k \in 0..(STORAGE_SPACE - 1) : StorageSlot(k) \in Slots /\ StorageSlot(k) >= 1
  BY ConstFacts DEF StorageSlot, Slots
<1> QED
  BY <1>1, <1>2, <1>3 DEF StorageStep, TailKept

LEMMA FirstSlot == SlotAt(1) = MemEnd + WordBytes /\ SlotAt(1) \in Int
<1>1. 0 \in Int /\ 0 + 1 = 1
  OBVIOUS
<1>2. SlotAt(0 + 1) = SlotAt(0) + WordBytes /\ SlotAt(0) = MemEnd
  BY <1>1, SlotOrder
<1> QED
  BY <1>1, <1>2, ConstFacts

LEMMA StoreStep ==
  ASSUME LoopOK, DataOK, status = "run", NEW gas \in Nat, gas <= 20000, NEW pc \in Nat,
         Charge(gas), Continue(pc), OnlyMemory, SPOK(SP'),
         MEM' \in [0..(MemEnd - 1) -> byte], words' \in [Slots -> uint256],
         max_mem_offset' \in Nat, StorageStep, MemoryStep
  PROVE  Safe
<1>1. LoopOK' /\ GasStep
  BY ContinueStep
<1>2. DataOK'
  BY DEF OnlyMemory, deployVars, DataOK
<1> QED
  BY <1>1, <1>2, InvSplitsPrime DEF Safe

LEMMA MStoreStep == ASSUME LoopOK, DataOK, MStore PROVE Safe /\ TailKept
<1>1. status = "run" /\ opcode = MSTORE /\ PC \in Nat
  BY ConstFacts DEF MStore, Executes, LoopOK
<1>2. Low(1) \in Nat /\ Arg(2) \in uint256
  BY ArgType
<1>3. Popped(2) /\ Charge(3) /\ Continue(PC) /\ OnlyMemory
  BY DEF MStore
<1>4. /\ MEM' \in [0..(MemEnd - 1) -> byte] /\ words' \in [Slots -> uint256]
      /\ max_mem_offset' \in Nat /\ StorageStep /\ MemoryStep /\ TailKept
  <2>1. CASE UNCHANGED << memVars, words >>
    BY <2>1, NoWrite DEF DataOK, memVars, TailKept
  <2>2. CASE /\ ~(Low(1) > MEMORY_SPACE)
             /\ MemWrite(WordCopy(Low(1), Arg(2)))
             /\ max_mem_offset' = IF WordBytes > max_mem_offset
                                  THEN Low(1) + WordBytes ELSE max_mem_offset
    <3> DEFINE copy == WordCopy(Low(1), Arg(2))  lo == Low(1)  hi == Low(1) + WordBytes
    <3>1. IsCopy(copy, lo, hi) /\ lo \in Nat /\ hi \in Nat
      BY <1>2, WordCopyType, ConstFacts
    <3>2. hi <= SlotAt(1)
      BY <1>2, <2>2, FirstSlot, ConstFacts
    <3>3. MemWrite(copy) /\ lo = Low(1) /\ hi = lo + WordBytes
      BY <2>2
    <3>4. max_mem_offset' \in Nat
      BY <1>2, <2>2, ConstFacts DEF DataOK
    <3> HIDE DEF copy, lo, hi
    <3>5. /\ MEM' \in [0..(MemEnd - 1) -> byte] /\ words' \in [Slots -> uint256]
          /\ StorageStep /\ TailKept
          /\ \A i \in 0..(MemEnd - 1) : MEM'[i] # MEM[i] => i \in lo..(hi - 1)
      BY <3>1, <3>2, <3>3, ShortWrite
    <3>6. MemoryStep
      <4>1. ASSUME NEW i \in 0..(MemEnd - 1), MEM'[i] # MEM[i] PROVE StoredTo(i)
        <5>1. i - Low(1) \in 0..(WordBytes - 1)
          BY <3>1, <3>3, <3>5, <4>1, ConstFacts
        <5> QED BY <1>1, <5>1 DEF StoredTo
      <4> QED BY <4>1 DEF MemoryStep
    <3> QED BY <3>4, <3>5, <3>6
  <2> QED BY <2>1, <2>2 DEF MStore
<1>5. SPOK(SP')
  BY <1>3, FewerWords DEF Popped
<1> QED
  BY <1>1, <1>3, <1>4, <1>5, StoreStep

LEMMA MStore8Step == ASSUME LoopOK, DataOK, MStore8 PROVE Safe /\ TailKept
<1>1. status = "run" /\ opcode = MSTORE8 /\ PC \in Nat
  BY ConstFacts DEF MStore8, Executes, LoopOK
<1>2. Low(1) \in Nat /\ Low(2) \in Nat
  BY ArgType
<1>3. Popped(2) /\ Charge(3) /\ Continue(PC) /\ OnlyMemory /\ UNCHANGED max_mem_offset
  BY DEF MStore8
<1>4. /\ MEM' \in [0..(MemEnd - 1) -> byte] /\ words' \in [Slots -> uint256]
      /\ StorageStep /\ MemoryStep /\ TailKept
  <2>1. CASE UNCHANGED << MEM, words >>
    BY <2>1, NoWrite DEF DataOK, TailKept
  <2>2. CASE ~(Low(1) > MEMORY_SPACE) /\ MemWrite([at \in {Low(1)} |-> Low(2) % 256])
    <3> DEFINE copy == [at \in {Low(1)} |-> Low(2) % 256]  lo == Low(1)  hi == Low(1) + 1
    <3>0. Low(2) % 256 \in byte
      BY <1>2 DEF byte
    <3>1. IsCopy(copy, lo, hi) /\ lo \in Nat /\ hi \in Nat
      <4>1. lo..(hi - 1) = {Low(1)} /\ lo \in Nat /\ hi \in Nat
        BY <1>2
      <4>2. DOMAIN copy = {Low(1)} /\ \A at \in {Low(1)} : copy[at] \in byte
        BY <3>0
      <4> HIDE DEF copy, lo, hi
      <4> QED BY <4>1, <4>2 DEF IsCopy
    <3>2. hi <= SlotAt(1)
      BY <1>2, <2>2, FirstSlot, ConstFacts
    <3>3. MemWrite(copy) /\ lo = Low(1) /\ hi = lo + 1
      BY <2>2
    <3> HIDE DEF copy, lo, hi
    <3>5. /\ MEM' \in [0..(MemEnd - 1) -> byte] /\ words' \in [Slots -> uint256]
          /\ StorageStep /\ TailKept
          /\ \A i \in 0..(MemEnd - 1) : MEM'[i] # MEM[i] => i \in lo..(hi - 1)
      BY <3>1, <3>2, <3>3, ShortWrite
    <3>6. MemoryStep
      <4>1. ASSUME NEW i \in 0..(MemEnd - 1), MEM'[i] # MEM[i] PROVE StoredTo(i)
        <5>1. i = Low(1)
          BY <3>1, <3>3, <3>5, <4>1, ConstFacts
        <5> QED BY <1>1, <5>1 DEF StoredTo
      <4> QED BY <4>1 DEF MemoryStep
    <3> QED BY <3>5, <3>6
  <2> QED BY <2>1, <2>2 DEF MStore8
<1>5. SPOK(SP') /\ max_mem_offset' \in Nat
  BY <1>3, FewerWords DEF Popped, DataOK
<1> QED
  BY <1>1, <1>3, <1>4, <1>5, StoreStep

\* What the tests of CALLDATACOPY say of the range it writes.
LEMMA CallDataRange ==
  ASSUME LoopOK, DataOK, CopyEnd <= MEMORY_SPACE
  PROVE  /\ CopyStart \in Int /\ CopyEnd \in Nat /\ CopyEnd < SlotAt(1)
         /\ IsCopy(CodeBytes(CopyStart, Low(3) % U32, Low(2)), CopyStart, CopyEnd)
<1>1. Low(1) \in Nat /\ Low(2) \in Nat /\ Low(3) \in Nat
  BY ArgType
<1>2. Low(3) % U32 \in Nat /\ CopyEnd \in Nat
  BY <1>1, ConstFacts DEF CopyEnd
<1> DEFINE n == Low(3) % U32
<1>3. CopyStart = CopyEnd - n
  BY DEF CopyStart
<1> HIDE DEF n
<1>4. CopyStart \in Int /\ CopyStart + n = CopyEnd /\ n \in Nat
  BY <1>2, <1>3 DEF n
<1>5. IsCopy(CodeBytes(CopyStart, n, Low(2)), CopyStart, CopyStart + n)
  BY <1>1, <1>4, CodeBytesType
<1> QED
  BY <1>2, <1>4, <1>5, FirstSlot, ConstFacts DEF n

LEMMA CallDataCopyStep == ASSUME LoopOK, DataOK, CallDataCopy PROVE Safe /\ TailKept
<1> DEFINE copy == CodeBytes(CopyStart, Low(3) % U32, Low(2))
<1>1. status = "run" /\ opcode = CALLDATACOPY /\ "fault" \in Statuses \ {"run"} /\ PC \in Nat
  BY ConstFacts DEF CallDataCopy, Executes, Statuses, LoopOK
<1>2. Low(1) \in Nat /\ Low(2) \in Nat /\ Low(3) \in Nat
  BY ArgType
<1>3. CASE Stuck("fault")
  BY <1>1, <1>3, StuckStep DEF Stuck, TailKept
<1>4. CASE /\ Popped(3) /\ UNCHANGED << memVars, words >>
           /\ Charge(2) /\ Continue(PC) /\ OnlyMemory
  <2>1. /\ MEM' \in [0..(MemEnd - 1) -> byte] /\ words' \in [Slots -> uint256]
        /\ max_mem_offset' \in Nat /\ StorageStep /\ MemoryStep /\ TailKept
    BY <1>4, NoWrite DEF DataOK, memVars, TailKept
  <2>2. SPOK(SP')
    BY <1>4, FewerWords DEF Popped
  <2> QED BY <1>1, <1>4, <2>1, <2>2, StoreStep
<1>5. CASE /\ ~(CopyEnd > MEMORY_SPACE)
           /\ SP' = IF Touches(copy, -IntBytes, IntBytes)
                    THEN Signed(NewInt(copy, -IntBytes, (SP - 3) % U32)) ELSE SP - 3
           /\ MemWrite(copy)
           /\ max_mem_offset' = Larger(max_mem_offset, CopyEnd)
           /\ Charge(2) /\ Continue(NewInt(copy, -Header, PC)) /\ OnlyMemory
  <2>0. CopyEnd <= MEMORY_SPACE
    BY <1>2, <1>5, ConstFacts DEF CopyEnd
  <2>1. /\ IsCopy(copy, CopyStart, CopyEnd) /\ CopyStart \in Int /\ CopyEnd \in Nat
        /\ CopyEnd <= SlotAt(1)
    BY <2>0, CallDataRange, FirstSlot
  <2>2. SP - 3 \in Int /\ PC \in 0..(U32 - 1) /\ -IntBytes \in Int /\ -Header \in Int
    BY ConstFacts DEF LoopOK, SPOK
  <2>3. (SP - 3) % U32 \in 0..(U32 - 1)
    BY <2>2, ConstFacts
  <2> HIDE DEF copy
  <2>4. /\ NewInt(copy, -IntBytes, (SP - 3) % U32) \in 0..(U32 - 1)
        /\ NewInt(copy, -Header, PC) \in 0..(U32 - 1)
    BY <2>1, <2>2, <2>3, NewIntType
  <2>5. SP' \in Int
    <3> DEFINE x == NewInt(copy, -IntBytes, (SP - 3) % U32)
    <3>1. x \in Int /\ SP' \in {Signed(x), SP - 3}
      BY <1>5, <2>4, ConstFacts
    <3> HIDE DEF x
    <3>2. Signed(x) \in Int
      BY <3>1, ConstFacts DEF Signed
    <3> QED BY <2>2, <3>1, <3>2
  <2>6. SPOK(SP')
    <3>1. PC + 1 \in 1..Len(code) /\ code[PC + 1] = CALLDATACOPY
      BY <1>1 DEF LoopOK, FetchGuarded, opcode
    <3> QED BY <2>5, <3>1 DEF SPOK, NoHeaderCopy
  <2>7. /\ MEM' \in [0..(MemEnd - 1) -> byte] /\ words' \in [Slots -> uint256]
        /\ StorageStep /\ TailKept
        /\ \A i \in 0..(MemEnd - 1) : MEM'[i] # MEM[i] => i \in CopyStart..(CopyEnd - 1)
    BY <1>5, <2>1, ShortWrite
  <2>8. MemoryStep
    BY <1>1, <2>7 DEF MemoryStep, StoredTo
  <2>9. max_mem_offset' \in Nat /\ NewInt(copy, -Header, PC) \in Nat
    BY <1>5, <2>1, <2>4, ConstFacts DEF DataOK, Larger
  <2> QED BY <1>1, <1>5, <2>6, <2>7, <2>8, <2>9, StoreStep
<1> QED
  BY <1>3, <1>4, <1>5 DEF CallDataCopy

\* The last limb of a short CODECOPY is read inside the bytecode or behind it.
LEMMA LastLimb ==
  ASSUME LoopOK, NEW to \in Int, NEW last \in Int
  PROVE  IsCopy([at \in to..(to + LB - 1) |-> CodeByte(last - (at - to))], to, to + LB)
<1>1. \A at \in to..(to + LB - 1) : last - (at - to) \in Int
  BY ConstFacts
<1> QED
  BY <1>1, CodeByteType, ConstFacts DEF IsCopy

LEMMA ShortCodeCopy ==
  ASSUME LoopOK, DataOK, status = "run", opcode = CODECOPY, ~LongCopy,
         NEW last \in Int,
         Popped(3), Charge(2), Continue(PC), OnlyMemory,
         IF Low(1) > MEMORY_SPACE THEN UNCHANGED << memVars, words >>
         ELSE /\ max_mem_offset' = Larger(max_mem_offset, Low(1) + Low(3))
              /\ IF Low(3) = 0 THEN UNCHANGED << MEM, words >>
                 ELSE MemWrite([at \in Low(1)..(Low(1) + LB - 1) |->
                                  CodeByte(last - (at - Low(1)))])
  PROVE  Safe /\ TailKept
<1>1. Low(1) \in Nat /\ Low(2) \in Nat /\ Low(3) \in Nat /\ PC \in Nat
  BY ArgType, ConstFacts DEF LoopOK
<1>2. SPOK(SP')
  BY FewerWords DEF Popped
<1>3. CASE UNCHANGED << MEM, words >> /\ max_mem_offset' \in Nat
  <2>1. MEM' \in [0..(MemEnd - 1) -> byte] /\ words' \in [Slots -> uint256]
    BY <1>3 DEF DataOK
  <2>2. TailKept
    BY <1>3 DEF TailKept
  <2> QED BY <1>1, <1>2, <1>3, <2>1, <2>2, NoWrite, StoreStep
<1>4. CASE Low(1) > MEMORY_SPACE
  BY <1>3, <1>4 DEF memVars, DataOK
<1>5. CASE ~(Low(1) > MEMORY_SPACE)
  <2>1. max_mem_offset' \in Nat
    BY <1>1, <1>5 DEF DataOK, Larger
  <2>2. CASE Low(3) = 0
    BY <1>3, <1>5, <2>1, <2>2
  <2>3. CASE Low(3) # 0
    <3> DEFINE lo == Low(1)  hi == Low(1) + LB
               limb == [at \in lo..(lo + LB - 1) |-> CodeByte(last - (at - lo))]
    <3>1. lo \in Int /\ IsCopy(limb, lo, lo + LB)
      <4>1. lo \in Int
        BY <1>1
      <4> HIDE DEF lo
      <4> QED BY <4>1, LastLimb
    <3>2. IsCopy(limb, lo, hi) /\ hi \in Nat /\ lo \in Nat /\ lo = Low(1) /\ hi = lo + LB
      BY <1>1, <3>1, ConstFacts
    <3>3. hi <= SlotAt(1)
      BY <1>1, <1>5, FirstSlot, ConstFacts
    <3>4. MemWrite(limb)
      BY <1>5, <2>3
    <3> HIDE DEF lo, hi, limb
    <3>5. /\ MEM' \in [0..(MemEnd - 1) -> byte] /\ words' \in [Slots -> uint256]
          /\ StorageStep /\ TailKept
          /\ \A i \in 0..(MemEnd - 1) : MEM'[i] # MEM[i] => i \in lo..(hi - 1)
      BY <3>2, <3>3, <3>4, ShortWrite
    <3>6. MemoryStep
      <4>1. Low(3) < CODECOPY_SHORT
        BY <1>1, <1>5, ConstFacts DEF LongCopy
      <4>2. ASSUME NEW i \in 0..(MemEnd - 1), MEM'[i] # MEM[i] PROVE StoredTo(i)
        <5>1. i - Low(1) \in 0..(LB - 1)
          BY <3>2, <3>5, <4>2, ConstFacts
        <5> QED BY <4>1, <5>1 DEF StoredTo
      <4> QED BY <4>2 DEF MemoryStep
    <3> QED BY <1>1, <1>2, <2>1, <3>5, <3>6, StoreStep
  <2> QED BY <2>2, <2>3
<1> QED
  BY <1>4, <1>5

\* What a long CODECOPY writes; nothing that begins behind its end.
LEMMA LongCopyRange ==
  ASSUME LoopOK, DataOK
  PROVE  /\ Low(1) \in Nat /\ LongCopyEnd \in Nat
         /\ IsCopy(CodeBytes(Low(1), Low(3) % U32, Low(2)), Low(1), LongCopyEnd)
<1>1. Low(1) \in Nat /\ Low(2) \in Nat /\ Low(3) \in Nat
  BY ArgType
<1>2. Low(3) % U32 \in Nat
  BY <1>1, ConstFacts
<1>3. IsCopy(CodeBytes(Low(1), Low(3) % U32, Low(2)), Low(1), Low(1) + (Low(3) % U32))
  BY <1>1, <1>2, CodeBytesType
<1> QED
  BY <1>1, <1>2, <1>3 DEF LongCopyEnd

LEMMA LongCodeCopy ==
  ASSUME LoopOK, DataOK, status = "run", LongCopy, NEW copy,
         copy = CodeBytes(Low(1), Low(3) % U32, Low(2)),
         Popped(3), MemWrite(copy), message' = NewMessage(copy),
         GAS_Charge' = (NewInt(copy, GasAt, GAS_Charge) + 2) % U32,
         Continue(PC), UNCHANGED << max_mem_offset, max_storage_counter, deployVars >>
  PROVE  Safe /\ (TailKept \/ Overruns(SlotAt(1)))
<1>1. SPOK(SP') /\ PC \in Nat /\ GAS_Charge \in 0..(U32 - 1)
  BY FewerWords, ConstFacts DEF Popped, LoopOK
<1>2. IsCopy(copy, Low(1), LongCopyEnd) /\ Low(1) \in Nat /\ LongCopyEnd \in Nat /\ GasAt \in Nat
  BY LongCopyRange, Layout
<1>3. /\ MEM' \in [0..(MemEnd - 1) -> byte]
      /\ words' \in [Slots -> uint256]
      /\ \A i \in 0..(MemEnd - 1) : MEM'[i] # MEM[i] => i \in Low(1)..(LongCopyEnd - 1)
      /\ \A i \in Slots : LongCopyEnd <= SlotAt(i) => words'[i] = words[i]
  BY <1>2, MemWriteStep
<1>4. message' \in MessageType
  BY <1>2, NewMessageType
<1>5. /\ NewInt(copy, GasAt, GAS_Charge) \in 0..(U32 - 1)
      /\ LongCopyEnd <= GasAt => NewInt(copy, GasAt, GAS_Charge) = GAS_Charge
  BY <1>1, <1>2, NewIntType
<1>6. GAS_Charge' \in 0..(U32 - 1)
  <2> DEFINE x == NewInt(copy, GasAt, GAS_Charge)
  <2>1. x \in 0..(U32 - 1) /\ GAS_Charge' = (x + 2) % U32
    BY <1>5
  <2> HIDE DEF x
  <2> QED BY <2>1, ConstFacts
<1>7. LoopOK'
  BY <1>1, <1>6, ContinueLoop
<1>8. DataOK'
  BY <1>3, <1>4 DEF DataOK, deployVars
<1>9. GasStep
  <2>1. CASE LongCopyEnd > GasAt
    <3>1. Overruns(GasAt)
      BY <2>1 DEF Overruns
    <3> QED BY <3>1 DEF GasStep
  <2>2. CASE ~(LongCopyEnd > GasAt)
    <3>1. NewInt(copy, GasAt, GAS_Charge) = GAS_Charge /\ GAS_Charge <= GAS_LIMIT
      BY <1>2, <1>5, <2>2 DEF LoopOK, FetchGuarded
    <3>2. GAS_Charge' = (GAS_Charge + 2) % U32
      BY <3>1
    <3>3. Charge(2)
      BY <3>2 DEF Charge
    <3>4. 2 \in Nat /\ 2 <= 20000
      OBVIOUS
    <3> QED BY <3>1, <3>3, <3>4, ChargeGas
  <2> QED BY <2>1, <2>2
<1>10. StorageStep
  <2>1. ASSUME NEW k \in 0..(STORAGE_SPACE - 1),
               words'[StorageSlot(k)] # words[StorageSlot(k)]
        PROVE  Overruns(SlotAt(StorageSlot(k)))
    <3>1. StorageSlot(k) \in Slots /\ StorageSlot(k) \in Int
      BY ConstFacts DEF StorageSlot, Slots
    <3>2. SlotAt(StorageSlot(k)) \in Int /\ ~(LongCopyEnd <= SlotAt(StorageSlot(k)))
      BY <1>3, <2>1, <3>1, SlotOrder
    <3>3. LongCopyEnd > SlotAt(StorageSlot(k))
      BY <1>2, <3>2
    <3> QED BY <3>3 DEF Overruns
  <2> QED BY <2>1 DEF StorageStep
<1>11. MemoryStep
  BY <1>3 DEF MemoryStep, StoredTo
<1>12. TailKept \/ Overruns(SlotAt(1))
  <2>1. SlotAt(1) \in Int /\ (LongCopyEnd <= SlotAt(1) => TailKept)
    BY <1>2, FirstSlot, ShortWrite
  <2> QED BY <1>2, <2>1 DEF Overruns
<1> QED
  BY <1>7, <1>8, <1>9, <1>10, <1>11, <1>12, InvSplitsPrime DEF Safe

\* The place where a short CODECOPY reads its last limb.
LastByte == Low(2) + WordBytes * ((Low(3) + WordBytes - 1) \div WordBytes) - 1

LEMMA LastByteType == ASSUME LoopOK, DataOK PROVE LastByte \in Int
<1> DEFINE x == Low(3) + WordBytes - 1
<1>1. Low(2) \in Nat /\ x \in Nat /\ WordBytes \in Nat \ {0}
  BY ArgType, ConstFacts
<1> HIDE DEF x
<1>2. x \div WordBytes \in Nat
  BY <1>1, Quotient
<1>3. WordBytes * (x \div WordBytes) \in Nat
  BY <1>1, <1>2, ProductNat
<1>4. Low(2) + WordBytes * (x \div WordBytes) - 1 \in Int
  <2> DEFINE y == WordBytes * (x \div WordBytes)
  <2>1. y \in Nat
    BY <1>3
  <2> HIDE DEF y
  <2>2. Low(2) + y - 1 \in Int
    BY <1>1, <2>1
  <2> QED BY <2>2 DEF y
<1> QED
  BY <1>4 DEF LastByte, x

LEMMA CodeCopyStep ==
  ASSUME LoopOK, DataOK, CodeCopy PROVE Safe /\ (TailKept \/ Overruns(SlotAt(1)))
<1>1. status = "run" /\ opcode = CODECOPY /\ "fault" \in Statuses \ {"run"}
  BY DEF CodeCopy, Executes, Statuses
<1>2. CASE /\ ~LongCopy
           /\ Popped(3)
           /\ IF Low(1) > MEMORY_SPACE THEN UNCHANGED << memVars, words >>
              ELSE /\ max_mem_offset' = Larger(max_mem_offset, Low(1) + Low(3))
                   /\ IF Low(3) = 0 THEN UNCHANGED << MEM, words >>
                      ELSE MemWrite([at \in Low(1)..(Low(1) + LB - 1) |->
                                       CodeByte(LastByte - (at - Low(1)))])
           /\ Charge(2) /\ Continue(PC) /\ OnlyMemory
  BY <1>1, <1>2, LastByteType, ShortCodeCopy
<1>3. CASE LET copy == CodeBytes(Low(1), Low(3) % U32, Low(2))
           IN  /\ LongCopy /\ Popped(3) /\ MemWrite(copy)
               /\ message' = NewMessage(copy)
               /\ GAS_Charge' = (NewInt(copy, GasAt, GAS_Charge) + 2) % U32
               /\ Continue(PC)
               /\ UNCHANGED << max_mem_offset, max_storage_counter, deployVars >>
  BY <1>1, <1>3, LongCodeCopy
<1>4. CASE Stuck("fault")
  BY <1>1, <1>4, StuckStep DEF Stuck, TailKept
<1> QED
  BY <1>2, <1>3, <1>4 DEF CodeCopy, LastByte

-----------------------------------------------------------------------------
(* SSTORE and RETURN.                                                      *)

LEMMA SStoreStep == ASSUME LoopOK, DataOK, SStore PROVE Safe
<1>0. status = "run" /\ opcode = SSTORE /\ PC \in Nat
  BY ConstFacts DEF SStore, Executes, LoopOK
<1>2. Low(1) \in Nat /\ Arg(2) \in uint256
  BY ArgType
<1>3. /\ SPOK(SP') /\ Continue(PC) /\ UNCHANGED << memVars, deployVars >>
      /\ max_storage_counter' \in Nat /\ MemoryStep
  BY FewerWords, NoWrite DEF SStore, Popped, DataOK, memVars
<1> DEFINE value == Limbs(Arg(2))  cv == message.call_value
<1>4. CASE /\ Low(1) < STORAGE_SPACE
           /\ words' = [words EXCEPT ![StorageSlot(Low(1))] = Arg(2)]
           /\ Charge(20000) /\ UNCHANGED message
  <2>1. LoopOK' /\ GasStep
    BY <1>0, <1>3, <1>4, ContinueStep
  <2>2. StorageSlot(Low(1)) \in Slots
    BY <1>2, <1>4, ConstFacts DEF StorageSlot, Slots
  <2>3. DataOK'
    BY <1>2, <1>3, <1>4, <2>2 DEF DataOK, memVars, deployVars
  <2>4. ASSUME NEW k \in 0..(STORAGE_SPACE - 1),
               words'[StorageSlot(k)] # words[StorageSlot(k)]
        PROVE  Low(1) = k
    <3>1. StorageSlot(k) \in Slots
      BY ConstFacts DEF StorageSlot, Slots
    <3>2. StorageSlot(k) = StorageSlot(Low(1))
      BY <1>4, <2>4, <3>1 DEF DataOK
    <3> QED BY <1>2, <3>2, ConstFacts DEF StorageSlot
  <2>5. StorageStep
    BY <1>0, <2>4 DEF StorageStep
  <2> QED BY <1>3, <2>1, <2>3, <2>5, InvSplitsPrime DEF Safe
<1>5. CASE /\ Low(1) = STORAGE_SPACE
           /\ GAS_Charge' = (value[1] + 20000) % U32
           /\ message' = [message EXCEPT !.call_value =
                            << << value[2], value[3] >>, << value[4], LOWER(LOWER(cv)) >> >>]
           /\ UNCHANGED words
  <2>1. /\ value[1] \in uint64 /\ value[2] \in uint64 /\ value[3] \in uint64
        /\ value[4] \in uint64
    BY <1>2 DEF Limbs, uint256, uint128, UPPER, LOWER
  <2>2. LOWER(LOWER(cv)) \in uint64
    BY DEF DataOK, MessageType, uint256, uint128, LOWER
  <2> HIDE DEF value, cv
  <2>3. GAS_Charge' \in 0..(U32 - 1)
    BY <1>5, <2>1, ConstFacts DEF uint64
  <2>4. LoopOK'
    BY <1>0, <1>3, <2>3, ContinueLoop
  <2>5. << << value[2], value[3] >>, << value[4], LOWER(LOWER(cv)) >> >> \in uint256
    BY <2>1, <2>2 DEF uint256, uint128
  <2>6. message' \in MessageType
    BY <1>5, <2>5 DEF DataOK, MessageType
  <2>7. DataOK'
    BY <1>3, <1>5, <2>6 DEF DataOK, memVars, deployVars
  <2>8. GasStep
    <3>1. opcode = SSTORE /\ Low(1) = STORAGE_SPACE
      BY <1>0, <1>5
    <3> QED BY <3>1 DEF GasStep
  <2> QED BY <1>3, <1>5, <2>4, <2>7, <2>8, NoWrite, InvSplitsPrime DEF Safe
<1>6. CASE Charge(20000) /\ UNCHANGED << words, message >>
  <2>1. LoopOK' /\ GasStep
    BY <1>0, <1>3, <1>6, ContinueStep
  <2>2. DataOK'
    BY <1>3, <1>6 DEF DataOK, memVars, deployVars
  <2> QED BY <1>3, <1>6, <2>1, <2>2, NoWrite, InvSplitsPrime DEF Safe
<1> QED
  BY <1>4, <1>5, <1>6 DEF SStore, sstore_key

LEMMA ReturnRange ==
  ASSUME LoopOK, DataOK
  PROVE  /\ Low(1) \in Nat /\ Low(2) \in Nat
         /\ ReturnOffset \in Nat /\ ReturnLength \in Nat
         /\ (ReturnOffset + ReturnLength) % Base \in 0..MEMORY_SPACE
<1>1. Low(1) \in Nat /\ Low(2) \in Nat
  BY ArgType
<1>2. CASE ReturnOutside
  <2>1. ReturnOffset = 0 /\ ReturnLength = MEMORY_SPACE - 1
    BY <1>2 DEF ReturnOffset, ReturnLength
  <2>2. MEMORY_SPACE - 1 \in Nat /\ MEMORY_SPACE - 1 < Base
    <3>1. MEMORY_SPACE < U32 /\ U32 <= Base
      <4>1. Header + MachineEnd < U32 /\ Base % U32 = 0
        BY EVMAssumption
      <4>2. MEMORY_SPACE < U32
        BY <4>1, Layout, ConstFacts
      <4>3. U32 <= Base
        <5>1. SUFFICES ASSUME Base < U32 PROVE FALSE
          BY ConstFacts
        <5>2. Base % U32 = Base
          BY <5>1, ConstFacts
        <5> QED BY <4>1, <5>2, ConstFacts
      <4> QED BY <4>2, <4>3
    <3> QED BY <3>1, ConstFacts
  <2>3. (0 + (MEMORY_SPACE - 1)) % Base = MEMORY_SPACE - 1
    BY <2>2, ConstFacts
  <2> QED BY <1>1, <2>1, <2>2, <2>3, ConstFacts
<1>3. CASE ~ReturnOutside
  <2>1. ReturnOffset = Low(1) /\ ReturnLength = Low(2)
    BY <1>3 DEF ReturnOffset, ReturnLength
  <2>2. (Low(1) + Low(2)) % Base \in Nat
    BY <1>1, ConstFacts
  <2> QED BY <1>1, <1>3, <2>1, <2>2, ConstFacts DEF ReturnOutside
<1> QED
  BY <1>2, <1>3

\* RETURN copies bytes, whichever range the code chooses.
LEMMA ReturnStep == ASSUME LoopOK, DataOK, Return PROVE Safe
<1>0. status = "run" /\ "fault" \in Statuses \ {"run"} /\ "return" \in Statuses \ {"run"}
  BY DEF Return, Executes, Statuses
<1>1. CASE Stuck("fault")
  BY <1>0, <1>1, StuckStep
<1>2. CASE /\ Popped(2)
           /\ DeployLength' = (ReturnOffset + ReturnLength) % Base
           /\ deployed_contract' = NewDeployed(ReturnOffset)
           /\ Leave("return")
           /\ UNCHANGED << memVars, words, message, max_storage_counter >>
  <2>1. ReturnOffset \in Nat /\ DeployLength' \in Nat
    BY <1>2, ReturnRange, ConstFacts
  <2>2. LoopOK' /\ GasStep
    <3>1. SPOK(SP')
      BY <1>2, FewerWords DEF Popped
    <3> QED BY <1>0, <1>2, <3>1, LeaveLoop
  <2>3. ASSUME NEW i \in 0..(DEPLOY_LENGTH - 1) PROVE ReturnByte(ReturnOffset + i) \in byte
    <3>1. Place(ReturnOffset + i) \in Int /\ SP - 2 \in Int
      BY <2>1, ConstFacts, FewerWords DEF Place
    <3> QED BY <3>1, MachineByteType DEF ReturnByte
  <2>4. deployed_contract' \in [0..(DEPLOY_LENGTH - 1) -> byte]
    BY <1>2, <2>3 DEF DataOK, NewDeployed
  <2>5. DataOK'
    BY <1>2, <2>1, <2>4 DEF DataOK, memVars
  <2>6. StorageStep /\ MemoryStep
    BY <1>2, NoWrite DEF memVars
  <2> QED BY <2>2, <2>5, <2>6, InvSplitsPrime DEF Safe
<1> QED
  BY <1>1, <1>2 DEF Return

-----------------------------------------------------------------------------
(* The theorems.                                                           *)

LEMMA InitInv == Init => Inv
<1> SUFFICES ASSUME Init PROVE Inv
  OBVIOUS
<1>1. Zero256 \in uint256
  BY ConstFacts DEF Zero256, Zero128, uint256, uint128, uint64
<1>2. DataOK
  <2>1. MEM \in [0..(MemEnd - 1) -> byte] /\ deployed_contract \in [0..(DEPLOY_LENGTH - 1) -> byte]
    BY DEF Init, byte
  <2>2. words \in [Slots -> uint256]
    BY <1>1 DEF Init
  <2>3. message \in MessageType
    BY EVMAssumption DEF Init
  <2> QED BY <2>1, <2>2, <2>3 DEF Init, DataOK
<1>3. LoopOK
  <2>1. code \in Seq(byte) /\ stray \in StrayBytes
    BY EVMAssumption DEF Init
  <2>2. /\ PC = 0 /\ SP = 0 /\ GAS_Charge = 0 /\ max_sp = 0
        /\ status = IF Len(code) > 1 THEN "run" ELSE "halt"
    BY DEF Init
  <2>3. PC \in 0..(U32 - 1) /\ SPOK(SP) /\ GAS_Charge \in 0..(U32 - 1)
    BY <2>2, ConstFacts DEF SPOK
  <2>4. max_sp \in Int /\ SP <= max_sp /\ 0 <= max_sp
    BY <2>2, ConstFacts
  <2>5. status \in Statuses
    BY <2>2 DEF Statuses
  <2>6. FetchGuarded
    BY <2>1, <2>2, ConstFacts DEF FetchGuarded
  <2> QED BY <2>1, <2>3, <2>4, <2>5, <2>6 DEF LoopOK
<1> QED
  BY <1>2, <1>3, InvSplits

LEMMA StepSafe == Inv /\ Step => Safe
<1> SUFFICES ASSUME Inv, Step PROVE Safe
  OBVIOUS
<1>1. LoopOK /\ DataOK
  BY InvSplits
<1>2. CASE \/ Arithmetic \/ Divide \/ DivideUnchecked \/ ModularArithmetic
           \/ Exponent \/ Compare \/ BitLogic \/ Shift \/ PushMessage \/ Timestamp
  BY <1>1, <1>2, ResultActions
<1>3. CASE Stop \/ Push \/ Pop \/ Dup \/ Swap \/ Jump \/ NoOp
  BY <1>1, <1>3, StopStep, PushStep, PopStep, DupStep, SwapStep, JumpStep, NoOpStep
<1>4. CASE MLoad \/ SLoad \/ CallDataLoad \/ Sha3 \/ Revert
  BY <1>1, <1>4, LoadSteps, Sha3Step, RevertStep
<1>5. CASE Unsupported \/ StackUnderrun
  BY <1>1, <1>5, UnsupportedStep, StackUnderrunStep
<1>6. CASE MStore \/ MStore8 \/ CallDataCopy \/ CodeCopy \/ SStore \/ Return
  BY <1>1, <1>6, MStoreStep, MStore8Step, CallDataCopyStep, CodeCopyStep, SStoreStep,
     ReturnStep
<1> QED
  BY <1>2, <1>3, <1>4, <1>5, <1>6 DEF Step

LEMMA Invariance == Spec => []Inv
<1>1. Inv /\ [Next]_vars => Inv'
  <2>1. CASE Step
    BY <2>1, StepSafe DEF Safe
  <2>2. CASE UNCHANGED vars
    BY <2>2 DEF vars, Inv, TypeOK, StackBounded, FetchGuarded, NoHeaderCopy
  <2> QED BY <2>1, <2>2 DEF Next, Terminated
<1> QED
  BY InitInv, <1>1, PTL DEF Spec

\* For machines and bytecodes of every size, all variables of the machine keep
\* the types of their C declarations, through every overrun inside the machine
\* and until an access leaves it (status "fault").
THEOREM TypeCorrect == Spec => []TypeOK
BY Invariance, PTL DEF Inv

\* Pushes never take the stack pointer above STACK_SPACE, also from below the
\* empty stack; only a copy over SP itself can, and max_sp is above it always.
THEOREM StackStaysBounded == Spec => []StackBounded
BY Invariance, PTL DEF Inv

\* The 32-bit gas counter never wraps and never falls; a leading STOP, an SSTORE
\* to key STORAGE_SPACE and a CODECOPY over all of STACK and STORAGE aside.
THEOREM GasIsAccounted == Spec => GasAccounting
<1>1. Inv /\ [Next]_vars => [GasStep]_vars
  <2>1. CASE Step
    BY <2>1, StepSafe DEF Safe
  <2>2. CASE UNCHANGED vars
    BY <2>2
  <2> QED BY <2>1, <2>2 DEF Next, Terminated
<1> QED
  BY Invariance, <1>1, PTL DEF Spec, GasAccounting

\* A word of STORAGE is written by an SSTORE to its key and by a CODECOPY that
\* runs up to it; STORAGE[0] also by a push or a swap that fills the stack to
\* STACK_SPACE, and the others by a SWAP once a copy has moved SP above that.
THEOREM StorageIsIntact == Spec => StorageIntegrity
<1>1. Inv /\ [Next]_vars => [StorageStep]_vars
  <2>1. CASE Step
    BY <2>1, StepSafe DEF Safe
  <2>2. CASE UNCHANGED vars
    BY <2>2
  <2> QED BY <2>1, <2>2 DEF Next, Terminated
<1> QED
  BY Invariance, <1>1, PTL DEF Spec, StorageIntegrity

\* A byte of MEM is written by a store to a range it lies in, and by a push onto
\* a stack that was popped so far that the new top lies over the byte.
THEOREM MemoryIsIntact == Spec => MemoryIntegrity
<1>1. Inv /\ [Next]_vars => [MemoryStep]_vars
  <2>1. CASE Step
    BY <2>1, StepSafe DEF Safe
  <2>2. CASE UNCHANGED vars
    BY <2>2
  <2> QED BY <2>1, <2>2 DEF Next, Terminated
<1> QED
  BY Invariance, <1>1, PTL DEF Spec, MemoryIntegrity

-----------------------------------------------------------------------------
(* The stack.  StackShape says what a step does to SP and the words below: *)
(* the machine's side of StackSpec.                                        *)

\* n words are popped, and the words below them stay.
Taken(n) == SP' = SP - n /\ \A i \in 1..(SP - n) : words'[i] = words[i]

\* The same, and one word is pushed.
Put(n) ==
    /\ SP - n < STACK_SPACE
    /\ SP' = SP - n + 1
    /\ \A i \in 1..(SP - n) : words'[i] = words[i]

\* The top changes places with the word n below it, STACK[0] included.
Exchanged(n) ==
    /\ n <= SP /\ SP' = SP
    /\ words' = [words EXCEPT ![SP] = words[SP - n], ![SP - n] = words[SP]]

StackShape ==
    \/ \E n \in 0..3 : Taken(n) \/ Put(n)
    \/ \E n \in 1..16 : Exchanged(n)
    \/ SP' = 0

\* The number of live words: an SP below 0 leaves none, as SP = 0 does.
Height == IF SP < 0 THEN 0 ELSE IF SP > STACK_SPACE THEN STACK_SPACE ELSE SP

LEMMA LiveStack ==
  ASSUME LoopOK, DataOK
  PROVE  /\ liveStack \in Seq(uint256) /\ Len(liveStack) = Height
         /\ Height \in Nat
         /\ \A i \in 1..Height : liveStack[i] = words[i]
         /\ \A i \in 1..Height : words[i] \in uint256
<1> DEFINE top == IF SP > STACK_SPACE THEN STACK_SPACE ELSE SP
<1>1. Height \in Nat /\ 1..top = 1..Height /\ Height <= STACK_SPACE
  BY ConstFacts DEF LoopOK, SPOK, Height
<1>2. liveStack = [i \in 1..Height |-> words[i]]
  BY <1>1 DEF liveStack
<1>3. \A i \in 1..Height : i \in Slots
  BY <1>1, ConstFacts DEF Slots
<1>4. \A i \in 1..Height : words[i] \in uint256
  BY <1>3 DEF DataOK
<1> QED BY <1>1, <1>2, <1>4

LEMMA LiveStackPrime ==
  ASSUME LoopOK', DataOK'
  PROVE  /\ liveStack' \in Seq(uint256) /\ Len(liveStack') = Height'
         /\ Height' \in Nat
         /\ \A i \in 1..Height' : liveStack'[i] = words'[i]
         /\ \A i \in 1..Height' : words'[i] \in uint256
<1> DEFINE top == IF SP' > STACK_SPACE THEN STACK_SPACE ELSE SP'
<1>1. Height' \in Nat /\ 1..top = 1..Height' /\ Height' <= STACK_SPACE
  BY ConstFacts DEF LoopOK, SPOK, Height
<1>2. liveStack' = [i \in 1..Height' |-> words'[i]]
  BY <1>1 DEF liveStack
<1>3. \A i \in 1..Height' : i \in Slots
  BY <1>1, ConstFacts DEF Slots
<1>4. \A i \in 1..Height' : words'[i] \in uint256
  BY <1>3 DEF DataOK
<1> QED BY <1>1, <1>2, <1>4

LEMMA ShapeOfStack ==
  ASSUME LoopOK, DataOK, LoopOK', DataOK', SP <= STACK_SPACE, StackShape
  PROVE  Operand!Next
<1> DEFINE s == liveStack  t == liveStack'  h == Height  k == Height'
<1>1. /\ s \in Seq(uint256) /\ Len(s) = h /\ h \in Nat
      /\ \A i \in 1..h : s[i] = words[i] /\ words[i] \in uint256
  BY LiveStack
<1>2. /\ t \in Seq(uint256) /\ Len(t) = k /\ k \in Nat
      /\ \A i \in 1..k : t[i] = words'[i] /\ words'[i] \in uint256
  BY LiveStackPrime
<1>0. STACK_SPACE \in Nat
  BY ConstFacts
<1>3. SP \in Int /\ SP <= STACK_SPACE /\ h = IF SP < 0 THEN 0 ELSE SP
  BY <1>0 DEF LoopOK, SPOK, Height
<1>4. /\ SP' \in Int
      /\ k = IF SP' < 0 THEN 0 ELSE IF SP' > STACK_SPACE THEN STACK_SPACE ELSE SP'
  BY DEF LoopOK, SPOK, Height
<1>5. CASE k = 0
  <2>1. t = << >>
    <3> HIDE DEF t, k
    <3> QED BY <1>2, <1>5
  <2> QED BY <2>1 DEF Operand!Next, Operand!Clear
<1> HIDE DEF s, t, h, k
<1>6. ASSUME NEW n \in 0..3, Taken(n), k # 0 PROVE Operand!Next
  <2>1. n <= h /\ k = h - n /\ \A i \in 1..k : words'[i] = words[i]
    BY <1>0, <1>3, <1>4, <1>6 DEF Taken
  <2>2. t = SubSeq(s, 1, h - n)
    BY <1>1, <1>2, <2>1
  <2>3. n <= Len(liveStack) /\ liveStack' = SubSeq(liveStack, 1, Len(liveStack) - n)
    BY <1>1, <2>1, <2>2 DEF s, t
  <2> QED BY <2>3 DEF Operand!Next, Operand!Remove
<1>7. ASSUME NEW n \in 0..3, Put(n), k # 0 PROVE Operand!Next
  <2>0. n <= h /\ h - n < STACK_SPACE /\ k = h - n + 1 /\ h = SP
    BY <1>0, <1>3, <1>4, <1>7 DEF Put
  <2>1. /\ words'[h - n + 1] \in uint256
        /\ \A i \in 1..(h - n) : words'[i] = words[i]
    <3>1. h - n + 1 \in 1..k
      BY <1>1, <1>2, <2>0
    <3> QED BY <1>2, <1>7, <2>0, <3>1 DEF Put
  <2>2. Len(t) = Len(s) - n + 1 /\ n <= Len(s) /\ Len(s) - n < STACK_SPACE
    BY <1>1, <1>2, <2>0
  <2>3. SubSeq(t, 1, Len(s) - n) = SubSeq(s, 1, Len(s) - n)
    BY <1>1, <1>2, <2>0, <2>1
  <2>4. t[Len(s) - n + 1] \in uint256
    BY <1>1, <1>2, <2>0, <2>1
  <2> QED BY <2>2, <2>3, <2>4 DEF Operand!Next, Operand!Replace, s, t
<1>8. ASSUME NEW n \in 1..16, Exchanged(n), k # 0 PROVE Operand!Next
  <2>1. /\ n <= h /\ k = h /\ h = SP
        /\ words' = [words EXCEPT ![h] = words[h - n], ![h - n] = words[h]]
    <3>1. n <= SP /\ SP' = SP /\ n >= 1
      BY <1>8 DEF Exchanged
    <3>2. n <= h /\ k = h /\ h = SP
      BY <1>0, <1>3, <1>4, <3>1
    <3> QED BY <1>8, <3>2 DEF Exchanged
  <2>2. /\ h \in Slots /\ h - n \in Slots /\ n \in Nat /\ n >= 1
        /\ \A i \in 1..h : i \in Slots
    <3>0. n <= h /\ h \in Nat /\ STORAGE_SPACE \in Nat \ {0}
      BY <1>1, <2>1, ConstFacts
    <3>1. n \in Nat /\ n >= 1 /\ STORAGE_SPACE \in Nat \ {0} /\ h - n \in Nat
      BY <3>0
    <3>2. h <= STACK_SPACE
      BY <1>3, <2>1
    <3> QED BY <1>0, <1>1, <2>1, <3>1, <3>2 DEF Slots
  <2>3. /\ words'[h] = words[h - n] /\ words'[h - n] = words[h]
        /\ \A i \in 1..h : i # h /\ i # h - n => words'[i] = words[i]
    BY <1>1, <2>1, <2>2 DEF DataOK
  <2>4. CASE n < h
    <3>1. t = [s EXCEPT ![h] = s[h - n], ![h - n] = s[h]]
      <4>1. h \in 1..h /\ h - n \in 1..h
        BY <1>1, <2>2, <2>4
      <4> DEFINE u == [s EXCEPT ![h] = s[h - n], ![h - n] = s[h]]
      <4>2. u \in Seq(uint256) /\ Len(u) = h
        BY <1>1, <4>1
      <4>3. ASSUME NEW i \in 1..h PROVE u[i] = t[i]
        <5>1. t[i] = words'[i] /\ s[i] = words[i]
          BY <1>1, <1>2, <2>1
        <5>2. s[h] = words[h] /\ s[h - n] = words[h - n]
          BY <1>1, <4>1
        <5> QED BY <1>1, <2>2, <2>3, <4>1, <5>1, <5>2
      <4> HIDE DEF u
      <4> QED BY <1>2, <2>1, <4>2, <4>3 DEF u
    <3>2. Operand!Exchange(n)
      BY <1>1, <2>1, <2>4, <3>1 DEF Operand!Exchange, s, t
    <3> QED BY <3>2 DEF Operand!Next
  <2>5. CASE n = h
    <3>1. ASSUME NEW i \in 1..(h - 1) PROVE t[i] = s[i]
      <4>1. h \in Nat /\ k = h /\ h - n = 0
        BY <1>1, <2>1, <2>2, <2>5
      <4>2. i \in 1..h /\ i # h /\ i # h - n
        BY <4>1
      <4>3. words'[i] = words[i]
        BY <2>3, <4>2
      <4> QED BY <1>1, <1>2, <4>1, <4>2, <4>3
    <3>4. SubSeq(t, 1, h - 1) = SubSeq(s, 1, h - 1)
      <4> DEFINE m == h - 1
      <4>0. h \in Nat /\ n \in Nat /\ n >= 1 /\ Len(s) = h /\ Len(t) = h
        BY <1>1, <1>2, <2>1, <2>2
      <4>1. m \in Nat /\ m <= Len(t) /\ m <= Len(s)
        BY <4>0, <2>5
      <4>2. s \in Seq(uint256) /\ t \in Seq(uint256) /\ \A i \in 1..m : t[i] = s[i]
        BY <1>1, <1>2, <3>1
      <4> HIDE DEF m
      <4>3. SubSeq(t, 1, m) = SubSeq(s, 1, m)
        BY <4>1, <4>2
      <4> QED BY <4>3 DEF m
    <3>2. t[h] \in uint256
      BY <1>2, <2>1, <2>5
    <3>3. Operand!Exchange(n)
      <4>1. Len(s) = h /\ Len(t) = h /\ h > 0
        BY <1>1, <1>2, <2>1, <2>2, <2>5
      <4> QED BY <2>5, <3>4, <3>2, <4>1 DEF Operand!Exchange, s, t
    <3> QED BY <3>3 DEF Operand!Next
  <2> QED BY <1>1, <2>1, <2>4, <2>5
<1>9. SP' = 0 => k = 0
  BY <1>0, <1>4
<1> QED
  BY <1>5, <1>6, <1>7, <1>8, <1>9 DEF StackShape

LEMMA UntouchedShape ==
  ASSUME LoopOK, NEW n \in 0..3, Popped(n), UNCHANGED words
  PROVE  StackShape
<1>1. Taken(n)
  BY DEF Taken, Popped
<1> QED BY <1>1 DEF StackShape

LEMMA StillShape == ASSUME LoopOK, UNCHANGED << SP, words >> PROVE StackShape
<1>1. Popped(0)
  BY DEF Popped, LoopOK, SPOK
<1> QED BY <1>1, UntouchedShape

LEMMA PushShape ==
  ASSUME LoopOK, DataOK, SP <= STACK_SPACE, NEW n \in 0..3, NEW item, stack_push(SP - n, item)
  PROVE  StackShape
<1>0. SP \in Int /\ SP <= STACK_SPACE /\ STACK_SPACE \in Nat
  BY ConstFacts DEF LoopOK, SPOK
<1>1. CASE SP - n >= STACK_SPACE
  <2>1. Taken(n)
    BY <1>0, <1>1 DEF stack_push, Taken
  <2> QED BY <2>1 DEF StackShape
<1>2. CASE ~(SP - n >= STACK_SPACE)
  <2>1. StoreTop(SP - n + 1, item) /\ SP - n + 1 \in Int /\ SP - n + 1 <= STACK_SPACE
    BY <1>0, <1>2 DEF stack_push
  <2>2. SP' = SP - n + 1 /\ \A j \in Slots : j # SP - n + 1 => words'[j] = words[j]
    BY <2>1, StoreTopStep
  <2>3. \A i \in 1..(SP - n) : i \in Slots /\ i # SP - n + 1
    BY <1>0, <1>2, ConstFacts DEF Slots
  <2>4. Put(n)
    BY <1>0, <1>2, <2>2, <2>3 DEF Put
  <2> QED BY <2>4 DEF StackShape
<1> QED BY <1>1, <1>2

LEMMA StuckShape == ASSUME LoopOK, NEW how, Stuck(how) PROVE StackShape
BY StillShape DEF Stuck

LEMMA ResultShape ==
  ASSUME LoopOK, DataOK, SP <= STACK_SPACE, NEW item, NEW gas, Result(item, gas)
  PROVE  StackShape
<1>1. CASE stack_push(SP - Pops(opcode), item)
  BY <1>1, PopsType, PushShape
<1>2. CASE Stuck("fault")
  BY <1>2, StuckShape
<1> QED BY <1>1, <1>2 DEF Result

LEMMA ResultActionsShape ==
  ASSUME LoopOK, DataOK, SP <= STACK_SPACE,
         \/ Arithmetic \/ Divide \/ DivideUnchecked \/ ModularArithmetic
         \/ Exponent \/ Compare \/ BitLogic \/ Shift \/ PushMessage \/ Timestamp
  PROVE  StackShape
<1>3. CASE Arithmetic
  BY <1>3, ResultShape DEF Arithmetic
<1>4. CASE Divide
  BY <1>4, ResultShape, StuckShape DEF Divide
<1>5. CASE DivideUnchecked
  BY <1>5, ResultShape, StuckShape DEF DivideUnchecked
<1>6. CASE ModularArithmetic
  BY <1>6, ResultShape, StuckShape DEF ModularArithmetic
<1>7. CASE Exponent
  BY <1>7, ResultShape DEF Exponent
<1>8. CASE Compare
  BY <1>8, ResultShape DEF Compare
<1>9. CASE BitLogic
  BY <1>9, ResultShape DEF BitLogic
<1>10. CASE Shift
  BY <1>10, ResultShape DEF Shift
<1>11. CASE PushMessage
  BY <1>11, ResultShape DEF PushMessage
<1>12. CASE Timestamp
  BY <1>12, ResultShape DEF Timestamp
<1> QED
  BY <1>3, <1>4, <1>5, <1>6, <1>7, <1>8, <1>9, <1>10, <1>11, <1>12

LEMMA StackActionsShape ==
  ASSUME LoopOK, DataOK, SP <= STACK_SPACE,
         Stop \/ Push \/ Pop \/ Dup \/ Jump \/ NoOp \/ Unsupported \/ StackUnderrun
  PROVE  StackShape
<1>0. SP \in Int /\ 0 \in 0..3 /\ 1 \in 0..3
  BY DEF LoopOK, SPOK
<1>1. CASE Stop
  BY <1>1 DEF Stop, StackShape
<1>2. CASE NoOp \/ Unsupported
  BY <1>2, StillShape DEF NoOp, Unsupported
<1>3. CASE Push
  <2> DEFINE n == opcode - PUSH1 + 1
  <2>1. n \in Nat /\ n >= 1
    BY <1>3, OpcodeType DEF Push, Executes, PushOps, byte, PUSH1
  <2>2. CASE UNCHANGED << SP, words >>
    BY <2>2, StillShape
  <2>3. CASE SP + n < STACK_SPACE /\ StoreTop(SP + 1, PushItem(n))
    <3> HIDE DEF n
    <3>1. SP - 0 = SP /\ ~(SP >= STACK_SPACE)
      BY <1>0, <2>1, <2>3, ConstFacts
    <3>2. stack_push(SP - 0, PushItem(n))
      BY <2>3, <3>1 DEF stack_push
    <3> QED BY <1>0, <3>2, PushShape
  <2>4. CASE Stuck("fault")
    BY <2>4, StuckShape
  <2> QED BY <1>3, <2>2, <2>3, <2>4 DEF Push
<1>4. CASE Pop
  BY <1>0, <1>4, UntouchedShape DEF Pop
<1>5. CASE Jump
  BY <1>5, PopsType, UntouchedShape DEF Jump
<1>6. CASE StackUnderrun
  BY <1>6, StuckShape DEF StackUnderrun
<1>7. CASE Dup
  BY <1>7, StillShape, ResultShape DEF Dup
<1> QED
  BY <1>1, <1>2, <1>3, <1>4, <1>5, <1>6, <1>7

LEMMA SwapShape == ASSUME LoopOK, DataOK, Swap PROVE StackShape
<1> DEFINE n == opcode - SWAP1 + 1
<1>1. n \in 1..16
  BY DEF Swap, Executes, SwapOps, SWAP1
<1>2. CASE Stuck("fault")
  BY <1>2, StuckShape
<1>3. CASE SP' = SP /\ words' = IF SP - n < 0 \/ SP - n > STACK_SPACE THEN words
                  ELSE [words EXCEPT ![SP] = words[SP - n], ![SP - n] = words[SP]]
  <2> HIDE DEF n
  <2>1. SP \in Int
    BY DEF LoopOK, SPOK
  <2>2. CASE words' = words
    BY <1>3, <2>2, StillShape
  <2>3. CASE words' # words
    <3>1. Exchanged(n)
      BY <1>1, <1>3, <2>1, <2>3 DEF Exchanged
    <3> QED BY <1>1, <3>1 DEF StackShape
  <2> QED BY <2>2, <2>3
<1> QED BY <1>2, <1>3 DEF Swap

LEMMA LoadShape ==
  ASSUME LoopOK, DataOK, SP <= STACK_SPACE, MLoad \/ SLoad \/ CallDataLoad
  PROVE  StackShape
<1>1. CASE Popped(1) /\ UNCHANGED words
  BY <1>1, UntouchedShape
<1>2. CASE \E item, gas : Result(item, gas)
  BY <1>2, ResultShape
<1> QED
  BY <1>1, <1>2 DEF MLoad, SLoad, CallDataLoad

LEMMA LeaveShape ==
  ASSUME LoopOK, DataOK, SP <= STACK_SPACE, Sha3 \/ Revert \/ Return
  PROVE  StackShape
<1>2. CASE Popped(2) /\ UNCHANGED words
  BY <1>2, UntouchedShape
<1>3. CASE \E how : Stuck(how)
  BY <1>3, StuckShape
<1>4. CASE \E digest \in Digests : Result(digest, 0)
  BY <1>4, ResultShape
<1> QED
  BY <1>2, <1>3, <1>4 DEF Sha3, Revert, Return

\* An overrun of MEM lands below the live words, unless a long CODECOPY makes
\* it.
LEMMA TailShape ==
  ASSUME LoopOK, DataOK, SP <= STACK_SPACE, TailKept, NEW m \in 0..3, Popped(m)
  PROVE  StackShape
<1>1. \A i \in 1..(SP - m) : i \in Slots /\ i >= 1
  BY ConstFacts DEF LoopOK, SPOK, Slots
<1>2. Taken(m)
  BY <1>1 DEF Taken, Popped, TailKept
<1> QED BY <1>2 DEF StackShape

LEMMA MemoryShape ==
  ASSUME LoopOK, DataOK, SP <= STACK_SPACE, ~Overruns(SlotAt(1)), ~CopiesHeader,
         MStore \/ MStore8 \/ CallDataCopy \/ CodeCopy
  PROVE  StackShape
<1>1. CASE MStore \/ MStore8
  <2>1. TailKept /\ Popped(2)
    BY <1>1, MStoreStep, MStore8Step DEF MStore, MStore8
  <2> QED BY <2>1, TailShape
<1>2. CASE Stuck("fault")
  BY <1>2, StuckShape
<1>3. CASE CodeCopy /\ ~Stuck("fault")
  <2>1. TailKept /\ Popped(3)
    BY <1>3, CodeCopyStep DEF CodeCopy
  <2> QED BY <2>1, TailShape
<1>4. CASE CallDataCopy /\ ~Stuck("fault")
  <2>1. TailKept
    BY <1>4, CallDataCopyStep
  <2>2. Popped(3)
    <3> DEFINE copy == CodeBytes(CopyStart, Low(3) % U32, Low(2))
    <3>1. CASE CopyEnd <= MEMORY_SPACE
      <4>1. IsCopy(copy, CopyStart, CopyEnd) /\ CopyStart \in Int
        BY <3>1, CallDataRange
      <4>2. opcode = CALLDATACOPY
        BY <1>4 DEF CallDataCopy, Executes
      <4>3. CopyStart >= 0
        BY <3>1, <4>1, <4>2 DEF CopiesHeader
      <4>4. ~Touches(copy, -IntBytes, IntBytes)
        <5> HIDE DEF copy
        <5> QED BY <4>1, <4>3, ConstFacts DEF Touches, IsCopy
      <4> QED BY <1>4, <4>4 DEF CallDataCopy, Popped
    <3>2. CASE ~(CopyEnd <= MEMORY_SPACE)
      <4>1. CopyEnd > MEMORY_SPACE
        <5>1. Low(1) \in Nat /\ Low(3) \in Nat
          BY ArgType
        <5>2. CopyEnd \in Nat
          BY <5>1, ConstFacts DEF CopyEnd
        <5> QED BY <3>2, <5>2, ConstFacts
      <4> QED BY <1>4, <4>1 DEF CallDataCopy
    <3> QED BY <3>1, <3>2
  <2> QED BY <2>1, <2>2, TailShape
<1> QED BY <1>1, <1>2, <1>3, <1>4

\* STORAGE[0], the word above a full stack, is live no longer when SSTORE has
\* popped its operands.
LEMMA SStoreShape == ASSUME LoopOK, DataOK, SP <= STACK_SPACE, SStore PROVE StackShape
<1>1. 2 \in 0..3 /\ Popped(2)
  BY DEF SStore
<1>2. SP \in Int /\ SP <= STACK_SPACE /\ STACK_SPACE \in Nat /\ STORAGE_SPACE \in Nat
  BY ConstFacts DEF LoopOK, SPOK
<1>3. Low(1) \in Nat
  BY ArgType
<1>4. UNCHANGED words \/ words' = [words EXCEPT ![StorageSlot(Low(1))] = Arg(2)]
  BY DEF SStore, sstore_key
<1> DEFINE k == Low(1)
<1> HIDE DEF k
<1>5. \A i \in 1..(SP - 2) : i \in Slots /\ i # StorageSlot(k)
  BY <1>2, <1>3 DEF Slots, StorageSlot, k
<1>6. \A i \in 1..(SP - 2) : words'[i] = words[i]
  BY <1>4, <1>5 DEF DataOK, k
<1>7. Taken(2)
  BY <1>1, <1>6 DEF Taken, Popped
<1> QED BY <1>7 DEF StackShape

LEMMA StepShape ==
  ASSUME Inv, Step, SP <= STACK_SPACE, ~Overruns(SlotAt(1)), ~CopiesHeader
  PROVE  StackShape
<1>1. LoopOK /\ DataOK
  BY InvSplits
<1> QED
  BY <1>1, ResultActionsShape, StackActionsShape, SwapShape, LoadShape,
     LeaveShape, MemoryShape, SStoreShape DEF Step

\* What a step does to the live words.
Disciplined == Operand!Next \/ Overruns(SlotAt(1)) \/ CopiesHeader \/ SP > STACK_SPACE

LEMMA StepDisciplined == Inv /\ Step => Disciplined
<1> SUFFICES ASSUME Inv, Step, ~(Overruns(SlotAt(1)) \/ CopiesHeader \/ SP > STACK_SPACE)
             PROVE  Operand!Next
  BY DEF Disciplined
<1>1. LoopOK /\ DataOK /\ LoopOK' /\ DataOK'
  BY StepSafe, InvSplits, InvSplitsPrime DEF Safe
<1>2. SP <= STACK_SPACE
  BY <1>1, ConstFacts DEF LoopOK, SPOK
<1>3. StackShape
  BY <1>2, StepShape
<1> QED
  BY <1>1, <1>2, <1>3, ShapeOfStack

\* Whatever an instruction computes, it treats STACK as a stack of at most
\* STACK_SPACE words: the machine implements StackSpec, the live words being
\* STACK[1] to STACK[SP].  Neither the overrun of MEM into STACK[0], nor the
\* word shared with STORAGE, nor pops and pushes below the empty stack reach
\* another live word.  The exceptions are a CODECOPY that runs beyond STACK[0]
\* and a CALLDATACOPY over SP.
THEOREM StackIsDisciplined == Spec => StackDiscipline
<1>1. Init => Operand!Init
  BY ConstFacts DEF Init, Operand!Init, liveStack
<1>2. Inv /\ [Next]_vars => [Disciplined]_liveStack
  <2>1. CASE Inv /\ Step
    BY <2>1, StepDisciplined
  <2>2. CASE UNCHANGED vars
    BY <2>2 DEF vars, liveStack
  <2> QED BY <2>1, <2>2 DEF Next, Terminated
<1> QED
  BY Invariance, <1>1, <1>2, PTL DEF Spec, StackDiscipline, Disciplined
-----------------------------------------------------------------------------
(* The two executions of the deployment application, for constructors and  *)
(* machines of every size: the invariants of the machine hold across both, *)
(* the second one executes what has been deployed, and nothing when        *)
(* nothing has been.                                                       *)
(*                                                                         *)
(* The invariant of the machine survives init_machine; that nothing is     *)
(* executed needs to know that deployed_contract is still all zeros        *)
(* (Blank) and that FetchGuarded keeps PC off every STOP but a leading one.*)

\* The RETURN that ended the constructor.
ByReturn == status = "return" /\ opcode = RETURN

\* As long as no RETURN has left the first execution the array is that of C's
\* static initialisation.
Blank ==
    phase \in {"first", "printed"} /\ ~ByReturn => DeployLength = 0 /\ NothingWritten

\* The second execution runs over zeros: it stands on the first of them.
AtFirstZero == phase = "second" /\ status = "run" /\ NothingWritten => PC = 0 /\ SP = 0

AppInv == Inv /\ Blank /\ ExecutesDeployed /\ AtFirstZero

\* An instruction leaves bytecode and deployed contract alone, or leaves the
\* loop.
LEMMA StepDeploys ==
  ASSUME Step
  PROVE  /\ status = "run" /\ code' = code
         /\ Return \/ UNCHANGED deployVars
<1> USE DEF Executes, Continue, Leave, Stuck, OnlyStack, OnlyMemory, deployVars
<1>1. CASE \/ Arithmetic \/ Divide \/ DivideUnchecked \/ ModularArithmetic
           \/ Exponent \/ Compare \/ BitLogic \/ Shift \/ PushMessage \/ Timestamp
  BY <1>1 DEF Arithmetic, Divide, DivideUnchecked, ModularArithmetic, Exponent, Compare,
              BitLogic, Shift, PushMessage, Timestamp, Result
<1>2. CASE Stop \/ Push \/ Pop \/ Dup \/ Swap \/ Jump \/ NoOp
  BY <1>2 DEF Stop, Push, Pop, Dup, Swap, Jump, NoOp, Result
<1>3. CASE MLoad \/ SLoad \/ CallDataLoad \/ Sha3 \/ Revert
  BY <1>3 DEF MLoad, SLoad, CallDataLoad, Sha3, Revert, Result
<1>4. CASE Unsupported \/ StackUnderrun
  BY <1>4 DEF Unsupported, StackUnderrun
<1>5. CASE MStore \/ MStore8 \/ CallDataCopy \/ CodeCopy \/ SStore
  BY <1>5 DEF MStore, MStore8, CallDataCopy, CodeCopy, SStore
<1>6. CASE Return
  BY <1>6 DEF Return
<1> QED BY <1>1, <1>2, <1>3, <1>4, <1>5, <1>6 DEF Step

\* RETURN leaves the loop, and is then the last instruction, or nothing changes.
LEMMA ReturnLeaves ==
  ASSUME Return
  PROVE  /\ status' # "run"
         /\ UNCHANGED deployVars \/ ByReturn'
<1>1. CASE Stuck("fault")
  BY <1>1 DEF Stuck, deployVars
<1>2. CASE Leave("return")
  BY <1>2 DEF Leave, Return, Executes, ByReturn, opcode
<1> QED BY <1>1, <1>2 DEF Return

\* Of the instructions only STOP is the byte 0, and it ends in front of the
\* next one if that is 0, too.
LEMMA ZeroIsStop ==
  ASSUME Step, opcode = 0, SP = 0
  PROVE  Stop
<1>1. Pops(opcode) = 0
  BY DEF Pops, Pop1, Pop2, Pop3, ADD, MUL, SUB, DIV, SDIV, MOD, SMOD, EXP, LT, GT, SLT, SGT,
         EQ, AND, OR, XOR, BYTE, SHL, SHR, SAR, SHA3, MSTORE, MSTORE8, SSTORE, JUMPI, RETURN,
         REVERT, ISZERO, NOT, CALLDATALOAD, POP, MLOAD, SLOAD, JUMP, CALLDATACOPY, CODECOPY,
         ADDMOD, MULMOD
<1>2. ~StackUnderrun /\ ~Unsupported
  <2>1. 0 \in Implemented
    BY DEF Implemented
  <2>2. opcode \notin DupOps
    BY DEF DupOps, DUP1
  <2>3. Reads = {}
    BY <1>1, <2>2 DEF Reads
  <2> QED BY <2>1, <2>3 DEF StackUnderrun, Unsupported
<1>3. ~(\/ Arithmetic \/ Divide \/ DivideUnchecked \/ ModularArithmetic \/ Exponent)
  BY DEF Arithmetic, Divide, DivideUnchecked, ModularArithmetic, Exponent, Executes,
         ADD, MUL, SUB, DIV, SDIV, MOD, SMOD, ADDMOD, MULMOD, EXP
<1>4. ~(Compare \/ BitLogic \/ Shift)
  BY DEF Compare, BitLogic, Shift, Executes, LT, GT, SLT, SGT, EQ, ISZERO, AND, OR, XOR, NOT,
         BYTE, SHL, SHR, SAR
<1>5. ~(PushMessage \/ Timestamp \/ Push \/ Pop \/ Dup \/ Swap \/ Jump \/ NoOp)
  BY DEF PushMessage, Timestamp, Push, Pop, Dup, Swap, Jump, NoOp, Executes, PushOps, DupOps,
         SwapOps, ADDRESS,
         CALLER, CALLVALUE, CALLDATASIZE, CODESIZE, BLOCKHASH, TIMESTAMP, PUSH1, POP, DUP1,
         SWAP1, JUMP, JUMPI, SENSOR, TEMPERATURE, LED, SIGNEXTEND, BALANCE, JUMPDEST, INVALID,
         LOG0
<1>6. ~(\/ MLoad \/ SLoad \/ CallDataLoad \/ Sha3 \/ Revert \/ MStore \/ MStore8
        \/ CallDataCopy \/ CodeCopy \/ SStore \/ Return)
  BY DEF MLoad, SLoad, CallDataLoad, Sha3, Revert, MStore, MStore8, CallDataCopy, CodeCopy,
         SStore, Return, Executes, MLOAD, SLOAD, CALLDATALOAD, SHA3, REVERT, MSTORE, MSTORE8,
         CALLDATACOPY, CODECOPY, SSTORE, RETURN
<1> QED BY <1>2, <1>3, <1>4, <1>5, <1>6 DEF Step

\* The bytecode of the second execution, if nothing has been deployed.
LEMMA ZeroCode ==
  ASSUME AppInv, phase = "second", status = "run", NothingWritten
  PROVE  /\ DEPLOY_LENGTH \in Nat /\ Len(code) = DEPLOY_LENGTH
         /\ \A i \in 1..DEPLOY_LENGTH : code[i] = 0
<1>1. \A i \in 1..DEPLOY_LENGTH : i - 1 \in 0..(DEPLOY_LENGTH - 1)
  BY ConstFacts
<1> QED BY <1>1, ConstFacts DEF AppInv, NothingWritten, ExecutesDeployed

\* A step of it ends it, and changes nothing but the gas and the loop's state.
LEMMA ZeroStep ==
  ASSUME AppInv, phase = "second", status = "run", NothingWritten, Step
  PROVE  status' # "run" /\ UNCHANGED << MEM, words, message, deployVars >>
<1>1. PC = 0 /\ SP = 0
  BY DEF AppInv, AtFirstZero
<1>2. /\ DEPLOY_LENGTH \in Nat /\ Len(code) = DEPLOY_LENGTH
      /\ \A i \in 1..DEPLOY_LENGTH : code[i] = 0
  BY ZeroCode
<1>3. PC < Len(code) - 1
  BY DEF AppInv, Inv, FetchGuarded
<1>4. opcode = 0
  BY <1>1, <1>2, <1>3 DEF opcode
<1>5. Stop
  BY <1>1, <1>4, ZeroIsStop
<1>6. PC' = 1 /\ status' = LoopStatus(1, 0)
  <2>1. 1 % U32 = 1
    BY ConstFacts
  <2> QED BY <1>5, <2>1 DEF Stop, Continue
<1>7. status' # "run"
  <2>1. 1 + 1 \in 1..DEPLOY_LENGTH
    BY <1>1, <1>2, <1>3
  <2>2. code[1 + 1] = STOP
    BY <1>2, <2>1 DEF STOP
  <2> QED BY <1>6, <2>2 DEF LoopStatus
<1> QED BY <1>5, <1>7 DEF Stop, OnlyStack, memVars

-----------------------------------------------------------------------------
(* The invariant.                                                          *)

LEMMA AppInitInv == AppInit => AppInv
<1> SUFFICES ASSUME AppInit PROVE AppInv
  OBVIOUS
<1>1. Inv
  BY InitInv DEF AppInit
<1>2. Blank /\ ExecutesDeployed /\ AtFirstZero
  BY DEF AppInit, Init, Blank, NothingWritten, ExecutesDeployed, AtFirstZero
<1> QED BY <1>1, <1>2 DEF AppInv

LEMMA ExecuteKeeps ==
  ASSUME AppInv, Execute
  PROVE  AppInv'
<1>1. Step /\ phase' = phase
  BY DEF Execute
<1>2. Inv'
  BY <1>1, StepSafe DEF AppInv, Safe
<1>3. status = "run" /\ code' = code /\ (Return \/ UNCHANGED deployVars)
  BY <1>1, StepDeploys
<1>4. CASE Return
  <2>1. status' # "run" /\ (UNCHANGED deployVars \/ ByReturn')
    BY <1>4, ReturnLeaves
  <2>2. ExecutesDeployed' /\ AtFirstZero'
    BY <2>1 DEF ExecutesDeployed, AtFirstZero
  <2>3. Blank'
    BY <1>1, <1>3, <2>1 DEF AppInv, Blank, ByReturn, NothingWritten, deployVars
  <2> QED BY <1>2, <2>2, <2>3 DEF AppInv
<1>5. CASE UNCHANGED deployVars
  <2>1. Blank' /\ ExecutesDeployed'
    BY <1>1, <1>3, <1>5
       DEF AppInv, Blank, ByReturn, NothingWritten, ExecutesDeployed, deployVars
  <2>2. AtFirstZero'
    <3>1. NothingWritten' => NothingWritten
      BY <1>5 DEF NothingWritten, deployVars
    <3> QED BY <1>1, <1>3, <3>1, ZeroStep DEF AtFirstZero
  <2> QED BY <1>2, <2>1, <2>2 DEF AppInv
<1> QED BY <1>3, <1>4, <1>5

LEMMA RunDeployedKeeps ==
  ASSUME AppInv, RunDeployed
  PROVE  AppInv'
<1> DEFINE c == [i \in 1..DEPLOY_LENGTH |-> deployed_contract[i - 1]]
<1>1. LoopOK /\ DataOK /\ DEPLOY_LENGTH \in Nat
  BY InvSplits, ConstFacts DEF AppInv
<1>2. \A i \in 1..DEPLOY_LENGTH : deployed_contract[i - 1] \in byte
  BY <1>1, ConstFacts DEF DataOK
<1>3. c \in Seq(byte) /\ Len(c) = DEPLOY_LENGTH
      /\ \A i \in 1..DEPLOY_LENGTH : c[i] = deployed_contract[i - 1]
  BY <1>1, <1>2
<1>4. /\ PC' = 0 /\ SP' = 0 /\ GAS_Charge' = 0 /\ code' = c
      /\ status' = IF DEPLOY_LENGTH > 1 THEN "run" ELSE "halt"
      /\ phase = "printed" /\ phase' = "second"
      /\ UNCHANGED << MEM, words, message, max_sp, max_mem_offset,
                      max_storage_counter, deployed_contract, DeployLength, stray >>
  BY DEF RunDeployed, deployVars
<1> HIDE DEF c
<1>5. DataOK'
  BY <1>1, <1>4 DEF DataOK
<1>6. LoopOK'
  <2>1. PC' \in 0..(U32 - 1) /\ GAS_Charge' \in 0..(U32 - 1) /\ SPOK(SP)'
    BY <1>4, ConstFacts DEF SPOK
  <2>2. max_sp' \in Int /\ SP' <= max_sp' /\ 0 <= max_sp'
    BY <1>1, <1>4, ConstFacts DEF LoopOK
  <2>3. status' \in Statuses /\ stray' \in StrayBytes
    BY <1>1, <1>4 DEF Statuses, LoopOK
  <2>4. FetchGuarded'
    BY <1>1, <1>3, <1>4, ConstFacts DEF FetchGuarded
  <2> QED BY <1>3, <1>4, <2>1, <2>2, <2>3, <2>4 DEF LoopOK
<1>7. ExecutesDeployed' /\ AtFirstZero' /\ Blank'
  BY <1>3, <1>4 DEF AppInv, ExecutesDeployed, AtFirstZero, Blank
<1> QED BY <1>5, <1>6, <1>7, InvSplitsPrime DEF AppInv

LEMMA SameMachine ==
  ASSUME AppInv, UNCHANGED vars,
         phase' = phase \/ (status # "run" /\ phase = "first" /\ phase' = "printed")
           \/ (status # "run" /\ phase' = "done")
  PROVE  AppInv'
<1>1. Inv'
  BY DEF AppInv, Inv, TypeOK, StackBounded, NoHeaderCopy, FetchGuarded, vars
<1>2. Blank' /\ ExecutesDeployed' /\ AtFirstZero'
  BY DEF AppInv, Blank, ByReturn, opcode, NothingWritten, ExecutesDeployed, AtFirstZero, vars
<1> QED BY <1>1, <1>2 DEF AppInv

LEMMA AppNextInv ==
  ASSUME AppInv, [AppNext]_appVars
  PROVE  AppInv'
<1>1. CASE Execute
  BY <1>1, ExecuteKeeps
<1>2. CASE RunDeployed
  BY <1>2, RunDeployedKeeps
<1>3. CASE PrintDeployed \/ End
  BY <1>3, SameMachine DEF PrintDeployed, End, Left
<1>4. CASE UNCHANGED appVars
  BY <1>4, SameMachine DEF appVars, vars
<1> QED BY <1>1, <1>2, <1>3, <1>4 DEF AppNext, AppStopped

LEMMA AppInvariance == AppSpec => []AppInv
<1>1. AppInv /\ [AppNext]_appVars => AppInv'
  BY AppNextInv
<1> QED BY <1>1, AppInitInv, PTL DEF AppSpec

\* init_machine resets three fields only; still everything keeps its type in
\* the second execution, too.
THEOREM AppTypeCorrect == AppSpec => []TypeOK
<1>1. AppInv => TypeOK
  BY DEF AppInv, Inv
<1> QED BY <1>1, AppInvariance, PTL

\* Also the pushes of the second execution keep the stack pointer in its bound
\* and below the stack usage that the first one left behind.
THEOREM AppStackBounded == AppSpec => []StackBounded
<1>1. AppInv => StackBounded
  BY DEF AppInv, Inv
<1> QED BY <1>1, AppInvariance, PTL

\* execute_contract and RETURN share the array deployed_contract in the second
\* execution; the bytecode does not change under the loop.
THEOREM SecondRunsDeployed == AppSpec => []ExecutesDeployed
<1>1. AppInv => ExecutesDeployed
  BY DEF AppInv
<1> QED BY <1>1, AppInvariance, PTL

\* A constructor that did not end with a RETURN deploys nothing, and the second
\* execution ends at once and leaves memory, storage and message alone.
THEOREM NothingRunsUndeployed == AppSpec => NothingDeployed
<1> DEFINE Nothing == phase = "printed" /\ (status = "return" => opcode # RETURN) =>
                        NothingWritten
           Quiet == phase = "second" /\ NothingWritten =>
                      /\ status = "run" => PC = 0 /\ SP = 0
                      /\ UNCHANGED << MEM, words, message, deployVars >>
<1>1. ASSUME AppInv, [AppNext]_appVars, phase = "second", NothingWritten
      PROVE  /\ status = "run" => PC = 0 /\ SP = 0
             /\ UNCHANGED << MEM, words, message, deployVars >>
  <2>1. status = "run" => PC = 0 /\ SP = 0
    BY <1>1 DEF AppInv, AtFirstZero
  <2>2. CASE Execute
    <3>1. Step /\ status = "run"
      BY <2>2, StepDeploys DEF Execute
    <3> QED BY <1>1, <2>1, <3>1, ZeroStep
  <2>3. CASE ~Execute
    BY <1>1, <2>1, <2>3 DEF AppNext, PrintDeployed, RunDeployed, End, AppStopped, appVars, vars,
                            deployVars
  <2> QED BY <2>2, <2>3
<1>2. AppInv /\ [AppNext]_appVars => [Quiet]_appVars
  BY <1>1
<1>3. AppInv => Nothing
  BY DEF AppInv, Blank, ByReturn
<1> QED BY <1>2, <1>3, AppInvariance, PTL DEF AppSpec, NothingDeployed

-----------------------------------------------------------------------------
(* What a constructor returns.                                             *)

\* The deployed contract is what the RETURN that ended the constructor found
\* in the machine, as long as its operands are still above the top of the stack.
KeptByte(i) ==
    IF i >= ReturnedLength % U32 THEN deployed_contract[i] = 0
    ELSE Place(ReturnedOffset + i) >= -Header /\ Place(ReturnedOffset + i) < MemEnd =>
           deployed_contract[i] = ReturnedByte(i)
OperandsKept == SP + 1 >= LowestSlot /\ SP + 2 < STACK_SPACE + STORAGE_SPACE
ReturnKept ==
    phase \in {"first", "printed"} /\ ByReturn /\ OperandsKept
    => /\ DeployLength = (ReturnedOffset + ReturnedLength) % Base
       /\ \A i \in 0..(DEPLOY_LENGTH - 1) : KeptByte(i)

\* The listing is that of the deployed contract.
Listed ==
    phase = "printed" =>
      /\ Len(printed) = DeployLength
      /\ \A i \in 1..DeployLength : i <= DEPLOY_LENGTH => printed[i] = deployed_contract[i - 1]

\* Only RETURN and REVERT leave the loop in this way, and they leave PC alone.
LEMMA WhoReturns ==
  ASSUME Step, status' = "return"
  PROVE  Return \/ (opcode = REVERT /\ UNCHANGED << code, PC >>)
<1> USE DEF Continue, Leave, Stuck, LoopStatus
<1>1. CASE \/ Arithmetic \/ Divide \/ DivideUnchecked \/ ModularArithmetic
           \/ Exponent \/ Compare \/ BitLogic \/ Shift \/ PushMessage \/ Timestamp
  BY <1>1 DEF Arithmetic, Divide, DivideUnchecked, ModularArithmetic, Exponent, Compare,
              BitLogic, Shift, PushMessage, Timestamp, Result
<1>2. CASE Stop \/ Push \/ Pop \/ Dup \/ Swap \/ Jump \/ NoOp
  BY <1>2 DEF Stop, Push, Pop, Dup, Swap, Jump, NoOp, Result
<1>3. CASE MLoad \/ SLoad \/ CallDataLoad \/ Sha3
  BY <1>3 DEF MLoad, SLoad, CallDataLoad, Sha3, Result
<1>4. CASE Unsupported \/ StackUnderrun
  BY <1>4 DEF Unsupported, StackUnderrun
<1>5. CASE MStore \/ MStore8 \/ CallDataCopy \/ CodeCopy \/ SStore
  BY <1>5 DEF MStore, MStore8, CallDataCopy, CodeCopy, SStore
<1>6. CASE Revert
  BY <1>6 DEF Revert, Executes
<1> QED BY <1>1, <1>2, <1>3, <1>4, <1>5, <1>6 DEF Step

\* The bytes of PC, SP and MEM, and the words of the stack that lie in MEM, STACK
\* or STORAGE: what does not depend on anything outside them.
FrontByte(sp, pc, mem, at) ==
    IF at < -IntBytes THEN IntByte(pc, at + Header)
    ELSE IF at < 0 THEN IntByte(sp % U32, at + IntBytes) ELSE mem[at]
InnerSlot(w, mem, i) ==
    IF i \in Slots THEN w[i] ELSE WordOf([j \in Octets |-> mem[SlotAt(i) + j]])

LEMMA FrontBytes ==
  ASSUME NEW sp \in Int, NEW at \in (-Header)..(MemEnd - 1)
  PROVE  MachineByte(sp, at) = FrontByte(sp, PC, MEM, at)
<1>1. at \in Int /\ IntBytes \in Nat /\ Header \in Nat /\ MemEnd \in Nat /\ IntBytes <= Header
  BY ConstFacts
<1>2. /\ at \notin MemEnd..(GasAt - 1)
      /\ at \notin GasAt..(GasAt + IntBytes - 1)
      /\ at \notin MessageAt..(DataAt - 1)
      /\ at \notin DataAt..(DataAt + MESSAGEDATASIZE - 1)
      /\ at \notin SizesAt..(SizesAt + IntBytes - 1)
      /\ at \notin (SizesAt + IntBytes)..(SizesAt + Header - 1)
  BY <1>1, Layout, ConstFacts
<1>3. CASE at < -IntBytes
  <2>1. /\ at \in (-Header)..(-IntBytes - 1)
        /\ at \notin (-IntBytes)..(-1) /\ at \notin 0..(MemEnd - 1)
    BY <1>1, <1>3
  <2> QED BY <1>2, <1>3, <2>1 DEF MachineByte, FrontByte
<1>4. CASE at >= -IntBytes /\ at < 0
  <2>1. /\ at \in (-IntBytes)..(-1) /\ ~(at < -IntBytes)
        /\ at \notin (-Header)..(-IntBytes - 1) /\ at \notin 0..(MemEnd - 1)
    BY <1>1, <1>4
  <2> QED BY <1>2, <1>4, <2>1 DEF MachineByte, FrontByte
<1>5. CASE at >= 0
  <2>1. /\ at \in 0..(MemEnd - 1) /\ at \notin (-Header)..(-IntBytes - 1)
        /\ at \notin (-IntBytes)..(-1) /\ ~(at < -IntBytes) /\ ~(at < 0)
    BY <1>1, <1>5
  <2> QED BY <1>2, <2>1 DEF MachineByte, FrontByte
<1> QED BY <1>1, <1>3, <1>4, <1>5

LEMMA InnerSlots ==
  ASSUME NEW i \in LowestSlot..(STACK_SPACE + STORAGE_SPACE - 1)
  PROVE  Slot(i) = InnerSlot(words, MEM, i)
<1>1. CASE i \in Slots
  BY <1>1 DEF Slot, InnerSlot
<1>2. CASE i \notin Slots
  <2>1. i \in LowestSlot..(-1) /\ i \in Int
    BY <1>2, LowSlots, ConstFacts DEF Slots
  <2>2. 0 <= SlotAt(i) /\ SlotAt(i) + WordBytes <= MemEnd /\ SlotAt(i) \in Int
    BY <2>1, LowSlots, SlotOrder
  <2>3. ASSUME NEW j \in Octets PROVE MachineByte(i, SlotAt(i) + j) = MEM[SlotAt(i) + j]
    <3>1. SlotAt(i) + j \in Int /\ SlotAt(i) + j >= 0 /\ SlotAt(i) + j < MemEnd
      BY <2>2, ConstFacts DEF Octets
    <3>2. SlotAt(i) + j \in (-Header)..(MemEnd - 1) /\ ~(SlotAt(i) + j < -IntBytes)
      BY <3>1, ConstFacts
    <3> QED BY <2>1, <3>1, <3>2, FrontBytes DEF FrontByte
  <2>4. [j \in Octets |-> MachineByte(i, SlotAt(i) + j)] = [j \in Octets |-> MEM[SlotAt(i) + j]]
    BY <2>3
  <2> QED BY <1>2, <2>4 DEF Slot, WordAt, InnerSlot
<1> QED BY <1>1, <1>2

\* What the operands and the bytes of a RETURN are, seen after it.
Inner(k) == LOWER(LOWER(InnerSlot(words, MEM, SP + k)))
LEMMA OperandsSeen ==
  LoopOK /\ DataOK => /\ ReturnedOffset \in Nat /\ ReturnedLength \in Nat
                      /\ OperandsKept => OffsetOperand = Inner(2) /\ LengthOperand = Inner(1)
<1> SUFFICES ASSUME LoopOK, DataOK
             PROVE  /\ ReturnedOffset \in Nat /\ ReturnedLength \in Nat
                    /\ OperandsKept => OffsetOperand = Inner(2) /\ LengthOperand = Inner(1)
  OBVIOUS
<1>1. SP \in Int /\ SP + 1 \in Int /\ SP + 2 \in Int
  BY DEF LoopOK, SPOK
<1>2. Slot(SP + 1) \in uint256 /\ Slot(SP + 2) \in uint256
  BY <1>1, SlotType
<1>3. OffsetOperand \in Nat /\ LengthOperand \in Nat
  BY <1>2, ConstFacts DEF OffsetOperand, LengthOperand, uint256, uint128, uint64, LOWER
<1>4. ReturnedOffset \in Nat /\ ReturnedLength \in Nat
  BY <1>3, ConstFacts DEF ReturnedOffset, ReturnedLength
<1>5. ASSUME OperandsKept PROVE OffsetOperand = Inner(2) /\ LengthOperand = Inner(1)
  <2>1. /\ SP + 1 \in LowestSlot..(STACK_SPACE + STORAGE_SPACE - 1)
        /\ SP + 2 \in LowestSlot..(STACK_SPACE + STORAGE_SPACE - 1)
    BY <1>1, <1>5, LowSlots, ConstFacts DEF OperandsKept
  <2> QED BY <2>1, InnerSlots DEF OffsetOperand, LengthOperand, Inner
<1> QED BY <1>4, <1>5

LEMMA OperandsSeenPrime ==
  (LoopOK /\ DataOK => /\ ReturnedOffset \in Nat /\ ReturnedLength \in Nat
                       /\ OperandsKept => OffsetOperand = Inner(2) /\ LengthOperand = Inner(1))'
BY OperandsSeen, PTL

LEMMA BytesSeen ==
  LoopOK /\ DataOK =>
    \A i \in 0..(DEPLOY_LENGTH - 1) :
      Place(ReturnedOffset + i) >= -Header /\ Place(ReturnedOffset + i) < MemEnd =>
        ReturnedByte(i) = FrontByte(SP, PC, MEM, Place(ReturnedOffset + i))
<1> SUFFICES ASSUME LoopOK, DataOK, NEW i \in 0..(DEPLOY_LENGTH - 1),
                    Place(ReturnedOffset + i) >= -Header, Place(ReturnedOffset + i) < MemEnd
             PROVE  ReturnedByte(i) = FrontByte(SP, PC, MEM, Place(ReturnedOffset + i))
  OBVIOUS
<1>1. ReturnedOffset \in Nat /\ SP \in Int
  BY OperandsSeen DEF LoopOK, SPOK
<1>2. Place(ReturnedOffset + i) \in Int
  BY <1>1, ConstFacts DEF Place
<1>3. Place(ReturnedOffset + i) \in (-Header)..(MemEnd - 1)
  BY <1>2, ConstFacts
<1> QED BY <1>1, <1>3, FrontBytes DEF ReturnedByte

LEMMA BytesSeenPrime ==
  (LoopOK /\ DataOK =>
     \A i \in 0..(DEPLOY_LENGTH - 1) :
       Place(ReturnedOffset + i) >= -Header /\ Place(ReturnedOffset + i) < MemEnd =>
         ReturnedByte(i) = FrontByte(SP, PC, MEM, Place(ReturnedOffset + i)))'
BY BytesSeen, PTL

LEMMA ReturnCopies ==
  ASSUME AppInv, Inv', phase = "first", Return, status' = "return", OperandsKept'
  PROVE  /\ DeployLength' = (ReturnedOffset' + ReturnedLength') % Base
         /\ \A i \in 0..(DEPLOY_LENGTH - 1) : KeptByte(i)'
<1>1. LoopOK /\ DataOK /\ LoopOK' /\ DataOK'
  BY InvSplits, InvSplitsPrime DEF AppInv
<1>2. status = "run" /\ SP \in Int /\ DOMAIN deployed_contract = 0..(DEPLOY_LENGTH - 1)
  BY <1>1 DEF Return, Executes, LoopOK, SPOK, DataOK
<1>3. /\ SP' = SP - 2 /\ words' = words /\ MEM' = MEM /\ PC' = PC
      /\ DeployLength' = (ReturnOffset + ReturnLength) % Base
      /\ deployed_contract' = NewDeployed(ReturnOffset)
  BY DEF Return, Stuck, Popped, Leave, memVars
<1>4. OffsetOperand' = Low(1) /\ LengthOperand' = Low(2)
  <2>1. SP' + 1 >= LowestSlot /\ SP' + 2 < STACK_SPACE + STORAGE_SPACE
    BY DEF OperandsKept
  <2>2. /\ SP \in LowestSlot..(STACK_SPACE + STORAGE_SPACE - 1)
        /\ SP - 1 \in LowestSlot..(STACK_SPACE + STORAGE_SPACE - 1)
    BY <1>2, <1>3, <2>1, LowSlots, ConstFacts
  <2>3. SP - (1 - 1) = SP /\ SP - (2 - 1) = SP - 1 /\ SP - 2 + 2 = SP /\ SP - 2 + 1 = SP - 1
    BY <1>2
  <2>4. /\ Low(1) = LOWER(LOWER(InnerSlot(words, MEM, SP)))
        /\ Low(2) = LOWER(LOWER(InnerSlot(words, MEM, SP - 1)))
    BY <2>2, <2>3, InnerSlots DEF Low, Arg
  <2>5. OffsetOperand' = Inner(2)' /\ LengthOperand' = Inner(1)'
    BY <1>1, OperandsSeenPrime
  <2> QED BY <1>3, <2>3, <2>4, <2>5 DEF Inner
<1>5. ReturnedOffset' = ReturnOffset /\ ReturnedLength' = ReturnLength
  <2>1. (Low(1) + Low(2)) % Base \in Nat /\ MEMORY_SPACE \in Nat
    BY <1>1, ArgType, ConstFacts
  <2>2. InsideMemory' <=> ~ReturnOutside
    BY <1>4, <2>1 DEF InsideMemory, ReturnOutside
  <2> QED BY <1>4, <2>2 DEF ReturnOffset, ReturnLength, ReturnedOffset, ReturnedLength
<1>6. ReturnOffset \in Nat /\ ReturnLength \in Nat /\ ReturnLength % U32 \in Nat
  BY <1>1, ReturnRange, ConstFacts
<1>7. ASSUME NEW i \in 0..(DEPLOY_LENGTH - 1) PROVE KeptByte(i)'
  <2>1. deployed_contract[i] = 0
    BY <1>2 DEF AppInv, Blank, ByReturn, NothingWritten
  <2>2. deployed_contract'[i] = IF i < ReturnLength % U32 THEN ReturnByte(ReturnOffset + i) ELSE 0
    BY <1>2, <1>3, <2>1 DEF NewDeployed
  <2>3. CASE i >= ReturnLength % U32
    <3>1. ~(i < ReturnLength % U32) /\ i >= ReturnedLength' % U32
      BY <1>5, <1>6, <2>3, ConstFacts
    <3> QED BY <2>2, <3>1 DEF KeptByte
  <2>4. CASE i < ReturnLength % U32
    <3>1. ~(i >= ReturnedLength' % U32)
      BY <1>5, <1>6, <2>4, ConstFacts
    <3>2. ASSUME Place(ReturnOffset + i) >= -Header, Place(ReturnOffset + i) < MemEnd
          PROVE  ReturnedByte(i)' = ReturnByte(ReturnOffset + i)
      <4>1. Place(ReturnOffset + i) \in Int /\ SP - 2 \in Int
        BY <1>2, <1>6, ConstFacts DEF Place
      <4>2. Place(ReturnOffset + i) \in (-Header)..(MemEnd - 1)
        BY <3>2, <4>1, ConstFacts
      <4>3. ReturnByte(ReturnOffset + i) = FrontByte(SP - 2, PC, MEM, Place(ReturnOffset + i))
        BY <4>1, <4>2, FrontBytes DEF ReturnByte
      <4>4. ReturnedByte(i)' = FrontByte(SP', PC', MEM', Place(ReturnedOffset' + i))
        BY <1>1, <1>5, <3>2, BytesSeenPrime
      <4> QED BY <1>3, <1>5, <4>3, <4>4
    <3> QED BY <1>5, <2>2, <2>4, <3>1, <3>2 DEF KeptByte
  <2> QED BY <1>6, <2>3, <2>4, ConstFacts
<1> QED BY <1>3, <1>5, <1>7

LEMMA ReturnKeptByExecute ==
  ASSUME AppInv, Execute, ReturnKept, Listed
  PROVE  ReturnKept' /\ Listed'
<1>1. Step /\ phase' = phase /\ phase \in {"first", "second"}
  BY DEF Execute
<1>2. Listed'
  BY <1>1 DEF Listed
<1>3. ASSUME phase' \in {"first", "printed"}, ByReturn', OperandsKept'
      PROVE  /\ DeployLength' = (ReturnedOffset' + ReturnedLength') % Base
             /\ \A i \in 0..(DEPLOY_LENGTH - 1) : KeptByte(i)'
  <2>1. Return
    BY <1>1, <1>3, WhoReturns DEF ByReturn, opcode, RETURN, REVERT
  <2>2. Inv'
    BY ExecuteKeeps DEF AppInv
  <2> QED BY <1>1, <1>3, <2>1, <2>2, ReturnCopies DEF ByReturn
<1> QED BY <1>2, <1>3 DEF ReturnKept

LEMMA PrintLists ==
  ASSUME AppInv, PrintDeployed
  PROVE  Listed'
<1>1. DeployLength \in Nat /\ DEPLOY_LENGTH \in Nat
  BY ConstFacts DEF AppInv, Inv, TypeOK
<1>2. printed' = [i \in 1..DeployLength |-> ListedByte(i - 1)]
  BY DEF PrintDeployed
<1>3. Len(printed') = DeployLength
  BY <1>1, <1>2
<1>4. \A i \in 1..DeployLength : i <= DEPLOY_LENGTH => printed'[i] = deployed_contract[i - 1]
  BY <1>1, <1>2 DEF ListedByte
<1>5. DeployLength' = DeployLength /\ deployed_contract' = deployed_contract
  BY DEF PrintDeployed, vars
<1> QED BY <1>3, <1>4, <1>5 DEF Listed

LEMMA SameReturn ==
  ASSUME UNCHANGED vars, phase' = phase \/ (phase = "first" /\ phase' = "printed"), ReturnKept
  PROVE  ReturnKept'
<1> USE DEF vars, Slot, WordAt, MachineByte, MessageWords
<1>1. /\ OperandsKept' = OperandsKept /\ ByReturn' = ByReturn
      /\ OffsetOperand' = OffsetOperand /\ LengthOperand' = LengthOperand
  BY DEF OperandsKept, ByReturn, opcode, OffsetOperand, LengthOperand
<1>2. ReturnedOffset' = ReturnedOffset /\ ReturnedLength' = ReturnedLength
  BY <1>1 DEF ReturnedOffset, ReturnedLength, InsideMemory
<1>3. \A i : ReturnedByte(i)' = ReturnedByte(i)
  BY <1>2 DEF ReturnedByte
<1>4. \A i : KeptByte(i)' <=> KeptByte(i)
  BY <1>2, <1>3 DEF KeptByte
<1> QED BY <1>1, <1>2, <1>4 DEF ReturnKept

LEMMA ReturnKeptNext ==
  ASSUME AppInv, ReturnKept, Listed, [AppNext]_appVars
  PROVE  ReturnKept' /\ Listed'
<1>1. CASE Execute
  BY <1>1, ReturnKeptByExecute
<1>2. CASE RunDeployed
  BY <1>2 DEF RunDeployed, ReturnKept, Listed
<1>3. CASE PrintDeployed
  BY <1>3, PrintLists, SameReturn DEF PrintDeployed
<1>4. CASE End
  BY <1>4 DEF End, ReturnKept, Listed
<1>5. CASE UNCHANGED appVars
  <2>1. Listed'
    BY <1>5 DEF appVars, Listed
  <2>2. UNCHANGED vars /\ phase' = phase
    BY <1>5 DEF appVars, vars
  <2> QED BY <2>1, <2>2, SameReturn
<1> QED BY <1>1, <1>2, <1>3, <1>4, <1>5 DEF AppNext, AppStopped

\* What a constructor returns is what is printed and then executed, followed by
\* nothing but the zeros the array started with; also for a RETURN whose operands
\* pass the test by a sum that wraps, if it comes back.
THEOREM ReturnedIsDeployed == AppSpec => []DeploysReturned
<1>1. AppInit => ReturnKept /\ Listed
  BY DEF AppInit, Init, ReturnKept, ByReturn, Listed
<1>2. AppInv /\ ReturnKept /\ Listed /\ [AppNext]_appVars => ReturnKept' /\ Listed'
  BY ReturnKeptNext
<1>3. AppInv /\ ReturnKept /\ Listed => DeploysReturned
  <2> SUFFICES ASSUME AppInv, ReturnKept, Listed, ConstructorReturned PROVE DeploysReturned
    BY DEF DeploysReturned
  <2>1. /\ DeployLength = (ReturnedOffset + ReturnedLength) % Base
        /\ \A i \in 0..(DEPLOY_LENGTH - 1) : KeptByte(i)
    BY DEF ConstructorReturned, ReturnKept, ByReturn, OperandsKept
  <2>2. /\ Len(printed) = DeployLength
        /\ \A i \in 1..DeployLength : i <= DEPLOY_LENGTH => printed[i] = deployed_contract[i - 1]
    BY DEF ConstructorReturned, Listed
  <2> QED BY <2>1, <2>2 DEF DeploysReturned, KeptByte
<1> QED BY <1>1, <1>2, <1>3, AppInvariance, PTL DEF AppSpec

-----------------------------------------------------------------------------
(* What holds of every step of the machine holds across both executions.   *)

\* A step of the application executes an instruction, starts the second
\* execution or leaves the machine alone.
LEMMA AppSteps ==
  ASSUME [AppNext]_appVars
  PROVE  \/ Step /\ phase' = phase /\ phase \in {"first", "second"}
         \/ RunDeployed
         \/ UNCHANGED vars
BY DEF AppNext, Execute, PrintDeployed, End, AppStopped, appVars, vars

\* init_machine does not clear the storage: what the constructor stored is
\* what the deployed contract finds, and in both executions a word of STORAGE
\* changes only in the ways of StorageStep.
THEOREM AppStorageIsIntact == AppSpec => [][StorageStep]_appVars
<1>1. AppInv /\ [AppNext]_appVars => [StorageStep]_appVars
  <2> SUFFICES ASSUME AppInv, [AppNext]_appVars PROVE StorageStep
    OBVIOUS
  <2>1. CASE Step
    BY <2>1, StepSafe DEF AppInv, Safe
  <2>2. CASE RunDeployed \/ UNCHANGED vars
    BY <2>2, NoWrite DEF RunDeployed, vars
  <2> QED BY <2>1, <2>2, AppSteps
<1> QED BY <1>1, AppInvariance, PTL DEF AppSpec

\* Neither does init_machine clear the memory: the deployed contract finds what
\* the constructor left in it, and in both executions a byte of MEM changes only
\* by a store to a range it lies in or under a push below slot 0.
THEOREM AppMemoryIsIntact == AppSpec => [][MemoryStep]_appVars
<1>1. AppInv /\ [AppNext]_appVars => [MemoryStep]_appVars
  <2> SUFFICES ASSUME AppInv, [AppNext]_appVars PROVE MemoryStep
    OBVIOUS
  <2>1. CASE Step
    BY <2>1, StepSafe DEF AppInv, Safe
  <2>2. CASE RunDeployed \/ UNCHANGED vars
    BY <2>2, NoWrite DEF RunDeployed, vars
  <2> QED BY <2>1, <2>2, AppSteps
<1> QED BY <1>1, AppInvariance, PTL DEF AppSpec

\* The operand stack is a stack through both executions: init_machine clears
\* it, and the words that the constructor left behind are not seen again.
THEOREM AppStackIsDisciplined == AppSpec => StackDiscipline
<1>1. AppInit => Operand!Init
  BY ConstFacts DEF AppInit, Init, Operand!Init, liveStack
<1>2. AppInv /\ [AppNext]_appVars => [Disciplined]_liveStack
  <2> SUFFICES ASSUME AppInv, [AppNext]_appVars PROVE [Disciplined]_liveStack
    OBVIOUS
  <2>1. CASE Step
    BY <2>1, StepDisciplined DEF AppInv
  <2>2. CASE RunDeployed
    <3>1. LoopOK /\ DataOK /\ LoopOK' /\ DataOK'
      BY <2>2, RunDeployedKeeps, InvSplits, InvSplitsPrime DEF AppInv
    <3>2. StackShape
      BY <2>2 DEF RunDeployed, StackShape
    <3>3. SP <= STACK_SPACE \/ SP > STACK_SPACE
      BY <3>1, ConstFacts DEF LoopOK, SPOK
    <3> QED BY <3>1, <3>2, <3>3, ShapeOfStack DEF Disciplined
  <2>3. CASE UNCHANGED vars
    BY <2>3 DEF vars, liveStack
  <2> QED BY <2>1, <2>2, <2>3, AppSteps
<1> QED
  BY AppInvariance, <1>1, <1>2, PTL DEF AppSpec, StackDiscipline, Disciplined
-----------------------------------------------------------------------------
(* Progress: the part of termination that needs no fairness.               *)

\* The bytecodes end in front of the last addresses of a 32-bit PC.
BytecodesFit ==
    /\ DEPLOY_LENGTH + WordBytes <= U32
    /\ \A p \in Programs : Len(p) + WordBytes <= U32
CodeFits == Len(code) + WordBytes <= U32

\* The order of the phases.
Stage == CASE phase = "first" -> 0
           [] phase = "printed" -> 1
           [] phase = "second" -> 2
           [] OTHER -> 3

\* A turn of the loop that is followed by another one: the gas does not fall
\* and is within the limit, except by the leading STOP, which is not met again,
\* and by a contract that sets its own gas counter; and PC moves on, except by
\* a jump or a copy over it.
AnotherTurn ==
    /\ status = "run" /\ status' = "run" /\ code' = code
    /\ \/ GAS_Charge' \in GAS_Charge..GAS_LIMIT
       \/ opcode = STOP /\ PC = 0
       \/ SetsOwnGas
    /\ opcode' # STOP
    /\ PC < PC' \/ opcode \in SetsPC

ProcessStep ==
    \/ Stage' = Stage + 1
    \/ phase' = phase /\ status = "run" /\ status' # "run"
    \/ phase' = phase /\ AnotherTurn

\* Where an instruction that does not leave the loop continues.
LEMMA Continues ==
  ASSUME Step, status' = "run"
  PROVE  \/ Continue(PC)
         \/ opcode = STOP /\ Continue(0)
         \/ opcode \in PushOps /\ Continue(PC + (opcode - PUSH1 + 1))
         \/ opcode \in SetsPC /\ \E pc : Continue(pc)
<1> USE DEF Executes, Leave, Stuck, SetsPC
<1>1. CASE \/ Arithmetic \/ Divide \/ DivideUnchecked \/ ModularArithmetic
           \/ Exponent \/ Compare \/ BitLogic \/ Shift \/ PushMessage \/ Timestamp
  BY <1>1 DEF Arithmetic, Divide, DivideUnchecked, ModularArithmetic, Exponent, Compare,
              BitLogic, Shift, PushMessage, Timestamp, Result
<1>2. CASE Stop \/ Push \/ Pop \/ Dup \/ Swap \/ Jump \/ NoOp
  BY <1>2 DEF Stop, Push, Pop, Dup, Swap, Jump, NoOp, Result
<1>3. CASE MLoad \/ SLoad \/ CallDataLoad \/ Sha3 \/ Revert
  BY <1>3 DEF MLoad, SLoad, CallDataLoad, Sha3, Revert, Result
<1>4. CASE Unsupported \/ StackUnderrun
  BY <1>4 DEF Unsupported, StackUnderrun
<1>5. CASE MStore \/ MStore8 \/ CallDataCopy \/ CodeCopy \/ SStore \/ Return
  BY <1>5 DEF MStore, MStore8, CallDataCopy, CodeCopy, SStore, Return
<1> QED BY <1>1, <1>2, <1>3, <1>4, <1>5 DEF Step

LEMMA Grows ==
  ASSUME NEW g \in Nat, NEW h \in Nat, NEW most \in Nat, h - g \in 0..most
  PROVE  g <= h
OBVIOUS

LEMMA TurnAdvances ==
  ASSUME Inv, CodeFits, Step, status' = "run"
  PROVE  AnotherTurn
<1>1. LoopOK /\ LoopOK' /\ GasStep
  BY InvSplits, InvSplitsPrime, StepSafe DEF Safe
<1>2. status = "run" /\ code' = code
  BY StepDeploys
<1>3. /\ PC \in Nat /\ PC' \in Nat /\ PC < Len(code) - 1 /\ Len(code) \in Nat
      /\ GAS_Charge \in Nat /\ GAS_Charge' \in Nat /\ GAS_Charge' <= GAS_LIMIT
      /\ U32 \in Nat /\ WordBytes \in Nat \ {0} /\ Len(code) + WordBytes <= U32
  BY <1>1, <1>2, ConstFacts DEF LoopOK, FetchGuarded, CodeFits
<1>4. PICK pc : Continue(pc)
  BY Continues
<1>5. opcode' # STOP
  BY <1>2, <1>4 DEF Continue, LoopStatus, opcode
<1>6. PC < PC' \/ opcode \in SetsPC
  <2>1. CASE Continue(PC)
    <3>1. (PC + 1) % U32 = PC + 1
      BY <1>3
    <3> QED BY <1>3, <2>1, <3>1 DEF Continue
  <2>2. CASE opcode = STOP /\ Continue(0)
    <3>1. PC = 0
      BY <1>1, <1>2, <2>2 DEF LoopOK, FetchGuarded, opcode
    <3>2. (0 + 1) % U32 = 0 + 1
      BY <1>3
    <3> QED BY <2>2, <3>1, <3>2 DEF Continue
  <2>3. CASE opcode \in PushOps /\ Continue(PC + (opcode - PUSH1 + 1))
    <3> DEFINE n == opcode - PUSH1 + 1
    <3>1. n \in 1..WordBytes
      BY <1>3, <2>3 DEF PushOps, PUSH1
    <3>2. PC' = (PC + n + 1) % U32
      BY <2>3 DEF Continue
    <3> HIDE DEF n
    <3>3. (PC + n + 1) % U32 = PC + n + 1
      BY <1>3, <3>1
    <3> QED BY <1>3, <3>1, <3>2, <3>3
  <2> QED BY <2>1, <2>2, <2>3, Continues
<1>7. \/ GAS_Charge' \in GAS_Charge..GAS_LIMIT
      \/ opcode = STOP /\ PC = 0
      \/ SetsOwnGas
  <2> DEFINE top == 20000
  <2>1. top \in Nat /\ GAS_LIMIT \in Nat
    BY ConstFacts
  <2>2. \/ GAS_Charge' - GAS_Charge \in 0..top
        \/ opcode = STOP /\ PC = 0
        \/ SetsOwnGas
    BY <1>1, <1>2 DEF GasStep, SetsOwnGas
  <2> HIDE DEF top
  <2>3. CASE GAS_Charge' - GAS_Charge \in 0..top
    <3>1. GAS_Charge <= GAS_Charge'
      BY <1>3, <2>1, <2>3, Grows
    <3> QED BY <1>3, <2>1, <3>1
  <2> QED BY <2>2, <2>3
<1> QED BY <1>2, <1>5, <1>6, <1>7 DEF AnotherTurn

LEMMA FitInvariance ==
  ASSUME BytecodesFit
  PROVE  AppSpec => []CodeFits
<1>1. AppInit => CodeFits
  BY DEF AppInit, Init, BytecodesFit, CodeFits
<1>2. AppInv /\ CodeFits /\ [AppNext]_appVars => CodeFits'
  <2> SUFFICES ASSUME AppInv, CodeFits, [AppNext]_appVars PROVE CodeFits'
    OBVIOUS
  <2>1. CASE Step
    BY <2>1, StepDeploys DEF CodeFits
  <2>2. CASE RunDeployed
    <3>1. code' = [i \in 1..DEPLOY_LENGTH |-> deployed_contract[i - 1]]
      BY <2>2 DEF RunDeployed
    <3>2. Len(code') = DEPLOY_LENGTH
      BY <3>1, ConstFacts
    <3> QED BY <3>2 DEF CodeFits, BytecodesFit
  <2>3. CASE UNCHANGED vars
    BY <2>3 DEF vars, CodeFits
  <2> QED BY <2>1, <2>2, <2>3, AppSteps
<1> QED BY <1>1, <1>2, AppInvariance, PTL DEF AppSpec

\* Every step of the process takes it to its next phase, leaves the loop of
\* execute_contract, or is a turn that moves PC on and does not lower the gas.
\* So a process that never ends sets PC for ever, and either sets its own gas
\* counter for ever or is in the end not charged for any more: the arguments of
\* ProcessEnds and StraightLineEnds, for machines and contracts of every size.
THEOREM ProcessAdvances ==
  ASSUME BytecodesFit
  PROVE  AppSpec => [][ProcessStep]_appVars
<1>1. AppInv /\ CodeFits /\ [AppNext]_appVars => [ProcessStep]_appVars
  <2> SUFFICES ASSUME AppInv, CodeFits, AppNext, ~UNCHANGED appVars PROVE ProcessStep
    OBVIOUS
  <2>1. CASE Execute
    <3>1. Step /\ phase' = phase /\ status = "run"
      BY <2>1, StepDeploys DEF Execute
    <3> QED BY <3>1, TurnAdvances DEF AppInv, ProcessStep
  <2>2. CASE PrintDeployed \/ RunDeployed \/ End
    BY <2>2 DEF PrintDeployed, RunDeployed, End, Stage, ProcessStep
  <2> QED BY <2>1, <2>2 DEF AppNext, AppStopped
<1> QED BY <1>1, AppInvariance, FitInvariance, PTL DEF AppSpec

-----------------------------------------------------------------------------
(* The usage of memory.  The copying instructions test sums of 64-bit      *)
(* operands that wrap.                                                     *)

\* The instructions that touch the usage of MEM or DeployLength.
LEMMA WhoStores ==
  ASSUME Step
  PROVE  \/ MStore \/ MStore8 \/ CallDataCopy \/ CodeCopy \/ Return
         \/ UNCHANGED << max_mem_offset, DeployLength >>
<1> USE DEF Stuck, OnlyStack, memVars, deployVars
<1>1. CASE \/ Arithmetic \/ Divide \/ DivideUnchecked \/ ModularArithmetic
           \/ Exponent \/ Compare \/ BitLogic \/ Shift \/ PushMessage \/ Timestamp
  BY <1>1 DEF Arithmetic, Divide, DivideUnchecked, ModularArithmetic, Exponent, Compare,
              BitLogic, Shift, PushMessage, Timestamp, Result
<1>2. CASE Stop \/ Push \/ Pop \/ Dup \/ Swap \/ Jump \/ NoOp
  BY <1>2 DEF Stop, Push, Pop, Dup, Swap, Jump, NoOp, Result
<1>3. CASE MLoad \/ SLoad \/ CallDataLoad \/ Sha3 \/ Revert \/ SStore
  BY <1>3 DEF MLoad, SLoad, CallDataLoad, Sha3, Revert, Result, SStore
<1>4. CASE Unsupported \/ StackUnderrun
  BY <1>4 DEF Unsupported, StackUnderrun
<1> QED BY <1>1, <1>2, <1>3, <1>4 DEF Step

LEMMA UsageStep ==
  ASSUME Inv, Step, DeployLength <= MEMORY_SPACE,
         max_mem_offset <= MEMORY_SPACE + Larger(WordBytes, CODECOPY_SHORT)
  PROVE  /\ DeployLength' <= MEMORY_SPACE
         /\ max_mem_offset' <= MEMORY_SPACE + Larger(WordBytes, CODECOPY_SHORT)
<1> DEFINE top == Larger(WordBytes, CODECOPY_SHORT)
<1>1. /\ max_mem_offset \in Nat /\ DeployLength \in Nat /\ MEMORY_SPACE \in Nat \ {0}
      /\ top \in Nat /\ WordBytes <= top /\ CODECOPY_SHORT <= top
      /\ WordBytes \in Nat /\ CODECOPY_SHORT \in Nat
  BY ConstFacts DEF Inv, TypeOK, Larger
<1> HIDE DEF top
<1>0. LoopOK /\ DataOK
  BY InvSplits
<1>2. max_mem_offset <= MEMORY_SPACE + top
  BY DEF top
<1> SUFFICES DeployLength' <= MEMORY_SPACE /\ max_mem_offset' <= MEMORY_SPACE + top
  BY DEF top
<1>3. CASE UNCHANGED << max_mem_offset, DeployLength >>
  BY <1>2, <1>3
<1>4. CASE MStore
  <2>1. Low(1) \in Nat
    BY <1>0, ArgType
  <2>2. DeployLength' = DeployLength
    BY <1>4 DEF MStore, OnlyMemory, deployVars
  <2>3. \/ max_mem_offset' = max_mem_offset
        \/ Low(1) <= MEMORY_SPACE /\ max_mem_offset' = Low(1) + WordBytes
    BY <1>1, <1>4, <2>1 DEF MStore, memVars
  <2> QED BY <1>1, <1>2, <2>1, <2>2, <2>3
<1>5. CASE MStore8
  BY <1>3, <1>5 DEF MStore8, OnlyMemory, deployVars
<1>6. CASE CallDataCopy
  <2>1. Low(1) \in Nat /\ Low(3) \in Nat
    BY <1>0, ArgType
  <2>2. \/ UNCHANGED << max_mem_offset, DeployLength >>
        \/ /\ ~(CopyEnd > MEMORY_SPACE)
           /\ max_mem_offset' = Larger(max_mem_offset, CopyEnd)
           /\ DeployLength' = DeployLength
    BY <1>6 DEF CallDataCopy, Stuck, memVars, OnlyMemory, deployVars
  <2>3. CopyEnd \in Nat
    BY <2>1, ConstFacts DEF CopyEnd
  <2> QED BY <1>1, <1>2, <1>3, <2>2, <2>3 DEF Larger
<1>7. CASE CodeCopy
  <2>1. Low(1) \in Nat /\ Low(3) \in Nat
    BY <1>0, ArgType
  <2>2. \/ UNCHANGED << max_mem_offset, DeployLength >>
        \/ /\ Low(1) <= MEMORY_SPACE /\ Low(3) < CODECOPY_SHORT
           /\ max_mem_offset' = Larger(max_mem_offset, Low(1) + Low(3))
           /\ DeployLength' = DeployLength
    BY <1>1, <1>7, <2>1 DEF CodeCopy, LongCopy, Executes, Stuck, memVars, OnlyMemory, deployVars
  <2> QED BY <1>1, <1>2, <1>3, <2>1, <2>2 DEF Larger
<1>8. CASE Return
  <2>1. \/ UNCHANGED << max_mem_offset, DeployLength >>
        \/ /\ max_mem_offset' = max_mem_offset
           /\ DeployLength' = (ReturnOffset + ReturnLength) % Base
    BY <1>8 DEF Return, Stuck, memVars
  <2>2. (ReturnOffset + ReturnLength) % Base \in 0..MEMORY_SPACE
    BY <1>0, ReturnRange
  <2> QED BY <1>1, <1>2, <1>3, <2>1, <2>2
<1> QED BY <1>3, <1>4, <1>5, <1>6, <1>7, <1>8, WhoStores

\* Although the bounds of CALLDATACOPY and RETURN are tested on sums that wrap,
\* and instructions come back when they do, the reported memory never exceeds MEM
\* by more than one store, and the listing is never longer than MEM.
THEOREM UsageStaysBounded == AppSpec => []UsageBounded
<1>1. AppInit => UsageBounded
  BY ConstFacts DEF AppInit, Init, UsageBounded, Larger
<1>2. AppInv /\ UsageBounded /\ [AppNext]_appVars => UsageBounded'
  <2> SUFFICES ASSUME AppInv, UsageBounded, [AppNext]_appVars PROVE UsageBounded'
    OBVIOUS
  <2>1. CASE Execute
    <3>1. Step /\ printed' = printed
      BY <2>1 DEF Execute
    <3> QED BY <3>1, UsageStep DEF AppInv, UsageBounded
  <2>2. CASE PrintDeployed
    <3>1. Len(printed') = DeployLength
      <4>1. printed' = [i \in 1..DeployLength |-> ListedByte(i - 1)]
        BY <2>2 DEF PrintDeployed
      <4> QED BY <4>1 DEF AppInv, Inv, TypeOK
    <3> QED BY <2>2, <3>1 DEF PrintDeployed, UsageBounded, vars
  <2>3. CASE RunDeployed \/ End \/ UNCHANGED appVars
    BY <2>3 DEF RunDeployed, End, appVars, vars, deployVars, UsageBounded
  <2> QED BY <2>1, <2>2, <2>3 DEF AppNext, AppStopped
<1> QED BY <1>1, <1>2, AppInvariance, PTL DEF AppSpec
-----------------------------------------------------------------------------
(* What a push stores.                                                     *)

\* The n operand bytes of a push, behind as many zeros as a word needs.
OperandBytes(n) ==
    [i \in Octets |-> IF i < WordBytes - n THEN 0 ELSE code[PC + 2 + i - (WordBytes - n)]]

\* The word of a push that is executed inside the bytecode and onto STACK, against
\* the number that its operand writes in big-endian order.
PushStores ==
    LET n == opcode - PUSH1 + 1
        B == OperandBytes(n)
        inside == PC + n < Len(code) /\ PC + n < U32 /\ SP >= -1
    IN  Executes(PushOps) /\ inside /\ status' \notin {"error", "fault"} =>
          /\ words'[SP'] = readu256BE(B) <=> LimbBE(B, 1) = LimbBE(B, 2)
          /\ n <= LB => words'[SP'] = readu256BE(B)

\* A push reads the operand from the bytecode, as long as it lies inside.
LEMMA PushItemLimbs ==
  ASSUME LoopOK, NEW n \in 1..WordBytes, PC + n < Len(code), PC + n < U32
  PROVE  LET B == OperandBytes(n)
         IN  PushItem(n) =
               << << LimbBE(B, 0), LimbBE(B, 2) >>, << LimbBE(B, 1), LimbBE(B, 3) >> >>
<1>1. PC \in Nat /\ WordBytes \in Nat /\ Len(code) \in Nat /\ n \in Nat
  BY ConstFacts DEF LoopOK
<1>2. ASSUME NEW i \in Octets, ~(i < WordBytes - n)
      PROVE  CodeByte(PC + 1 + i - (WordBytes - n)) = code[PC + 2 + i - (WordBytes - n)]
  <2>1. i \in Nat /\ i < WordBytes
    BY <1>1 DEF Octets
  <2>2. PC + 1 + i - (WordBytes - n) < Len(code)
        /\ PC + 1 + i - (WordBytes - n) + 1 = PC + 2 + i - (WordBytes - n)
    BY <1>1, <1>2, <2>1
  <2>3. (PC + 1 + i - (WordBytes - n)) % U32 = PC + 1 + i - (WordBytes - n)
    <3> DEFINE x == PC + 1 + i - (WordBytes - n)
    <3>1. x \in Nat /\ x < U32 /\ U32 \in Nat
      BY <1>1, <1>2, <2>1, ConstFacts
    <3> HIDE DEF x
    <3>2. x % U32 = x
      BY <3>1
    <3> QED BY <3>2 DEF x
  <2> QED BY <2>2, <2>3 DEF CodeByte
<1>3. [i \in Octets |-> IF i < WordBytes - n THEN 0
                        ELSE CodeByte(PC + 1 + i - (WordBytes - n))] = OperandBytes(n)
  BY <1>2 DEF OperandBytes
<1> QED BY <1>3 DEF PushItem

\* The second and the third group of the operand of a short push are zeros.
LEMMA ShortGroups ==
  ASSUME NEW n \in 1..LB
  PROVE  Group(OperandBytes(n), 1) = Group(OperandBytes(n), 2)
<1>1. LB \in Nat \ {0} /\ WordBytes = 4 * LB
  BY ConstFacts DEF WordBytes
<1>2. ASSUME NEW j \in 0..(LB - 1)
      PROVE  OperandBytes(n)[LB * 1 + j] = 0 /\ OperandBytes(n)[LB * 2 + j] = 0
  <2>1. /\ LB * 1 + j \in Octets /\ LB * 1 + j < WordBytes - n
        /\ LB * 2 + j \in Octets /\ LB * 2 + j < WordBytes - n
    BY <1>1 DEF Octets
  <2> QED BY <2>1 DEF OperandBytes
<1> QED BY <1>2 DEF Group

\* With words of at most 32 bytes the opcodes of the pushes are no others.
LEMMA PushIsPush ==
  ASSUME WordBytes <= 32, Inv, Step, Executes(PushOps)
  PROVE  Push
<1>1. opcode \in 96..127
  BY ConstFacts DEF Executes, PushOps, PUSH1
<1>2. ~StackUnderrun /\ ~Unsupported
  <2>1. opcode \in Implemented
    BY DEF Executes, Implemented
  <2>2. opcode \notin Pop1 /\ opcode \notin Pop2 /\ opcode \notin Pop3
    BY <1>1 DEF Pop1, Pop2, Pop3, ADD, MUL, SUB, DIV, SDIV, MOD, SMOD, EXP, LT, GT, SLT, SGT,
         EQ, AND, OR, XOR, BYTE, SHL, SHR, SAR, SHA3, MSTORE, MSTORE8, SSTORE, JUMPI, RETURN,
         REVERT, ISZERO, NOT, CALLDATALOAD, POP, MLOAD, SLOAD, JUMP, CALLDATACOPY, CODECOPY,
         ADDMOD, MULMOD
  <2>3. opcode \notin DupOps
    BY <1>1 DEF DupOps, DUP1
  <2>4. Reads = {}
    BY <2>2, <2>3 DEF Reads, Pops
  <2> QED BY <2>1, <2>4 DEF Unsupported, StackUnderrun
<1>3. ~(\/ Arithmetic \/ Divide \/ DivideUnchecked \/ ModularArithmetic \/ Exponent)
  BY <1>1 DEF Arithmetic, Divide, DivideUnchecked, ModularArithmetic, Exponent, Executes,
         ADD, MUL, SUB, DIV, SDIV, MOD, SMOD, ADDMOD, MULMOD, EXP
<1>4. ~(Compare \/ BitLogic \/ Shift)
  BY <1>1 DEF Compare, BitLogic, Shift, Executes, LT, GT, SLT, SGT, EQ, ISZERO, AND, OR, XOR, NOT,
         BYTE, SHL, SHR, SAR
<1>5. ~(PushMessage \/ Timestamp \/ Stop \/ Pop \/ Dup \/ Swap \/ Jump \/ NoOp)
  BY <1>1 DEF PushMessage, Timestamp, Stop, Pop, Dup, Swap, Jump, NoOp, Executes,
         DupOps, SwapOps, ADDRESS, CALLER, CALLVALUE, CALLDATASIZE, CODESIZE, BLOCKHASH,
         TIMESTAMP, STOP, POP, DUP1, SWAP1, JUMP, JUMPI, SENSOR, TEMPERATURE, LED, SIGNEXTEND, BALANCE, JUMPDEST, INVALID,
         LOG0
<1>6. ~(\/ MLoad \/ SLoad \/ CallDataLoad \/ Sha3 \/ Revert \/ MStore \/ MStore8
        \/ CallDataCopy \/ CodeCopy \/ SStore \/ Return)
  <2>1. \A op \in {MLOAD, SLOAD, CALLDATALOAD, SHA3, REVERT, MSTORE, MSTORE8, CALLDATACOPY,
                   CODECOPY, SSTORE, RETURN} : ~Executes({op})
    BY <1>1 DEF Executes, MLOAD, SLOAD, CALLDATALOAD, SHA3, REVERT, MSTORE, MSTORE8,
                CALLDATACOPY, CODECOPY, SSTORE, RETURN
  <2>2. ~(MLoad \/ SLoad \/ CallDataLoad)
    BY <2>1, Zenon DEF MLoad, SLoad, CallDataLoad
  <2>3. ~(Sha3 \/ Revert \/ SStore \/ Return)
    BY <2>1 DEF Sha3, Revert, SStore, Return
  <2>4. ~(MStore \/ MStore8 \/ CallDataCopy \/ CodeCopy)
    BY <2>1, Zenon DEF MStore, MStore8, CallDataCopy, CodeCopy
  <2> QED BY <2>2, <2>3, <2>4
<1> QED BY <1>2, <1>3, <1>4, <1>5, <1>6 DEF Step

LEMMA PushExact ==
  ASSUME WordBytes <= 32, Inv, Step
  PROVE  PushStores
<1> DEFINE n == opcode - PUSH1 + 1
           B == OperandBytes(n)
<1> SUFFICES ASSUME Executes(PushOps), PC + n < Len(code), PC + n < U32, SP >= -1,
                    status' \notin {"error", "fault"}
             PROVE  /\ words'[SP'] = readu256BE(B) <=> LimbBE(B, 1) = LimbBE(B, 2)
                    /\ n <= LB => words'[SP'] = readu256BE(B)
  BY DEF PushStores
<1>1. LoopOK /\ DataOK
  BY InvSplits
<1>2. n \in 1..WordBytes
  BY ConstFacts DEF Executes, PushOps, PUSH1
<1>3. ~(SP + n >= STACK_SPACE)
  <2>1. SP + n < STACK_SPACE
    BY PushIsPush DEF Push, Leave, Stuck
  <2> HIDE DEF n
  <2> QED BY <1>1, <1>2, <2>1, ConstFacts DEF LoopOK, SPOK
<1>4. StoreTop(SP + 1, PushItem(n))
  BY PushIsPush DEF Push, Leave, Stuck
<1>5. words'[SP'] = PushItem(n)
  <2>1. SP + 1 \in Int /\ SP + 1 \in Slots /\ SP + 1 <= STACK_SPACE
    <3> HIDE DEF n
    <3> QED BY <1>1, <1>2, <1>3, ConstFacts DEF LoopOK, SPOK, Slots
  <2> QED BY <1>1, <1>4, <2>1, StoreTopStep
<1>6. PushItem(n) =
        << << LimbBE(B, 0), LimbBE(B, 2) >>, << LimbBE(B, 1), LimbBE(B, 3) >> >>
  <2> HIDE DEF n
  <2> QED BY <1>1, <1>2, PushItemLimbs
<1>7. n <= LB => LimbBE(B, 1) = LimbBE(B, 2)
  <2>1. n <= LB => n \in 1..LB
    BY <1>2, ConstFacts
  <2> HIDE DEF n
  <2>2. n <= LB => Group(B, 1) = Group(B, 2)
    BY <2>1, ShortGroups
  <2> QED BY <2>2 DEF LimbBE
<1> HIDE DEF n, B
<1>8. words'[SP'] = readu256BE(B) <=> LimbBE(B, 1) = LimbBE(B, 2)
  BY <1>5, <1>6 DEF readu256BE
<1> QED BY <1>7, <1>8

\* With words of 32 bytes or less, PUSH1 to PUSH8 store the number that their
\* operand writes, and a longer push does exactly when its second and its third
\* group of bytes are the same limb: the exchange of the two is the only error.
THEOREM ShortPushesAreExact ==
  ASSUME WordBytes <= 32
  PROVE  Spec => [][PushStores]_vars
<1>1. Inv /\ [Next]_vars => [PushStores]_vars
  BY PushExact DEF Next, Terminated
<1> QED BY <1>1, Invariance, PTL DEF Spec

-----------------------------------------------------------------------------
(* What the instructions compute.  For each family, op leaves in the word  *)
(* w its answer to the operands m, n, k, the first one popped first.       *)

\* Whether mul256 puts a carry in the wrong place.
Misplaced(m, n) == UPPER(Columns256(m, n)[3]) # 0

\* ADD, SUB, MUL (exact unless a carry is misplaced), EXP (not a power).
AnswersSum(op, m, n, w) ==
    LET x == Val(m)  y == Val(n)  v == Val(w)
    IN  /\ op = ADD => v = (x + y) % Modulus
        /\ op = SUB => v = (x - y) % Modulus
        /\ op = MUL => (v = (x * y) % Modulus <=> ~Misplaced(m, n))
        /\ op = EXP => v = IF LOWER(LOWER(n)) = 0 THEN 1 ELSE 0

\* The divisions, all unsigned; all but DIV come back for nonzero divisors only.
AnswersQuotient(op, m, n, k, w) ==
    LET x == Val(m)  y == Val(n)  z == Val(k)  v == Val(w)
    IN  /\ op = DIV => v = IF y = 0 THEN 0 ELSE x \div y
        /\ op = SDIV => y # 0 /\ v = x \div y
        /\ op \in {MOD, SMOD} => y # 0 /\ v = x % y
        /\ op = ADDMOD => z # 0 /\ v = ((x + y) % Modulus) % z
        /\ op = MULMOD => z # 0 /\ (~Misplaced(m, n) => v = ((x * y) % Modulus) % z)

\* The comparisons, all unsigned.
AnswersComparison(op, m, n, w) ==
    LET x == Val(m)  y == Val(n)  v == Val(w)
    IN  /\ op \in {LT, SLT} => v = Flag(x < y)
        /\ op \in {GT, SGT} => v = Flag(x > y)
        /\ op = EQ => v = Flag(x = y)
        /\ op = ISZERO => v = Flag(x = 0)

\* The shifts, whose count is the low 32 bits of the operand.
ShiftCount(m) == LOWER(LOWER(m)) % U32
BytePlace(m) == (Bits256 - 8 - ShiftCount(m) * 8) % U32
AnswersShift(op, m, n, w) ==
    LET y == Val(n)  v == Val(w)  count == ShiftCount(m)  place == BytePlace(m)
    IN  /\ op = SHL => v = IF count >= Bits256 THEN 0 ELSE (y * 2^count) % Modulus
        /\ op \in {SHR, SAR} => v = IF count >= Bits256 THEN 0 ELSE y \div 2^count
        /\ op = BYTE => v = IF place >= Bits256 THEN 0 ELSE (y \div 2^place) % 256

\* The bitwise instructions, limb by limb.
AnswersBits(op, m, n, w) ==
    /\ \A i \in 1..4 :
         LET X == Ones(Limbs(m)[i])  Y == Ones(Limbs(n)[i])  W == Ones(Limbs(w)[i])
         IN  /\ op = AND => W = X \cap Y
             /\ op = OR => W = X \cup Y
             /\ op = XOR => W = (X \ Y) \cup (Y \ X)
    /\ op = NOT => Val(w) = Modulus - 1 - Val(m)

Answers(op, m, n, k, w) ==
    /\ AnswersSum(op, m, n, w) /\ AnswersQuotient(op, m, n, k, w)
    /\ AnswersComparison(op, m, n, w) /\ AnswersShift(op, m, n, w) /\ AnswersBits(op, m, n, w)

\* An instruction that computes and comes back has replaced its operands, from
\* wherever they came, by its answer to them, if the pops left the top of the
\* stack in STACK.
Computing == (ADD..EXP) \cup (LT..SAR)
Computes ==
    /\ status = "run" /\ opcode \in Computing /\ status' \notin {"hang", "fault"}
    /\ SP - Pops(opcode) + 1 \in 0..STACK_SPACE
    =>
      /\ SP' = SP - Pops(opcode) + 1
      /\ Answers(opcode, Arg(1), Arg(2), Arg(3), words'[SP'])

LEMMA AnswerSum ==
  ASSUME NEW m \in uint256, NEW n \in uint256, NEW k
  PROVE  /\ Answers(ADD, m, n, k, add256(m, n))
         /\ Answers(SUB, m, n, k, minus256(m, n))
         /\ Answers(MUL, m, n, k, mul256(m, n))
         /\ Answers(EXP, m, n, k, IF LOWER(LOWER(n)) = 0 THEN One256 ELSE mul256(m, Zero256))
<1> USE DEF ADD, MUL, SUB, DIV, SDIV, MOD, SMOD, ADDMOD, MULMOD, EXP, LT, GT, SLT, SGT, EQ,
            ISZERO, AND, OR, XOR, NOT, BYTE, SHL, SHR, SAR
<1>1. ASSUME NEW op \in {ADD, SUB, MUL, EXP}, NEW w, AnswersSum(op, m, n, w)
      PROVE  Answers(op, m, n, k, w)
  BY <1>1 DEF Answers, AnswersQuotient, AnswersComparison, AnswersShift, AnswersBits
<1>2. AnswersSum(ADD, m, n, add256(m, n))
  BY Add256 DEF AnswersSum
<1>3. AnswersSum(SUB, m, n, minus256(m, n))
  BY Minus256 DEF AnswersSum
<1>4. AnswersSum(MUL, m, n, mul256(m, n))
  BY Mul256 DEF AnswersSum, Misplaced
<1>5. AnswersSum(EXP, m, n, IF LOWER(LOWER(n)) = 0 THEN One256 ELSE mul256(m, Zero256))
  <2>1. Val(mul256(m, Zero256)) = 0 /\ Val(One256) = 1
    BY Zero256Value, One256Value, Mul256Type
  <2> QED BY <2>1 DEF AnswersSum
<1> QED BY <1>1, <1>2, <1>3, <1>4, <1>5

LEMMA AnswerQuotient ==
  ASSUME NEW m \in uint256, NEW n \in uint256, NEW k
  PROVE  /\ zero256(n) => Answers(DIV, m, n, k, Zero256)
         /\ ~zero256(n) => /\ Answers(DIV, m, n, k, divmod256(m, n)[1])
                           /\ Answers(SDIV, m, n, k, divmod256(m, n)[1])
                           /\ Answers(MOD, m, n, k, divmod256(m, n)[2])
                           /\ Answers(SMOD, m, n, k, divmod256(m, n)[2])
<1> USE DEF ADD, MUL, SUB, DIV, SDIV, MOD, SMOD, ADDMOD, MULMOD, EXP, LT, GT, SLT, SGT, EQ,
            ISZERO, AND, OR, XOR, NOT, BYTE, SHL, SHR, SAR
<1>1. ASSUME NEW op \in {DIV, SDIV, MOD, SMOD}, NEW w, AnswersQuotient(op, m, n, k, w)
      PROVE  Answers(op, m, n, k, w)
  BY <1>1 DEF Answers, AnswersSum, AnswersComparison, AnswersShift, AnswersBits
<1>2. zero256(n) <=> Val(n) = 0
  BY Zero256Test
<1>3. ASSUME zero256(n) PROVE AnswersQuotient(DIV, m, n, k, Zero256)
  BY <1>2, <1>3, Zero256Value DEF AnswersQuotient
<1>4. ASSUME ~zero256(n)
      PROVE  /\ AnswersQuotient(DIV, m, n, k, divmod256(m, n)[1])
             /\ AnswersQuotient(SDIV, m, n, k, divmod256(m, n)[1])
             /\ AnswersQuotient(MOD, m, n, k, divmod256(m, n)[2])
             /\ AnswersQuotient(SMOD, m, n, k, divmod256(m, n)[2])
  <2>1. Val(divmod256(m, n)[1]) = Val(m) \div Val(n) /\ Val(divmod256(m, n)[2]) = Val(m) % Val(n)
    BY <1>4, DivMod
  <2> QED BY <1>2, <1>4, <2>1 DEF AnswersQuotient
<1> QED BY <1>1, <1>3, <1>4

LEMMA AnswerModular ==
  ASSUME NEW m \in uint256, NEW n \in uint256, NEW k \in uint256, ~zero256(k)
  PROVE  /\ Answers(ADDMOD, m, n, k, divmod256(add256(m, n), k)[2])
         /\ Answers(MULMOD, m, n, k, divmod256(mul256(m, n), k)[2])
<1> USE DEF ADD, MUL, SUB, DIV, SDIV, MOD, SMOD, ADDMOD, MULMOD, EXP, LT, GT, SLT, SGT, EQ,
            ISZERO, AND, OR, XOR, NOT, BYTE, SHL, SHR, SAR
<1>1. ASSUME NEW op \in {ADDMOD, MULMOD}, NEW w, AnswersQuotient(op, m, n, k, w)
      PROVE  Answers(op, m, n, k, w)
  BY <1>1 DEF Answers, AnswersSum, AnswersComparison, AnswersShift, AnswersBits
<1>2. Val(k) # 0
  BY Zero256Test
<1>3. AnswersQuotient(ADDMOD, m, n, k, divmod256(add256(m, n), k)[2])
  <2>1. Val(divmod256(add256(m, n), k)[2]) = Val(add256(m, n)) % Val(k)
    BY Add256, DivMod
  <2> QED BY <1>2, <2>1, Add256 DEF AnswersQuotient
<1>4. AnswersQuotient(MULMOD, m, n, k, divmod256(mul256(m, n), k)[2])
  <2>1. Val(divmod256(mul256(m, n), k)[2]) = Val(mul256(m, n)) % Val(k)
    BY Mul256Type, DivMod
  <2>2. ~Misplaced(m, n) => Val(mul256(m, n)) = (Val(m) * Val(n)) % Modulus
    BY Mul256 DEF Misplaced
  <2> QED BY <1>2, <2>1, <2>2 DEF AnswersQuotient
<1> QED BY <1>1, <1>3, <1>4

LEMMA AnswerComparison ==
  ASSUME NEW m \in uint256, NEW n, NEW k
  PROVE  /\ n \in uint256 =>
              /\ \A op \in {LT, SLT} : Answers(op, m, n, k, Bool256(gt256(n, m)))
              /\ \A op \in {GT, SGT} : Answers(op, m, n, k, Bool256(gt256(m, n)))
              /\ Answers(EQ, m, n, k, Bool256(equal256(m, n)))
         /\ Answers(ISZERO, m, n, k, Bool256(zero256(m)))
<1> USE DEF ADD, MUL, SUB, DIV, SDIV, MOD, SMOD, ADDMOD, MULMOD, EXP, LT, GT, SLT, SGT, EQ,
            ISZERO, AND, OR, XOR, NOT, BYTE, SHL, SHR, SAR
<1>1. ASSUME NEW op \in {LT, SLT, GT, SGT, EQ, ISZERO}, NEW w, AnswersComparison(op, m, n, w)
      PROVE  Answers(op, m, n, k, w)
  BY <1>1 DEF Answers, AnswersSum, AnswersQuotient, AnswersShift, AnswersBits
<1>2. /\ Val(Bool256(TRUE)) = Flag(TRUE) /\ Val(Bool256(FALSE)) = Flag(FALSE)
  BY Zero256Value, One256Value DEF Bool256, Flag
<1>3. ASSUME n \in uint256
      PROVE  /\ \A op \in {LT, SLT} : AnswersComparison(op, m, n, Bool256(gt256(n, m)))
             /\ \A op \in {GT, SGT} : AnswersComparison(op, m, n, Bool256(gt256(m, n)))
             /\ AnswersComparison(EQ, m, n, Bool256(equal256(m, n)))
  <2>1. /\ Val(m) \in Nat /\ Val(n) \in Nat
        /\ gt256(n, m) <=> Val(n) > Val(m)
        /\ gt256(m, n) <=> Val(m) > Val(n)
        /\ equal256(m, n) <=> Val(m) = Val(n)
    BY <1>3, OrderOfWords, Order256
  <2>2. /\ Val(Bool256(gt256(n, m))) = Flag(Val(m) < Val(n))
        /\ Val(Bool256(gt256(m, n))) = Flag(Val(m) > Val(n))
        /\ Val(Bool256(equal256(m, n))) = Flag(Val(m) = Val(n))
    BY <2>1, Zero256Value, One256Value DEF Bool256, Flag
  <2> QED BY <2>2 DEF AnswersComparison
<1>4. AnswersComparison(ISZERO, m, n, Bool256(zero256(m)))
  <2>1. Val(Bool256(zero256(m))) = Flag(Val(m) = 0)
    BY Zero256Test, Zero256Value, One256Value DEF Bool256, Flag
  <2> QED BY <2>1 DEF AnswersComparison
<1> QED BY <1>1, <1>3, <1>4

LEMMA AnswerShift ==
  ASSUME NEW m \in uint256, NEW n \in uint256, NEW k
  PROVE  /\ Answers(SHL, m, n, k, shiftl256(n, ShiftCount(m)))
         /\ \A op \in {SHR, SAR} : Answers(op, m, n, k, shiftr256(n, ShiftCount(m)))
         /\ Answers(BYTE, m, n, k, and256(shiftr256(n, BytePlace(m)), LowWord(255)))
<1> USE DEF ADD, MUL, SUB, DIV, SDIV, MOD, SMOD, ADDMOD, MULMOD, EXP, LT, GT, SLT, SGT, EQ,
            ISZERO, AND, OR, XOR, NOT, BYTE, SHL, SHR, SAR
<1>1. ASSUME NEW op \in {SHL, SHR, SAR, BYTE}, NEW w, AnswersShift(op, m, n, w)
      PROVE  Answers(op, m, n, k, w)
  BY <1>1 DEF Answers, AnswersSum, AnswersQuotient, AnswersComparison, AnswersBits
<1>2. ShiftCount(m) \in Nat /\ BytePlace(m) \in Nat
  <2>1. LOWER(LOWER(m)) \in Nat /\ U32 \in Nat \ {0} /\ Bits256 \in Nat
    BY Pair256, Pair128, BaseFacts, Widths, EVMAssumption
  <2>2. ShiftCount(m) \in Nat
    BY <2>1, QuotientFacts DEF ShiftCount
  <2>3. Bits256 - 8 - ShiftCount(m) * 8 \in Int
    BY <2>1, <2>2
  <2> QED BY <2>1, <2>2, <2>3 DEF BytePlace
<1>3. AnswersShift(SHL, m, n, shiftl256(n, ShiftCount(m)))
  BY <1>2, ShiftLeftTimes DEF AnswersShift
<1>4. \A op \in {SHR, SAR} : AnswersShift(op, m, n, shiftr256(n, ShiftCount(m)))
  BY <1>2, ShiftRight256 DEF AnswersShift
<1>5. AnswersShift(BYTE, m, n, and256(shiftr256(n, BytePlace(m)), LowWord(255)))
  <2> DEFINE w == shiftr256(n, BytePlace(m))
  <2>1. w \in uint256 /\ Val(w) = IF BytePlace(m) >= Bits256 THEN 0 ELSE Val(n) \div 2^BytePlace(m)
    BY <1>2, ShiftRight256
  <2>2. LimbBits >= 8
    BY EVMAssumption
  <2> HIDE DEF w
  <2>3. Val(and256(w, LowWord(255))) = Val(w) % 256
    BY <2>1, <2>2, LowByte DEF LowWord
  <2>4. 0 % 256 = 0
    OBVIOUS
  <2>5. Val(and256(w, LowWord(255))) =
          IF BytePlace(m) >= Bits256 THEN 0 ELSE (Val(n) \div 2^BytePlace(m)) % 256
    BY <2>1, <2>3, <2>4
  <2> QED BY <2>5 DEF AnswersShift, w
<1> QED BY <1>1, <1>3, <1>4, <1>5

LEMMA AnswerBits ==
  ASSUME NEW m \in uint256, NEW n, NEW k
  PROVE  /\ Answers(AND, m, n, k, and256(m, n))
         /\ Answers(OR, m, n, k, or256(m, n))
         /\ Answers(XOR, m, n, k, xor256(m, n))
         /\ Answers(NOT, m, n, k, not256(m))
<1> USE DEF ADD, MUL, SUB, DIV, SDIV, MOD, SMOD, ADDMOD, MULMOD, EXP, LT, GT, SLT, SGT, EQ,
            ISZERO, AND, OR, XOR, NOT, BYTE, SHL, SHR, SAR
<1>1. ASSUME NEW op \in {AND, OR, XOR, NOT}, NEW w, AnswersBits(op, m, n, w)
      PROVE  Answers(op, m, n, k, w)
  BY <1>1 DEF Answers, AnswersSum, AnswersQuotient, AnswersComparison, AnswersShift
<1>2. ASSUME NEW i \in 1..4
      PROVE  /\ Limbs(and256(m, n))[i] = and64(Limbs(m)[i], Limbs(n)[i])
             /\ Limbs(or256(m, n))[i] = or64(Limbs(m)[i], Limbs(n)[i])
             /\ Limbs(xor256(m, n))[i] = xor64(Limbs(m)[i], Limbs(n)[i])
  <2>1. i = 1 \/ i = 2 \/ i = 3 \/ i = 4
    OBVIOUS
  <2> QED BY <2>1 DEF Limbs, and256, and128, or256, or128, xor256, xor128, UPPER, LOWER
<1>3. AnswersBits(AND, m, n, and256(m, n))
  BY <1>2, BitwiseLimbs DEF AnswersBits
<1>4. AnswersBits(OR, m, n, or256(m, n))
  BY <1>2, BitwiseLimbs DEF AnswersBits
<1>5. AnswersBits(XOR, m, n, xor256(m, n))
  BY <1>2, BitwiseLimbs DEF AnswersBits
<1>6. AnswersBits(NOT, m, n, not256(m))
  BY Not256 DEF AnswersBits
<1> QED BY <1>1, <1>3, <1>4, <1>5, <1>6

\* The operands of the instructions that compute.
LEMMA PopsOfComputing ==
  /\ \A op \in {NOT, ISZERO} : Pops(op) = 1
  /\ \A op \in {ADD, MUL, SUB, DIV, SDIV, MOD, SMOD, EXP, LT, GT, SLT, SGT, EQ, AND, OR, XOR, BYTE,
                SHL, SHR, SAR} : Pops(op) = 2
  /\ \A op \in {ADDMOD, MULMOD} : Pops(op) = 3
<1>1. \A op \in Pop1 : op \in {21, 25} \cup 53..86
  BY DEF Pop1, ISZERO, NOT, CALLDATALOAD, POP, MLOAD, SLOAD, JUMP
<1>2. \A op \in Pop2 : op \notin {8, 9}
  BY DEF Pop2, ADD, MUL, SUB, DIV, SDIV, MOD, SMOD, EXP, LT, GT, SLT, SGT, EQ, AND, OR,
         XOR, BYTE, SHL, SHR, SAR, SHA3, MSTORE, MSTORE8, SSTORE, JUMPI, RETURN, REVERT
<1>3. ASSUME NEW op \in {NOT, ISZERO} PROVE Pops(op) = 1
  BY DEF Pops, Pop1
<1>4. ASSUME NEW op \in {ADD, MUL, SUB, DIV, SDIV, MOD, SMOD, EXP, LT, GT, SLT, SGT, EQ, AND, OR,
                         XOR, BYTE, SHL, SHR, SAR}
      PROVE  Pops(op) = 2
  <2>1. op \in Pop2
    BY DEF Pop2
  <2>2. op \notin {21, 25} \cup 53..86
    BY DEF ADD, MUL, SUB, DIV, SDIV, MOD, SMOD, EXP, LT, GT, SLT, SGT, EQ, AND, OR, XOR, BYTE,
           SHL, SHR, SAR
  <2> QED BY <1>1, <2>1, <2>2 DEF Pops
<1>5. ASSUME NEW op \in {ADDMOD, MULMOD} PROVE Pops(op) = 3
  <2>1. op \in Pop3 /\ op \in {8, 9}
    BY DEF Pop3, ADDMOD, MULMOD
  <2> QED BY <1>1, <1>2, <2>1 DEF Pops
<1> QED BY <1>3, <1>4, <1>5

\* A result is the new top of the stack: the pops have made room for it.
LEMMA ResultOnTop ==
  ASSUME LoopOK, DataOK, NEW item, NEW gas, Result(item, gas), Pops(opcode) >= 1,
         SP - Pops(opcode) + 1 \in 0..STACK_SPACE, status' \notin {"hang", "fault"}
  PROVE  SP' = SP - Pops(opcode) + 1 /\ words'[SP'] = item
<1> DEFINE p == Pops(opcode)
<1>1. p \in 1..3 /\ SP \in Int /\ SP - p + 1 \in 0..STACK_SPACE
  BY PopsType DEF LoopOK, SPOK
<1>2. stack_push(SP - p, item)
  BY DEF Result, Stuck
<1> HIDE DEF p
<1>3. /\ ~(SP - p >= STACK_SPACE) /\ SP - p + 1 \in Slots
      /\ SP - p + 1 \in Int /\ SP - p + 1 <= STACK_SPACE
  BY <1>1, ConstFacts DEF Slots
<1>4. StoreTop(SP - p + 1, item)
  BY <1>2, <1>3 DEF stack_push
<1> QED BY <1>3, <1>4, StoreTopStep DEF p

\* The instructions that compute are those of eight actions.
LEMMA WhoComputes ==
  ASSUME Inv, Step, opcode \in Computing, status' \notin {"hang", "fault"}
  PROVE  \/ Arithmetic \/ Divide \/ DivideUnchecked \/ ModularArithmetic \/ Exponent
         \/ Compare \/ BitLogic \/ Shift
<1>1. opcode \in (1..10) \cup (16..29)
  BY DEF Computing, ADD, EXP, LT, SAR
<1>2. ~StackUnderrun /\ ~Unsupported
  BY <1>1 DEF StackUnderrun, Stuck, Unsupported, Implemented
<1>3. ~(PushMessage \/ Timestamp \/ Stop \/ Push \/ Pop \/ Dup \/ Swap \/ Jump \/ NoOp)
  BY <1>1, ConstFacts DEF PushMessage, Timestamp, Stop, Push, PushOps, PUSH1, Pop, Dup, Swap,
         Jump, NoOp, DupOps, SwapOps,
         Executes, ADDRESS, CALLER, CALLVALUE, CALLDATASIZE, CODESIZE, BLOCKHASH, TIMESTAMP, STOP,
         POP, DUP1, SWAP1, JUMP, JUMPI, SENSOR, TEMPERATURE, LED, SIGNEXTEND, BALANCE, JUMPDEST,
         INVALID, LOG0
<1>4. ~(\/ MLoad \/ SLoad \/ CallDataLoad \/ Sha3 \/ Revert \/ MStore \/ MStore8
        \/ CallDataCopy \/ CodeCopy \/ SStore \/ Return)
  <2>1. \A op \in {MLOAD, SLOAD, CALLDATALOAD, SHA3, REVERT, MSTORE, MSTORE8, CALLDATACOPY,
                   CODECOPY, SSTORE, RETURN} : ~Executes({op})
    BY <1>1 DEF Executes, MLOAD, SLOAD, CALLDATALOAD, SHA3, REVERT, MSTORE, MSTORE8,
                CALLDATACOPY, CODECOPY, SSTORE, RETURN
  <2>2. ~(MLoad \/ SLoad \/ CallDataLoad)
    BY <2>1, Zenon DEF MLoad, SLoad, CallDataLoad
  <2>3. ~(Sha3 \/ Revert \/ SStore \/ Return)
    BY <2>1 DEF Sha3, Revert, SStore, Return
  <2>4. ~(MStore \/ MStore8 \/ CallDataCopy \/ CodeCopy)
    BY <2>1, Zenon DEF MStore, MStore8, CallDataCopy, CodeCopy
  <2> QED BY <2>2, <2>3, <2>4
<1> QED BY <1>2, <1>3, <1>4 DEF Step

LEMMA StepComputes == Inv /\ Step => Computes
<1> SUFFICES ASSUME Inv, Step, status = "run", opcode \in Computing,
                    status' \notin {"hang", "fault"}, SP - Pops(opcode) + 1 \in 0..STACK_SPACE
             PROVE  /\ SP' = SP - Pops(opcode) + 1
                    /\ Answers(opcode, Arg(1), Arg(2), Arg(3), words'[SP'])
  BY DEF Computes
<1> DEFINE Done == /\ SP' = SP - Pops(opcode) + 1
                   /\ Answers(opcode, Arg(1), Arg(2), Arg(3), words'[SP'])
<1>1. LoopOK /\ DataOK
  BY InvSplits
<1>2. ASSUME NEW ops, Executes(ops), NEW item, NEW gas, Result(item, gas), Pops(opcode) >= 1,
             Answers(opcode, Arg(1), Arg(2), Arg(3), item)
      PROVE  Done
  BY <1>1, <1>2, ResultOnTop
<1>3. Arg(1) \in uint256 /\ Arg(2) \in uint256 /\ Arg(3) \in uint256
  BY <1>1, ArgType
<1>4. ASSUME NEW ops \in SUBSET {ADD, MUL, SUB, DIV, SDIV, MOD, SMOD, EXP, LT, GT, SLT, SGT, EQ, AND,
                                 OR, XOR, BYTE, SHL, SHR, SAR}, Executes(ops)
      PROVE  Pops(opcode) >= 1 /\ Arg(1) \in uint256 /\ Arg(2) \in uint256
  <2>1. Pops(opcode) = 2
    BY <1>4, PopsOfComputing DEF Executes
  <2> QED BY <1>3, <2>1
<1>5. ASSUME NEW ops \in SUBSET {NOT, ISZERO}, Executes(ops)
      PROVE  Pops(opcode) >= 1 /\ Arg(1) \in uint256
  <2>1. Pops(opcode) = 1
    BY <1>5, PopsOfComputing DEF Executes
  <2> QED BY <1>3, <2>1
<1>6. ASSUME NEW ops \in SUBSET {ADDMOD, MULMOD}, Executes(ops)
      PROVE  Pops(opcode) >= 1 /\ Arg(1) \in uint256 /\ Arg(2) \in uint256 /\ Arg(3) \in uint256
  <2>1. Pops(opcode) = 3
    BY <1>6, PopsOfComputing DEF Executes
  <2> QED BY <1>3, <2>1
<1>7. \A ops : Executes(ops) => opcode \in ops
  BY DEF Executes
<1>8. ASSUME NEW how, Stuck(how) PROVE how \notin {"hang", "fault"}
  BY <1>8 DEF Stuck
<1> SUFFICES Done
  OBVIOUS
<1> HIDE DEF Done
<1>10. CASE Arithmetic
  <2>1. CASE Executes({ADD}) /\ Result(add256(Arg(1), Arg(2)), 3)
    <3>1. opcode = ADD /\ Pops(opcode) >= 1 /\ Arg(1) \in uint256 /\ Arg(2) \in uint256
      BY <1>4, <1>7, <2>1
    <3> QED BY <1>2, <2>1, <3>1, AnswerSum
  <2>2. CASE Executes({MUL}) /\ Result(mul256(Arg(1), Arg(2)), 5)
    <3>1. opcode = MUL /\ Pops(opcode) >= 1 /\ Arg(1) \in uint256 /\ Arg(2) \in uint256
      BY <1>4, <1>7, <2>2
    <3> QED BY <1>2, <2>2, <3>1, AnswerSum
  <2>3. CASE Executes({SUB}) /\ Result(minus256(Arg(1), Arg(2)), 0)
    <3>1. opcode = SUB /\ Pops(opcode) >= 1 /\ Arg(1) \in uint256 /\ Arg(2) \in uint256
      BY <1>4, <1>7, <2>3
    <3> QED BY <1>2, <2>3, <3>1, AnswerSum
  <2> QED BY <1>10, <2>1, <2>2, <2>3 DEF Arithmetic
<1>11. CASE Divide
  <2>1. Executes({DIV})
    BY <1>11 DEF Divide
  <2>2. opcode = DIV /\ Pops(opcode) >= 1 /\ Arg(1) \in uint256 /\ Arg(2) \in uint256
    BY <1>4, <1>7, <2>1
  <2>3. Result(IF zero256(Arg(2)) THEN Zero256 ELSE divmod256(Arg(1), Arg(2))[1], 5)
    BY <1>8, <1>11 DEF Divide
  <2>4. Answers(DIV, Arg(1), Arg(2), Arg(3),
                IF zero256(Arg(2)) THEN Zero256 ELSE divmod256(Arg(1), Arg(2))[1])
    BY <2>2, AnswerQuotient
  <2> QED BY <1>2, <2>1, <2>2, <2>3, <2>4
<1>12. CASE DivideUnchecked
  <2>1. Executes({SDIV, MOD, SMOD})
    BY <1>12 DEF DivideUnchecked
  <2>2. opcode \in {SDIV, MOD, SMOD} /\ Pops(opcode) >= 1 /\ Arg(1) \in uint256 /\ Arg(2) \in uint256
    BY <1>4, <1>7, <2>1
  <2>3. /\ ~zero256(Arg(2))
        /\ Result(divmod256(Arg(1), Arg(2))[IF opcode = SDIV THEN 1 ELSE 2], 5)
    BY <1>8, <1>12 DEF DivideUnchecked
  <2>4. Answers(opcode, Arg(1), Arg(2), Arg(3),
                divmod256(Arg(1), Arg(2))[IF opcode = SDIV THEN 1 ELSE 2])
    <3>1. /\ Answers(SDIV, Arg(1), Arg(2), Arg(3), divmod256(Arg(1), Arg(2))[1])
          /\ Answers(MOD, Arg(1), Arg(2), Arg(3), divmod256(Arg(1), Arg(2))[2])
          /\ Answers(SMOD, Arg(1), Arg(2), Arg(3), divmod256(Arg(1), Arg(2))[2])
      BY <2>2, <2>3, AnswerQuotient
    <3>2. MOD # SDIV /\ SMOD # SDIV
      BY DEF MOD, SDIV, SMOD
    <3> QED BY <2>2, <3>1, <3>2
  <2> QED BY <1>2, <2>1, <2>2, <2>3, <2>4
<1>13. CASE ModularArithmetic
  <2>1. Executes({ADDMOD, MULMOD})
    BY <1>13 DEF ModularArithmetic
  <2>2. Pops(opcode) >= 1 /\ Arg(1) \in uint256 /\ Arg(2) \in uint256 /\ Arg(3) \in uint256
    BY <1>6, <2>1
  <2>3. /\ ~zero256(Arg(3))
        /\ \/ opcode = ADDMOD /\ Result(divmod256(add256(Arg(1), Arg(2)), Arg(3))[2], 5)
           \/ opcode = MULMOD /\ Result(divmod256(mul256(Arg(1), Arg(2)), Arg(3))[2], 8)
    BY <1>8, <1>13 DEF ModularArithmetic
  <2>4. /\ Answers(ADDMOD, Arg(1), Arg(2), Arg(3), divmod256(add256(Arg(1), Arg(2)), Arg(3))[2])
        /\ Answers(MULMOD, Arg(1), Arg(2), Arg(3), divmod256(mul256(Arg(1), Arg(2)), Arg(3))[2])
    BY <2>2, <2>3, AnswerModular
  <2> QED BY <1>2, <2>1, <2>2, <2>3, <2>4
<1>14. CASE Exponent
  <2>1. Executes({EXP}) /\ Result(IF Low(2) = 0 THEN One256 ELSE mul256(Arg(1), Zero256), 10)
    BY <1>14 DEF Exponent
  <2>2. opcode = EXP /\ Pops(opcode) >= 1 /\ Arg(1) \in uint256 /\ Arg(2) \in uint256
    BY <1>4, <1>7, <2>1
  <2>3. Answers(EXP, Arg(1), Arg(2), Arg(3), IF Low(2) = 0 THEN One256 ELSE mul256(Arg(1), Zero256))
    BY <2>2, AnswerSum DEF Low
  <2> QED BY <1>2, <2>1, <2>2, <2>3
<1>15. CASE Compare
  <2>1. CASE Executes({LT, SLT}) /\ Result(Bool256(gt256(Arg(2), Arg(1))), 3)
    <3>1. opcode \in {LT, SLT} /\ Pops(opcode) >= 1 /\ Arg(1) \in uint256 /\ Arg(2) \in uint256
      BY <1>4, <1>7, <2>1
    <3> QED BY <1>2, <2>1, <3>1, AnswerComparison
  <2>2. CASE Executes({GT, SGT}) /\ Result(Bool256(gt256(Arg(1), Arg(2))), 3)
    <3>1. opcode \in {GT, SGT} /\ Pops(opcode) >= 1 /\ Arg(1) \in uint256 /\ Arg(2) \in uint256
      BY <1>4, <1>7, <2>2
    <3> QED BY <1>2, <2>2, <3>1, AnswerComparison
  <2>3. CASE Executes({EQ}) /\ Result(Bool256(equal256(Arg(1), Arg(2))), 3)
    <3>1. opcode = EQ /\ Pops(opcode) >= 1 /\ Arg(1) \in uint256 /\ Arg(2) \in uint256
      BY <1>4, <1>7, <2>3
    <3> QED BY <1>2, <2>3, <3>1, AnswerComparison
  <2>4. CASE Executes({ISZERO}) /\ Result(Bool256(zero256(Arg(1))), 3)
    <3>1. opcode = ISZERO /\ Pops(opcode) >= 1 /\ Arg(1) \in uint256
      BY <1>5, <1>7, <2>4
    <3> QED BY <1>2, <2>4, <3>1, AnswerComparison
  <2> QED BY <1>15, <2>1, <2>2, <2>3, <2>4 DEF Compare
<1>16. CASE BitLogic
  <2>1. CASE Executes({AND}) /\ Result(and256(Arg(1), Arg(2)), 3)
    <3>1. opcode = AND /\ Pops(opcode) >= 1 /\ Arg(1) \in uint256
      BY <1>4, <1>7, <2>1
    <3> QED BY <1>2, <2>1, <3>1, AnswerBits
  <2>2. CASE Executes({OR}) /\ Result(or256(Arg(1), Arg(2)), 3)
    <3>1. opcode = OR /\ Pops(opcode) >= 1 /\ Arg(1) \in uint256
      BY <1>4, <1>7, <2>2
    <3> QED BY <1>2, <2>2, <3>1, AnswerBits
  <2>3. CASE Executes({XOR}) /\ Result(xor256(Arg(1), Arg(2)), 3)
    <3>1. opcode = XOR /\ Pops(opcode) >= 1 /\ Arg(1) \in uint256
      BY <1>4, <1>7, <2>3
    <3> QED BY <1>2, <2>3, <3>1, AnswerBits
  <2>4. CASE Executes({NOT}) /\ Result(not256(Arg(1)), 3)
    <3>1. opcode = NOT /\ Pops(opcode) >= 1 /\ Arg(1) \in uint256
      BY <1>5, <1>7, <2>4
    <3> QED BY <1>2, <2>4, <3>1, AnswerBits
  <2> QED BY <1>16, <2>1, <2>2, <2>3, <2>4 DEF BitLogic
<1>17. CASE Shift
  <2>1. CASE Executes({BYTE}) /\ Result(and256(shiftr256(Arg(2), BytePlace(Arg(1))), LowWord(255)), 3)
    <3>1. opcode = BYTE /\ Pops(opcode) >= 1 /\ Arg(1) \in uint256 /\ Arg(2) \in uint256
      BY <1>4, <1>7, <2>1
    <3> QED BY <1>2, <2>1, <3>1, AnswerShift
  <2>2. CASE Executes({SHL}) /\ Result(shiftl256(Arg(2), ShiftCount(Arg(1))), 3)
    <3>1. opcode = SHL /\ Pops(opcode) >= 1 /\ Arg(1) \in uint256 /\ Arg(2) \in uint256
      BY <1>4, <1>7, <2>2
    <3> QED BY <1>2, <2>2, <3>1, AnswerShift
  <2>3. CASE Executes({SHR, SAR}) /\ Result(shiftr256(Arg(2), ShiftCount(Arg(1))), 3)
    <3>1. opcode \in {SHR, SAR} /\ Pops(opcode) >= 1 /\ Arg(1) \in uint256 /\ Arg(2) \in uint256
      BY <1>4, <1>7, <2>3
    <3> QED BY <1>2, <2>3, <3>1, AnswerShift
  <2> QED BY <1>17, <2>1, <2>2, <2>3 DEF Shift, Low, ShiftCount, BytePlace
<1> QED BY <1>10, <1>11, <1>12, <1>13, <1>14, <1>15, <1>16, <1>17, WhoComputes

\* Each of the 24 arithmetic, comparison, shift and bitwise instructions that
\* comes back replaces its operands on the stack by its answer, for every
\* bytecode and operands of any value, those found below the empty stack too:
\* unsigned arithmetic modulo 2^256, but for EXP, which answers 1 for an exponent
\* with a zero low limb and 0 for all others; MUL is exact exactly when mul256
\* misplaces no carry.
THEOREM InstructionsCompute == Spec => [][Computes]_vars
<1>1. Inv /\ [Next]_vars => [Computes]_vars
  BY StepComputes DEF Next, Terminated
<1> QED BY <1>1, Invariance, PTL DEF Spec

\* The same in both executions of the application, the second of which starts
\* with the memory and the storage that the first one left.
THEOREM AppInstructionsCompute ==
  AppSpec => [][(phase \in {"first", "second"}) => Computes]_appVars
<1>1. AppInv /\ [AppNext]_appVars => [(phase \in {"first", "second"}) => Computes]_appVars
  <2> SUFFICES ASSUME AppInv, AppNext, phase \in {"first", "second"}, status = "run" PROVE Computes
    BY DEF Computes
  <2>1. CASE Execute
    BY <2>1, StepComputes DEF Execute, AppInv
  <2>2. ~(PrintDeployed \/ RunDeployed \/ End \/ AppStopped)
    BY DEF PrintDeployed, RunDeployed, End, AppStopped, Left
  <2> QED BY <2>1, <2>2 DEF AppNext
<1> QED BY <1>1, AppInvariance, PTL DEF AppSpec

==============================================================================
