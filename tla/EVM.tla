--------------------------------- MODULE EVM ---------------------------------
(***************************************************************************)
(* eth_vm.c: the virtual machine of TinyEVM.                               *)
(*                                                                         *)
(* One step is one turn of the while loop of execute_contract: the         *)
(* instruction at PC is decoded and executed (decode_instruction), max_sp  *)
(* is updated, PC is advanced and the conditions for another turn are      *)
(* tested.  Each family of cases of the switch is an action.               *)
(*                                                                         *)
(* struct machine (evm.h) is laid out as PC, SP, MEM, padding, STACK,      *)
(* STORAGE, GAS_Charge, padding, message.  Several bounds checks of the    *)
(* code let an access run over the end of an array into its neighbours;    *)
(* the model follows it through the whole machine:                         *)
(*   - STACK and STORAGE are one array of words here: STACK[i] is words[i] *)
(*     and STORAGE[k] is words[STACK_SPACE + k], so STACK[STACK_SPACE] is  *)
(*     STORAGE[0];                                                         *)
(*   - MEM includes the padding that aligns STACK; the slots in front of   *)
(*     STACK[0], which a pop of an empty stack reads and a later push      *)
(*     writes, are the end of MEM, and the bytes in front of MEM are those *)
(*     of PC and SP;                                                       *)
(*   - STORAGE[STORAGE_SPACE] is GAS_Charge, its padding and the first     *)
(*     three limbs of message.call_value.                                  *)
(* Behind the machine and in front of it lies memory of the rest of the    *)
(* program.  A byte read there is a stray one, any of StrayBytes; a write  *)
(* there ends the model in the status "fault".                             *)
(***************************************************************************)
EXTENDS UInt256, Opcodes

CONSTANTS
    MEMORY_SPACE,       \* bytes of MEM, 8089 in evm.h
    STACK_SPACE,        \* words of STACK, 96
    STORAGE_SPACE,      \* words of STORAGE, 64
    MESSAGEDATASIZE,    \* bytes of message.data, 9
    GAS_LIMIT,          \* 16000000
    DEPLOY_LENGTH,      \* bytes of deployed_contract, 3000 in Ethereum_App.c
    U32,                \* number of values of a uint32_t, 2^32
    IntBytes,           \* bytes of a uint32_t and of an int, 4
    SHA3_LIMIT,         \* longest input SHA3 accepts, 256
    CODECOPY_SHORT,     \* CODECOPY copies fewer bytes than this by limbs, 100
    Programs,           \* the bytecodes that may be executed
    Message,            \* the message the machine starts with
    StrayBytes,         \* what bytes outside the machine and the bytecode may hold
    Digests,            \* results of get_keccak256 (external here)
    Times               \* values of RTIMER_NOW()

LB == LimbBits \div 8   \* bytes of a limb, 8
WordBytes == 4 * LB     \* sizeof(uint256_t), 32
byte == 0..255

\* Where the members of struct machine begin, in bytes from MEM[0]: PC and SP
\* in front of it, the others behind it, aligned as their types demand.
Aligned(at, size) == at + ((-at) % size)
Header == 2 * IntBytes
MemEnd == Aligned(MEMORY_SPACE, LB)
SlotAt(i) == MemEnd + WordBytes * i
GasAt == SlotAt(STACK_SPACE + STORAGE_SPACE)
MessageAt == GasAt + Aligned(IntBytes, LB)
DataAt == MessageAt + 3 * WordBytes
SizesAt == Aligned(DataAt + MESSAGEDATASIZE, IntBytes)
MachineEnd == Aligned(SizesAt + 2 * IntBytes, LB)

\* The lowest slot of STACK that lies in MEM.
LowestSlot == -(MemEnd \div WordBytes)

MessageType ==
    [ call_value : uint256, caller : uint256, address : uint256,
      data : [0..(MESSAGEDATASIZE - 1) -> byte],
      datasize : 0..(U32 - 1), codesize : 0..(U32 - 1) ]

ASSUME EVMAssumption ==
    /\ LB \in Nat \ {0} /\ LimbBits = 8 * LB
    /\ 256^0 = 1 /\ \A j \in 0..(LB - 1) : 256^j \in Nat /\ 256^(j + 1) = 256 * 256^j
    /\ IntBytes \in 1..LB /\ Header % LB = 0
    /\ 256^LB = Base /\ 256^IntBytes = U32
    /\ MEMORY_SPACE \in Nat \ {0} /\ Header + MachineEnd < U32
    /\ (MemEnd % WordBytes) + Header < WordBytes  \* no slot begins with PC or SP
    /\ STACK_SPACE \in Nat \ {0} /\ STORAGE_SPACE \in Nat \ {0}
    /\ STORAGE_SPACE < Base
    /\ MESSAGEDATASIZE \in Nat /\ DEPLOY_LENGTH \in Nat \ {0}
    /\ SHA3_LIMIT \in Nat /\ CODECOPY_SHORT \in Nat
    /\ GAS_LIMIT \in Nat /\ U32 \in Nat /\ U32 > GAS_LIMIT + 20000 /\ Base % U32 = 0
    /\ Programs \subseteq Seq(byte) \ { << >> }
    /\ Message \in MessageType
    /\ StrayBytes \subseteq byte /\ Digests \subseteq uint256 /\ Times \subseteq uint64
    /\ StrayBytes # {} /\ Digests # {} /\ Times # {}

VARIABLES
    code,                 \* s_contract, the bytecode being executed
    PC, SP,               \* program counter and stack pointer (index of the top)
    MEM,                  \* MEM and its padding
    words,                \* STACK followed by STORAGE
    GAS_Charge,
    message,
    max_sp,               \* the usage statistics, globals of eth_vm.c
    max_mem_offset,
    max_storage_counter,
    deployed_contract,    \* globals of Ethereum_App.c, set by RETURN
    DeployLength,
    status,               \* "run", or how execute_contract was left
    stray                 \* a byte outside the machine, anew in every turn

memVars == << MEM, max_mem_offset >>
deployVars == << deployed_contract, DeployLength >>
vars == << code, PC, SP, MEM, words, GAS_Charge, message, max_sp,
           max_mem_offset, max_storage_counter, deployed_contract,
           DeployLength, status, stray >>

Slots == 0..(STACK_SPACE + STORAGE_SPACE - 1)
StorageSlot(k) == STACK_SPACE + k

\* "halt": end of the bytecode or a STOP; "return": RETURN or REVERT;
\* "error": decode_instruction returned -1; "gas": GAS_LIMIT exceeded;
\* "hang": a division loop that never ends; "fault": an access outside the
\* machine that may end the program.
Statuses == {"run", "halt", "return", "error", "gas", "hang", "fault"}

-----------------------------------------------------------------------------
(* Bytes.  A word is copied to and from memory limb by limb in the order   *)
(* of the struct, each limb little-endian (the target is an ARM core).     *)

\* Byte i of a word in memory.
ByteOf(w, i) == (Limbs(w)[i \div LB + 1] \div 256^(i % LB)) % 256

Octets == 0..(WordBytes - 1)

\* Byte j of a uint32_t in memory.
IntByte(x, j) == (x \div 256^j) % 256

\* The number that the bytes G[0] .. G[n - 1] write in either order.
LittleEndian(G, n) ==
    LET sum[k \in 0..n] == IF k = 0 THEN 0 ELSE sum[k - 1] + G[k - 1] * 256^(k - 1)
    IN  sum[n]
BigEndian(G, n) == LittleEndian([j \in 0..(n - 1) |-> G[n - 1 - j]], n)

\* The limb of bytes LB * k .. LB * k + LB - 1 of B in either order.
Group(B, k) == [j \in 0..(LB - 1) |-> B[LB * k + j]]
LimbLE(B, k) == LittleEndian(Group(B, k), LB)
LimbBE(B, k) == BigEndian(Group(B, k), LB)

\* The word whose bytes in memory are B[0], B[1], ...
WordOf(B) == << << LimbLE(B, 0), LimbLE(B, 1) >>, << LimbLE(B, 2), LimbLE(B, 3) >> >>

\* readu256BE: the word that B[0], B[1], ... write in big-endian order.
readu256BE(B) == << << LimbBE(B, 0), LimbBE(B, 1) >>, << LimbBE(B, 2), LimbBE(B, 3) >> >>

\* A limb as a word (LOWER(LOWER(w)) = x, the other limbs zero).
LowWord(x) == << Zero128, << 0, x >> >>

\* Byte i of the bytecode (addresses have 32 bits); the rest is something else.
CodeByte(i) == IF i % U32 < Len(code) THEN code[(i % U32) + 1] ELSE stray

-----------------------------------------------------------------------------
(* The machine as bytes: what is read, and what a copy of bytes changes.   *)

MessageWords == << message.call_value, message.caller, message.address >>

\* The byte at this distance from MEM[0] while SP holds sp.
MachineByte(sp, at) ==
    CASE at \in (-Header)..(-IntBytes - 1) -> IntByte(PC, at + Header)
      [] at \in (-IntBytes)..(-1) -> IntByte(sp % U32, at + IntBytes)
      [] at \in 0..(MemEnd - 1) -> MEM[at]
      [] at \in MemEnd..(GasAt - 1) ->
           ByteOf(words[(at - MemEnd) \div WordBytes], (at - MemEnd) % WordBytes)
      [] at \in GasAt..(GasAt + IntBytes - 1) -> IntByte(GAS_Charge, at - GasAt)
      [] at \in MessageAt..(DataAt - 1) ->
           ByteOf(MessageWords[(at - MessageAt) \div WordBytes + 1],
                  (at - MessageAt) % WordBytes)
      [] at \in DataAt..(DataAt + MESSAGEDATASIZE - 1) -> message.data[at - DataAt]
      [] at \in SizesAt..(SizesAt + IntBytes - 1) -> IntByte(message.datasize, at - SizesAt)
      [] at \in (SizesAt + IntBytes)..(SizesAt + Header - 1) ->
           IntByte(message.codesize, at - SizesAt - IntBytes)
      [] OTHER -> stray

\* The word that is read at STACK[i] while SP holds sp.
WordAt(sp, at) == WordOf([j \in Octets |-> MachineByte(sp, at + j)])
Slot(i) == IF i \in Slots THEN words[i] ELSE WordAt(i, SlotAt(i))

\* A memcpy is the function of the bytes it writes by their distance from MEM[0].
\* What it leaves of a byte, a word and an integer stored at a place:
Patched(copy, at, old) == IF at \in DOMAIN copy THEN copy[at] ELSE old
Touches(copy, at, size) == DOMAIN copy \cap at..(at + size - 1) # {}
NewWord(copy, at, w) ==
    IF Touches(copy, at, WordBytes)
    THEN WordOf([j \in Octets |-> Patched(copy, at + j, ByteOf(w, j))]) ELSE w
NewInt(copy, at, x) ==
    IF Touches(copy, at, IntBytes)
    THEN LittleEndian([j \in 0..(IntBytes - 1) |-> Patched(copy, at + j, IntByte(x, j))], IntBytes)
    ELSE x

\* The value of an int.
Signed(x) == IF x >= U32 \div 2 THEN x - U32 ELSE x

\* A word to be copied to a place.
WordCopy(to, w) == [at \in to..(to + WordBytes - 1) |-> ByteOf(w, at - to)]

\* Mutant: the copy is one byte too long.
CodeBytes_inclusive(to, n, from) == [at \in to..(to + n) |-> CodeByte(from + (at - to))]

\* A run of bytecode to be copied to a place.
CodeBytes(to, n, from) == [at \in to..(to + n - 1) |-> CodeByte(from + (at - to))]

\* What a copy does to MEM and to the words behind it.
MemWrite(copy) ==
    /\ MEM' = [i \in DOMAIN MEM |-> Patched(copy, i, MEM[i])]
    /\ words' = [i \in Slots |-> NewWord(copy, SlotAt(i), words[i])]

NewMessage(copy) ==
    [ call_value |-> NewWord(copy, MessageAt, message.call_value),
      caller     |-> NewWord(copy, MessageAt + WordBytes, message.caller),
      address    |-> NewWord(copy, MessageAt + 2 * WordBytes, message.address),
      data       |-> [i \in 0..(MESSAGEDATASIZE - 1) |->
                        Patched(copy, DataAt + i, message.data[i])],
      datasize   |-> NewInt(copy, SizesAt, message.datasize),
      codesize   |-> NewInt(copy, SizesAt + IntBytes, message.codesize) ]

-----------------------------------------------------------------------------
(* The stack.  SP is the index of the top; slot 0 is the slot of an empty  *)
(* stack, and pops of an empty stack take SP below it.                     *)

\* Number of stack_pop calls of an opcode (JUMPI's condition included).
Pop1 == {ISZERO, NOT, CALLDATALOAD, POP, MLOAD, SLOAD, JUMP}
Pop2 == {ADD, MUL, SUB, DIV, SDIV, MOD, SMOD, EXP, LT, GT, SLT, SGT, EQ, AND, OR,
         XOR, BYTE, SHL, SHR, SAR, SHA3, MSTORE, MSTORE8, SSTORE, JUMPI, RETURN, REVERT}
Pop3 == {ADDMOD, MULMOD, CALLDATACOPY, CODECOPY}
Pops(op) == IF op \in Pop1 THEN 1 ELSE IF op \in Pop2 THEN 2
            ELSE IF op \in Pop3 THEN 3 ELSE 0

\* The n-th word popped by the current instruction, and its low limb.
Arg(n) == Slot(SP - (n - 1))
Low(n) == LOWER(LOWER(Arg(n)))

\* STACK[i] = item, and SP = i.  The first conjunct is the C type.
StoreTop(i, item) ==
    /\ item \in uint256
    /\ SP' = i
    /\ \/ i \in Slots /\ words' = [words EXCEPT ![i] = item] /\ UNCHANGED MEM
       \/ i \in LowestSlot..(-1) /\ \E w \in {item} : MemWrite(WordCopy(SlotAt(i), w))

\* Mutants: the bound of the full stack is off by one; the word is stored before
\* the stack pointer is advanced.
stack_push_over(sp, item) ==
    IF sp > STACK_SPACE
    THEN SP' = sp /\ UNCHANGED << MEM, words >>
    ELSE StoreTop(sp + 1, item)
stack_push_post(sp, item) ==
    IF sp >= STACK_SPACE
    THEN SP' = sp /\ UNCHANGED << MEM, words >>
    ELSE SP' = sp + 1 /\ words' = [words EXCEPT ![sp] = item] /\ UNCHANGED MEM

\* stack_push when the stack pointer is sp.
stack_push(sp, item) ==
    IF sp >= STACK_SPACE
    THEN SP' = sp /\ UNCHANGED << MEM, words >>
    ELSE StoreTop(sp + 1, item)

\* n calls of stack_pop and nothing pushed.
Popped(n) == SP' = SP - n

-----------------------------------------------------------------------------
(* The rest of the loop body of execute_contract.                          *)

Larger(x, y) == IF x > y THEN x ELSE y

\* Mutants: the charge replaces the counter; the counter is too narrow to
\* reach the limit.
Charge_assign(gas) == GAS_Charge' = gas
Charge_narrow(gas) == GAS_Charge' = (GAS_Charge + gas) % GAS_LIMIT

Charge(gas) == GAS_Charge' = (GAS_Charge + gas) % U32

\* May the loop make another turn with this PC and this gas?
LoopStatus(pc, gas) ==
    IF pc >= Len(code) - 1 \/ code[pc + 1] = STOP THEN "halt"
    ELSE IF gas > GAS_LIMIT THEN "gas" ELSE "run"

\* Mutants: PC is wider than 32 bits; PC is not advanced.
Continue_wide(pc) ==
    /\ PC' = pc + 1
    /\ max_sp' = Larger(max_sp, SP')
    /\ status' = LoopStatus(PC', GAS_Charge')
    /\ stray' \in StrayBytes
    /\ UNCHANGED code
Continue_stay(pc) ==
    /\ PC' = pc % U32
    /\ max_sp' = Larger(max_sp, SP')
    /\ status' = LoopStatus(PC', GAS_Charge')
    /\ stray' \in StrayBytes
    /\ UNCHANGED code

\* decode_instruction returned 0 and left PC = pc.
Continue(pc) ==
    /\ PC' = (pc + 1) % U32
    /\ max_sp' = Larger(max_sp, SP')
    /\ status' = LoopStatus(PC', GAS_Charge')
    /\ stray' \in StrayBytes
    /\ UNCHANGED code

\* decode_instruction returned RETURN or -1.
Leave(how) ==
    /\ status' = how
    /\ max_sp' = Larger(max_sp, SP')
    /\ stray' \in StrayBytes
    /\ UNCHANGED << code, PC, GAS_Charge >>

\* The instruction does not return.
Stuck(how) ==
    /\ status' = how
    /\ stray' \in StrayBytes
    /\ UNCHANGED << code, PC, SP, MEM, words, GAS_Charge, message, max_sp,
                    max_mem_offset, max_storage_counter, deployed_contract,
                    DeployLength >>

-----------------------------------------------------------------------------
(* The instructions.                                                       *)

opcode == code[PC + 1]

PushOps == PUSH1..(PUSH1 + WordBytes - 1)
DupOps == DUP1..(DUP1 + 15)
SwapOps == SWAP1..(SWAP1 + 15)

Executes(ops) == status = "run" /\ opcode \in ops

\* A pop, or a DUP, of a slot that is not inside the machine may fault.
Outside(i) == SlotAt(i) < -Header \/ SlotAt(i + 1) > MachineEnd
Reads == IF opcode \in DupOps THEN {SP - (opcode - DUP1)} \cap Nat
         ELSE {SP - n : n \in 0..(Pops(opcode) - 1)}
StackUnderrun ==
    /\ status = "run"
    /\ \E i \in Reads : Outside(i)
    /\ Stuck("fault")

\* Frames: what an instruction that only touches the stack (or nothing of the
\* message, the storage counter, the deployed contract) leaves alone.  MEM is
\* not among them: a push below slot 0 lands there.
OnlyStack == UNCHANGED << max_mem_offset, message, max_storage_counter, deployVars >>
OnlyMemory == UNCHANGED << message, max_storage_counter, deployVars >>

\* STOP is decoded only as the first instruction (the loop ends in front of
\* any other); shutdown_machine resets the machine and execution goes on.
Stop ==
    /\ Executes({STOP})
    /\ SP' = 0 /\ GAS_Charge' = 0
    /\ Continue(0)
    /\ UNCHANGED << MEM, words >> /\ OnlyStack

\* The operand of a push of n bytes: it is read in four big-endian groups, and
\* the second and the third go to each other's limb.
PushItem(n) ==
    LET B == [i \in Octets |-> IF i < WordBytes - n THEN 0
                               ELSE CodeByte(PC + 1 + i - (WordBytes - n))]
    IN  << << LimbBE(B, 0), LimbBE(B, 2) >>, << LimbBE(B, 1), LimbBE(B, 3) >> >>

\* PUSH1 .. PUSH32.  The bound compares slots with bytes.  A slot in front of
\* MEM is outside the machine.
Push ==
    /\ Executes(PushOps)
    /\ LET n == opcode - PUSH1 + 1
       IN  \/ /\ SP + n >= STACK_SPACE
              /\ UNCHANGED << SP, MEM, words >>
              /\ Leave("error")
              /\ OnlyStack
           \/ /\ SP + n < STACK_SPACE
              /\ StoreTop(SP + 1, PushItem(n))
              /\ Charge(2)
              /\ Continue(PC + n)
              /\ OnlyStack
           \/ SP + 1 < LowestSlot /\ Stuck("fault")

\* The instructions that pop their operands and push one result: the result,
\* the gas charged, and the next instruction.
Result(item, gas) ==
    \/ /\ stack_push(SP - Pops(opcode), item)
       /\ Charge(gas)
       /\ Continue(PC)
       /\ OnlyStack
    \/ SP - Pops(opcode) + 1 < LowestSlot /\ Stuck("fault")

\* ADD, MUL, SUB.
Arithmetic ==
    \/ Executes({ADD}) /\ Result(add256(Arg(1), Arg(2)), 3)
    \/ Executes({MUL}) /\ Result(mul256(Arg(1), Arg(2)), 5)
    \/ Executes({SUB}) /\ Result(minus256(Arg(1), Arg(2)), 0)

\* DIV passes NULL for the remainder: storing it goes through, or faults.
Divide ==
    /\ Executes({DIV})
    /\ \/ Result(IF zero256(Arg(2)) THEN Zero256 ELSE divmod256(Arg(1), Arg(2))[1], 5)
       \/ ~zero256(Arg(2)) /\ Stuck("fault")

\* SDIV, MOD, SMOD: unsigned, and without a test for zero.
DivideUnchecked ==
    /\ Executes({SDIV, MOD, SMOD})
    /\ IF zero256(Arg(2)) THEN Stuck("hang")
       ELSE Result(divmod256(Arg(1), Arg(2))[IF opcode = SDIV THEN 1 ELSE 2], 5)

\* ADDMOD, MULMOD: the sum and the product are 256 bits wide.
ModularArithmetic ==
    /\ Executes({ADDMOD, MULMOD})
    /\ IF zero256(Arg(3)) THEN Stuck("hang")
       ELSE \/ /\ opcode = ADDMOD
               /\ Result(divmod256(add256(Arg(1), Arg(2)), Arg(3))[2], 5)
            \/ /\ opcode = MULMOD
               /\ Result(divmod256(mul256(Arg(1), Arg(2)), Arg(3))[2], 8)

\* EXP multiplies by an accumulator that starts at, and stays, zero.
Exponent ==
    /\ Executes({EXP})
    /\ Result(IF Low(2) = 0 THEN One256 ELSE mul256(Arg(1), Zero256), 10)

Bool256(p) == IF p THEN One256 ELSE Zero256

\* LT, GT, SLT, SGT, EQ, ISZERO; the signed comparisons are the unsigned ones.
Compare ==
    \/ Executes({LT, SLT}) /\ Result(Bool256(gt256(Arg(2), Arg(1))), 3)
    \/ Executes({GT, SGT}) /\ Result(Bool256(gt256(Arg(1), Arg(2))), 3)
    \/ Executes({EQ}) /\ Result(Bool256(equal256(Arg(1), Arg(2))), 3)
    \/ Executes({ISZERO}) /\ Result(Bool256(zero256(Arg(1))), 3)

\* AND, OR, XOR, NOT.
BitLogic ==
    \/ Executes({AND}) /\ Result(and256(Arg(1), Arg(2)), 3)
    \/ Executes({OR}) /\ Result(or256(Arg(1), Arg(2)), 3)
    \/ Executes({XOR}) /\ Result(xor256(Arg(1), Arg(2)), 3)
    \/ Executes({NOT}) /\ Result(not256(Arg(1)), 3)

\* BYTE, SHL, SHR, SAR (a logical shift); counts are taken modulo 2^32.
Shift ==
    \/ /\ Executes({BYTE})
       /\ LET count == (Bits256 - 8 - (Low(1) % U32) * 8) % U32
          IN  Result(and256(shiftr256(Arg(2), count), LowWord(255)), 3)
    \/ Executes({SHL}) /\ Result(shiftl256(Arg(2), Low(1) % U32), 3)
    \/ Executes({SHR, SAR}) /\ Result(shiftr256(Arg(2), Low(1) % U32), 3)

-----------------------------------------------------------------------------
(* Memory.                                                                 *)

MLoad ==
    /\ Executes({MLOAD})
    /\ \/ /\ Low(1) > MEMORY_SPACE
          /\ Popped(1) /\ UNCHANGED << MEM, words >>
          /\ Charge(3)
          /\ Continue(PC)
          /\ OnlyStack
       \/ /\ Low(1) <= MEMORY_SPACE
          /\ Result(WordAt(SP - 1, Low(1)), 3)

\* The usage statistic is updated only while it is below one word.
MStore ==
    /\ Executes({MSTORE})
    /\ Popped(2)
    /\ IF Low(1) > MEMORY_SPACE
       THEN UNCHANGED << memVars, words >>
       ELSE /\ MemWrite(WordCopy(Low(1), Arg(2)))
            /\ max_mem_offset' = IF WordBytes > max_mem_offset
                                 THEN Low(1) + WordBytes ELSE max_mem_offset
    /\ Charge(3)
    /\ Continue(PC)
    /\ OnlyMemory

MStore8 ==
    /\ Executes({MSTORE8})
    /\ Popped(2)
    /\ IF Low(1) > MEMORY_SPACE
       THEN UNCHANGED << MEM, words >>
       ELSE MemWrite([at \in {Low(1)} |-> Low(2) % 256])
    /\ Charge(3)
    /\ Continue(PC)
    /\ UNCHANGED max_mem_offset /\ OnlyMemory

\* CALLDATACOPY copies from the bytecode, not from message.data.  The tests are
\* made on sums that wrap; memcpy takes the low 32 bits of the length.  What it
\* copies ends where the first sum says, so that a copy longer than that begins
\* in front of MEM, in SP and PC (after the three pops).
CopyEnd == (Low(1) + Low(3)) % Base
CopyStart == CopyEnd - (Low(3) % U32)

CallDataCopy ==
    /\ Executes({CALLDATACOPY})
    /\ LET skipped == CopyEnd > MEMORY_SPACE \/ (Low(2) + Low(3)) % Base > MESSAGEDATASIZE
           copy == CodeBytes(CopyStart, Low(3) % U32, Low(2))
       IN  \/ /\ skipped
              /\ Popped(3) /\ UNCHANGED << memVars, words >>
              /\ Charge(2)
              /\ Continue(PC)
              /\ OnlyMemory
           \/ /\ ~skipped /\ CopyStart >= -Header
              /\ SP' = IF Touches(copy, -IntBytes, IntBytes)
                       THEN Signed(NewInt(copy, -IntBytes, (SP - 3) % U32)) ELSE SP - 3
              /\ MemWrite(copy)
              /\ max_mem_offset' = Larger(max_mem_offset, CopyEnd)
              /\ Charge(2)
              /\ Continue(NewInt(copy, -Header, PC))
              /\ OnlyMemory
           \/ ~skipped /\ CopyStart < -Header /\ Stuck("fault")

\* CODECOPY tests the destination's start only.  A short copy walks over the
\* bytecode a word at a time but stores every limb at the same place, so that
\* the last limb of the last word is what remains.  A long one is a memcpy, over
\* STACK, STORAGE, GAS_Charge and message.
LongCopy == opcode = CODECOPY /\ Low(1) <= MEMORY_SPACE /\ Low(3) >= CODECOPY_SHORT
LongCopyEnd == Low(1) + (Low(3) % U32)

CodeCopy ==
    /\ Executes({CODECOPY})
    /\ LET chunks == (Low(3) + WordBytes - 1) \div WordBytes
           last == Low(2) + WordBytes * chunks - 1
           limb == [at \in Low(1)..(Low(1) + LB - 1) |-> CodeByte(last - (at - Low(1)))]
           copy == CodeBytes(Low(1), Low(3) % U32, Low(2))
       IN  \/ /\ ~LongCopy
              /\ Popped(3)
              /\ IF Low(1) > MEMORY_SPACE THEN UNCHANGED << memVars, words >>
                 ELSE /\ max_mem_offset' = Larger(max_mem_offset, Low(1) + Low(3))
                      /\ IF Low(3) = 0 THEN UNCHANGED << MEM, words >> ELSE MemWrite(limb)
              /\ Charge(2)
              /\ Continue(PC)
              /\ OnlyMemory
           \/ /\ LongCopy /\ LongCopyEnd <= MachineEnd
              /\ Popped(3)
              /\ MemWrite(copy)
              /\ message' = NewMessage(copy)
              /\ GAS_Charge' = (NewInt(copy, GasAt, GAS_Charge) + 2) % U32
              /\ Continue(PC)
              /\ UNCHANGED << max_mem_offset, max_storage_counter, deployVars >>
           \/ LongCopy /\ LongCopyEnd > MachineEnd /\ Stuck("fault")

\* SHA3 hashes 32 bytes whatever the length.  A shorter buffer is overrun on
\* the C stack: the hash is pushed all the same, or the call faults.
Sha3 ==
    /\ Executes({SHA3})
    /\ \/ /\ Low(2) > SHA3_LIMIT
          /\ Popped(2) /\ Leave("error")
          /\ UNCHANGED << MEM, words >> /\ OnlyStack
       \/ /\ Low(2) <= SHA3_LIMIT
          /\ \E digest \in Digests : Result(digest, 0)
       \/ Low(2) < WordBytes /\ Low(2) <= SHA3_LIMIT /\ Stuck("fault")

-----------------------------------------------------------------------------
(* Storage.  The key is tested with > STORAGE_SPACE, so that STORAGE_SPACE *)
(* itself passes: that word is GAS_Charge (and its padding) followed by    *)
(* three limbs of message.call_value.                                      *)

\* Mutant: a key outside STORAGE wraps around instead of being rejected.
sstore_key_wrapped == Low(1) % STORAGE_SPACE

sstore_key == Low(1)

SStore ==
    /\ Executes({SSTORE})
    /\ Popped(2)
    /\ max_storage_counter' = max_storage_counter + 1
    /\ LET key == sstore_key
           value == Limbs(Arg(2))
           cv == message.call_value
       IN  \/ /\ key < STORAGE_SPACE
              /\ words' = [words EXCEPT ![StorageSlot(key)] = Arg(2)]
              /\ Charge(20000) /\ UNCHANGED message
           \/ /\ key = STORAGE_SPACE
              /\ GAS_Charge' = (value[1] + 20000) % U32
              /\ message' = [message EXCEPT !.call_value =
                               << << value[2], value[3] >>, << value[4], LOWER(LOWER(cv)) >> >>]
              /\ UNCHANGED words
           \/ /\ key > STORAGE_SPACE
              /\ Charge(20000) /\ UNCHANGED << words, message >>
    /\ Continue(PC)
    /\ UNCHANGED << memVars, deployVars >>

SLoad ==
    /\ Executes({SLOAD})
    /\ \/ /\ Low(1) > STORAGE_SPACE
          /\ Popped(1) /\ UNCHANGED << MEM, words >>
          /\ Charge(0)
          /\ Continue(PC)
          /\ OnlyStack
       \/ /\ Low(1) <= STORAGE_SPACE
          /\ Result(Slot(StorageSlot(Low(1))), 0)

-----------------------------------------------------------------------------
(* The message and the environment.                                        *)

\* ADDRESS, CALLER, CALLVALUE, CALLDATASIZE, CODESIZE, BLOCKHASH.
PushMessage ==
    \/ Executes({ADDRESS}) /\ Result(message.address, 2)
    \/ Executes({CALLER}) /\ Result(message.caller, 2)
    \/ Executes({CALLVALUE}) /\ Result(message.call_value, 2)
    \/ Executes({CALLDATASIZE}) /\ Result(LowWord(message.datasize), 0)
    \/ Executes({CODESIZE}) /\ Result(LowWord(message.codesize), 0)
    \/ Executes({BLOCKHASH}) /\ Result(Zero256, 0)

Timestamp == Executes({TIMESTAMP}) /\ \E time \in Times : Result(LowWord(time), 0)

\* CALLDATALOAD: offset 0 yields the function selector (half a limb) in the
\* most significant limb; another offset a word, whose bytes behind data[] are
\* the sizes and what follows the machine; an offset behind data[] nothing.
CallDataLoad ==
    /\ Executes({CALLDATALOAD})
    /\ LET offset == Low(1) % U32
           selector == [i \in Octets |-> IF i < LB \div 2 /\ i < MESSAGEDATASIZE
                                         THEN message.data[i] ELSE 0]
       IN  \/ /\ offset > MESSAGEDATASIZE
              /\ Popped(1) /\ UNCHANGED << MEM, words >>
              /\ Charge(0)
              /\ Continue(PC)
              /\ OnlyStack
           \/ offset = 0 /\ Result(<< << LimbBE(selector, 0), 0 >>, Zero128 >>, 0)
           \/ /\ offset \in 1..MESSAGEDATASIZE
              /\ Result(readu256BE([i \in Octets |-> MachineByte(SP - 1, DataAt + offset + i)]), 0)

-----------------------------------------------------------------------------
(* Stack instructions, jumps, no-ops.                                      *)

Pop ==
    /\ Executes({POP})
    /\ Popped(1) /\ UNCHANGED << MEM, words >>
    /\ Charge(2)
    /\ Continue(PC)
    /\ OnlyStack

\* DUP1 .. DUP16: ignored when the slot does not exist or the stack is full.
Dup ==
    /\ Executes(DupOps)
    /\ LET index == SP - (opcode - DUP1)
       IN  \/ /\ index < 0
              /\ UNCHANGED << SP, MEM, words >>
              /\ Charge(0)
              /\ Continue(PC)
              /\ OnlyStack
           \/ index >= 0 /\ Result(Slot(index), 0)

\* SWAP1 .. SWAP16: ignored when the other slot does not exist.  That slot keeps
\* SP at most 16 above STACK_SPACE, inside the 64 words of STORAGE; where STORAGE
\* is smaller the model does not go on.
Swap ==
    /\ Executes(SwapOps)
    /\ LET other == SP - (opcode - SWAP1 + 1)
       IN  \/ /\ other \notin 0..STACK_SPACE \/ SP \in Slots
              /\ words' = IF other < 0 \/ other > STACK_SPACE THEN words
                          ELSE [words EXCEPT ![SP] = words[other], ![other] = words[SP]]
              /\ UNCHANGED << SP, MEM >>
              /\ Charge(0)
              /\ Continue(PC)
              /\ OnlyStack
           \/ other \in 0..STACK_SPACE /\ SP \notin Slots /\ Stuck("fault")

\* JUMP and JUMPI set PC to any destination, then PC is advanced past it; the
\* condition is the low limb only.
Jump ==
    /\ Executes({JUMP, JUMPI})
    /\ Popped(Pops(opcode)) /\ UNCHANGED << MEM, words >>
    /\ Charge(0)
    /\ Continue(IF opcode = JUMP \/ Low(2) # 0 THEN Low(1) % U32 ELSE PC)
    /\ OnlyStack

\* Instructions without effect in this build (SIGNEXTEND is charged for).
NoOp ==
    /\ Executes({SENSOR, TEMPERATURE, LED, SIGNEXTEND, BALANCE, JUMPDEST, INVALID}
                    \cup LOG0..(LOG0 + 4))
    /\ UNCHANGED << SP, MEM, words >>
    /\ Charge(IF opcode = SIGNEXTEND THEN 5 ELSE 0)
    /\ Continue(PC)
    /\ OnlyStack

-----------------------------------------------------------------------------
(* Leaving the contract.                                                   *)

\* What RETURN copies: its operands, or almost all of MEM when they lie
\* outside it (the test is made on a sum that wraps).
ReturnOutside == (Low(1) + Low(2)) % Base > MEMORY_SPACE
ReturnOffset == IF ReturnOutside THEN 0 ELSE Low(1)
ReturnLength == IF ReturnOutside THEN MEMORY_SPACE - 1 ELSE Low(2)

\* The place of MEM[offset] when addresses have 32 bits.
Place(offset) == ((offset + Header) % U32) - Header

\* The byte at MEM[offset] after the two pops of RETURN.
ReturnByte(offset) == MachineByte(SP - 2, Place(offset))
NewDeployed(offset) ==
    [i \in DOMAIN deployed_contract |->
        IF i < ReturnLength % U32 THEN ReturnByte(offset + i) ELSE deployed_contract[i]]

\* Mutants: the copy to deployed_contract starts at MEM[0]; the length is kept
\* as it is on the stack; RETURN does not leave the contract.
Return_from_start ==
    /\ Executes({RETURN})
    /\ Popped(2)
    /\ DeployLength' = (ReturnOffset + ReturnLength) % Base
    /\ deployed_contract' = NewDeployed(0)
    /\ Leave("return")
    /\ UNCHANGED << memVars, words, message, max_storage_counter >>
Return_untested ==
    /\ Executes({RETURN})
    /\ Popped(2)
    /\ DeployLength' = Low(2)
    /\ deployed_contract' = NewDeployed(ReturnOffset)
    /\ Leave("return")
    /\ UNCHANGED << memVars, words, message, max_storage_counter >>
Return_and_go_on ==
    /\ Executes({RETURN})
    /\ Popped(2)
    /\ DeployLength' = (ReturnOffset + ReturnLength) % Base
    /\ deployed_contract' = NewDeployed(ReturnOffset)
    /\ Charge(0)
    /\ Continue(PC)
    /\ UNCHANGED << memVars, words, message, max_storage_counter >>

\* RETURN copies memory to an array on the C stack, sized by the sum that was
\* tested, from there to deployed_contract, and leaves.  Nothing compares the
\* length with the size of either array: with a sum that wraps the copy begins
\* in front of MEM and is longer than the array on the C stack, and one longer
\* than DEPLOY_LENGTH runs into the memory behind deployed_contract.  Either may
\* end the program.
Return ==
    /\ Executes({RETURN})
    /\ \/ /\ Popped(2)
          /\ DeployLength' = (ReturnOffset + ReturnLength) % Base
          /\ deployed_contract' = NewDeployed(ReturnOffset)
          /\ Leave("return")
          /\ UNCHANGED << memVars, words, message, max_storage_counter >>
       \/ /\ ReturnOffset + ReturnLength >= Base \/ ReturnLength > DEPLOY_LENGTH
          /\ Stuck("fault")

\* REVERT leaves like RETURN and undoes nothing; with an offset outside MEM it
\* is skipped.  A length beyond MEM is copied to the C stack, or faults.
Revert ==
    /\ Executes({REVERT})
    /\ \/ /\ Low(1) > MEMORY_SPACE
          /\ Popped(2)
          /\ Charge(3)
          /\ Continue(PC)
          /\ UNCHANGED << MEM, words >> /\ OnlyStack
       \/ /\ Low(1) <= MEMORY_SPACE
          /\ Popped(2)
          /\ Leave("return")
          /\ UNCHANGED << MEM, words >> /\ OnlyStack
       \/ /\ Low(1) <= MEMORY_SPACE /\ Low(1) + Low(2) > MEMORY_SPACE
          /\ Stuck("fault")

Implemented ==
    0..14 \cup 16..29 \cup {SHA3, ADDRESS, BALANCE} \cup 51..57
      \cup {BLOCKHASH, TIMESTAMP} \cup 80..87 \cup {JUMPDEST} \cup PushOps
      \cup DupOps \cup SwapOps \cup LOG0..(LOG0 + 4)
      \cup {RETURN, REVERT, INVALID}

\* The default case.
Unsupported ==
    /\ status = "run" /\ opcode \notin Implemented
    /\ UNCHANGED << SP, MEM, words >>
    /\ Leave("error")
    /\ OnlyStack

-----------------------------------------------------------------------------
\* init_machine: only PC, SP and GAS_Charge; the rest of the machine is static
\* memory, zero when the program starts.
Init ==
    /\ code \in Programs
    /\ PC = 0 /\ SP = 0 /\ GAS_Charge = 0
    /\ MEM = [i \in 0..(MemEnd - 1) |-> 0]
    /\ words = [i \in Slots |-> Zero256]
    /\ message = Message
    /\ max_sp = 0 /\ max_mem_offset = 0 /\ max_storage_counter = 0
    /\ deployed_contract = [i \in 0..(DEPLOY_LENGTH - 1) |-> 0]
    /\ DeployLength = 0
    /\ status = IF Len(code) > 1 THEN "run" ELSE "halt"
    /\ stray \in StrayBytes

Step ==
    \/ Stop \/ Push \/ Arithmetic \/ Divide \/ DivideUnchecked
    \/ ModularArithmetic \/ Exponent \/ Compare \/ BitLogic \/ Shift
    \/ MLoad \/ MStore \/ MStore8 \/ CallDataCopy \/ CodeCopy \/ Sha3
    \/ SStore \/ SLoad \/ PushMessage \/ Timestamp \/ CallDataLoad
    \/ Pop \/ Dup \/ Swap \/ Jump \/ NoOp \/ Return \/ Revert
    \/ Unsupported \/ StackUnderrun

\* execute_contract has been left.
Terminated == status # "run" /\ UNCHANGED vars

Next == Step \/ Terminated

\* The loop runs as long as it can: nothing else runs in the Contiki process.
Spec == Init /\ [][Next]_vars /\ WF_vars(Step)

-----------------------------------------------------------------------------
(* Properties.                                                             *)

\* The types of the C declarations (evm.h, eth_vm.c, Ethereum_App.c).
TypeOK ==
    /\ code \in Seq(byte)
    /\ PC \in 0..(U32 - 1)
    /\ SP \in Int
    /\ MEM \in [0..(MemEnd - 1) -> byte]
    /\ words \in [Slots -> uint256]
    /\ GAS_Charge \in 0..(U32 - 1)
    /\ message \in MessageType
    /\ max_sp \in Int /\ max_mem_offset \in Nat /\ max_storage_counter \in Nat
    /\ deployed_contract \in [0..(DEPLOY_LENGTH - 1) -> byte]
    /\ DeployLength \in Nat
    /\ status \in Statuses
    /\ stray \in StrayBytes

\* Bytecode in which a copy cannot reach the stack pointer (a byte CALLDATACOPY
\* may be an operand, and then be jumped to).
NoHeaderCopy == \A i \in 1..Len(code) : code[i] # CALLDATACOPY

\* No sequence of pushes, of the two bounds checks and of the checks of DUP and
\* SWAP takes the stack pointer above STACK_SPACE, from however far below the
\* empty stack it comes; only a copy over SP itself can.  And max_sp, printed as
\* the stack usage, is a size never below the stack pointer.
StackBounded ==
    /\ NoHeaderCopy => SP <= STACK_SPACE
    /\ SP <= max_sp /\ 0 <= max_sp

\* The long copy of CODECOPY reaches the byte at this distance from MEM[0].
Overruns(at) == LongCopy /\ LongCopyEnd > at

\* Gas is only ever added to, at most sstoreSetGas (20000) per instruction,
\* and the uint32_t never wraps; except by a leading STOP, which resets the
\* machine, by an SSTORE to key STORAGE_SPACE, which lands on GAS_Charge, and by
\* a CODECOPY that runs over all of STACK and STORAGE.
GasStep ==
    \/ GAS_Charge' - GAS_Charge \in 0..20000
    \/ opcode = STOP /\ PC = 0 /\ GAS_Charge' = 0
    \/ opcode = SSTORE /\ Low(1) = STORAGE_SPACE
    \/ Overruns(GasAt)
GasAccounting == [][GasStep]_vars

\* A word of STORAGE changes only by an SSTORE to its key or a CODECOPY that runs
\* up to it; except that STORAGE[0] is also the word that the stack overruns into
\* when it is full, and a SWAP reaches further once a copy has moved SP.
StorageStep ==
    \A k \in 0..(STORAGE_SPACE - 1) :
      words'[StorageSlot(k)] # words[StorageSlot(k)] =>
        \/ opcode = SSTORE /\ Low(1) = k
        \/ Overruns(SlotAt(StorageSlot(k)))
        \/ k = 0 /\ SP' = STACK_SPACE
        \/ opcode \in SwapOps /\ SP > STACK_SPACE
StorageIntegrity == [][StorageStep]_vars

\* A byte of MEM changes only by an instruction that stores to a range it lies
\* in, or by a push onto a stack that was popped below slot 0, in whose new top
\* it lies.
StoredTo(i) ==
    \/ opcode = MSTORE /\ i - Low(1) \in 0..(WordBytes - 1)
    \/ opcode = MSTORE8 /\ i = Low(1)
    \/ opcode = CODECOPY /\ Low(3) < CODECOPY_SHORT /\ i - Low(1) \in 0..(LB - 1)
    \/ LongCopy /\ i \in Low(1)..(LongCopyEnd - 1)
    \/ opcode = CALLDATACOPY /\ i \in CopyStart..(CopyEnd - 1)
MemoryStep ==
    \A i \in 0..(MemEnd - 1) :
      MEM'[i] # MEM[i] =>
        \/ StoredTo(i)
        \/ SP' < 0 /\ i - SlotAt(SP') \in 0..(WordBytes - 1)
MemoryIntegrity == [][MemoryStep]_vars

\* A CALLDATACOPY that begins in front of MEM: it may set SP and PC.
CopiesHeader == opcode = CALLDATACOPY /\ CopyEnd <= MEMORY_SPACE /\ CopyStart < 0

\* Every instruction treats the words of the stack as a stack: the overrun of a
\* memory store into STACK[0], the word shared with STORAGE and the pops and
\* pushes below slot 0 never disturb a live word that the instruction does not
\* take.  A CODECOPY that runs beyond STACK[0] does, and a CALLDATACOPY over SP.
liveStack == [i \in 1..(IF SP > STACK_SPACE THEN STACK_SPACE ELSE SP) |-> words[i]]
Operand == INSTANCE StackSpec WITH Word <- uint256, Depth <- STACK_SPACE, stack <- liveStack
StackDiscipline ==
    /\ Operand!Init
    /\ [][ Operand!Next \/ Overruns(SlotAt(1)) \/ CopiesHeader \/ SP > STACK_SPACE ]_liveStack

\* A contract without a byte that can set PC back (a jump, or a CALLDATACOPY over
\* PC) is left after finitely many steps: PC grows with every instruction, a
\* leading STOP included.
SetsPC == {JUMP, JUMPI, CALLDATACOPY}
StraightLine == \A i \in 1..Len(code) : code[i] \notin SetsPC
StraightLineEnds == StraightLine ~> status # "run"

=============================================================================
