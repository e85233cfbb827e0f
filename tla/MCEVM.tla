-------------------------------- MODULE MCEVM --------------------------------
(* Instances of EVM for TLC: the message and the sets of programs.         *)
EXTENDS EVMClaims

MCMessage == [ call_value |-> LowWord(3), caller |-> << << 1, 2 >>, << 3, 4 >> >>,
               address |-> LowWord(2), data |-> [i \in 0..(MESSAGEDATASIZE - 1) |-> i + 7],
               datasize |-> 4, codesize |-> 6 ]

\* A push of one byte, and of the largest limb.
P(x) == << PUSH1, x >>
Full == << PUSH1 + 1, 255, 255 >>

\* Every opcode byte but the jumps, after pushes that give it operands at the
\* boundaries of MEM, STORAGE, message.data and of a limb.  The trailing bytes
\* let it finish.
OneOp ==
    { z \o y \o x \o << o, JUMPDEST, JUMPDEST, JUMPDEST >> :
        o \in byte \ {JUMP, JUMPI}, x \in {P(0), P(1), P(2), P(3), P(17), P(18), Full},
        y \in {P(0), P(2), P(9), Full}, z \in {P(0), P(1), P(5), Full} }
    \cup { << STOP, o, JUMPDEST, JUMPDEST >> : o \in {STOP, CALLER, JUMPDEST} }
    \cup { << CALLER, o, JUMPDEST >> : o \in byte } \cup { << STOP >>, << CALLER >> }

\* Jumps, taken or not, to a byte behind the jump, in front of it or outside
\* the code (a loop would run on until the gas is used up).
Branches ==
    { P(c) \o d \o << o, JUMPDEST, JUMPDEST, JUMPDEST >> :
        c \in {0, 1}, d \in {P(0), P(3), P(4), P(6), P(9), Full}, o \in {JUMP, JUMPI} }

MCDigests == { LowWord(5) }

\* Every sequence of four instructions that fill, empty, permute and store the
\* words of the stack, on an empty stack and on one that has room for two more;
\* ISZERO makes the keys 0 and 1.
StackOps == {CALLER, NOT, ISZERO, DUP1 + 1, SWAP1 + 1, POP, SSTORE, SLOAD, MSTORE}
StackPrograms ==
    { p \o s \o << JUMPDEST, JUMPDEST >> :
        p \in { << >>, << CALLER, CALLER, ISZERO >> }, s \in [1..4 -> StackOps] }

\* Copies of the bytecode that end in STACK[0], in a live word, in STORAGE, in
\* GAS_Charge, in the message, at the end of the machine and behind it, and then an
\* instruction that reads what they left.
LongCopies ==
    { << CALLER >> \o P(n - d) \o P(0) \o P(d) \o << CODECOPY, o, JUMPDEST, JUMPDEST >> :
        n \in {21, 27, 35, 58, 67, 74, 75, 76, 80, 100, 104, 108, 110, 111}, d \in {0, 17},
        o \in {NOT, ISZERO, SLOAD, MLOAD, CALLVALUE, CALLDATASIZE, CODESIZE, CALLDATALOAD, JUMP} }

\* A copy over PC (which goes on behind it, or ends) and SP: to the empty stack,
\* below it, to the full stack, to the end of STORAGE, to GAS_Charge and outside the
\* machine; and then an instruction.
HeaderCopies ==
    { << PUSH1 + 3, pc, 0 >> \o sp \o P(4) \o P(1) \o P(3) \o
        << NOT, CALLDATACOPY, o, JUMPDEST, JUMPDEST >> :
        pc \in {12, 99},
        sp \in { << 0, 0 >>, << 1, 0 >>, << 5, 0 >>, << 6, 0 >>, << 7, 0 >>, << 0, 127 >>,
                 << 255, 255 >>, << 254, 255 >>, << 253, 255 >>, << 252, 255 >>, << 0, 128 >> },
        o \in {ADD, NOT, POP, CALLER, PUSH1, DUP1, DUP1 + 1, SWAP1, SWAP1 + 1, SWAP1 + 6, SSTORE,
               MSTORE, MLOAD, RETURN, SHA3, CODECOPY, JUMPI, STOP} }

EVMPrograms == OneOp \cup Branches \cup StackPrograms \cup LongCopies \cup HeaderCopies

\* Every sequence of bytes over pushes, jumps and their operands.
JumpPrograms == [1..5 -> {PUSH1, 0, 1, JUMP, JUMPI, DUP1, JUMPDEST}]

\* Pushes of three bytes, which reach beyond the low limb.
WideOps == { << PUSH1 + 2 >> \o s \o << JUMPDEST, JUMPDEST >> : s \in [1..3 -> {0, 1, 2}] }
=============================================================================
