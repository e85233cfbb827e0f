---------------------------- MODULE MCEthereumApp ----------------------------
(* Instances of EthereumApp for TLC: constructors and what they deploy.    *)
EXTENDS EthereumApp

MCMessage == [ call_value |-> LowWord(3), caller |-> LowWord(1),
               address |-> LowWord(2), data |-> [i \in 0..(MESSAGEDATASIZE - 1) |-> i + 7],
               datasize |-> 4, codesize |-> 6 ]

MCDigests == { LowWord(5) }

P(x) == << PUSH1, x >>

\* Copy the body to MEM[dest] and return length bytes from offset on.
Constructor(dest, length, offset, body) ==
    P(4) \o P(12) \o P(dest) \o << CODECOPY >> \o P(length) \o P(offset) \o << RETURN >> \o body

\* Bodies that store, loop, and return to the array they are executed from.
Bodies == [1..4 -> {STOP, CALLER, CALLVALUE, SSTORE, RETURN, JUMP}]
Constructors ==
    { Constructor(0, 4, 0, b) : b \in Bodies }
    \cup { Constructor(d, l, o, b) : d \in {0, 2, 5}, l \in {0, 3, 5, 6}, o \in {0, 1, 2, 8},
                                    b \in { << CALLER, CALLVALUE, SSTORE, RETURN >> } }

\* Every sequence of bytes over pushes, jumps and their operands: constructors
\* that loop, fail, run out of gas or fall off their end.
JumpPrograms == [1..5 -> {PUSH1, 0, 1, JUMP, JUMPI, DUP1, REVERT}]

\* Constructors that return a range outside MEM: their length is the largest
\* limb, and with an offset the sum of the operands wraps.
Huge == P(0) \o << NOT >>
Overreaching ==
    { P(42) \o P(0) \o << MSTORE8 >> \o l \o o \o << RETURN, JUMPDEST >> :
        l \in {Huge, P(3), P(4), P(8)},
        o \in {P(0), P(1), P(2), Huge, P(2) \o << NOT >>, P(3) \o << NOT >>} }

\* A loop that copies zeros of its own bytecode over GAS_Charge.
ResetsGas ==
    { P(66) \o P(0) \o P(0) \o << CODECOPY, PUSH1 + 1, 255, 255, JUMP >> \o [i \in 1..56 |-> 0] }

AppPrograms == Constructors \cup JumpPrograms \cup Overreaching \cup ResetsGas
=============================================================================
