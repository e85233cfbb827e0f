------------------------------- MODULE Opcodes -------------------------------
(* enum OP_CODE of evm.h: the opcodes that decode_instruction has a case   *)
(* for.  PUSH1, DUP1, SWAP1 and LOG0 begin ranges of 32, 16, 16 and 5.     *)

STOP == 0
ADD == 1
MUL == 2
SUB == 3
DIV == 4
SDIV == 5
MOD == 6
SMOD == 7
ADDMOD == 8
MULMOD == 9
EXP == 10
SIGNEXTEND == 11
SENSOR == 12
LED == 13
TEMPERATURE == 14
LT == 16
GT == 17
SLT == 18
SGT == 19
EQ == 20
ISZERO == 21
AND == 22
OR == 23
XOR == 24
NOT == 25
BYTE == 26
SHL == 27
SHR == 28
SAR == 29
SHA3 == 32
ADDRESS == 48
BALANCE == 49
CALLER == 51
CALLVALUE == 52
CALLDATALOAD == 53
CALLDATASIZE == 54
CALLDATACOPY == 55
CODESIZE == 56
CODECOPY == 57
BLOCKHASH == 64
TIMESTAMP == 66
POP == 80
MLOAD == 81
MSTORE == 82
MSTORE8 == 83
SLOAD == 84
SSTORE == 85
JUMP == 86
JUMPI == 87
JUMPDEST == 91
PUSH1 == 96
DUP1 == 128
SWAP1 == 144
LOG0 == 160
RETURN == 243
REVERT == 253
INVALID == 254
=============================================================================
