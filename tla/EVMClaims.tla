------------------------------ MODULE EVMClaims ------------------------------
(***************************************************************************)
(* What comments and messages of the repository say of the machine and the *)
(* code does not do.  Each property is violated by a run of its own.       *)
(***************************************************************************)
EXTENDS EVM

\* "Push x bits into the stack" (eth_vm.c:163): the operand of a PUSH that is
\* executed is the word that its bytes write in big-endian order, the order of
\* readu256BE (uint256.c:39) and of the limbs in all of uint256.c.
PushBigEndian ==
    [][ LET n == opcode - PUSH1 + 1
            B == [i \in Octets |-> IF i < WordBytes - n THEN 0
                                   ELSE code[PC + 2 + i - (WordBytes - n)]]
        IN  Executes(PushOps) /\ PC + n < Len(code) /\ status' # "error" =>
              words'[SP'] = readu256BE(B) ]_vars

\* "[!!!] Fatal error: stack overflow." (eth_vm.c:1351): a full stack is not
\* written to, so that STORAGE changes only by SSTORE.
StorageOnlyBySstore ==
    [][ \A k \in 0..(STORAGE_SPACE - 1) :
          words'[StorageSlot(k)] # words[StorageSlot(k)] => opcode = SSTORE ]_vars

\* "Execute smart contract till end of bytecode / exit or error"
\* (eth_vm.c:68), and "Run out of GAS!" (eth_vm.c:74) otherwise: the execution
\* of every contract comes to an end.
Terminates == <>(status \notin {"run", "hang"})
=============================================================================
