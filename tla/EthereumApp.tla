----------------------------- MODULE EthereumApp -----------------------------
(***************************************************************************)
(* Ethereum_App.c: the Contiki process that deploys a contract and runs    *)
(* it.  The constructor is executed first; the bytes it returns have been  *)
(* copied to deployed_contract by the RETURN instruction; they are printed *)
(* and executed by the same machine, of which init_machine resets PC, SP   *)
(* and gas only.  The process yields nowhere in between.                   *)
(***************************************************************************)
EXTENDS EVM

VARIABLES
    phase,      \* "first" and "second" execution, "printed" in between, "done"
    printed     \* the bytes of the listing between the executions

appVars == << code, PC, SP, MEM, words, GAS_Charge, message, max_sp,
              max_mem_offset, max_storage_counter, deployed_contract,
              DeployLength, status, stray, phase, printed >>

Phases == {"first", "printed", "second", "done"}

\* How execute_contract returns to its caller.
Left == {"halt", "return", "error", "gas"}

\* The call of the first execution: init_machine on a static machine, and the
\* message of the constructor.  (The arguments of the call are copied behind
\* message.data, past the end of the machine.)
AppInit == Init /\ phase = "first" /\ printed = << >>

\* A turn of the loop in either execution.
Execute ==
    /\ phase \in {"first", "second"}
    /\ Step
    /\ UNCHANGED << phase, printed >>

\* The listing reads DeployLength bytes, whatever the size of the array.
ListedByte(i) == IF i < DEPLOY_LENGTH THEN deployed_contract[i] ELSE stray

PrintDeployed ==
    /\ phase = "first" /\ status \in Left
    /\ printed' = [i \in 1..DeployLength |-> ListedByte(i - 1)]
    /\ phase' = "printed"
    /\ UNCHANGED vars

\* Mutant: the bytecode of the second execution is the constructor again.
RunDeployed_again ==
    /\ phase = "printed"
    /\ PC' = 0 /\ SP' = 0 /\ GAS_Charge' = 0
    /\ status' = IF Len(code) > 1 THEN "run" ELSE "halt"
    /\ phase' = "second"
    /\ UNCHANGED << code, MEM, words, message, max_sp, max_mem_offset,
                    max_storage_counter, deployVars, stray, printed >>

\* init_machine and the call of the second execution, whose size is that of
\* the array.
RunDeployed ==
    /\ phase = "printed"
    /\ PC' = 0 /\ SP' = 0 /\ GAS_Charge' = 0
    /\ code' = [i \in 1..DEPLOY_LENGTH |-> deployed_contract[i - 1]]
    /\ status' = IF DEPLOY_LENGTH > 1 THEN "run" ELSE "halt"
    /\ phase' = "second"
    /\ UNCHANGED << MEM, words, message, max_sp, max_mem_offset,
                    max_storage_counter, deployVars, stray, printed >>

End ==
    /\ phase = "second" /\ status \in Left
    /\ phase' = "done"
    /\ UNCHANGED << vars, printed >>

\* The process has ended, or an instruction does not come back.
AppStopped ==
    /\ phase = "done" \/ status \in {"hang", "fault"}
    /\ UNCHANGED appVars

AppNext == Execute \/ PrintDeployed \/ RunDeployed \/ End \/ AppStopped

\* Once started the process runs on: it yields nowhere.
AppSpec == AppInit /\ [][AppNext]_appVars
                   /\ WF_appVars(Execute \/ PrintDeployed \/ RunDeployed \/ End)

-----------------------------------------------------------------------------
(* Properties.                                                             *)

\* The loop of the second execution reads the array that RETURN writes to: as
\* long as it runs, the bytecode it reads is the deployed contract.
ExecutesDeployed ==
    phase = "second" /\ status = "run" =>
      /\ Len(code) = DEPLOY_LENGTH
      /\ \A i \in 1..DEPLOY_LENGTH : code[i] = deployed_contract[i - 1]

\* The operands of the RETURN that ended the constructor, still above the top
\* of the stack, and what it returned: the bytes they name if their sum, taken
\* modulo 2^64, lies in MEM, otherwise all of MEM but the last byte.
OffsetOperand == LOWER(LOWER(Slot(SP + 2)))
LengthOperand == LOWER(LOWER(Slot(SP + 1)))
InsideMemory == (OffsetOperand + LengthOperand) % Base <= MEMORY_SPACE
ReturnedOffset == IF InsideMemory THEN OffsetOperand ELSE 0
ReturnedLength == IF InsideMemory THEN LengthOperand ELSE MEMORY_SPACE - 1
ReturnedByte(i) == MachineByte(SP, Place(ReturnedOffset + i))
ConstructorReturned ==
    /\ phase = "printed" /\ status = "return" /\ opcode = RETURN
    /\ SP + 1 >= LowestSlot /\ SP + 2 < STACK_SPACE + STORAGE_SPACE

\* What a constructor returns is what is printed and then executed: the bytes of
\* its operands, followed by nothing but zeros (DeployLength counts the offset,
\* too: the listing goes on for as many zeros).  A RETURN whose operands pass the
\* test by a sum that wraps deploys bytes in front of MEM, those of SP and PC
\* among them, and the listing is as long as the wrapped sum.
DeploysReturned ==
    ConstructorReturned =>
      /\ \A i \in 0..(DEPLOY_LENGTH - 1) :
           IF i >= ReturnedLength % U32 THEN deployed_contract[i] = 0
           ELSE Place(ReturnedOffset + i) >= -Header /\ Place(ReturnedOffset + i) < MemEnd =>
                  deployed_contract[i] = ReturnedByte(i)
      /\ Len(printed) = (ReturnedOffset + ReturnedLength) % Base
      /\ \A i \in 1..Len(printed) : i <= DEPLOY_LENGTH => printed[i] = deployed_contract[i - 1]

NothingWritten == \A i \in 0..(DEPLOY_LENGTH - 1) : deployed_contract[i] = 0

\* A constructor that is left by an error, out of gas, by REVERT, a STOP or
\* its end deploys nothing: the array stays zero.  The second execution then
\* runs over zeros, and it ends behind the first one without touching memory,
\* storage or message.
NothingDeployed ==
    /\ [](phase = "printed" /\ (status = "return" => opcode # RETURN) => NothingWritten)
    /\ [][ phase = "second" /\ NothingWritten =>
             /\ status = "run" => PC = 0 /\ SP = 0
             /\ UNCHANGED << MEM, words, message, deployVars >> ]_appVars

\* The usage statistics and the length of the listing are sizes of memory that
\* the machine has, also when the sums they come from wrapped: the statistic
\* exceeds MEM by a word, or by the longest of the short copies, at most.
UsageBounded ==
    /\ max_mem_offset <= MEMORY_SPACE + Larger(WordBytes, CODECOPY_SHORT)
    /\ DeployLength <= MEMORY_SPACE /\ Len(printed) <= MEMORY_SPACE

\* An SSTORE to key STORAGE_SPACE or a long CODECOPY that lands on GAS_Charge.
SetsOwnGas ==
    /\ status = "run"
    /\ \/ opcode = SSTORE /\ Low(1) = STORAGE_SPACE
       \/ Overruns(GasAt)

\* The process comes to its end, unless an instruction does not come back, an
\* execution goes on through instructions that are not charged for, or the
\* contract sets its own gas counter again and again.
ProcessEnds ==
    \/ <>(phase = "done" \/ status \in {"hang", "fault"})
    \/ <>[][GAS_Charge' = GAS_Charge]_appVars
    \/ []<>SetsOwnGas
=============================================================================
