# TinyEVM: a TLA+ verification project

TinyEVM is an Ethereum virtual machine for Contiki-NG nodes. Its own code is the
directory `contiki-ng/Ethereum-vm-256` (about 2 800 lines of C and headers); the
rest of the repository is a copy of the Contiki-NG operating system with its
drivers, tools and simulator. This project models all of the first directory that
computes, and the part of the second that it runs on: the process kernel, the main
loop, event timers and the clock interrupt of the target. Paths below are relative
to `contiki-ng/Ethereum-vm-256`, or to `contiki-ng` where they begin with `os` or
`arch`.

## Inventory

| Component | State | Operations | Correct when |
|---|---|---|---|
| Virtual machine, `eth_vm.c`, `evm.h` | `struct machine`: PC, SP, MEM, STACK, STORAGE, GAS_Charge, message; the globals max_sp, max_mem_offset, max_storage_counter | `execute_contract` (the loop), `decode_instruction` (one case per opcode), `init_machine`, `shutdown_machine`, `stack_push`, `stack_pop` | SP does not pass the top of STACK; live operands are disturbed by nothing else; STORAGE changes by SSTORE, MEM by stores to it; gas only grows and is enforced; executions end; where a bounds test is too weak, exactly what it lets through |
| 256-bit arithmetic, `uint256.c`, `uint256.h` | none (pure functions over four 64-bit limbs) | compare, add, subtract, and/or/xor/not, shift, bit length, multiply, divide, read big-endian, numerals | each function is the arithmetic on numbers modulo 2^256; division returns |
| Application, `Ethereum_App.c` | the machine, deployed_contract, DeployLength | set up the message, run the constructor, print what it returned, run that | the second run executes what the first returned, and changes nothing when it returned nothing |
| Keccak-256, `keccak256.c` | sponge state, rest counter, block buffer | init, update, final, the permutation | the digest depends on the concatenated input only, and is Keccak's |
| SHA-3, `sha3.c` | sponge state, position | init, update, final, xof, out, the permutation; nothing calls it | the same, and output in pieces is output in one |
| Process kernel, `os/sys/process.c`, main loop, `os/contiki-main.c` | list of processes with state and poll flag, ring of events, poll_requested, process_current | `process_start`, `process_exit`, `process_post`, `process_post_synch`, `process_poll`, `process_run` | events come in order, none is overwritten; no poll is lost; process_current is the running process; the list stays a list |
| Event timers, `os/sys/etimer.c`, `os/sys/timer.c`, tick, `arch/cpu/cc2538/clock.c` | list of timers with owner, start and interval; next_expiration; the clock | set, reset, restart, adjust, stop; the thread of `etimer_process`; the tick | a timer that expires is posted to its owner, whatever the queue and the interrupts do |
| Sample contracts (`*.sol`, `bytecode.h`) | data | | |
| Rest of Contiki-NG | | | not used by the application |

Interaction: `main` starts `etimer_process` and the autostarted process of
`Ethereum_App.c`, which calls `execute_contract` twice; that calls
`decode_instruction` for the byte at PC, which calls the stack operations, the
functions of `uint256.c` and `get_keccak256`, and writes `deployed_contract` on
RETURN. A contract runs to its end without yielding. Nothing is persisted.

The hard behaviour of the virtual machine is *sequences and boundaries*: one flat
struct in which an array bound off by one reaches the neighbouring array, bounds
tests that wrap or test only the first byte, long runs of legal instructions that
fill or empty the stack, carries between limbs, and loops that need not end. The
hard behaviour of the operating system is *nesting and interrupts*: threads that
call threads while a list is being walked, and interrupts that request a poll at
any moment. `PROJECT.json` lists the places under `hazards`.

## Modules

| Module | Models |
|---|---|
| `UInt256` | the functions of `uint256.c` as operators on pairs of pairs of limbs; the limb width is the constant `LimbBits` (64 in the code) |
| `UIntStrings` | `divmod128`, `tostring128`, `tostring256` |
| `UInt256Numbers` | the moduli of the C types, the laws of powers of two that the proofs use |
| `UInt256Inputs` | the operands the functions are checked with |
| `UInt256Ref` | every pair of operands, and each function compared with arithmetic on numbers |
| `UInt256Lemmas` | what each function of `uint256.c` computes, as lemmas about the values of any words |
| `UInt256Proofs` | the theorems about `UInt256Ref` and `DivMod256`; `divmod128` and numerals |
| `NumberLemmas` | facts about natural numbers that several proofs need: induction over sets, products and quotients, digits, columns, loops that add up |
| `LongDivision` | binary long division of natural numbers: the algorithm of `divmod256` |
| `LongDivisionProofs`, `MCLongDivision` | its proofs, its TLC instance |
| `DivMod256` | `divmod256` turn by turn on limbs, shown to carry out `LongDivision` |
| `Opcodes` | `enum OP_CODE` |
| `EVM` | the virtual machine |
| `StackSpec` | what instructions may do to an operand stack, whatever they compute |
| `EVMClaims` | what comments and messages say of the machine and the code does not do |
| `MCEVM` | programs and a message for TLC |
| `EVMProofs` | proofs about the machine and the application |
| `EthereumApp` | the process of `Ethereum_App.c`: two executions of `EVM` |
| `MCEthereumApp` | its TLC instance |
| `Sponge` | what a Keccak hash promises: a result of the concatenated input |
| `Keccak256`, `SHA3` | the streaming interfaces of `keccak256.c` and `sha3.c` over an uninterpreted permutation |
| `HashStreams`, `HashStreamsProofs` | both fed with the same chunks, and shown to implement `Sponge`; the proofs |
| `KeccakF`, `MCKeccakF` | the permutation in both implementations and in FIPS 202, step by step; messages |
| `KeccakFProofs` | proof that both are the permutation of FIPS 202, on every state |
| `Process` | the process kernel and the main loop |
| `ETimer` | event timers and the tick, on top of `Process`: a complete system |
| `BoundedFifo` | what the ring of events promises |
| `MCETimer` | the TLC instance |
| `ETimerProofs` | proofs about types, process_current, the ring of events, the linked lists, polls and timers |

### EVM and the code

A step is one turn of the loop of `execute_contract`: decode and execute the
instruction at PC, update max_sp, advance PC, test for STOP, then test the end of
the bytecode and the gas for the next turn (`Continue`, `LoopStatus`). An
instruction that returns RETURN or -1 leaves the loop (`Leave`). The cases of the
switch are grouped into one action per family (`Arithmetic`, `Compare`, `Push`,
`Dup`, ...); `Result` is the shape shared by all of them that pop operands, push
one result and charge gas. `status` is "run" or how the loop was left:

* "halt" (end of bytecode, STOP), "return", "error", "gas";
* "hang": a division loop that does not end (SDIV, MOD, SMOD, ADDMOD, MULMOD by
  zero; `DivMod256` shows the loop itself);
* "fault": a write outside of the machine, or one of the program's other undefined
  behaviours (a C array on the stack overrun by SHA3, RETURN or REVERT, the NULL
  remainder of DIV) that ended the program. It is a sink. Where the C code may as
  well come back, both outcomes are steps of the model.

The layout of `struct machine` is part of the model, because the code's bounds
tests let accesses run over the end of an array. The model follows them through the
whole struct, byte by byte: `MachineByte` is the byte at a distance from MEM[0] in
either direction, and a `memcpy` is a function from such distances to bytes
(`CodeBytes`, `WordCopy`), applied to MEM and `words` by `MemWrite`, to GAS_Charge
and PC by `NewInt`, to the message by `NewMessage`.

* STACK and STORAGE are one array `words`; STACK[STACK_SPACE] is STORAGE[0], and
  `stack_push` writes it (its test precedes the increment);
* MEM is followed by padding and then by STACK[0]; a 32-byte store at the end of
  MEM changes both. Slot 0 is never an operand that was pushed, so live operands
  survive: that is part of `StackDiscipline`;
* a long CODECOPY tests its destination's start only and runs over live operands,
  STORAGE, GAS_Charge and the message; execution goes on with what it left. Beyond
  the end of the machine it faults;
* `stack_pop` tests nothing: SP falls below slot 0, the words popped there are the
  end of MEM (`Slot`), and a push from there writes into MEM (`StoreTop`). In front
  of MEM lie SP and PC; a pop in front of the machine reads stray bytes or faults,
  a push there faults;
* CALLDATACOPY and RETURN test sums modulo 2^64. With an offset just below 2^64 and
  a small length the sum passes: CALLDATACOPY writes bytes over SP and PC
  (`CopyStart`), RETURN deploys them (`Place`, `ReturnByte`) and leaves the wrapped
  sum in DeployLength;
* STORAGE[STORAGE_SPACE] passes the key test of SSTORE and SLOAD; it is
  GAS_Charge, its padding and three limbs of message.call_value.

A memory cell holds a byte and a word is stored limb by limb, each limb
little-endian, as `memcpy` does on the ARM target; CODECOPY, CALLDATALOAD and PUSH
read big-endian. A byte that is read outside of the machine and of the bytecode, or
from the padding behind GAS_Charge and message.data (which the model does not
keep), is `stray`, any value of `StrayBytes`, chosen anew in every turn. The Keccak digest is any member of `Digests`,
the clock any member of `Times`. Unsigned C integers wrap: limbs modulo `Base`, PC
and GAS_Charge modulo `U32`.

Not followed: a stack pointer of about +-2^27 and beyond, which only a CALLDATACOPY
over SP can set and whose slots wrap around the 32-bit address space into the
machine again; the model takes them for outside. And a SWAP above the end of
`words`, which needs a STORAGE of fewer than 16 words (the code has 64).

The conjunct `item \in uint256` in `StoreTop` is the C type of the value written. It never disables an action: the
runs check for deadlock, and a running machine without a successor would be one.

### EthereumApp and the code

`phase` says where the process stands: "first" execution, "printed" (after the
listing), "second" execution, "done". `Execute` is a turn of the loop in either
execution. `PrintDeployed` reads DeployLength bytes, also beyond the array;
`RunDeployed` is `init_machine`, which resets PC, SP and gas only, with
`deployed_contract` as the bytecode and the size of the array as its length.
`code` is a copy of the array that the loop reads. `ExecutesDeployed` is what makes
the copy right: RETURN is the only instruction that writes the array, and it ends
the loop.

### UInt256 and the code

A C function that fills `*target` is an operator that returns the value. The
thresholds 64, 128, 256 are `LimbBits`, `Bits128`, `Bits256`. The loops of
`bits128`, `bits256` and `divmod256` are recursive functions. The bitwise operators
work on the sets of one bits of their operands (`Ones`, `LimbOf`). `DivMod256` models
`divmod256` as a state machine as well, with the code before the loop in two steps
so that the alignment and its correction can be looked at separately. A numeral is
the sequence of the values of its digits with the place of its NUL, or refused.

### Process, ETimer and the code

Processes are protothreads: a thread runs until it returns to `call_process`. The
C call stack above `main` is the variable `stack`, a sequence of frames, the
executing one last: a thread, a loop over the process list with its cursor
(`do_poll`, the broadcast of `do_event`, the two loops of `exit_process`), or a
`process_post_synch` that will restore process_current. One step of a loop is one
action, so that an interrupt may come between any two, and the threads that a loop
calls may change the list it walks. Lists are a head and a function `next`, as in
the code; `Members` follows the links.

The threads of applications are not known. While a thread of an application is
executing it may make any call of `process.h` or `etimer.h`, or return, yielding
or ending. How many calls and of which kinds is fixed by one of `Profiles`; this
bounds the state space and nothing else. The thread of `etimer_process` is modelled
statement by statement (`Start`, `DropHead`, `DropNext`, `ScanTimer`, `Expire`,
...). `PollInterrupt` is a driver that polls a process, `ClockInterrupt` the tick.

`main` (the variable) is the place in the loop of `contiki-main.c`. It may fall
asleep with a poll requested, when an interrupt comes between the last check of
pending events and the wfi instruction (`lpm.c:308`); the next interrupt wakes it.

`AutoStart` begins with `etimer_process`, which `main` starts before the applications
(`contiki-main.c:76`): its place in the list decides when it is told of an exit.
`lag` counts ticks since `etimer_process` last looked at its timers. `late` are the
timers that a process set while it was off the list or while an `exit_process` of it
was under way (from its last event), which nobody drops; `TimersOfLiving` leaves
these out by name. It also allows for a
process that, told of an exit, exits the same process again: that takes it off the
list before `etimer_process` has been told and has dropped its timers.

### Keccak256, SHA3 and the code

In the streaming modules a byte is the set of its bits and the permutation is not
interpreted: a state is the sequence of blocks absorbed into the zero state, and a
byte of output is a place in such a state. So two results are equal only when the
same blocks were absorbed, and `KeccakIsSponge` and `Sha3IsSponge` say that these
are the blocks of the padded concatenation. The buffer of `keccak256.c` keeps the
bytes of earlier blocks, as in the code; a chunk may be aligned or not, which
decides whether its blocks go through the buffer.

`KeccakF` has the permutation at its full size: 25 lanes, a lane the set of its one
bits, both implementations and the standard side by side.

## Runs

Passing:

| Run | Instance | Shows |
|---|---|---|
| `uint256_ref` | four limbs of 2 bits, all 65 536 pairs; radices 0, 1, 2, 3, 17, buffers of 0 to 8 places | each function agrees with arithmetic on numbers; `mul256` exactly when its third column does not carry; numerals are those of the number or refused |
| `long_division` | numbers below 64 | loop invariant, unique quotient, the weight is never shifted out early |
| `divmod256` | four limbs of 2 bits, all pairs, zero divisors included | the limb loop takes exactly the steps of `LongDivision`; divisor and weight stay in step; a nonzero divisor returns |
| `evm` | every opcode byte with three operands at the boundaries and with too few; jumps; all sequences of four of nine stack, storage and memory instructions, from the empty stack down into MEM and up to the full one; code copies that end in each member of the machine and behind it; copies over PC and SP; five slots | types, stack bound, gas, storage, memory and stack discipline: for every instruction what it may overwrite, with the exceptions that the bounds tests let through named in the property |
| `app` | constructors that copy and return every body of four bytes over six opcodes, with offsets and lengths at the bounds of MEM and deployed_contract, outside of MEM, and with sums that wrap and pass the test; a loop that copies zeros over its gas; all bytecodes of five bytes over PUSH1, 0, 1, JUMP, JUMPI, DUP1, REVERT | what is returned is what is printed and executed; the usage statistics and the listing stay within MEM; after a constructor that returned nothing the second execution changes nothing; a bytecode without jumps ends; the process ends, or from some point on runs through free instructions only, or keeps setting its own gas counter |
| `contiki` | two applications, two timers, a queue of two events, a clock of five values | lists, polls, events, process_current and timers, under every nesting of calls and every placing of interrupts that the profiles allow |
| `keccak_stream` | blocks of 4 and 6 bytes, messages of up to 9 bytes in every division into chunks, 13 bytes of output in every division into calls | both implementations are a sponge over the concatenation |
| `keccak_permutation` | full size; messages with a last byte in each lane, and those with known digests | every step of every round is that of FIPS 202; three published digests |

Expected violations, each a disagreement between the code and what it says:

| Run | Shows |
|---|---|
| `uint256_mul` | `mul256` adds the carry of its third column two limbs too high (`uint256.c:444`) |
| `claim_push_big_endian` | a push wider than a limb swaps the two middle limbs (`eth_vm.c:250`) |
| `claim_storage_only_by_sstore` | a push onto a full stack overwrites STORAGE[0] (`eth_vm.c:1306`) |
| `claim_terminates` | a loop of jumps is charged no gas and never ends (`eth_vm.c:1148`) |

**Bounds.** Two bits are the smallest limb with two halves (`mul128` splits limbs);
every carry, borrow and shift boundary between limbs and halves occurs. The
machine uses 16-bit limbs (two bytes, the smallest with a byte order) and U32 =
2^16, so that a limb holds a whole PC as in the code. STACK, STORAGE, MEM and
message.data are a few cells long, with operands at, below and above each bound;
MEMORY_SPACE = 17 leaves padding in front of STACK, as 8089 does. GAS_LIMIT =
30000 in `evm` admits one SSTORE and stops after the second; 20 in `app` is reached
by pushes and jumps and exceeded by a single SSTORE. DEPLOY_LENGTH = 5 in `app` is
smaller than MEM (7), as in the code, so that a RETURN may be too long for it.
`ProcessEnds` allows a contract that sets its gas counter again and again, by an
SSTORE to key STORAGE_SPACE or by a long CODECOPY; the instance has one that does
the latter for ever (`ResetsGas`). That nothing else escapes the gas limit is
proved (`ProcessAdvances`).

For `contiki`: NUMEVENTS = 2 is the smallest ring that wraps with an event left in
it and is filled by a timer and a message. Period = 5 (the values of
clock_time_t) with ClockStart = 4 lets the clock wrap at the first tick; intervals
0 and 1 and a shift of 1 keep expirations well inside the period, as the code
requires (a timer further in the past than the period allows is taken for one in
the future). MaxLag = 1: a processor that is awake gets to `etimer_process` within
a tick, long before the clock has gone round; one that sleeps has a lag of two. The
profiles name which calls are combined: start and exit with polls or with
synchronous events, four calls; start, posts and polls; setting timers with posts
that fill the queue; setting timers with start and exit, so that two processes have
timers and one of them is exited; setting timers with reset, restart, adjust and
stop, three calls each. Polls and starts are of `App` processes only.

For `keccak_stream`: nine bytes are two blocks of four and one more; six and four
do not divide each other, so that the two implementations meet their block
boundaries at different places; 13 bytes of output are two blocks of six and one
more. Two byte values, one with the bits that the padding sets, tell bytes of the
message from padding and from each other.

No variable is capped beyond the code's own widths and these bounds.

**Fairness.** `EVM`, `EthereumApp`, `DivMod256`: the loop goes on as long as it can
(a process is not preempted by another one, and interrupts return). The claim that
every contract terminates is refuted under this fairness. `ETimer`:
WF(Processor), main and threads run on and a thread returns in the end, and
WF(ClockInterrupt), the clock ticks. The former is a demand on applications; a
contract that loops (`claim_terminates`) does not meet it, and then no timer of the
node fires any more.

**Deadlock** is checked in every run of the machine, the application, `DivMod256`,
`HashStreams` and the kernel. It is not checked in `UInt256Ref`, `LongDivision` and
`KeccakF`, whose behaviours end by design.

## Proofs

All proofs hold for every value of the constants that satisfies the named
assumptions; TLC evaluates these on each run.

* `UInt256Lemmas`, `UInt256Proofs` (assumptions `LimbBitsAssumption`: a limb is two halves;
  `InputLimbsAssumption`: operands are words; `PowersAssumption`: 2^(n+1) = 2 * 2^n
  up to the width of a word, which the SMT backend cannot compute for a
  symbolic exponent; for numerals `NumeralsAssumption`: a radix that has digits is
  a limb, and the same law for its powers; `U32MaxAssumption`: the unsigned offset of
  `tostring` is wider than any numeral is long). Every argument is made once for two digits in a base h and
  used twice, for the limbs of a `uint128` and for the halves of a `uint256`. The first
  module is about any words, so that the proofs of the machine use it too.
  * `ComparisonIsNumeric`, `AdditionIsModular`: a wrapped sum is below an operand
    exactly when it wrapped, so carries and borrows recovered by comparison are right.
  * `ShiftsAreNumeric`: a shift by n splits into whole digits and less than one digit,
    and what crosses from one digit to the other does not overlap what stays.
  * `Multiplication128IsModular`, `Multiplication256UnlessCarry`: the products of
    digits are added column by column (`ProductColumns`). For `mul256` the carry u of
    the third column enters two limbs too high, an error of u * (B^3 - B^2) with
    u <= 2, which is neither zero nor a multiple of B^4. So the result is right
    exactly when u = 0: the theorem bounds the finding of `uint256_mul` as well.
  * `DivTypeCorrect`, `DivisorInStep`, `DivisionKeepsInvariant`,
    `DivisionIsLongDivision` are about `divmod256`. The
    inductive invariant says that at some bit k the weight is 2^k, the divisor 2^k * y,
    the quotient a multiple of 2^(k+1) and the remainder below 2 * 2^k * y. All four
    are needed: `or256` adds the weight to the quotient only because their bits do not
    meet, the shift of the divisor loses nothing only because the bit lengths aligned
    it, and the last turn is recognised by k = 0. What the loop then does is
    `LongDivision` on the values, whose own theorem gives the quotient.
  * `DivisionAdvances`: with a nonzero divisor the weight is at least one and halves in
    each turn, so that the loop turns at most `Bits256` times. `Returns` is this and
    fairness. `ZeroDivisorNeverReturns`: with a zero divisor neither the early return
    nor the exit of the loop is ever taken; this justifies the status "hang" of `EVM`.
  * `DivisionIsExact` (`DivModCorrect`) is about the division as the function that
    every other module calls. The while loop is a recursive function over all states of
    its locals, of which some never leave it; that such a function exists is proved
    first (`LoopExists`: the least relation between states and results), then that
    the weight falls in each turn from a state the code reaches. `divmod128` does on
    limbs what `divmod256` does on words whose upper half is zero (`Extend`,
    `StepExtend`, `AlignExtend`), so it needs no second invariant.
  * `NumeralsAreExact` (`NumeralsExact`): what is left after i divisions is
    v div radix^i (`Digits`), so the loop ends within the bits of the word (`Ends`),
    the remainders read backwards give v again, the first of them is not zero, and the
    numeral fits an array of L digits exactly when v < radix^L.
* `LongDivisionProofs` (numbers are natural). `LoopInvariantHolds`: dividend =
  quotient * divisor + remainder, and the remainder is below twice the divisor at
  its current weight, or below the divisor. It is inductive as stated.
  `DivisionIsCorrect` adds that the quotient is unique, `WeightAlwaysLasts` that
  every turn decides a bit.
* `EVMProofs` (assumption `EVMAssumption`: the layout constants are natural and
  positive, the machine fits the address space, an integer is no wider than a limb
  and no stack slot begins with PC or SP, as in the code's layout; an SSTORE over the
  limit fits the gas counter, the start message has its type; the laws of `256^j`,
  which the SMT backend cannot compute for a symbolic exponent; and
  `PowersAssumption` where instructions are compared with numbers, which TLC
  evaluates on the runs of the arithmetic, the powers of a word of 16-bit limbs being
  too large for it). `TypeCorrect`, `StackStaysBounded`, `GasIsAccounted`,
  `StorageIsIntact`, `MemoryIsIntact`, `StackIsDisciplined`. The inductive invariant
  is TypeOK, StackBounded and `FetchGuarded` (a running machine is at an instruction
  of its bytecode and within the gas limit): types need the fetch guard (the opcode
  is a byte of the code), and the stack bound needs both. That bytes patched into
  words and integers give words and integers of the right width again is a lemma
  about `LittleEndian` (`LittleEndianType`), so that copies over the machine keep types.
  The step is one lemma per action; they share lemmas about `Continue`, `Leave`,
  `Charge`, `StoreTop` and `MemWrite`. Gas, storage and memory are action properties
  that follow from the invariant action by action. `StackBounded` bounds SP from
  above only, because nothing in the code bounds it from below, and only in bytecode
  without a byte CALLDATACOPY. `StackIsDisciplined` is the refinement of `StackSpec`:
  each action has one of a few shapes on the slots 1..SP (`StackShape`: takes so many,
  replaces so many by one, exchanges two, clears all), pushes below slot 0 leave the
  live stack empty, and a short store that runs over the end of MEM reaches slot 0
  only, which is no operand. The steps it excepts are a CODECOPY that runs beyond
  STACK[0], a CALLDATACOPY that begins in front of MEM, and what happens once that
  has put SP above the stack.
  * `InstructionsCompute`: each of the 24 instructions from ADD to EXP and from LT to
    SAR that comes back has popped its operands and pushed its answer, and the answer is
    given as a number: sums, differences, quotients and remainders modulo 2^256 (also
    where Ethereum has signed ones), ADDMOD and MULMOD of the wrapped sum and product,
    comparisons, shifts by counts of any size, BYTE; bitwise operations bit by bit in
    each limb. MUL is exact exactly when the third column of `mul256` does not
    carry, MULMOD at least then, EXP is 1 or 0. It joins the lemmas of `UInt256Lemmas` with the places from
    which the instructions take their operands, whose order matters for SUB, DIV, the
    comparisons and the shifts.
  * `ShortPushesAreExact` (words of 32 bytes or less): PUSH1 to PUSH8 push the number that
    their bytes write; a longer push does exactly when the second and third limb are
    equal. This bounds the finding of `claim_push_big_endian` from both sides.
* `EVMProofs`, on the application (`EthereumApp`, the same assumptions). `AppTypeCorrect`,
  `AppStackBounded` carry the machine's invariant over both
  executions; the step of the machine is the lemma of the machine, used as it is.
  `AppStackIsDisciplined`, `AppStorageIsIntact`, `AppInstructionsCompute` do the same
  for what holds of its steps: between the executions only `init_machine` touches the
  machine, which clears the stack and leaves the storage. `SecondRunsDeployed`
  (`ExecutesDeployed`) needs that every instruction but RETURN leaves
  `deployed_contract` alone and that RETURN leaves the loop.
  `NothingRunsUndeployed` (`NothingDeployed`) needs two strengthenings: as long as no
  RETURN was executed the array is all zeros (`Blank`), and the second execution
  over zeros never gets past its first turn (`AtFirstZero`): a STOP at PC 0 resets
  the machine and the next byte, also a STOP, ends the loop. It is about the bytes
  of the array and not about DeployLength, since a RETURN with a wrapped sum of zero
  deploys bytes and leaves DeployLength 0.
  `ReturnedIsDeployed` (`DeploysReturned`) needs that what RETURN wrote is kept from
  the end of the first execution until it is printed and run (`ReturnKept`). Operands
  outside of MEM are part of it: when their wrapped sum exceeds MEMORY_SPACE, RETURN
  takes MEMORY_SPACE - 1 bytes from the start; when a wrapped sum passes the test, the
  bytes deployed are those in front of MEM.
  * `AppMemoryIsIntact`: a byte of MEM changes only by MSTORE, MSTORE8, CODECOPY or
    CALLDATACOPY in the range that the operands name, or by a push below slot 0.
  * `UsageStaysBounded` (`UsageBounded`): DeployLength and the listing are at most
    MEMORY_SPACE long and max_mem_offset at most a short store longer, although the
    tests are on sums that wrap: what is tested and what is kept is the same sum.
  * `ProcessAdvances` (bytecodes end a word before 2^32, as all that fit the node do): a
    step takes the process to its next phase, leaves the loop of `execute_contract`,
    or is a turn after which PC is larger or which set PC (a jump, a CALLDATACOPY over it), and gas not smaller unless
    the contract set its own counter (or began with STOP). Without these PC bounds the
    number of turns (`StraightLineEnds`); with them, gas that never falls is in the end
    not charged any more (`ProcessEnds`).
* `HashStreamsProofs` (assumption `HashStreamsAssumption`: a digest is no longer than
  a block, as in the code, which reads it from one state).
  `KeccakImplementsSponge`, `Sha3ImplementsSponge`: the state holds the whole blocks
  of the input so far and the buffer, up to `rest` or `pt`, what is left of it
  (`KeccakInv`, `ShaInv`); bytes of earlier blocks that lie behind it in the buffer
  are overwritten by the padding. A chunk that ends inside, at, or beyond a block is
  a case each. For `shake_out` the position and the state say how much of the
  endless output was given. `HashTypeCorrect`: the buffers are never left.
* `KeccakFProofs` (no assumption). `PermutationIsStandard` (`StepsOfStandard`): on every
  block that a message can make both programs agree with FIPS 202 after each step of
  each round. Theta: the exclusive or of five lanes is the parity of the number of
  ones that the standard counts (`ColumnParity`). Rho and pi: `keccak256.c` rotates in
  place and then moves lanes along a cycle, `sha3.c` does both along the cycle in the
  other direction, the standard defines the rotations by a walk over the lanes; all
  three come to one table of sources and rotations (`Source`, `Turn`). Iota: the
  constants packed in seven bits of a byte, the table of words, and the shift register
  of the standard, which is run through its 168 turns (`RegisterOfRounds`). The
  inductive invariant adds that lanes are sets of 64 bits and that a round that has
  begun is one of the 24.
* `ETimerProofs` (assumptions `ProcessAssumption`, `ETimerAssumption`: the sets are
  finite, NULL is none of their members, the queue and the period are not empty).
  `TypesCorrect` for any number of processes and timers and any depth of the call
  stack. `CurrentIsRunning` (`CurrentRuns`): the invariant says of every frame of
  the stack which process is the current one when it executes, and that a frame
  which runs above another restores it (a saved process_current in `exit_process`
  and `process_post_synch`) or sits above a loop of the main program that does not
  use it. `RingIsQueue` (`EventsInOrder`): `process_post` appends to `queued` and
  `do_event` takes its head, by arithmetic modulo NUMEVENTS, so the ring implements
  `BoundedFifo`. Lists are links in memory, so the
  proofs about them are about what links lead to: a list is sound when its members are ranked, the
  rank falls along links and the last link is NULL; the members are the least set
  that holds the head and is closed under links. Each way the code edits a list
  (insert at the head, unlink behind a predecessor, cut off the head) has one lemma.
  * `ListsAlwaysSound` (`ListsSound`): the two lists stay sound although threads
    started from a loop over a list add and remove members of it. Needed beside it is
    where the walks may stand (`ScanAt`, `DropAt`): a cursor of `etimer_process` is on
    the list whenever it is used, because no application runs inside that thread.
  * `TimersAreKept` (`TimersKept`), an action property over the same invariant: a
    timer that leaves the list was posted, stopped by a call that leaves it without an
    owner, or is of an exiting process.
  * `PollsAreKept` (`PollsKept`), an action property: no step leaves a flagged process
    on the list neither ahead of the cursor of a `do_poll` nor with a poll requested.
    The steps are sorted by what they do to links, flags and cursors: most leave all
    three (`PollsQuiet`); starts insert at the head, exits unlink, `do_poll` moves on.
  * `TimersBelongToLiving` (`TimersOfLiving`): its invariant follows an exit from the
    moment the process is marked until `etimer_process`, which is told on the way, has
    dropped its timers (`Owned`, `Telling`, `NoneExits`).

A theorem about the machine is for bytecodes of any length and machines of any
size, so it covers the constants of `evm.h`. It is about the model: behind
"fault" and "hang" it says nothing; which accesses these stand for is listed above.

The library's induction theorems cannot be used by the installed provers, since they
are about an operator as a parameter. Where a proof needs induction it is made in set
form: a set of numbers has a least element (`LeastElement`, `InductionOverNat` in
`NumberLemmas`). A recursive function is first shown to exist and only then
unfolded.

Only model-checked: liveness (fairness is out of the prover's reach), that is
`TimersFire`, and of `Returns`, `StraightLineEnds` and `ProcessEnds` the last step from
the measure, which is proved to fall or to be bounded (`DivisionAdvances`,
`ProcessAdvances`), to the end of the loop; and `DigestsKnown`, which is about three
messages and a matter of evaluation, not of proof.

## Differences to Ethereum that are modelled as the code has them

Besides the four findings: SLT, SGT compare unsigned and SDIV, SMOD divide
unsigned; SAR is a logical shift; EXP returns 0 for every exponent but 0;
CALLDATACOPY copies from the bytecode, and over SP and PC when the sum of its operands
wraps; pops of an empty stack go on into memory; a long CODECOPY runs over stack,
storage and gas; a short CODECOPY leaves only its last limb;
the memory of a word is not big-endian; REVERT undoes nothing; SSTORE to key 64
lands on the gas counter; jumps may go anywhere and continue behind their
destination; the last byte of a bytecode is not executed; a leading STOP does not
stop; modulo zero does not return; max_mem_offset is not a maximum; DeployLength
counts the offset of the returned bytes; the deployed contract starts with the
memory of its constructor.

Of the operating system: a poll flag that a process had when it exited is served
when it is started again; next_expiration is not updated when the timers of an
exited process are dropped (nothing on this platform reads it); a timer whose start
lies in the future counts as expired, because the difference of unsigned times is
large.

## Not modelled

* `stack_peek`, `stack_duplicate`, `stack_print`, `print256`, error messages: no
  instruction calls them, or they only print.
* The temperature sensor (compiled out: CC2538_CHIP is not defined).
* The relation of the digest of a SHA3 instruction to the bytes it hashed: the
  digest is any member of a small set, since limbs are small in the models.
* The bytes that `Ethereum_App.c` copies past the end of the machine.
* The conversion of sleep timer ticks to clock ticks, callback and real-time timers,
  the choice between power modes.
* The rest of Contiki-NG. It is vendored and by far the largest part of the
  repository (about 490 000 lines): register headers, character tables, drivers of
  other boards, file systems, IPv6, RPL, DTLS, CoAP. The build links the network
  stack; the application calls none of it. Modelling it would be another project.
* The Solidity contracts and the compiled one: data.

## Plan

Done: the arithmetic and its reference, the machine and the stack as its abstract
specification, the application, both hashes, the kernel and its timers, and the
theorems above: every safety property of these has one, but for the digests of the
three known messages. What the instructions of the machine compute is proved from the
arithmetic up, and three of the four liveness properties up to fairness.

Next: `os/sys/ctimer.c` (callback timers) and `os/lib/list.c` as further services of
`Process`; `os/sys/rtimer.c` with the interrupt that runs its task.
