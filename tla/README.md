# REMUR: a TLA+ verification project

REMUR is an RV32I emulator in Rust: a decoder, an interpreter over a
byte-addressed memory, machine-mode traps, and a loop that runs a guest until
it stores a verdict at the address `tohost` or a cycle limit ends it. The
modules here model that program, TLC checks them on every guest of small
families, and TLAPS proves the properties that matter for every guest, memory
and limit.

## The system

| Component | State | Operations | Modelled in |
|---|---|---|---|
| Words (`u32`/`i32` arithmetic in `src/execute/mod.rs`, `src/decode.rs`) | none | wrapping sums, shifts, orders, sign extension; ALU results, branch conditions | `Words`, `Alu` |
| Decoder (`src/decode.rs`, `src/instruction.rs`) | none | `decode` and a function per format | `Decode` |
| Memory (`src/memory.rs`) | `data`, `base` | `new`, `offset`, `read8/16/32`, `write8/16/32`, `load_binary` | `Memory` |
| Hart (`src/cpu.rs`) | `regs`, `pc`, `csrs`, `tohost_addr`, `tohost_value` | `new`, `read_/write_reg`, `read_/write_csr`, `trap`, `mret`, `step`, `run` | `Hart`, `TrapHistory` |
| Execution (`src/execute/mod.rs`) | the hart's and the memory's | `execute` | `Hart` |
| The loop of `run` as its caller sees it | cycles left, verdict, result | call, iterate, report, time out, panic | `RunLoop` |
| Command line (`src/main.rs`) and test harness (`tests/rv32ui.rs`) | exit code, line of output | parse arguments, load a binary, run, judge | `Harness` |
| Reference model (`src/reference.rs`, `c_src/`) | its own core and memory | `ref_init`, `ref_load_bin`, `ref_step` | `RefCore`, `RefAlu`, `RefImmediates`; compared with the hart in `DiffTest` |
| Encoding tables (`riscv-tests/env/encoding.h`) | none | MATCH/MASK pairs | `Encoding`, `EncodingTables`, as an oracle |
| Guest macros (`riscv-tests/env/p`, `isa/macros`) | TESTNUM | pass, fail, trap vector, store to tohost | `Harness` |
| Virtual-memory environment (`riscv-tests/env/v`) | page table, free list, page map | `vm_boot`, `handle_trap`, `handle_fault`, `evict`, `terminate` | `VM`, implementing `AddressSpace` |
| Its console on RV32 (`vm.c`) | `tohost`, `fromhost`, `syscall_struct` | `cputstring`, `cputchar`, `do_tohost` | `Htif` |
| Its C library (`riscv-tests/env/v/string.c`) | none | `memcpy`, `memset`, `strlen`, `strcmp`, `memcmp`, `strcpy`, `atol` | `StringLib` |
| Environments `pm`, `pt`; build, scripts, CI | | | not modelled |

REMUR itself runs in one thread by direct calls. A harness makes a memory, loads
a binary at the base, makes a hart, sets its `pc` and `tohost_addr` and calls
`run`. Each iteration of `run` calls `step`: `read32` at `pc`, `decode`,
`execute`, which calls the memory and the hart. Nothing is returned from
`step`: the store that reports a verdict leaves it in `tohost_value`, and `run`
looks there. Errors are panics, which leave `run` from wherever they happen.

The guests come from riscv-tests. A test case that fails leaves its number in a
register, a macro turns it into the word 2n + 1, an `ecall` takes the guest to the
trap vector, that stores the word at `tohost`, and the caller of `run` turns it back
into a number and an exit code. The environment `v` puts a supervisor below the same
tests, with demand-paged memory; there the MMU with its TLB, and the host at the other
end of `tohost`, act beside the code.

What is hard to get right in the emulator is not concurrency: it is
*order within an instruction* (a panic between two effects, an operand that
aliases the destination), *sequences of instructions* (a trap within a trap
handler, a program that overwrites itself, an odd `mepc`), *boundaries* (the
end of the memory, the top of the address space, the last cycle, the sign bit)
and *the promise to the caller* (a verdict is returned if and only if it was
given; `run` always comes back). In the environment `v` it is *staleness* (a TLB that
remembers what the page table no longer says), *protocol* (accessed and dirty bits set
by either of two parties; a handshake through two shared words) and *exhaustion* of a
free list. `PROJECT.json` lists these hazards at their
lines with the property that would catch each.

What makes each component correct:

- words: sums, shifts and orders are those of the integers modulo 2^32;
- decoder: every encoding the tables give to an instruction decodes to that
  instruction, nothing decodes to an ill-formed one, immediates are right in
  every bit;
- memory: an access inside is exact, one outside panics, one half outside
  panics having touched the last three bytes at most;
- hart: x0 and the read-only CSRs never change, `pc` is odd only by `mret`, a
  panic is precise up to two known exceptions;
- traps: what a trap saves is there when `mret` wants it, whatever the handler
  does short of storing over it;
- run: the answer is the word the guest has stored at `tohost`, none is missed or
  invented, and there always is an answer;
- callers: success means that every test passed, a failure is named by its number,
  unless the guest trapped where the macros do not expect it;
- virtual memory: its program sees plain memory, and the host finds in the image what
  the program left.

## The modules

**Words.** A word is the set of its one-bits, a subset of `0..XLEN-1`. `|`,
`&` and `!` become `\cup`, `\cap` and `\`; a sum is a bitwise exclusive-or with
the set of carries, which is stated as "a generating position below with no
killing one between", so it needs neither recursion nor numbers. TLC evaluates
32-bit words that way (its integers have 32 bits), and the provers reason about
single bits.

**Alu.** The results of the R, I and shift instructions and the branch conditions,
one `CASE` per `match` of `execute`. `MCFunctions` compares them with
integer arithmetic and with `RefAlu`.

**Decode.** One operator per function of `decode.rs`, with tables for the
`(funct3, funct7)` matches. An instruction is a record tagged with the enum's
variant. The decoder's two ways to panic are the values `Panic` (line 18 and
its like) and `Unreachable` (line 84). `Encoding` holds rows of `encoding.h`,
`RefImmediates` the immediates as `mini-rv32ima.h` computes them;
`EncodingTables` every pair of the header, by masks.
`MCDecode` compares them. `Lax` names the words that decode although no row encodes them.


**Memory.** `data` is the `Vec<u8>`. `InBounds` is the assertion in `offset`,
`Accessible` adds the bounds checks of the bytes after the first. `WriteLE`
gives the memory after the bytes that fit: a complete store when the access is
accessible, the torn one when it is not.

**Hart.** One action is one iteration of `run`. The variables `regs`, `pc`,
`csrs`, `tohost_value` are the fields of the struct (`csrs` sparse: an address
never written reads as the initial 0); `status`, `left`, `ret` and `calls` are
the caller's side of `run`. `step` picks the instruction at `pc` (`Fetched`, a
singleton, or empty when the fetch is out of bounds) and `execute` is the
disjunction of `R`, `I`, `Shift`, `Load`, `Store`, `Branch`, `Upper`, `Jump`,
`Csr`, `Skip`, `Ecall`, `Ebreak`, `Mret` and the panics. Each fixes the hart and
the memory and ends in `EndIteration` (count, look at `tohost_value`) or
`Panicking`. `NextInsn` is `hart.pc += 4`: it panics on overflow when the
constant `OverflowChecks` says the build is a debug build, and then the effects
before it have happened. `Call` is the caller calling `run`, once or again.

**StoreHistory.** `Hart` with two history variables. `stored` has a byte for each 32-bit
address of the memory, address 0xffffffff followed by 0, changed by what a store says:
`Memory` keeps an array and subtracts the base; the history never subtracts. `reported` is
the last nonzero word the guest has put at `tohost` with an `sw`, as the instruction says
it (`Reports`); the hart's own `tohost_value` is not looked at, so that a store the code
does not notice, or one it takes for a report, parts the two.

**RunLoop.** The abstract specification of `run`: an iteration continues,
reports or crashes; no iteration left is a timeout. `Hart` names it by
`Loop == INSTANCE RunLoop WITH verdict <- tohost_value, Verdicts <- Word`.

**TrapHistory.** `Hart` with a history variable, `saved`: the address and the
interrupt enable of the last instruction that trapped, until `mret`, or until
the handler itself stores into `mepc` or `mstatus`. It restricts no step.

**RefCore, RefAlu.** One `ref_step`: an action per case of the `switch` in
`MiniRV32IMAStep`, each ending in `Retire` (write-back and the next pc) or `Trap`.
The 64-bit products of RV32M are words of twice the width (`Wide`), the division
goes bit by bit. `mcsr` holds the CSRs that are fields of the C struct; `extraflags`
is split into `priv`, `asleep` and `reservation`. As committed the wrapper does not
build (it defines `MINIRV32IMA_IMPLEMENTATION`, the header tests
`MINIRV32_IMPLEMENTATION`; `MINI_RV32_RAM_SIZE` is undefined) and `build.rs` leaves
it out; the model is of the step with the names put right. Its unaligned accesses
through `uint32_t *` are taken to work, as they do on the machines REMUR runs on.

**RefHistory.** The reference core stepped alone over a guest, with two history
variables: what the last trap has to give back, and the address of the last `lr.w`.

**DiffTest.** The hart and the reference core in lockstep, each on its own memory.
`SameMeaning` says which instructions the two are meant to execute alike; the guest
is followed up to the first that is not one of them.

**Harness.** A process from its arguments to its exit code, around `RunLoop`, whose
actions it conjoins: `Start` is `main` up to `run` (or `run_test`, which has its
arguments fixed), each guest step (`TestCase`, `PassFail`, `Pass`, `Fail`,
`TestEcall`, `OtherException`, `WriteTohost`) is one `Continue` or `Report`, `GuestPanics` is
`Crash`, `Judge` is the `match` on the answer, `Unwind` a panic that ends the process.
`result` and `failing` are history variables: how the guest's tests really ended.
The guest is one of `riscv-tests`: a set of test cases numbered from 2 on, in any order.
`TestEcall` and `OtherException` are the two ways in which the code of a test case gets to
the store without `RVTEST_PASS` or `RVTEST_FAIL`: `trap_vector` takes every ecall for theirs
and stores `TESTNUM` as it is, and adds 1337 to it after any other exception. A test with an
`mtvec_handler` deals with those exceptions in code of its own, which is in `TestCase`.

**VM, AddressSpace.** The supervisor of `env/v`. `user_llpt`, the two arrays of free-list
nodes and the list's ends are the variables of `vm.c`; `phys` holds the contents of the
pages of the test image and of the frames, a page being one value. `Issue` is an access
of the user program, `Complete` the hart doing it, `PageFault` a trap to `handle_fault`
(`GrantBit` on a mapped page, `MapPage` on a first touch), `HardwareSetsBits` a hart
that sets A and D itself (`svadu`). The MMU may keep any entry it used in `tlb` until
`flush_page`. `Ecall`, `EvictPage` (one iteration of the loop over the pages) and
`EcallEnd` are the exit; `Assert` ends in `Fail` where an assertion does not hold.
`AddressSpace` is memory with loads, stores and a verdict; `VM` names it by
`Space == INSTANCE AddressSpace WITH mem <- View, ...`, where `View` takes a mapped
page's contents from its frame until the verdict is told, and from the image afterwards.

**Lfsr.** The shift register of `riscv_test.h`, in whose order `vm_boot` hands out the
frames. `FullPeriod` says what the comment beside `MAX_TEST_PAGES` does: from any start
the register meets every number.

**Htif.** The hart in `cputstring` and `terminate` and the host, each step of the loops
around `tohost` and `fromhost` an action.

**StringLib.** The functions of `string.c` on a memory that is a function from addresses to
bytes; each loop is a recursive function of its iterations, but for that of `memset`, whose
result is written down at once.

**Asm, MCHart, MCAccess, MCTrap, MCHarness, MCRefCore, MCDiff, MCVM, MCHtif,
MCFunctions, MCDecode.** An assembler (the inverse of the decoder, used only to
write guests), the families of guests, and the bounds.

**WordTheorems, NatTheorems, FunctionProofs, HartProofs, HistoryProofs, HarnessProofs,
RefProofs, VMProofs.** The theorems: the first two hold the lemmas on words and on
numbers that the others rest on, `FunctionProofs` is about `Alu`, `RefAlu`, `StringLib` and
the register of `Lfsr` (the properties of `MCFunctions`), `HartProofs` about the decoder and the hart,
`HistoryProofs` about what is put beside the hart (`TrapHistory`, `StoreHistory`,
`DiffTest`), the others about the component of their name. Their arguments are told under "What is proved".

Operators of a line like "Mutant: ..." are deliberately wrong variants of the
definition after them, kept to show that the properties notice.

## What is checked

| Run | Guests and bounds | States | What it shows |
|---|---|---|---|
| `functions` | all pairs of 5-bit words; 12-byte memories with up to 3 bytes that are not 0; texts of up to 4 characters | 3366 | `ResultsAreIntegers`, `ImmediateForms`, `BranchesOrder`, `SignExtends`, `AluAgrees` (with the reference model), `MulDivIntegers`; `CopiesAndFills`, `ComparesUnsigned`, `AtolDecimal`; `FramesInFullPeriod` (six LFSR bits) |
| `decode` | 50523 raw words: every opcode, every funct3/funct7 of the known ones, single-bit changes of seeds, every instruction of encoding.h | 101046 | `DecodesWhatItShould`, `DecodeTypeOK`, `ImmediatesAgree`, `DecodesNothingElse`, `ForeignPanics` |
| `harness` | every invocation of both callers; guests of up to 3 test cases, numbered 2, 3 and 4; 7 iterations | 13466 | `FirstRunReports`, `SuccessMeansPassed`, `FailureNamed`, `ProcessEnds` |
| `flow` | every 3-instruction program over 16 jumps, branches, aliasing and CSR instructions, `mret` and a store at `tohost`, which is the third of them; limits 0 and 6; two calls | 54911 | `TypeOK`, `HardwiredState`, `OddPcOnlyByMret`, `ImplementsLoop` |
| `access` | a 32-byte memory from 0xffffffe8 to 7; every 3-instruction program over 16 loads and stores of all widths at `tohost`, across the end and the wrap, into the program, and over 14 instructions that jump over the top; limits 0 and 5; two calls; debug build | 110970 | `VerdictSound`, `PanicIsPrecise`, `LoadsSeeStores` |
| `trap` | a prologue that sets `mtvec`, then 4 free slots over 12 instructions (traps in the handler, stores to `mepc`, `mstatus`, `mtvec`); 9 cycles | 218526 | `TrapStateKept`, `MretUndoesTrap` |
| `ref_core` | a prologue that sets `mtvec`, then 3 slots: every program over 10 trap, CSR, atomic and jump instructions, and 22 rare ones (illegal, MMIO, faults, `wfi`, RV32M) between two others; 9 cycles | 11251 | `RefTypeOK`, `RefMretUndoesTrap`, `ScStoresWhereLinked` |
| `diff` | a prologue, then every 3-instruction program over 21 (aliased operands, traps, stores into the code, loads with signs); 9 cycles | 74730 | `LockstepAgree` |
| `vm` | 2 LFSR bits: three frames, two test pages and an address on each side of them; two contents, two exit codes; both kinds of MMU | 226048 | `VMTypeOK`, `FramesPartition`, `AssertionsHold`, `ImplementsAddressSpace`, `AccessCompletes`, `EcallReported` |
| `misa_claim` | as `decode` | | `MisaExtensionsDecode` is violated |
| `fp_claim` | as `vm` | | `FpTestSucceeds` is violated |
| `htif_claim` | a message of three characters | | `StructIsRead` is violated |

Why the bounds are enough: the data path is uniform in the bit position, so
five bits show every carry, sign and shift case; an instruction of the hart
interacts with others through registers, one CSR, `pc`, the memory and the
verdict, and three free slots with a backward jump give every two of them in
either order, executed more than once; the memory ends right after the program,
so running off the end, the torn stores and the half-fetched instruction happen;
the limits 5 and 6 end guests before, at and after the verdict (in
`access` two instructions of prologue and three slots can report in the fifth cycle), the limit 0 before the first
instruction; two calls are enough for the state one call leaves to the next, a verdict
above all: the guests of `flow` and `access` that report are run again. A trap needs the trapping
instruction, two handler instructions and `mret`, hence four slots. Two test pages are
enough for one page to take the frame another might have had and for the free list to
run down to its last node; every state of a page (unmapped, mapped without bits, with A,
with A and D, each with any TLB entry left over) occurs beside every state of the other.
The harness's seven iterations end guests before, at and after the limit. The theorems
below do not depend on any of these bounds.

Deadlock is checked in `flow`, `access`, `harness`, `vm` and `functions`: the states in
which the caller is done (a panic, or `MaxCalls` calls made), the process has ended or the
host has been told stutter by the actions `Done` and `Ended`, so a running state in which
no step applies would be reported.
The others say `CHECK_DEADLOCK FALSE`: a decode has nothing to do after it, and the
guests of `trap` and `diff` end like those of `flow`, those of `diff` also at the first
instruction that is not comparable, those of `ref_core` after `MaxCycles` instructions;
`Htif` stops in `while (1)`.

**Fairness.** `run` is a `for` loop in a single thread. No iteration waits for
anything: each fetch, decode and execute is finite. So the only assumption is
weak fairness of `run`: while the loop is running it eventually takes a step. It is
written with `status = "running"` in the place of `ENABLED run`, which is the same by
the deadlock check, cheap for TLC, and within reach of the provers, so that the
refinement of `RunLoop` is proved with its fairness. Nothing is assumed of the caller
or the guest. In `Harness` it is `WF_harnessVars(HarnessNext)`: the process is one thread.
Under it `ProcessEnds` holds: a limit that counts down brings `run` back even from a guest
that loops for ever. In `VM` it is `WF_vars(Hart)`: the hart goes on with the access or
the handler it is in, while nothing is assumed of the program (`Program` is not under the
fairness); so an access that faults again and again would violate `AccessCompletes`. In
`Htif` hart and host each go on.

**Findings.** (1) `misa` is initialised as RV32IMA (`src/cpu.rs:52`), but
multiplication and atomic instructions panic in the decoder. (2) `handle_trap` of the
environment `v` ends an FP test on a hart without FP as a success (`vm.c:227`), but
`vm_boot` does not delegate illegal instructions to it; the test ends with 841. (3) On
RV32 `cputchar` should wait until the host has read its structure (`vm.c:54`), but only
the first call does: `fromhost` keeps the answer. The text of a failed assertion may come
out with characters lost and repeated; the exit code after it does not depend on it.

Two more departures are stated as exceptions in properties. `ROADMAP.md:209` has the pc
advance by `wrapping_add(4)`; the code uses `+=`, which panics in a debug build at
0xfffffffc after the instruction's effect (`PanicIsPrecise`). And the command line program
exits with 0 at the cycle limit (`SuccessMeansPassed`). The comment at
`env/p/riscv_test.h:195` has the trap vector test whether the ecall came from pass or fail;
the code takes any ecall for theirs, and the caller then says FAIL with half of the number
of the test whose code made it (`FailureNamed`). A test case numbered 1 that did so would
read as a pass; those of the repository are numbered from 2 on. `ForeignPanics` lists what the
decoder takes for its own among the instructions of other extensions: OP-IMM words of
funct3 1 and 5 are shifts whatever their funct7, and the cache operations
(MISC-MEM words of funct3 2) a fence. `Lax` adds the words no row encodes that decode all
the same: fences and `jalr` with any funct3, the `ecall` group with any `rd` and `rs1`. None of these is reached by the rv32ui tests.

The lockstep found no disagreement on the instructions the two share. The ones it
keeps out, in `SameMeaning`, are where they are known to differ: accesses within three
bytes of the end of the RAM, `wfi`, `sret`, CSRs other than the four that are plain
storage in both, `mtvec` with low bits set, and shift encodings whose `funct7` is
neither 0 nor 32 (REMUR takes each for `srai`, the reference goes by bit 30). Two properties of the
reference alone are written as what it does: before any `lr.w`, `sc.w` takes the first
word of the RAM for reserved (the initial reservation is 0), and `mret` leaves the
current mode in MPP, where the comment above it says 0.

## What is proved

The theorems about the hart hold for every `MEM_SIZE` up to 2^27, base, initial memory,
cycle limit and `tohost` address, and for both builds; those about the environment `v`
for every number of pages, every contents and exit code. Those about the reference core hold for every guest, RAM
size and base. The assumptions are those in `Words` (`XLEN` positive), `Decode` and
`RefCore` (`XLEN` = 32), `Memory`, `Hart`, `RunLoop`, `RefHistory` (guests are bytes),
`Harness`, `Lfsr` and `VM`, which TLC evaluates on every run. (`RefCore` assumes in
addition that the RAM is a whole number of words.) One is narrower than a name suggests: `Harness` takes
guests whose test cases have numbers from 2 to 63 (1 is what `RVTEST_PASS` stores, and the
number has six bits beside the 1337 of an exception; every test of the repository keeps to
these). The theorems about the ALU hold for every width,
`ResultsCorrect` for every width up to 32, since a shift amount has five bits. Those about
the C library hold for pointers of 4 and of 8 bytes; their lemmas are about a memory of any
size and a text of any length. That a number is one a `long` holds is left to the caller of
`atol`, as in C: the model's integers have no width there.

- `HartProofs`, the decoder: **ImmediatesEqual**, for all 2^32 words, bit by bit;
  **DecodeTyped**; and **NeverUnreachable**, because `funct3` is one of eight numbers
  (`Funct3Bits`) and an arm before it takes each of them. Against `encoding.h`, in both
  directions and for every word: **EncodedDecodes** (a word of a row decodes to the
  Instruction of that name) and **DecodedIsEncoded** (a word that decodes is one of a row of
  that name, or `Lax`). A row compares the bits of a word under a mask with those of a
  number; `FieldNumber` says that the fields of a number's bits are its binary digits,
  `SameSmall` that a field is determined by its number, and `MaskedNumber` that the
  comparison is therefore one of `opcode`, `funct3`, `funct7` and `rs2`, which is what
  `decode` tests. **TablesForeseen** goes over every instruction of the header, all
  extensions: what its match and mask settle of these fields (`Settled`) is enough for the
  word to be an instruction of this hart, a panic, a shift or a fence. From these, with
  the invariant `DecodeInv` of the run: **DecodeCorrect**, **DecodeExact**,
  **ForeignCorrect**, **DecodeTypeCorrect**, **DecodedImmediatesCorrect**.
- `HartProofs`, the hart:
  - **TypeCorrect**: `TypeOK` is inductive; `ExecuteTyped` has a step per action
    of `execute`, on top of lemmas about registers, CSR files, memory and words.
  - **HardwiredCorrect**: from `CsrAfterWrite`, what a CSR write is read back as.
  - **PcParity**: offsets of branches and `jal` are even on every raw word
    (`OffsetsEven`), and even words add up to an even word (`EvenSum`, no carry
    enters bit 0).
  - **PanicsPrecise**: by the actions that can end in `Panicking`.
  - **HartImplementsLoop**: `RunAdvances` maps each step of `run` to a step of
    `RunLoop`'s `Advance` that is no stutter, which gives both the safety part and,
    by temporal reasoning, `RunLoop`'s fairness from the hart's.
- `HistoryProofs`, traps: **TrapStateCorrect** (the four conjuncts of `TrapStateKept` are
  inductive, because only traps, `mret` and CSR stores touch the two CSRs:
  `TrapCsrsKept`), **MretCorrect** from it, and **MretAfterTrap** on words.

- `WordTheorems`, `NatTheorems`: the provers have no induction over an operator, so
  `NatTheorems` has it over *sets*: a set of numbers has a least member
  (`LeastMember`, from the library's well-founded induction), hence a set that has the
  first number of an interval and with each number the next has all of them
  (`IntervalInduction`); and a recursive function that keeps to a set exists
  (`RecursionExists`), and so does one that follows its steps as long as it keeps to the
  set (`RecursionTyped`); a search upwards or downwards finds the first place at which it
  stops (`SearchFinds`). From induction follow statements about every bit of a word
  (`BitInduction`): the carry into a bit from the carry into the one below (`CarryStep`,
  `BorrowStep`), that subtraction undoes addition (`SubAdd`, `AddSub`), and
  **AddAssoc**, by the invariant that the two orders of adding three words send the same
  number of carries into each bit. **BitsOfNext** ties words to numbers: the bits of
  n + 1 are the bits of n plus one. In the other direction `Value` is a sum over a set:
  a sum exists (`SumsExist`) and does not depend on the order (`SumSetIs`), so a bit adds
  its weight (`ValueAdd`). The rest goes up from bit 0 with `Low(w, k)`, the bits of w
  below k: the invariant of **AddValue** is that the low parts of the sum and of the
  operands differ by the carry into bit k, that of `SubValue` by the borrow, which at the
  top says which operand is the greater (**ValueOrder**). The provers do not know powers;
  `PowerStep` (2^(n+1) = 2 * 2^n for every n) is had by counting subsets, with the
  library's theorem on the cardinality of a power set.
- `FunctionProofs`, with these: **ResultsCorrect**, that the ten operations of `execute`
  are those of integers (a shift moves by one place `n` times: `ShlValue`, `ShrValue`,
  and for `sra` the ones that come in from above are `HighOnes`), **BranchesCorrect**,
  **SignExtendCorrect**, **ImmediatesCorrect**; and **AluAgreesCorrect**, for which
  `RefComputed` says what the shared `switch` of the reference does by its `funct3`.
  **MulDivCorrect** is about the reference's RV32M. The lemmas on words hold at any width:
  the instance `DW` of `WordTheorems` has them for the 64-bit products, `NW` for the
  remainder of a division, which may have a bit more than a word while it is shifted.
  A product is the sum of the shifted copies of one factor for the bits of the other below
  k, modulo 2^64 (`ProductValue`); its upper half is the quotient by 2^32, also where the
  factors are negative and have been extended (`HighOfProduct`). The invariant of a division
  is `Divided`: with the bits of the dividend from i on, quotient times divisor plus
  remainder is what they stand for, and the remainder is below the divisor
  (`DigitDivides`, one digit of it). `SignedDivision` puts the signs back, and
  `OverflowRecombines` is the one quotient that has no word.
- `FunctionProofs`, the C library. A recursive function of the model is the `CHOOSE` of one
  that satisfies its equation, so each proof first exhibits one: for `memcpy` the memory
  with k units copied (`MemcpyCopies`), which stays so because the regions do not meet, and
  `IterationsCover` says that the units are the length; for `memset` the same with a word
  that is the byte repeated (`ReplicatedBytes`); `strcpy` stops behind the terminator
  (`StrcpyCopies`). For **ComparesCorrect**, the scan by words of `memcmp` skips equal bytes
  only (`SkippedEqual`), since it stops at the first word with a difference, and the scan by
  bytes ends at the first one that `SearchFinds` gives; `StrlenIs` and `StrcmpOrders` are
  searches too. The invariant is that the memory holds bytes and ends in 0 (`MemoryInv`).
  **AtolCorrect**: `Decimal` counts the digits from the last on, each with its power of ten,
  while `atol` goes from the first digit and multiplies; `ReadsIsCounts` has that what is
  read before the last k digits, moved up by k places, and what these count for, is the
  same for every k. **PeriodCorrect**: the 63 numbers from 1 on are computed one by one
  (`ShiftOrder`), and a walk from any of them is the same walk from a later step on.
- `HistoryProofs`, the memory: **LoadsCorrect**. The invariant `StoredInv` says that the byte
  remembered for each address is the byte of the array at its offset. An address is
  base plus offset, the code subtracts the base, and the bytes of an access are at the
  following addresses: that the k-th address after the one of offset n is the one of
  offset n + k needs associativity and `BitsOfNext`, also where the sum wraps at 2^32.
- `HistoryProofs`, the verdict: **VerdictCorrect**. The invariant `ReportedInv` says that
  the hart has latched what the guest has reported last, that before the first call it has
  reported nothing, and that while the first call runs there is nothing either. `StoreLatches`
  is the first of these for a store, one that panics included; `OthersKeep` says that no
  other instruction touches either side. The answer of the first call is then the report of
  the very step that returns it, and `ReportIsStored` gives its four bytes in the memory.
- `HarnessProofs`: **FirstRunCorrect** for the loop alone: the property speaks of the
  first call only, so `ReportInv` adds that before it nothing was reported.
  **SuccessCorrect** and **FailureCorrect** for the process: neither is inductive, since
  each relates the exit code to the history of the guest. `GuestInv` says for each place in
  the guest what `TESTNUM` holds and how the tests ended (at the store to `tohost`: 1 and
  passed, 2n + 1 and failed at n > 0, one of 1337, 1339, 1341, 1343 after an exception, or
  the number of the test case, which is not 1, after an ecall by its code),
  `CallerInv` that a verdict is the `TESTNUM` of a guest that is there. `OriIs` finds the
  four numbers of `ori TESTNUM, TESTNUM, 1337` bit by bit.
- `RefProofs`, the reference core alone: **RefTypeCorrect**, a step per case of the switch;
  the registers of the long division stay words (`LongDivisionTyped`) by induction over
  its digits. **RefMretCorrect**: `TrappedKept` says that `mepc` and the bits
  7, 11 and 12 of `mstatus` are what the last trap has to give back; it is kept because
  only traps, `mret` and CSR instructions write them (`InsnKeeps`; `wfi` sets another bit
  of `mstatus`). **ScCorrect**: `LinkedReserved` ties the reservation, 29 bits of an
  offset, to the address of the last `lr.w`; these bits tell two addresses in bounds
  apart (`SlotTells`), because an offset below 2^27 has none above (`IndexBits`).
- `HistoryProofs`, the lockstep: **LockstepCorrect**, that emulator and reference model agree after every
  pair of steps that `SameMeaning` has them compared at, for every guest, size of memory,
  base, limit, and both builds.
  `LockstepAgree` is not inductive: `DiffInv` adds the types of the hart, its hardwired
  state (the reference has no rule for reading x0, it never writes it), and that the
  reference is awake with all its CSRs. A step takes two sets of lemmas: what the raw word
  of a decoded instruction looks like (`DecodedR`, `DecodedUpper` and the like, from the
  values of the opcode and function fields), which selects the reference's case
  (`RefSelects`); and that the two handlers of the same instruction end in the same state
  (`AgreeR`, `AgreeLoad`, `AgreeTrap` and so on), although the reference computes its
  values from the raw word and in another way (`SameI`, `SameShift`, `SameLoad`).
- `VMProofs`: the invariant `IInv` has six parts, each needed by another: the types; the
  phases (`PhaseInv`); that every TLB entry agrees with the table (`TableInv`, which is
  what `flush_page` is for); that the free list is the one `vm_boot` made, less a prefix,
  and the prefix is the frames of the mapped pages, one each (`ListInv`); that
  `user_mapping` has the frames not yet copied back (`MappingInv`); and that an entry
  without D has the contents of the image in its frame, one without A an access on its
  way (`PageInv`). From it: **VMTypeCorrect**, **FramesCorrect** (the free nodes and the
  mapped pages' frames partition the frames), **AssertionsCorrect**, and
  **PagingIsPlainMemory**, the refinement of `AddressSpace`: each step of the program's
  access, and the verdict, is a step of the plain memory, while faults, hardware updates,
  evictions and the boot leave `View` alone. The hypothesis is `FullPeriod`, from which
  `WalkInjective` gets that the list has no frame twice; **PeriodCorrect** proves it for the
  six bits of the repository.

Only model-checked: `ProcessEnds`, `AccessCompletes` and `EcallReported`, which are liveness
under fairness. Every invariant and every other action property of a passing run has a
theorem.

## Not modelled, and why

Of the reference wrapper, the bounds of `ref_load_bin` and the stubs the header never
calls are left out. Of `encoding.h`, the CSR, field and cause numbers (the ones the
emulator uses are constants of `Hart`) and the DECLARE_ lists, which repeat the names.

Of the environment `v`: the upper levels of the page table, PMP, `satp` and CSR set-up
(one failing step, `BootUnsupported`, stands for a hart that lacks the mode); `entry.S`,
whose register saving changes nothing the model has; `fence.i`; other harts
(`coherence_torture` and its `lfsr63` make no-op accesses); `printhex`, which nothing
calls; `trap_filter` and `pf_filter`, which return 0 unless a test supplies its own. The
handlers run with interrupts off on one hart, so a handler is one step, but for the loop
over the pages. The text of a failed assertion is not a part of `VM`; how it is put out
is `Htif`. On RV64 a character travels in `tohost` itself and nothing can be overwritten.

Of the environment `p`: the CSR set-up in `reset_vector` is one step, its supervisor and
vector variants need what REMUR lacks, like the environments `pm` and `pt`. The tests
themselves are inputs. Scripts, CI and build files have no behaviour at run time; what
they decide, debug or release, is the constant `OverflowChecks`. The time a cycle takes,
formatting and printing (but for the line that tells the verdict) are left out.

The models take a `usize` of at least 32 bits: on such a machine `off + 3` in
`memory.rs` cannot overflow.

## Plan

1. *(done)* `Words`, `Alu`, `Decode`, `Memory`, `RunLoop`, `Hart`, `TrapHistory`, their
   runs, the theorems above; `RefAlu`, `RefCore`, `RefHistory`, `DiffTest` and their runs.
2. *(done)* `Harness`; `StoreHistory` (the memory across the wrap at 2^32);
   `EncodingTables`; `StringLib`; `VM` with `AddressSpace`; `Htif`.
3. *(done)* Theorems: `SuccessMeansPassed` and `FailureNamed` for any set of tests;
   `LoadsSeeStores` and `VerdictSound`; the invariants of `VM` and that it implements `AddressSpace`.
4. *(done)* Theorems about the reference model: `RefTypeOK`, `RefMretUndoesTrap` and
   `ScStoresWhereLinked`; `LockstepAgree` by cases of `SameMeaning`, with `ImmediatesEqual`
   for the offsets.
5. *(done)* The words against integers for every width: `ResultsAreIntegers`,
   `BranchesOrder`, `SignExtends`, `ImmediateForms`, and `AluAgrees`; the rows of `Encoding`
   and of `EncodingTables` against `decode` for every word, and the properties of `MCDecode`;
   `MulDivIntegers` from the lemmas on words at twice the width.
6. *(done)* Theorems about `StringLib`, whose recursive functions exist by
   `RecursionExists`, and about the period of `Lfsr`.
