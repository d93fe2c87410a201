-------------------------------- MODULE Hart --------------------------------
(***************************************************************************)
(* The interpreter: Hart of src/cpu.rs, execute() of src/execute/mod.rs,   *)
(* and the run loop that drives them over the memory.  One action is one   *)
(* iteration of the loop in run(): fetch, decode, execute and the look at  *)
(* tohost_value after it, or the panic that ends it.  The variable         *)
(* "data" of Memory is the memory the hart is run on.                      *)
(***************************************************************************)
EXTENDS Decode, Memory, Alu

CONSTANTS
    TohostAddr,      \* Option<u32>: the address watched, or None
    OverflowChecks,  \* TRUE in a debug build (cargo test), FALSE with --release
    Images,          \* the memories a harness may start the hart on
    Budgets,         \* the values of max_cycles run() is called with
    MaxCalls         \* bound: how often run() is called on one hart

\* Option::None beside words: a set that is no word
None == {XLEN}

ASSUME HartAssumption ==
    /\ TohostAddr \in Word \cup {None}
    /\ OverflowChecks \in BOOLEAN
    /\ Images \subseteq [Index -> Byte]
    /\ Budgets \subseteq Nat
    /\ MaxCalls \in Nat

VARIABLES
    regs, pc, csrs, tohost_value,   \* the fields of Hart
    status,   \* of the caller: "idle", "running", "returned", "panicked"
    left,     \* iterations the loop of run() has left
    ret,      \* what the last run() returned
    calls     \* how many times run() has been called

hartVars == <<regs, pc, csrs, tohost_value>>
loopVars == <<status, left, ret, calls>>
vars     == <<data, hartVars, loopVars>>

-----------------------------------------------------------------------------
(* Registers and CSRs *)

read_reg(idx)       == IF idx = x0 THEN {} ELSE regs[idx]

\* Mutant: x0 is an ordinary register when written
write_reg_x0(idx, val) == regs' = [regs EXCEPT ![idx] = val]

write_reg(idx, val) == regs' = IF idx = x0 THEN regs ELSE [regs EXCEPT ![idx] = val]

MSTATUS == {8, 9}            \* 0x300
MISA    == {0, 8, 9}         \* 0x301
MTVEC   == {0, 2, 8, 9}      \* 0x305
MEPC    == {0, 6, 8, 9}      \* 0x341
MCAUSE  == {1, 6, 8, 9}      \* 0x342
MTVAL   == {0, 1, 6, 8, 9}   \* 0x343
MHARTID == {2, 4, 8, 9, 10, 11}  \* 0xF14

MSTATUS_MIE      == {3}
MSTATUS_MPIE     == {7}
MSTATUS_MPP_MASK == {11, 12}

CAUSE_BREAKPOINT == {0, 1}     \* 3
CAUSE_ECALL_M    == {0, 1, 3}  \* 11

\* csrs is sparse: an address outside its domain holds the initial zero
csr_at(file, addr) == IF addr \in DOMAIN file THEN file[addr] ELSE {}

read_csr(addr) == csr_at(csrs, addr)

write_csr(file, addr, val) ==
    IF addr \in {MHARTID, MISA} THEN file
    ELSE [a \in (DOMAIN file) \cup {addr} |-> IF a = addr THEN val ELSE file[a]]

MisaReset == {30, 8, 12, 0}

new == [regs |-> [idx \in RegIdx |-> {}], csrs |-> [addr \in {MISA} |-> MisaReset]]

-----------------------------------------------------------------------------
(* The end of an iteration of run().  Every handler fixes the hart's       *)
(* variables and then ends in one of these.                                *)

Panicking == status' = "panicked" /\ UNCHANGED <<left, ret, calls>>

\* Mutant: the loop never counts down
EndIterationForever ==
    /\ IF tohost_value' = None
       THEN UNCHANGED <<status, ret>>
       ELSE status' = "returned" /\ ret' = tohost_value'
    /\ UNCHANGED <<left, calls>>

\* Mutant: the last permitted cycle is not looked at
EndIterationShort ==
    /\ left' = left - 1
    /\ IF tohost_value' = None \/ left = 1
       THEN UNCHANGED <<status, ret>>
       ELSE status' = "returned" /\ ret' = tohost_value'
    /\ UNCHANGED calls

\* if let Some(val) = self.tohost_value { return Some(val) }
EndIteration ==
    /\ left' = left - 1
    /\ IF tohost_value' = None
       THEN UNCHANGED <<status, ret>>
       ELSE status' = "returned" /\ ret' = tohost_value'
    /\ UNCHANGED calls

GoTo(target) == pc' = target /\ EndIteration

\* pc + 4 is a checked addition in a debug build
InsnSize == {2}

PcOverflows == OverflowChecks /\ 2..31 \subseteq pc

\* hart.pc += 4, after everything else the instruction does
NextInsn ==
    IF PcOverflows THEN UNCHANGED pc /\ Panicking
                   ELSE GoTo(wrapping_add(pc, InsnSize))

-----------------------------------------------------------------------------
(* Loads and stores *)

\* The bytes an access touches, and its address
Width(op) == CASE op \in {"Lb", "Lbu", "Sb"} -> 1
               [] op \in {"Lh", "Lhu", "Sh"} -> 2
               [] op \in {"Lw", "Sw"}        -> 4

EffAddr(inst) == wrapping_add(read_reg(inst.rs1), inst.imm)

\* Mutant: lw reads the aligned word around the address
LoadResult_Aligned(op, addr) ==
    CASE op = "Lb"  -> SignExtend(read8(addr), 8)
      [] op = "Lh"  -> SignExtend(read16(addr), 16)
      [] op = "Lw"  -> read32(addr \ {0, 1})
      [] op = "Lbu" -> read8(addr)
      [] op = "Lhu" -> read16(addr)

LoadResult(op, addr) ==
    CASE op = "Lb"  -> SignExtend(read8(addr), 8)
      [] op = "Lh"  -> SignExtend(read16(addr), 16)
      [] op = "Lw"  -> read32(addr)
      [] op = "Lbu" -> read8(addr)
      [] op = "Lhu" -> read16(addr)

-----------------------------------------------------------------------------
(* execute(): one action per group of instructions *)

R(inst) ==
    /\ inst.tag = "R"
    /\ write_reg(inst.rd, RResult(inst.op, read_reg(inst.rs1), read_reg(inst.rs2)))
    /\ UNCHANGED <<data, csrs, tohost_value>>
    /\ NextInsn

I(inst) ==
    /\ inst.tag = "I"
    /\ write_reg(inst.rd, IResult(inst.op, read_reg(inst.rs1), inst.imm))
    /\ UNCHANGED <<data, csrs, tohost_value>>
    /\ NextInsn

Shift(inst) ==
    /\ inst.tag = "Shift"
    /\ write_reg(inst.rd, ShiftResult(inst.op, read_reg(inst.rs1), inst.shamt))
    /\ UNCHANGED <<data, csrs, tohost_value>>
    /\ NextInsn

Load(inst) ==
    /\ inst.tag = "Load"
    /\ Accessible(EffAddr(inst), Width(inst.op))
    /\ write_reg(inst.rd, LoadResult(inst.op, EffAddr(inst)))
    /\ UNCHANGED <<data, csrs, tohost_value>>
    /\ NextInsn

LoadPanic(inst) ==
    /\ inst.tag = "Load"
    /\ ~Accessible(EffAddr(inst), Width(inst.op))
    /\ UNCHANGED <<data, hartVars>>
    /\ Panicking

\* Mutant: tohost is noticed before the store, so the address alone counts
StoreAnyWidth(inst) ==
    /\ inst.tag = "Store"
    /\ Accessible(EffAddr(inst), Width(inst.op))
    /\ LET addr == EffAddr(inst)
           val  == read_reg(inst.rs2)
       IN  /\ WriteLE(addr, Width(inst.op), val)
           /\ tohost_value' = IF addr = TohostAddr /\ val # {} THEN val ELSE tohost_value
    /\ UNCHANGED <<regs, csrs>>
    /\ NextInsn

\* Mutant: a verdict is told from another request by its lowest bit
StoreOddOnly(inst) ==
    /\ inst.tag = "Store"
    /\ Accessible(EffAddr(inst), Width(inst.op))
    /\ LET addr == EffAddr(inst)
           val  == read_reg(inst.rs2)
       IN  /\ WriteLE(addr, Width(inst.op), val)
           /\ tohost_value' = IF inst.op = "Sw" /\ addr = TohostAddr /\ 0 \in val
                              THEN val ELSE tohost_value
    /\ UNCHANGED <<regs, csrs>>
    /\ NextInsn

\* Only sw looks at tohost, and only for its own address
Store(inst) ==
    /\ inst.tag = "Store"
    /\ Accessible(EffAddr(inst), Width(inst.op))
    /\ LET addr == EffAddr(inst)
           val  == read_reg(inst.rs2)
       IN  /\ WriteLE(addr, Width(inst.op), val)
           /\ tohost_value' = IF inst.op = "Sw" /\ addr = TohostAddr /\ val # {}
                              THEN val ELSE tohost_value
    /\ UNCHANGED <<regs, csrs>>
    /\ NextInsn

\* Mutant: the pc is advanced before the access is made
StorePanicAdvanced(inst) ==
    /\ inst.tag = "Store"
    /\ LET addr == EffAddr(inst)
       IN  /\ ~Accessible(addr, Width(inst.op))
           /\ IF InBounds(addr)
              THEN WriteLE(addr, Width(inst.op), read_reg(inst.rs2))
              ELSE UNCHANGED data
    /\ UNCHANGED <<regs, csrs, tohost_value>>
    /\ pc' = wrapping_add(pc, InsnSize)
    /\ Panicking

\* A store that begins inside the memory and ends outside has written the
\* bytes that fit when it panics
StorePanic(inst) ==
    /\ inst.tag = "Store"
    /\ LET addr == EffAddr(inst)
       IN  /\ ~Accessible(addr, Width(inst.op))
           /\ IF InBounds(addr)
              THEN WriteLE(addr, Width(inst.op), read_reg(inst.rs2))
              ELSE UNCHANGED data
    /\ UNCHANGED hartVars
    /\ Panicking

Branch(inst) ==
    /\ inst.tag = "Branch"
    /\ UNCHANGED <<data, regs, csrs, tohost_value>>
    /\ IF Taken(inst.op, read_reg(inst.rs1), read_reg(inst.rs2))
       THEN GoTo(wrapping_add(pc, inst.imm))
       ELSE NextInsn

Upper(inst) ==
    /\ inst.tag \in {"Lui", "Auipc"}
    /\ write_reg(inst.rd, IF inst.tag = "Lui" THEN inst.imm ELSE wrapping_add(pc, inst.imm))
    /\ UNCHANGED <<data, csrs, tohost_value>>
    /\ NextInsn

\* Mutant: the link register is written before pc + 4 is found to overflow
JumpLinksFirst(inst) ==
    /\ inst.tag \in {"Jal", "Jalr"}
    /\ UNCHANGED <<data, csrs, tohost_value>>
    /\ write_reg(inst.rd, wrapping_add(pc, InsnSize))
    /\ IF PcOverflows
       THEN UNCHANGED pc /\ Panicking
       ELSE GoTo(IF inst.tag = "Jal" THEN wrapping_add(pc, inst.imm)
                                     ELSE EffAddr(inst) \ {0})

\* Mutant: jalr keeps bit 0 of its target
JumpOdd(inst) ==
    /\ inst.tag \in {"Jal", "Jalr"}
    /\ UNCHANGED <<data, csrs, tohost_value>>
    /\ IF PcOverflows
       THEN UNCHANGED <<regs, pc>> /\ Panicking
       ELSE /\ write_reg(inst.rd, wrapping_add(pc, InsnSize))
            /\ GoTo(IF inst.tag = "Jal" THEN wrapping_add(pc, inst.imm) ELSE EffAddr(inst))

\* Mutant: jalr reads rs1 after the link is written
JumpAliased(inst) ==
    /\ inst.tag \in {"Jal", "Jalr"}
    /\ UNCHANGED <<data, csrs, tohost_value>>
    /\ IF PcOverflows
       THEN UNCHANGED <<regs, pc>> /\ Panicking
       ELSE LET link == wrapping_add(pc, InsnSize)
            IN  /\ write_reg(inst.rd, link)
                /\ GoTo(IF inst.tag = "Jal" THEN wrapping_add(pc, inst.imm)
                        ELSE wrapping_add(IF inst.rs1 = inst.rd /\ inst.rd # x0 THEN link
                                          ELSE read_reg(inst.rs1), inst.imm) \ {0})

\* Jal and Jalr compute pc + 4 before anything else: an overflow there
\* panics with nothing done.  Jalr reads rs1 before it writes rd.
Jump(inst) ==
    /\ inst.tag \in {"Jal", "Jalr"}
    /\ UNCHANGED <<data, csrs, tohost_value>>
    /\ IF PcOverflows
       THEN UNCHANGED <<regs, pc>> /\ Panicking
       ELSE /\ write_reg(inst.rd, wrapping_add(pc, InsnSize))
            /\ GoTo(IF inst.tag = "Jal" THEN wrapping_add(pc, inst.imm)
                                        ELSE EffAddr(inst) \ {0})

\* csrrs and csrrc do not write when the rs1 field is 0; the immediate forms
\* take that field itself as their operand
WritesCsr(inst) == inst.op \in {"Rw", "Rwi"} \/ inst.rs1 # x0

Csr(inst) ==
    /\ inst.tag = "Csr"
    /\ LET old == read_csr(inst.csr)
           src == IF inst.op \in {"Rw", "Rs", "Rc"} THEN read_reg(inst.rs1) ELSE inst.rs1
           val == CASE inst.op \in {"Rw", "Rwi"} -> src
                    [] inst.op \in {"Rs", "Rsi"} -> old \cup src
                    [] inst.op \in {"Rc", "Rci"} -> old \ src
       IN  /\ csrs' = IF WritesCsr(inst)
                      THEN write_csr(csrs, inst.csr, val) ELSE csrs
           /\ write_reg(inst.rd, old)
    /\ UNCHANGED <<data, tohost_value>>
    /\ NextInsn

\* Fence, Sret, Wfi and SfenceVma do nothing
Skip(inst) ==
    /\ inst.tag \in {"Fence", "Sret", "Wfi", "SfenceVma"}
    /\ UNCHANGED <<data, regs, csrs, tohost_value>>
    /\ NextInsn

\* Mutant: MPIE is left as it was when MIE is clear
TrapStatusSticky(mstatus) ==
    (mstatus \ (MSTATUS_MIE \cup MSTATUS_MPP_MASK))
    \cup (IF mstatus \cap MSTATUS_MIE # {} THEN MSTATUS_MPIE ELSE {})
    \cup MSTATUS_MPP_MASK

\* mstatus on entry to a trap: MIE moves to MPIE and is cleared, MPP = M
TrapStatus(mstatus) ==
    (mstatus \ (MSTATUS_MIE \cup MSTATUS_MPIE \cup MSTATUS_MPP_MASK))
    \cup (IF mstatus \cap MSTATUS_MIE # {} THEN MSTATUS_MPIE ELSE {})
    \cup MSTATUS_MPP_MASK

trap(cause, tval) ==
    /\ csrs' = LET a == write_csr(csrs, MEPC, pc)
                   b == write_csr(a, MCAUSE, cause)
                   c == write_csr(b, MTVAL, tval)
               IN  write_csr(c, MSTATUS, TrapStatus(read_csr(MSTATUS)))
    /\ UNCHANGED <<data, regs, tohost_value>>
    /\ GoTo(read_csr(MTVEC) \ {0, 1})

Ecall(inst)  == inst.tag = "Ecall"  /\ trap(CAUSE_ECALL_M, {})
Ebreak(inst) == inst.tag = "Ebreak" /\ trap(CAUSE_BREAKPOINT, pc)

\* Mutant: mret turns interrupts on whatever MPIE says
MretStatusOn(mstatus) == mstatus \cup MSTATUS_MIE \cup MSTATUS_MPIE

\* mstatus on return: MIE comes back from MPIE, MPIE is set, MPP is kept
MretStatus(mstatus) ==
    (mstatus \ (MSTATUS_MIE \cup MSTATUS_MPIE))
    \cup (IF mstatus \cap MSTATUS_MPIE # {} THEN MSTATUS_MIE ELSE {})
    \cup MSTATUS_MPIE

Mret(inst) ==
    /\ inst.tag = "Mret"
    /\ csrs' = write_csr(csrs, MSTATUS, MretStatus(read_csr(MSTATUS)))
    /\ UNCHANGED <<data, regs, tohost_value>>
    /\ GoTo(read_csr(MEPC))

DecodePanic(inst) ==
    /\ inst \in {Panic, Unreachable}
    /\ UNCHANGED <<data, hartVars>>
    /\ Panicking

execute(inst) ==
    \/ R(inst) \/ I(inst) \/ Shift(inst) \/ Load(inst) \/ LoadPanic(inst)
    \/ Store(inst) \/ StorePanic(inst) \/ Branch(inst) \/ Upper(inst)
    \/ Jump(inst) \/ Csr(inst) \/ Skip(inst)
    \/ Ecall(inst) \/ Ebreak(inst) \/ Mret(inst) \/ DecodePanic(inst)

-----------------------------------------------------------------------------
(* run(): the loop *)

\* Mutant: one iteration too many, 0..=max_cycles
IteratingInclusive == status = "running" /\ left >= 0

Iterating == status = "running" /\ left > 0

\* The instruction at pc, when it can be fetched
Fetched == IF Accessible(pc, 4) THEN {decode(read32(pc))} ELSE {}

step == Iterating /\ \E inst \in Fetched : execute(inst)

FetchPanic ==
    /\ Iterating
    /\ ~Accessible(pc, 4)
    /\ UNCHANGED <<data, hartVars>>
    /\ Panicking

\* The loop has run out: None
Exhausted ==
    /\ status = "running" /\ left = 0
    /\ status' = "returned" /\ ret' = None
    /\ UNCHANGED <<data, hartVars, left, calls>>

\* A caller calls run(), the first time or again on the same hart
Call(max_cycles) ==
    /\ status \in {"idle", "returned"} /\ calls < MaxCalls
    /\ status' = "running" /\ left' = max_cycles /\ ret' = None
    /\ calls' = calls + 1
    /\ UNCHANGED <<data, hartVars>>

run == step \/ FetchPanic \/ Exhausted

\* Hart::new(), then the harness sets pc and tohost_addr
Init ==
    /\ data \in Images
    /\ regs = new.regs /\ csrs = new.csrs
    /\ pc = Base /\ tohost_value = None
    /\ status = "idle" /\ left = 0 /\ ret = None /\ calls = 0

Next == run \/ \E max_cycles \in Budgets : Call(max_cycles)

\* The loop as its caller sees it
Loop == INSTANCE RunLoop WITH verdict <- tohost_value, Verdicts <- Word

\* Weak fairness of run: while run() is executing it has a step to take, as
\* nothing in it waits, so ENABLED run is written status = "running"
Fairness == []<>(status # "running") \/ []<><<run>>_vars

Spec == Init /\ [][Next]_vars /\ Fairness

-----------------------------------------------------------------------------
(* Properties *)

IsCsrFile(f) ==
    /\ f = [a \in DOMAIN f |-> f[a]]
    /\ DOMAIN f \subseteq CsrAddr
    /\ \A a \in DOMAIN f : f[a] \in Word

HartTypeOK ==
    /\ regs \in [RegIdx -> Word]
    /\ pc \in Word
    /\ IsCsrFile(csrs)
    /\ tohost_value \in Word \cup {None}

LoopTypeOK ==
    /\ status \in {"idle", "running", "returned", "panicked"}
    /\ left \in Nat
    /\ ret \in Word \cup {None}
    /\ calls \in 0..MaxCalls

\* Type correctness of the memory, the hart and the loop.
TypeOK == MemoryTypeOK /\ HartTypeOK /\ LoopTypeOK

\* x0 stays zero whatever names it as a destination (cpu.rs:64-68), misa
\* keeps its reset value and mhartid stays zero whatever csr instruction or
\* trap addresses them (cpu.rs:76-82).
HardwiredState ==
    /\ regs[x0] = {}
    /\ read_csr(MISA) = MisaReset
    /\ read_csr(MHARTID) = {}

\* The program counter of a guest becomes odd only by mret, which takes mepc
\* as it is (cpu.rs:116): branch and jal offsets are even, jalr clears bit 0,
\* traps clear the low bits of mtvec.
OddPcOnlyByMret ==
    [][0 \notin pc /\ 0 \in pc' => \E inst \in Fetched : inst.tag = "Mret"]_vars

\* A panic is precise: the instruction that panics has changed no register,
\* no CSR and no memory, with two exceptions: a store that runs over the end
\* of the memory has written bytes of the last three (memory.rs:57-64), and in
\* a debug build an instruction at 0xfffffffc that is no jump has had its
\* effect when pc += 4 overflows (execute/mod.rs:24-25 against 113 and 117).
PanicIsPrecise ==
    [][status' = "panicked" =>
         /\ pc' = pc
         /\ \/ /\ UNCHANGED <<regs, csrs, tohost_value>>
               /\ \A m \in Index : data'[m] # data[m] =>
                     /\ m >= MEM_SIZE - 3
                     /\ \E inst \in Fetched : inst.tag = "Store"
            \/ /\ OverflowChecks /\ 2..31 \subseteq pc
               /\ \E inst \in Fetched : inst.tag \notin {"Jal", "Jalr"}]_vars

\* The hart implements the loop: seen through tohost_value and the caller's
\* variables, every step is one of RunLoop or none.
ImplementsLoop == Loop!Spec
=============================================================================
