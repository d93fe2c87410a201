------------------------------ MODULE DiffTest ------------------------------
(***************************************************************************)
(* The emulator and the reference model in lockstep: the comparison        *)
(* build.rs prepares and src/reference.rs gives the interface of.  Both    *)
(* execute the same guest, each on a memory of its own, for as long as the *)
(* instruction at pc is one the two are meant to execute alike.            *)
(***************************************************************************)
EXTENDS Hart

VARIABLES
    r_regs, r_pc, image,   \* the reference model's registers, pc and RAM
    cyclel, mcsr, priv, asleep, reservation

Ref == INSTANCE RefCore WITH regs <- r_regs, pc <- r_pc, data <- image

refCore  == <<r_regs, r_pc, image, cyclel, mcsr, priv, asleep, reservation>>
diffVars == <<vars, refCore>>

-----------------------------------------------------------------------------
\* The CSRs that are plain storage in both
PlainCsr == {"mscratch", "mtvec", "mepc", "mie"}

\* Where the two differ by design: the reference checks every access as a
\* word's, sleeps in wfi, takes sret for mret, has its own mstatus, mcause,
\* mtval, mip and misa, enters user mode, keeps the low bits of mtvec, and
\* tells srli from srai by bit 30 where decode() looks at all of funct7.
SameMeaning(inst) ==
    \/ inst.tag \in {"R", "I", "Lui", "Auipc", "Jal", "Jalr", "Branch", "Fence", "Mret"}
    \/ inst.tag = "Shift" /\ (inst.op = "Srai") = (30 \in read32(pc) /\ inst.op # "Slli")
    \/ inst.tag \in {"Load", "Store"} /\ Accessible(EffAddr(inst), 4)
    \/ inst.tag = "Csr" /\ \E f \in PlainCsr : inst.csr = Ref!CsrNo[f]
    \/ inst.tag \in {"Ecall", "Ebreak"} /\ read_csr(MTVEC) \cap {0, 1} = {}

Comparable == pc \cap {0, 1} = {} /\ ~PcOverflows /\ \E inst \in Fetched : SameMeaning(inst)

\* hart.step() and ReferenceModel::step()
Lockstep == Comparable /\ step /\ Ref!MiniRV32IMAStep

\* Hart::new and ReferenceModel::new, then the guest loaded into both
DiffInit == Init /\ Ref!InitCore(Base) /\ image = data

DiffNext ==
    \/ Lockstep
    \/ \E max_cycles \in Budgets : Call(max_cycles) /\ UNCHANGED refCore

DiffSpec == DiffInit /\ [][DiffNext]_diffVars

-----------------------------------------------------------------------------
\* After every pair of steps the two agree on the registers, the pc, the
\* memory and the CSRs both store as they are (execute/mod.rs:6-146 against
\* mini-rv32ima.h:171-500): operands that are also destinations, traps and
\* returns, and guests that overwrite themselves included.
LockstepAgree ==
    /\ regs = r_regs
    /\ pc = r_pc
    /\ data = image
    /\ \A f \in PlainCsr : read_csr(Ref!CsrNo[f]) = mcsr[f]
=============================================================================
