------------------------------ MODULE RefCore ------------------------------
(***************************************************************************)
(* One ref_step of src/c_src/ref_wrapper.c: MiniRV32IMAStep with count 1   *)
(* and elapsedUs 1 on the core of mini-rv32ima.h.  The RAM "image" is the  *)
(* data of Memory at MINIRV32_RAM_IMAGE_OFFSET, the constant Base; its     *)
(* bounds check is the one of a word whatever the width of the access.     *)
(*                                                                         *)
(* Nothing sets the timer's compare value (the store-control macro is      *)
(* empty), so the timer only clears MTIP and no interrupt is ever taken;   *)
(* the timer's count and cycleh, which nothing reads, are left out.        *)
(* mcsr holds the CSRs that are fields of the state; priv, asleep and      *)
(* reservation are the parts of extraflags.                                *)
(***************************************************************************)
EXTENDS Memory, RefAlu

VARIABLES regs, pc, cyclel, mcsr, priv, asleep, reservation

core == <<regs, pc, cyclel, mcsr, priv, asleep, reservation>>

\* The image is read and written a word at a time: (MINI_RV32_RAM_SIZE)
ASSUME RamAssumption == MEM_SIZE % 4 = 0

\* Registers, CSRs and the pc are uint32_t.
ASSUME RegisterAssumption == XLEN = 32

\* The CSRs with storage, by name, and their numbers
CsrNo == [mstatus |-> {8, 9}, mie |-> {2, 8, 9}, mtvec |-> {0, 2, 8, 9},
          mscratch |-> {6, 8, 9}, mepc |-> {0, 6, 8, 9}, mcause |-> {1, 6, 8, 9},
          mtval |-> {0, 1, 6, 8, 9}, mip |-> {2, 6, 8, 9}]

CYCLE     == {10, 11}
MVENDORID == {0, 4, 8, 9, 10, 11}
REFMISA   == {0, 8, 9}

MIE  == 3
MPIE == 7
MTIP == 7

-----------------------------------------------------------------------------
rdid(ir)  == Field(ir, 7, 5)
r1(ir)    == regs[Field(ir, 15, 5)]
r2(ir)    == regs[Field(ir, 20, 5)]
csrno(ir) == Field(ir, 20, 12)
major(ir) == Value(Field(ir, 0, 7))

cycle == wrapping_add(cyclel, {0})

\* The CSRs after the timer has been looked at
timed == [mcsr EXCEPT !.mip = @ \ {MTIP}]

pc_plus_4 == wrapping_add(pc, {2})

\* 0x10000000 <= addr < 0x12000000
MmioRange(addr) == 28 \in addr /\ addr \cap {25, 26, 27, 29, 30, 31} = {}

\* The end of an instruction that does not trap
WriteBack(rd, rval) == regs' = IF rd = {} THEN regs ELSE [regs EXCEPT ![rd] = rval]

Retire(rd, rval, target) == WriteBack(rd, rval) /\ pc' = target

\* Mutant: the mode is raised before mstatus has saved it
TrapModeFirst(cause, tval) ==
    /\ mcsr' = [timed EXCEPT
                   !.mcause = cause, !.mtval = tval, !.mepc = pc,
                   !.mstatus = Shl(@ \cap {MIE}, 4) \cup Shl({0, 1}, 11)]
    /\ priv' = {0, 1}
    /\ pc' = mcsr.mtvec
    /\ UNCHANGED <<data, regs, asleep, reservation>>

\* Traps enter machine mode; mstatus keeps MIE, as MPIE, and the old mode
Trap(cause, tval) ==
    /\ mcsr' = [timed EXCEPT
                   !.mcause = cause, !.mtval = tval, !.mepc = pc,
                   !.mstatus = Shl(@ \cap {MIE}, 4) \cup Shl(priv, 11)]
    /\ priv' = {0, 1}
    /\ pc' = mcsr.mtvec
    /\ UNCHANGED <<data, regs, asleep, reservation>>

IllegalInsn == Trap({1}, pc)

KeepSystem == mcsr' = timed /\ UNCHANGED <<priv, asleep, reservation>>

-----------------------------------------------------------------------------
(* The cases of the switch on the opcode *)

Upper(ir) ==
    /\ major(ir) \in {\h37, \h17}
    /\ Retire(rdid(ir), IF major(ir) = \h37 THEN ref_imm_u(ir)
                                            ELSE wrapping_add(pc, ref_imm_u(ir)), pc_plus_4)
    /\ KeepSystem /\ UNCHANGED data

Jump(ir) ==
    /\ major(ir) \in {\h6f, \h67}
    /\ Retire(rdid(ir), pc_plus_4,
              IF major(ir) = \h6f THEN wrapping_add(pc, ref_imm_j(ir))
                                  ELSE wrapping_add(r1(ir), ref_imm_i(ir)) \ {0})
    /\ KeepSystem /\ UNCHANGED data

Condition(ir) ==
    CASE f3(ir) = 0 -> r1(ir) = r2(ir)
      [] f3(ir) = 1 -> r1(ir) # r2(ir)
      [] f3(ir) = 4 -> LtI32(r1(ir), r2(ir))
      [] f3(ir) = 5 -> ~LtI32(r1(ir), r2(ir))
      [] f3(ir) = 6 -> LtU32(r1(ir), r2(ir))
      [] f3(ir) = 7 -> ~LtU32(r1(ir), r2(ir))

Branch(ir) ==
    /\ major(ir) = \h63
    /\ \/ /\ f3(ir) \notin {2, 3}
          /\ Retire({}, {}, IF Condition(ir) THEN wrapping_add(pc, ref_imm_b(ir)) ELSE pc_plus_4)
          /\ KeepSystem /\ UNCHANGED data
       \/ f3(ir) \in {2, 3} /\ IllegalInsn

Loaded(ir, addr) ==
    CASE f3(ir) = 0 -> SignExtend(read8(addr), 8)
      [] f3(ir) = 1 -> SignExtend(read16(addr), 16)
      [] f3(ir) = 2 -> read32(addr)
      [] f3(ir) = 4 -> read8(addr)
      [] f3(ir) = 5 -> read16(addr)

\* A load from the MMIO range finds no device and gives rval as it was, 0
Load(ir) ==
    LET addr == wrapping_add(r1(ir), ref_imm_i(ir))
    IN  /\ major(ir) = \h3
        /\ \/ /\ Accessible(addr, 4) /\ f3(ir) \notin {3, 6, 7}
              /\ Retire(rdid(ir), Loaded(ir, addr), pc_plus_4)
              /\ KeepSystem /\ UNCHANGED data
           \/ Accessible(addr, 4) /\ f3(ir) \in {3, 6, 7} /\ IllegalInsn
           \/ /\ ~Accessible(addr, 4) /\ MmioRange(addr)
              /\ Retire(rdid(ir), {}, pc_plus_4)
              /\ KeepSystem /\ UNCHANGED data
           \/ ~Accessible(addr, 4) /\ ~MmioRange(addr) /\ Trap({0, 2}, addr)

Store(ir) ==
    LET addr == wrapping_add(r1(ir), ref_imm_s(ir))
    IN  /\ major(ir) = \h23
        /\ \/ /\ Accessible(addr, 4) /\ f3(ir) \in 0..2
              /\ WriteLE(addr, 2^f3(ir), r2(ir))
              /\ Retire({}, {}, pc_plus_4) /\ KeepSystem
           \/ Accessible(addr, 4) /\ f3(ir) \notin 0..2 /\ IllegalInsn
           \/ /\ ~Accessible(addr, 4) /\ MmioRange(addr)
              /\ Retire({}, {}, pc_plus_4) /\ KeepSystem /\ UNCHANGED data
           \/ ~Accessible(addr, 4) /\ ~MmioRange(addr) /\ Trap({0, 1, 2}, addr)

Op(ir) ==
    /\ major(ir) \in {\h13, \h33}
    /\ LET v2 == IF is_reg(ir) THEN r2(ir) ELSE ref_imm_i(ir)
       IN  Retire(rdid(ir), IF is_reg(ir) /\ 25 \in ir THEN MulDiv(ir, r1(ir), v2)
                                                      ELSE Alu(ir, r1(ir), v2), pc_plus_4)
    /\ KeepSystem /\ UNCHANGED data

Fence(ir) ==
    /\ major(ir) = \hf
    /\ Retire({}, {}, pc_plus_4) /\ KeepSystem /\ UNCHANGED data

-----------------------------------------------------------------------------
(* SYSTEM *)

CsrRead(no) ==
    CASE \E f \in DOMAIN CsrNo : CsrNo[f] = no ->
             timed[CHOOSE f \in DOMAIN CsrNo : CsrNo[f] = no]
      [] no = CYCLE     -> cycle
      [] no = MVENDORID -> Bit \ {8, 9, 10, 11, 20, 21, 22, 23}
      [] no = REFMISA   -> {30, 22, 12, 8, 0}
      [] OTHER          -> {}

\* The write happens whatever rs1 is; a number without storage drops it
Zicsr(ir) ==
    /\ major(ir) = \h73 /\ f3(ir) \notin {0, 4}
    /\ LET old == CsrRead(csrno(ir))
           src == IF f3(ir) < 4 THEN r1(ir) ELSE Field(ir, 15, 5)
           val == CASE f3(ir) \in {1, 5} -> src
                    [] f3(ir) \in {2, 6} -> old \cup src
                    [] f3(ir) \in {3, 7} -> old \ src
       IN  /\ mcsr' = [f \in DOMAIN CsrNo |-> IF CsrNo[f] = csrno(ir) THEN val ELSE timed[f]]
           /\ Retire(rdid(ir), old, pc_plus_4)
    /\ UNCHANGED <<data, priv, asleep, reservation>>

\* csrno & 0xff == 2: mret, and every other number that ends like it
IsMret(ir) == Field(ir, 20, 8) = {1}

\* Mutant: the mask of MPP is a bit too wide
MretWide(ir) ==
    /\ major(ir) = \h73 /\ f3(ir) = 0 /\ IsMret(ir)
    /\ mcsr' = [timed EXCEPT !.mstatus = Shr(@ \cap {MPIE}, 4) \cup Shl(priv, 11) \cup {MPIE}]
    /\ priv' = Field(mcsr.mstatus, 11, 3)
    /\ Retire({}, {}, mcsr.mepc)
    /\ UNCHANGED <<data, asleep, reservation>>

Mret(ir) ==
    /\ major(ir) = \h73 /\ f3(ir) = 0 /\ IsMret(ir)
    /\ mcsr' = [timed EXCEPT !.mstatus = Shr(@ \cap {MPIE}, 4) \cup Shl(priv, 11) \cup {MPIE}]
    /\ priv' = Field(mcsr.mstatus, 11, 2)
    /\ Retire({}, {}, mcsr.mepc)
    /\ UNCHANGED <<data, asleep, reservation>>

\* ecall and ebreak, wfi, and everything else that is illegal
System(ir) ==
    /\ major(ir) = \h73 /\ f3(ir) = 0 /\ ~IsMret(ir)
    /\ \/ csrno(ir) = {}  /\ Trap(IF priv # {} THEN {0, 1, 3} ELSE {3}, pc)
       \/ csrno(ir) = {0} /\ Trap({0, 1}, pc)
       \/ /\ csrno(ir) = {0, 2, 8}
          /\ mcsr' = [timed EXCEPT !.mstatus = @ \cup {MIE}]
          /\ asleep' = TRUE
          /\ Retire({}, {}, pc_plus_4)
          /\ UNCHANGED <<data, priv, reservation>>
       \/ csrno(ir) \notin {{}, {0}, {0, 2, 8}} /\ IllegalInsn

-----------------------------------------------------------------------------
(* RV32A *)

\* The value an atomic operation stores
Amo(irmid, old, v) ==
    CASE irmid \in {1, 3} -> v
      [] irmid = 0  -> wrapping_add(v, old)
      [] irmid = 4  -> SymDiff(v, old)
      [] irmid = 12 -> v \cap old
      [] irmid = 8  -> v \cup old
      [] irmid = 16 -> IF LtI32(v, old) THEN v ELSE old
      [] irmid = 20 -> IF LtI32(old, v) THEN v ELSE old
      [] irmid = 24 -> IF LtU32(v, old) THEN v ELSE old
      [] irmid = 28 -> IF LtU32(old, v) THEN v ELSE old

\* Mutant: the reservation is that of an aligned block of eight bytes
SlotWide(addr) == wrapping_sub(addr, Base) \ {0, 1, 2, 29, 30, 31}

\* The reservation is the lowest 29 bits of the offset of an lr.w; nothing
\* takes it away, and the zero it starts with is an offset like another
Slot(addr) == wrapping_sub(addr, Base) \ {29, 30, 31}

Atomic(ir) ==
    LET addr  == r1(ir)
        irmid == Value(Field(ir, 27, 5))
        old   == read32(addr)
        fails == irmid = 3 /\ reservation # Slot(addr)
    IN  /\ major(ir) = \h2f
        /\ \/ ~Accessible(addr, 4) /\ Trap({0, 1, 2}, addr)
           \/ /\ Accessible(addr, 4) /\ irmid \notin {0, 1, 2, 3, 4, 8, 12, 16, 20, 24, 28}
              /\ IllegalInsn
           \/ /\ Accessible(addr, 4) /\ irmid \in {0, 1, 2, 3, 4, 8, 12, 16, 20, 24, 28}
              /\ IF irmid = 2 \/ fails THEN UNCHANGED data
                                       ELSE WriteLE(addr, 4, Amo(irmid, old, r2(ir)))
              /\ reservation' = IF irmid = 2 THEN Slot(addr) ELSE reservation
              /\ Retire(rdid(ir), IF irmid = 3 THEN BoolWord(fails) ELSE old, pc_plus_4)
              /\ mcsr' = timed /\ UNCHANGED <<priv, asleep>>

-----------------------------------------------------------------------------
Unknown(ir) ==
    /\ major(ir) \notin {\h37, \h17, \h6f, \h67, \h63, \h3, \h23, \h13, \h33, \hf, \h73, \h2f}
    /\ IllegalInsn

SystemReserved(ir) == major(ir) = \h73 /\ f3(ir) = 4 /\ IllegalInsn

MiniRV32IMAInsn(ir) ==
    \/ Upper(ir) \/ Jump(ir) \/ Branch(ir) \/ Load(ir) \/ Store(ir) \/ Op(ir)
    \/ Fence(ir) \/ Zicsr(ir) \/ Mret(ir) \/ System(ir) \/ SystemReserved(ir)
    \/ Atomic(ir) \/ Unknown(ir)

\* Asleep: only the timer runs, and it never wakes the core
Sleep == asleep /\ mcsr' = timed /\ UNCHANGED <<data, regs, pc, cyclel, priv, asleep, reservation>>

FetchFault ==
    \/ ~InBounds(pc) /\ Trap({0}, pc)
    \/ InBounds(pc) /\ pc \cap {0, 1} # {} /\ Trap({}, pc)

Awake ==
    /\ ~asleep
    /\ cyclel' = cycle
    /\ \/ FetchFault
       \/ InBounds(pc) /\ pc \cap {0, 1} = {} /\ MiniRV32IMAInsn(read32(pc))

MiniRV32IMAStep == Awake \/ Sleep

\* ref_init: a zeroed state, which is user mode
InitCore(start_pc) ==
    /\ regs = [idx \in SUBSET (0..4) |-> {}]
    /\ pc = start_pc
    /\ cyclel = {} /\ priv = {} /\ asleep = FALSE /\ reservation = {}
    /\ mcsr = [f \in DOMAIN CsrNo |-> {}]
=============================================================================
