----------------------------- MODULE RefHistory -----------------------------
(***************************************************************************)
(* The reference core stepped on its own over a guest, with two history    *)
(* variables: what the last trap has to give back, and the address of the  *)
(* last lr.w.                                                              *)
(***************************************************************************)
EXTENDS RefCore

CONSTANTS Guests,    \* the images ref_load_bin may have left
          MaxCycles  \* bound: how many instructions a guest runs for

\* The images are bytes, MEM_SIZE of them, as the ones of Memory::new are.
ASSUME GuestAssumption == Guests \subseteq [Index -> Byte]

VARIABLES trapped,  \* {[pc, priv, mie]} of the last trap, or {}
          linked    \* {the address} of the last lr.w, or {}

history == <<trapped, linked>>
refVars == <<data, core, history>>

-----------------------------------------------------------------------------
(* What the instruction at pc is *)

Raw == IF InBounds(pc) /\ pc \cap {0, 1} = {} THEN {read32(pc)} ELSE {}

Returns    == \E ir \in Raw : major(ir) = \h73 /\ f3(ir) = 0 /\ IsMret(ir)
StoresCsr  == \E ir \in Raw : /\ major(ir) = \h73 /\ f3(ir) \notin {0, 4}
                              /\ csrno(ir) \in {CsrNo.mepc, CsrNo.mstatus}
AtomicOp(irmid) == \E ir \in Raw : /\ major(ir) = \h2f /\ Value(Field(ir, 27, 5)) = irmid
                                   /\ Accessible(r1(ir), 4)

\* The step has the effect of a trap
Traps == Trap(mcsr'.mcause, mcsr'.mtval)

Record ==
    /\ trapped' = IF Traps THEN {[pc |-> pc, priv |-> priv, mie |-> MIE \in mcsr.mstatus]}
                  ELSE IF Returns \/ StoresCsr THEN {} ELSE trapped
    /\ linked' = IF AtomicOp(2) THEN {r1(ir) : ir \in Raw} ELSE linked

RefInit == /\ data \in Guests /\ InitCore(Base)
           /\ trapped = {} /\ linked = {}

RefNext == /\ asleep \/ Value(cyclel) < MaxCycles
           /\ MiniRV32IMAStep
           /\ IF asleep THEN UNCHANGED history ELSE Record

RefSpec == RefInit /\ [][RefNext]_refVars

-----------------------------------------------------------------------------
\* Type correctness of the reference core.
RefTypeOK ==
    /\ MemoryTypeOK
    /\ regs \in [SUBSET (0..4) -> Word]
    /\ pc \in Word /\ cyclel \in Word
    /\ mcsr \in [DOMAIN CsrNo -> Word]
    /\ priv \in SUBSET {0, 1} /\ asleep \in BOOLEAN
    /\ reservation \in SUBSET (0..28)

\* mret gives back what the last trap took (mini-rv32ima.h:407-416 and
\* 523-532): the address, the mode and the interrupt enable, unless the
\* handler has stored into mepc or mstatus.  Traps in the handler, from the
\* other mode, are last traps too.
RefMretUndoesTrap ==
    [][~asleep /\ Returns =>
         \A t \in trapped :
             /\ pc' = t.pc
             /\ priv' = t.priv
             /\ (MIE \in mcsr'.mstatus) <=> t.mie]_refVars

\* sc.w stores where the last lr.w was and nowhere else, however many
\* instructions are between (mini-rv32ima.h:465-472); before any lr.w it
\* takes the first word of the RAM for reserved.
ScStoresWhereLinked ==
    [][~asleep /\ AtomicOp(3) /\ data' # data =>
         \A ir \in Raw : r1(ir) \in IF linked = {} THEN {Base} ELSE linked]_refVars
=============================================================================
