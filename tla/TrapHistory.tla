---------------------------- MODULE TrapHistory ----------------------------
(***************************************************************************)
(* The hart with a history variable for traps: what the last trap has to   *)
(* give back, until mret gives it back or the handler itself overwrites    *)
(* mepc or mstatus.  The history restricts no step of the hart.            *)
(***************************************************************************)
EXTENDS Hart, Sequences

VARIABLE saved   \* << >> or <<[pc, mie]>> of the instruction that trapped

trapVars == <<vars, saved>>

Executing(tags) == Iterating /\ \E inst \in Fetched : inst.tag \in tags

\* A csr instruction that stores into mepc or mstatus
Overwrites ==
    Iterating /\ \E inst \in Fetched :
        inst.tag = "Csr" /\ inst.csr \in {MEPC, MSTATUS} /\ WritesCsr(inst)

Trapping  == Executing({"Ecall", "Ebreak"})
Returning == Executing({"Mret"})

InterruptsOn == MSTATUS_MIE \subseteq read_csr(MSTATUS)

HInit == Init /\ saved = << >>

HTrap ==
    /\ run /\ Trapping
    /\ saved' = <<[pc |-> pc, mie |-> InterruptsOn]>>

HForget == run /\ ~Trapping /\ (Returning \/ Overwrites) /\ saved' = << >>

HKeep ==
    /\ Next /\ ~Trapping /\ ~Returning /\ ~Overwrites
    /\ UNCHANGED saved

HNext == HTrap \/ HForget \/ HKeep

HSpec == HInit /\ [][HNext]_trapVars

-----------------------------------------------------------------------------
\* While a handler runs, from the trap to its mret, whatever it does to
\* registers, memory and other CSRs, mepc is the address that trapped, MPIE
\* the interrupt enable it had, interrupts are off and MPP is M
\* (cpu.rs:85-103).
TrapStateKept ==
    saved # << >> =>
        /\ read_csr(MEPC) = saved[1].pc
        /\ MSTATUS_MPIE \subseteq read_csr(MSTATUS) <=> saved[1].mie
        /\ ~InterruptsOn
        /\ MSTATUS_MPP_MASK \subseteq read_csr(MSTATUS)

\* mret undoes the trap: it resumes at the instruction that trapped, with the
\* interrupt enable it had (cpu.rs:106-117).
MretUndoesTrap ==
    [][Returning /\ saved # << >> =>
         pc' = saved[1].pc /\ (InterruptsOn' <=> saved[1].mie)]_trapVars
=============================================================================
