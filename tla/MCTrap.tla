------------------------------- MODULE MCTrap -------------------------------
(***************************************************************************)
(* Guests with a trap handler.  The prologue points mtvec at the word      *)
(* after the first free slot, with its low bits set; the free slots hold   *)
(* the trapping code and the handler, traps in the handler included.       *)
(***************************************************************************)
EXTENDS TrapHistory, Asm

RamBase  == {31}
NoTohost == None

Prologue == <<auipc(1, 0), addi(1, 1, 19), csrrw(0, MTVEC, 1)>>

Alphabet == {
    ecall, ebreak, mret, csrrsi(0, MSTATUS, 8), csrrci(2, MSTATUS, 8),
    csrrs(2, MEPC, 0), addi(2, 2, 5), csrrw(2, MEPC, 2), csrrw(0, MEPC, 1),
    csrrw(2, MSTATUS, 2), csrrw(0, MTVEC, 0), jal(0, -4) }

TrapImages == {Image(Prologue \o p) : p \in [1..4 -> Alphabet]}
=============================================================================
