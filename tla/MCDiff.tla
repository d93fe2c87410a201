------------------------------- MODULE MCDiff -------------------------------
(***************************************************************************)
(* Guests for the lockstep: registers named twice, a handler, code that is *)
(* written over, and bytes and halves loaded back with their signs.        *)
(***************************************************************************)
EXTENDS DiffTest, Asm

RamBase  == {31}
NoTohost == None

\* x1 is the code, x2 the handler (the second free slot), x3 = -2
Prologue == <<auipc(1, 0), addi(2, 1, 20), csrrw(0, MTVEC, 2), addi(3, 0, -2)>>

MSCRATCH == {6, 8, 9}

Alphabet == {
    jalr(1, 1, 21), jalr(2, 2, 4), csrrw(3, MSCRATCH, 3), csrrs(3, MEPC, 3), csrrw(2, MEPC, 2),
    csrrci(3, MTVEC, 16), ecall, ebreak, mret, sb(3, 1, 24), sh(3, 2, 5), sw(3, 1, 27),
    sw(2, 1, 24), lb(3, 2, 3), lh(2, 2, 2), lbu(3, 1, 25), sub(3, 0, 3), srai(3, 3, 31),
    blt(3, 1, 8), bltu(3, 1, -4), jal(3, 8) }

DiffGuests == {Image(Prologue \o p) : p \in [1..3 -> Alphabet]}
=============================================================================
