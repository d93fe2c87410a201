----------------------------- MODULE MCRefCore -----------------------------
(***************************************************************************)
(* Guests for the reference core alone: a prologue that points mtvec at    *)
(* the second free slot and x1 at the code, then free slots over what the  *)
(* emulator does not have or does otherwise.                               *)
(***************************************************************************)
EXTENDS RefHistory, Asm

RamBase == {31}

Prologue == <<auipc(1, 0), addi(2, 1, 16), csrrw(0, CsrNo.mtvec, 2)>>

\* Illegal encodings: opcode 0, and unused funct3 of a branch, a load, a
\* store and SYSTEM, and an unused operation of RV32A
opcode0 == {}
branch2 == BType(\h2063, 0, 0, 8)
load3   == IType(\h3003, 0, 1, 0)
store3  == SType(\h3023, 1, 0, 0)
system4 == IType(\h4073, 0, 0, 0)
amo5    == RType(\h2800202f, 0, 1, 0)
sfence  == RType(\h12000073, 0, 0, 0)

Alphabet == {
    ecall, mret, csrrsi(3, CsrNo.mstatus, 8), scw(3, 1, 2), lrw(3, 2), scw(3, 2, 1),
    amoaddw(3, 1, 2), addi(2, 2, 4), csrrw(0, CsrNo.mepc, 2), jal(0, -4) }

Rare == {
    opcode0, branch2, load3, store3, system4, amo5, sfence, wfi, ebreak, fence,
    lui(4, \h10000), lw(3, 4, 0), sw(3, 4, 0), lw(3, 0, 0), sw(3, 0, 0), lw(3, 1, 0),
    sw(0, 1, 12), mul(3, 1, 2), bltu(1, 2, 8), amoaddw(3, 0, 2), jalr(3, 1, 2),
    csrrw(3, CYCLE, 0) }

Programs == (Alphabet \X Alphabet \X Alphabet)
            \cup ({lui(4, \h10000), ecall} \X Rare \X {mret, wfi, addi(1, 1, 1)})
            \cup {<<lui(2, 2), csrrw(0, CsrNo.mstatus, 2), mret>>}

CoreGuests == {Image(Prologue \o p) : p \in Programs}
=============================================================================
