------------------------------- MODULE MCHart -------------------------------
(***************************************************************************)
(* Guests for the hart: every program of a few slots over a small alphabet *)
(* of instructions.                                                        *)
(***************************************************************************)
EXTENDS Hart, Asm

Programs(prologue, slots, alphabet) == {prologue \o p : p \in [1..slots -> alphabet]}
ImagesOf(programs) == {Image(p) : p \in programs}

RamBase == {31}   \* 0x80000000

FlowTohost == {3, 31}   \* the third slot, which sw reaches by a link to the second

-----------------------------------------------------------------------------
\* The only states without a step are those in which the caller is done with
\* the hart.  They stutter here, so that TLC reports any other, a run() with
\* an instruction nothing handles, as a deadlock.
Done == /\ status = "panicked" \/ (status = "returned" /\ calls = MaxCalls)
        /\ UNCHANGED vars

MCSpec == Init /\ [][Next \/ Done]_vars /\ Fairness

-----------------------------------------------------------------------------
(* Flow: jumps, branches and link registers that alias their operands, CSR *)
(* swaps on one register, guests that loop for ever, leave the memory,     *)
(* return to an odd mepc, or report from within their own code.            *)

FlowAlphabet == {
    jal(1, 8), jal(0, -4), jalr(1, 1, 5), jalr(0, 1, 0),
    beq(1, 0, 8), blt(0, 2, -4), auipc(1, 0), addi(2, 1, -1), addi(0, 1, 7),
    sub(2, 0, 1), sltu(1, 2, 1), csrrw(1, MEPC, 2), csrrsi(2, MHARTID, 5),
    csrrci(2, MISA, 1), mret, sw(1, 1, 4) }

FlowImages == ImagesOf(Programs(<< >>, 3, FlowAlphabet))
=============================================================================
