------------------------------ MODULE MCAccess ------------------------------
(***************************************************************************)
(* Guests that load, store and jump in a memory of eight words that lies   *)
(* across the top of the address space, with tohost in its last word.      *)
(***************************************************************************)
EXTENDS StoreHistory, Asm

\* The caller is done with the hart: the only states without a step
Done == /\ status = "panicked" \/ (status = "returned" /\ calls = MaxCalls)
        /\ UNCHANGED storeVars

MCSpec == SInit /\ [][SNext \/ Done]_storeVars

EdgeBase   == {3, 5, 6, 7} \cup 8..31   \* 0xffffffe8
EdgeTohost == {2}                       \* 0x00000004, the base + 28

MSCRATCH == {6, 8, 9}   \* 0x340

\* Every width at tohost, over the end of the memory, across the wrap and
\* into the code itself; x1 is the base
AccessAlphabet == {
    addi(2, 2, 1), slli(2, 2, 8), sw(2, 1, 28), sh(2, 1, 28), sb(2, 1, 28),
    sw(0, 0, 4), sw(1, 0, 5), sh(2, 1, 31), lb(2, 1, 28), lh(3, 0, 7), lw(2, 1, 22),
    sw(3, 1, 22), sw(3, 1, 12), sb(1, 1, -1), lw(3, 1, 4), jal(0, -4) }

\* Jumps over the top, where pc += 4 overflows in a debug build
TopAlphabet == {
    addi(1, 1, 1), sw(1, 0, 4), sw(1, 0, -4), jal(2, 4), jal(2, -8), jalr(2, 2, 0),
    beq(0, 0, 4), bne(1, 0, -4), csrrw(1, MSCRATCH, 1), lw(1, 0, 4), sh(1, 0, 7),
    add(1, 1, 1), ecall, fence }

\* The second family's free slots are at 0xfffffff8, 0xfffffffc and 0
Programs ==
    {<<auipc(1, 0), addi(2, 0, 1)>> \o p : p \in [1..3 -> AccessAlphabet]}
    \cup {<<jal(0, 16), fence, fence, fence>> \o p : p \in [1..3 -> TopAlphabet]}

AccessImages == {Image(p) : p \in Programs}
=============================================================================
