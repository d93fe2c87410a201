--------------------------- MODULE RefImmediates ---------------------------
(***************************************************************************)
(* How the reference model src/c_src/mini-rv32ima.h assembles the five     *)
(* immediates: masks and shifts of the raw word "ir", then an OR of the    *)
(* upper bits when the sign bit is set.  decode.rs does it by moving       *)
(* fields and by an arithmetic shift down.                                 *)
(***************************************************************************)
EXTENDS Words

SignedFrom(v, n) == IF n \in v THEN v \cup n..31 ELSE v

ref_imm_i(ir) == SignedFrom(Shr(ir, 20), 11)
ref_imm_u(ir) == ir \cap 12..31
ref_imm_s(ir) == SignedFrom((Shr(ir, 7) \cap 0..4) \cup Shr(ir \cap 25..31, 20), 11)

ref_imm_b(ir) == SignedFrom(Shr(ir \cap 8..11, 7) \cup Shr(ir \cap 25..30, 20)
                            \cup Shl(ir \cap {7}, 4) \cup Shl(Shr(ir, 31), 12), 12)

ref_imm_j(ir) == SignedFrom(Shr(ir \cap {31}, 11) \cup Shr(ir \cap 21..30, 20)
                            \cup Shr(ir \cap {20}, 9) \cup (ir \cap 12..19), 20)
=============================================================================
