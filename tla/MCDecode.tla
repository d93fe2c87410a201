------------------------------ MODULE MCDecode ------------------------------
(***************************************************************************)
(* decode() run on raw words: every opcode, every funct3, every funct7 of  *)
(* the known opcodes, the rs2 values the SYSTEM group compares, every word *)
(* with one bit changed from the seeds, so that each bit of each immediate *)
(* is seen both ways, and every instruction of encoding.h with several     *)
(* operands.                                                               *)
(***************************************************************************)
EXTENDS Decode, Encoding, RefImmediates, Sequences

Tables == INSTANCE EncodingTables

VARIABLES raw, decoded

decodeVars == <<raw, decoded>>

\* What "decoded" is before the step
NotYet == [tag |-> "NotYet"]

KnownOpcodes == {3, 15, 19, 23, 35, 51, 55, 99, 103, 111, 115}

Pack(op, f3, f7, r2) == BitsOf(op) \cup Shl(BitsOf(f3), 12)
                        \cup Shl(BitsOf(r2), 20) \cup Shl(BitsOf(f7), 25)

Packed    == {Pack(op, f3, f7, r2) : op \in KnownOpcodes, f3 \in 0..7, f7 \in 0..127,
                                     r2 \in {0, 1, 2, 5}}
AnyOpcode == {Pack(op, f3, 0, 0) : op \in 0..127, f3 \in 0..7}
Seeds     == {Pack(op, f3, 0, 0) : op \in KnownOpcodes, f3 \in 0..7} \cup {Bit \ {2, 3}}
Flip(w, i) == SymDiff(w, {i})
Flipped   == {Flip(w, i) : w \in Seeds, i \in Bit}

RawWords == Packed \cup AnyOpcode \cup Flipped

\* Operand fields all zero, all one, and alternating
Operands(row) == LET free == Bit \ row.mask IN {{}, free, {i \in free : i % 2 = 0}}

TableWords == UNION {{row.match \cup ops : ops \in Operands(row)} : row \in Tables!Instructions}

\* Words of encoding.h that encode no instruction of this hart; a hint inside
\* one of its instructions (pause in fence, prefetch in ori) is not among them
ForeignWords ==
    {w \in TableWords : \A row \in Encodings : row.rust # << >> => ~Encodes(row, w)}

DecodeInit == raw \in RawWords \cup TableWords /\ decoded = NotYet

Decode1 == decoded = NotYet /\ decoded' = decode(raw) /\ UNCHANGED raw

DecodeNext == Decode1
DecodeSpec == DecodeInit /\ [][DecodeNext]_decodeVars

Decoded == decoded # NotYet

\* The Instruction is the one that the row of encoding.h names.
Names(row, insn) ==
    insn.tag = row.rust[1] /\ (Len(row.rust) = 2 => insn.op = row.rust[2])

-----------------------------------------------------------------------------
\* Every word that encoding.h gives to an instruction of RV32I, Zicsr or the
\* privileged set decodes to the Instruction of that name, never to another
\* one and never to a panic (sources: decode.rs:4-139 against encoding.h).
DecodesWhatItShould ==
    Decoded => \A row \in Encodings : row.rust # << >> /\ Encodes(row, raw) => Names(row, decoded)

\* The words that decode() executes although no row encodes them: shifts
\* with any funct7 (decode.rs:79-84), fences (:17) and jalr (:15) with any
\* funct3, and the ecall group with any rd and rs1 (:118-130).
Lax(w) ==
    \/ opcode(w) = 19 /\ funct3(w) \in {1, 5} /\ funct7(w) # 0
    \/ opcode(w) = 15 /\ funct3(w) \notin {0, 1}
    \/ opcode(w) = 103 /\ funct3(w) # 0
    \/ opcode(w) = 115 /\ funct3(w) = 0 /\ (rd(w) # x0 \/ rs1(w) # x0)

\* Conversely, a word that decodes at all decodes to the Instruction that
\* encoding.h has it for, but for the words that decode() is lax about.
DecodesNothingElse ==
    Decoded /\ decoded # Panic =>
        \/ \E row \in Encodings : row.rust # << >> /\ Encodes(row, raw) /\ Names(row, decoded)
        \/ Lax(raw)

\* decode() yields a well-formed Instruction or panics: the unreachable!()
\* arm at decode.rs:84 is never taken.
DecodeTypeOK == Decoded => decoded \in Instruction \cup {Panic}

\* The immediates of decode.rs are those of the reference model, bit for bit.
ImmediatesAgree ==
    /\ imm_i(raw) = ref_imm_i(raw) /\ imm_u(raw) = ref_imm_u(raw)
    /\ imm_s(raw) = ref_imm_s(raw) /\ imm_b(raw) = ref_imm_b(raw)
    /\ imm_j(raw) = ref_imm_j(raw)

\* An instruction of another extension panics: it is never executed as
\* something else, but for those in the funct7 space of slli and srai, whose
\* funct7 nobody reads (decode.rs:79-84), and for the cache operations, which
\* are fences to decode.rs:17.
ForeignPanics ==
    Decoded /\ raw \in ForeignWords =>
        \/ decoded = Panic
        \/ opcode(raw) = 19 /\ decoded.tag = "Shift" /\ funct7(raw) # 0
        \/ opcode(raw) = 15 /\ decoded.tag = "Fence" /\ funct3(raw) = 2

\* What the comment at cpu.rs:52 says of misa ("RV32IMA"): the instructions
\* of the extensions it advertises are instructions of this hart.
MisaExtensionsDecode ==
    Decoded => \A row \in Encodings :
        row.ext \in {"I", "M", "A"} /\ Encodes(row, raw) => decoded # Panic
=============================================================================
