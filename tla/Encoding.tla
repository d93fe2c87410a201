------------------------------ MODULE Encoding ------------------------------
(***************************************************************************)
(* src/riscv-tests/env/encoding.h: the MATCH_x/MASK_x pairs of the RISC-V  *)
(* project for the instructions the emulator decodes, and for samples of   *)
(* the M and A extensions it does not.  "rust" names the Instruction the   *)
(* emulator gives it: <<tag, op>>, <<tag>> for a variant without an op,    *)
(* <<>> for none.  A word w encodes x when w & MASK_x = MATCH_x.           *)
(***************************************************************************)
EXTENDS Words

Op7    == 0..6            \* MASK 0x7f
F3     == Op7 \cup 12..14 \* MASK 0x707f
F3F7   == F3 \cup 25..31  \* MASK 0xfe00707f
NoRd   == 0..14 \cup 25..31 \* MASK 0xfe007fff
AmoOp  == F3 \cup 27..31  \* MASK 0xf800707f
All    == Bit             \* MASK 0xffffffff

Row(ext, match, mask, rust) ==
    [ext |-> ext, match |-> BitsOf(match), mask |-> mask, rust |-> rust]

Encodings == {
    Row("I", \h37, Op7, <<"Lui">>),          Row("I", \h17, Op7, <<"Auipc">>),
    Row("I", \h6f, Op7, <<"Jal">>),          Row("I", \h67, F3, <<"Jalr">>),
    Row("I", \h63, F3, <<"Branch", "Beq">>), Row("I", \h1063, F3, <<"Branch", "Bne">>),
    Row("I", \h4063, F3, <<"Branch", "Blt">>), Row("I", \h5063, F3, <<"Branch", "Bge">>),
    Row("I", \h6063, F3, <<"Branch", "Bltu">>), Row("I", \h7063, F3, <<"Branch", "Bgeu">>),
    Row("I", \h3, F3, <<"Load", "Lb">>),     Row("I", \h1003, F3, <<"Load", "Lh">>),
    Row("I", \h2003, F3, <<"Load", "Lw">>),  Row("I", \h4003, F3, <<"Load", "Lbu">>),
    Row("I", \h5003, F3, <<"Load", "Lhu">>), Row("I", \h23, F3, <<"Store", "Sb">>),
    Row("I", \h1023, F3, <<"Store", "Sh">>), Row("I", \h2023, F3, <<"Store", "Sw">>),
    Row("I", \h13, F3, <<"I", "Addi">>),     Row("I", \h2013, F3, <<"I", "Slti">>),
    Row("I", \h3013, F3, <<"I", "Sltiu">>),  Row("I", \h4013, F3, <<"I", "Xori">>),
    Row("I", \h6013, F3, <<"I", "Ori">>),    Row("I", \h7013, F3, <<"I", "Andi">>),
    Row("I", \h1013, F3F7, <<"Shift", "Slli">>), Row("I", \h5013, F3F7, <<"Shift", "Srli">>),
    Row("I", \h40005013, F3F7, <<"Shift", "Srai">>),
    Row("I", \h33, F3F7, <<"R", "Add">>),    Row("I", \h40000033, F3F7, <<"R", "Sub">>),
    Row("I", \h1033, F3F7, <<"R", "Sll">>),  Row("I", \h2033, F3F7, <<"R", "Slt">>),
    Row("I", \h3033, F3F7, <<"R", "Sltu">>), Row("I", \h4033, F3F7, <<"R", "Xor">>),
    Row("I", \h5033, F3F7, <<"R", "Srl">>),  Row("I", \h40005033, F3F7, <<"R", "Sra">>),
    Row("I", \h6033, F3F7, <<"R", "Or">>),   Row("I", \h7033, F3F7, <<"R", "And">>),
    Row("I", \hf, F3, <<"Fence">>),          Row("Zifencei", \h100f, F3, <<"Fence">>),
    Row("Zicsr", \h1073, F3, <<"Csr", "Rw">>), Row("Zicsr", \h2073, F3, <<"Csr", "Rs">>),
    Row("Zicsr", \h3073, F3, <<"Csr", "Rc">>), Row("Zicsr", \h5073, F3, <<"Csr", "Rwi">>),
    Row("Zicsr", \h6073, F3, <<"Csr", "Rsi">>), Row("Zicsr", \h7073, F3, <<"Csr", "Rci">>),
    Row("I", \h73, All, <<"Ecall">>),        Row("I", \h100073, All, <<"Ebreak">>),
    Row("M-mode", \h30200073, All, <<"Mret">>), Row("S-mode", \h10200073, All, <<"Sret">>),
    Row("M-mode", \h10500073, All, <<"Wfi">>),
    Row("S-mode", \h12000073, NoRd, <<"SfenceVma">>),
    Row("M", \h2000033, F3F7, <<>>),         Row("A", \h202f, AmoOp, <<>>) }

Encodes(row, w) == w \cap row.mask = row.match
=============================================================================
