-------------------------------- MODULE Asm --------------------------------
(***************************************************************************)
(* An assembler for the guests of the MC modules: RV32I formats over       *)
(* register and immediate numbers, and the memory image of a program.      *)
(* A negative immediate is taken modulo 2^12, 2^13 or 2^21.                *)
(***************************************************************************)
EXTENDS Memory

LOCAL At(n, lo) == Shl(BitsOf(n), lo)

\* Bits hi..lo of the number n, moved to position "to"
LOCAL Part(n, lo, width, to) == Shl(Field(BitsOf(n), lo, width), to)

RType(base, rd, rs1, rs2) == BitsOf(base) \cup At(rd, 7) \cup At(rs1, 15) \cup At(rs2, 20)

IType(base, rd, rs1, imm) == BitsOf(base) \cup At(rd, 7) \cup At(rs1, 15) \cup At(imm % 4096, 20)

SType(base, rs1, rs2, imm) ==
    LET n == imm % 4096
    IN  BitsOf(base) \cup At(rs1, 15) \cup At(rs2, 20)
        \cup Part(n, 0, 5, 7) \cup Part(n, 5, 7, 25)

BType(base, rs1, rs2, imm) ==
    LET n == imm % 8192
    IN  BitsOf(base) \cup At(rs1, 15) \cup At(rs2, 20) \cup Part(n, 11, 1, 7)
        \cup Part(n, 1, 4, 8) \cup Part(n, 5, 6, 25) \cup Part(n, 12, 1, 31)

UType(base, rd, upper) == BitsOf(base) \cup At(rd, 7) \cup At(upper, 12)

JType(base, rd, imm) ==
    LET n == imm % 2097152
    IN  BitsOf(base) \cup At(rd, 7) \cup Part(n, 12, 8, 12) \cup Part(n, 11, 1, 20)
        \cup Part(n, 1, 10, 21) \cup Part(n, 20, 1, 31)

lui(rd, upper)     == UType(\h37, rd, upper)
auipc(rd, upper)   == UType(\h17, rd, upper)
jal(rd, off)       == JType(\h6f, rd, off)
jalr(rd, rs1, imm) == IType(\h67, rd, rs1, imm)
beq(rs1, rs2, off) == BType(\h63, rs1, rs2, off)
bne(rs1, rs2, off) == BType(\h1063, rs1, rs2, off)
bltu(rs1, rs2, off) == BType(\h6063, rs1, rs2, off)
blt(rs1, rs2, off) == BType(\h4063, rs1, rs2, off)
lb(rd, rs1, imm)   == IType(\h3, rd, rs1, imm)
lh(rd, rs1, imm)   == IType(\h1003, rd, rs1, imm)
lw(rd, rs1, imm)   == IType(\h2003, rd, rs1, imm)
lbu(rd, rs1, imm)  == IType(\h4003, rd, rs1, imm)
sb(rs2, rs1, imm)  == SType(\h23, rs1, rs2, imm)
sh(rs2, rs1, imm)  == SType(\h1023, rs1, rs2, imm)
sw(rs2, rs1, imm)  == SType(\h2023, rs1, rs2, imm)
addi(rd, rs1, imm) == IType(\h13, rd, rs1, imm)
slti(rd, rs1, imm) == IType(\h2013, rd, rs1, imm)
xori(rd, rs1, imm) == IType(\h4013, rd, rs1, imm)
slli(rd, rs1, sh_) == IType(\h1013, rd, rs1, sh_)
srai(rd, rs1, sh_) == IType(\h40005013, rd, rs1, sh_)
add(rd, rs1, rs2)  == RType(\h33, rd, rs1, rs2)
sub(rd, rs1, rs2)  == RType(\h40000033, rd, rs1, rs2)
sltu(rd, rs1, rs2) == RType(\h3033, rd, rs1, rs2)
mul(rd, rs1, rs2)  == RType(\h2000033, rd, rs1, rs2)
lrw(rd, rs1)       == RType(\h1000202f, rd, rs1, 0)
scw(rd, rs1, rs2)  == RType(\h1800202f, rd, rs1, rs2)
amoaddw(rd, rs1, rs2) == RType(\h202f, rd, rs1, rs2)
csrrw(rd, csr, rs1)  == RType(\h1073, rd, rs1, 0) \cup Shl(csr, 20)
csrrs(rd, csr, rs1)  == RType(\h2073, rd, rs1, 0) \cup Shl(csr, 20)
csrrsi(rd, csr, imm) == RType(\h6073, rd, imm, 0) \cup Shl(csr, 20)
csrrci(rd, csr, imm) == RType(\h7073, rd, imm, 0) \cup Shl(csr, 20)
ecall  == BitsOf(\h73)
ebreak == BitsOf(\h100073)
mret   == BitsOf(\h30200073)
wfi    == BitsOf(\h10500073)
fence  == BitsOf(\hf)

\* The binary of a sequence of words, little-endian, and its memory
Binary(prog) == [k \in 1..(4 * Len(prog)) |-> Field(prog[((k - 1) \div 4) + 1], 8 * ((k - 1) % 4), 8)]
Image(prog)  == load_binary(Binary(prog))
=============================================================================
