------------------------------- MODULE Decode -------------------------------
(***************************************************************************)
(* src/decode.rs and src/instruction.rs: from a raw 32-bit word to an      *)
(* Instruction.  A variant of the enum is a record whose "tag" is the      *)
(* variant's name.  A register index is the set of the one bits of its     *)
(* five-bit field (x0 is the empty set), a CSR address that of its twelve. *)
(* A panic! arm yields Panic, the unreachable!() arm yields Unreachable.   *)
(***************************************************************************)
EXTENDS Words

ASSUME WidthAssumption == XLEN = 32

RegIdx  == SUBSET (0..4)
CsrAddr == SUBSET (0..11)
x0      == {}

-----------------------------------------------------------------------------
(* The operation enums, each with the code its match arm compares:         *)
(* <<funct3, funct7>> for ROp, funct3 for the others.                      *)

ROp == [Add |-> <<0, 0>>, Sub |-> <<0, 32>>, Sll |-> <<1, 0>>,
        Slt |-> <<2, 0>>, Sltu |-> <<3, 0>>, Xor |-> <<4, 0>>,
        Srl |-> <<5, 0>>, Sra |-> <<5, 32>>, Or |-> <<6, 0>>,
        And |-> <<7, 0>>]
IOp     == [Addi |-> 0, Slti |-> 2, Sltiu |-> 3, Xori |-> 4, Ori |-> 6, Andi |-> 7]
LoadOp  == [Lb |-> 0, Lh |-> 1, Lw |-> 2, Lbu |-> 4, Lhu |-> 5]
StoreOp == [Sb |-> 0, Sh |-> 1, Sw |-> 2]
BrOp    == [Beq |-> 0, Bne |-> 1, Blt |-> 4, Bge |-> 5, Bltu |-> 6, Bgeu |-> 7]
CsrOp   == [Rw |-> 1, Rs |-> 2, Rc |-> 3, Rwi |-> 5, Rsi |-> 6, Rci |-> 7]
ShiftOp == {"Slli", "Srli", "Srai"}

\* Instructions without operands the interpreter reads
Plain == {"Ecall", "Ebreak", "Fence", "Mret", "Sret", "Wfi", "SfenceVma"}

Instruction ==
    [tag : {"R"}, op : DOMAIN ROp, rd : RegIdx, rs1 : RegIdx, rs2 : RegIdx]
    \cup [tag : {"I"}, op : DOMAIN IOp, rd : RegIdx, rs1 : RegIdx, imm : Word]
    \cup [tag : {"Shift"}, op : ShiftOp, rd : RegIdx, rs1 : RegIdx, shamt : RegIdx]
    \cup [tag : {"Load"}, op : DOMAIN LoadOp, rd : RegIdx, rs1 : RegIdx, imm : Word]
    \cup [tag : {"Store"}, op : DOMAIN StoreOp, rs1 : RegIdx, rs2 : RegIdx, imm : Word]
    \cup [tag : {"Branch"}, op : DOMAIN BrOp, rs1 : RegIdx, rs2 : RegIdx, imm : Word]
    \cup [tag : {"Lui", "Auipc", "Jal"}, rd : RegIdx, imm : Word]
    \cup [tag : {"Jalr"}, rd : RegIdx, rs1 : RegIdx, imm : Word]
    \cup [tag : {"Csr"}, op : DOMAIN CsrOp, rd : RegIdx, rs1 : RegIdx, csr : CsrAddr]
    \cup [tag : Plain]

Panic       == [tag |-> "Panic"]
Unreachable == [tag |-> "Unreachable"]

-----------------------------------------------------------------------------
(* Fields *)

opcode(inst) == Value(Field(inst, 0, 7))
rd(inst)     == Field(inst, 7, 5)
rs1(inst)    == Field(inst, 15, 5)
rs2(inst)    == Field(inst, 20, 5)
funct3(inst) == Value(Field(inst, 12, 3))
funct7(inst) == Value(Field(inst, 25, 7))
imm_i(inst)  == Sar(inst, 20)
imm_u(inst)  == inst \ 0..11

\* Mutant: the sign shift of imm_s copied from imm_b
imm_s_Short(inst) ==
    LET v == Shl(Shr(inst, 25), 5) \cup Field(inst, 7, 5)
    IN  Sar(Shl(v, 19), 19)

imm_s(inst) ==
    LET v == Shl(Shr(inst, 25), 5) \cup Field(inst, 7, 5)
    IN  Sar(Shl(v, 20), 20)

imm_b(inst) ==
    LET v == Shl(Shr(inst, 31), 12) \cup Shl(Field(inst, 7, 1), 11)
             \cup Shl(Field(inst, 25, 6), 5) \cup Shl(Field(inst, 8, 4), 1)
    IN  Sar(Shl(v, 19), 19)

imm_j(inst) ==
    LET v == Shl(Shr(inst, 31), 20) \cup Shl(Field(inst, 12, 8), 12)
             \cup Shl(Field(inst, 20, 1), 11) \cup Shl(Field(inst, 21, 10), 1)
    IN  Sar(Shl(v, 11), 11)

-----------------------------------------------------------------------------
(* Grouped decoding *)

Known(Ops, code) == \E op \in DOMAIN Ops : Ops[op] = code
OpOf(Ops, code)  == CHOOSE op \in DOMAIN Ops : Ops[op] = code

\* Mutant: funct7 told apart by bit 5 alone, as in (f7 & 0x20 != 0)
decode_r_Bit30(inst) ==
    LET code == <<funct3(inst), IF 30 \in inst THEN 32 ELSE 0>>
    IN  IF Known(ROp, code)
        THEN [tag |-> "R", op |-> OpOf(ROp, code), rd |-> rd(inst), rs1 |-> rs1(inst), rs2 |-> rs2(inst)]
        ELSE Panic

decode_r(inst) ==
    LET code == <<funct3(inst), funct7(inst)>>
    IN  IF Known(ROp, code)
        THEN [tag |-> "R", op |-> OpOf(ROp, code),
              rd |-> rd(inst), rs1 |-> rs1(inst), rs2 |-> rs2(inst)]
        ELSE Panic

\* Mutant: srli and srai told apart by funct3 alone
decode_i_alu_NoF7(inst) ==
    LET f3 == funct3(inst)
    IN  IF Known(IOp, f3)
        THEN [tag |-> "I", op |-> OpOf(IOp, f3), rd |-> rd(inst),
              rs1 |-> rs1(inst), imm |-> imm_i(inst)]
        ELSE [tag |-> "Shift", op |-> IF f3 = 1 THEN "Slli" ELSE "Srli",
              rd |-> rd(inst), rs1 |-> rs1(inst), shamt |-> Field(inst, 20, 5)]

\* funct7 is not looked at for slli, and only compared with 0 for srli/srai
decode_i_alu(inst) ==
    LET f3 == funct3(inst)
        shift(op) == [tag |-> "Shift", op |-> op, rd |-> rd(inst),
                      rs1 |-> rs1(inst), shamt |-> Field(inst, 20, 5)]
    IN  CASE Known(IOp, f3) -> [tag |-> "I", op |-> OpOf(IOp, f3), rd |-> rd(inst),
                                rs1 |-> rs1(inst), imm |-> imm_i(inst)]
          [] f3 = 1 -> shift("Slli")
          [] f3 = 5 -> shift(IF funct7(inst) = 0 THEN "Srli" ELSE "Srai")
          [] OTHER -> Unreachable

\* Mutant: the panic arm of decode_load forgotten, any funct3 is a load
decode_load_Lax(inst) ==
    [tag |-> "Load", op |-> IF Known(LoadOp, funct3(inst)) THEN OpOf(LoadOp, funct3(inst)) ELSE "Ld",
     rd |-> rd(inst), rs1 |-> rs1(inst), imm |-> imm_i(inst)]

decode_load(inst) ==
    IF Known(LoadOp, funct3(inst))
    THEN [tag |-> "Load", op |-> OpOf(LoadOp, funct3(inst)), rd |-> rd(inst),
          rs1 |-> rs1(inst), imm |-> imm_i(inst)]
    ELSE Panic

decode_store(inst) ==
    IF Known(StoreOp, funct3(inst))
    THEN [tag |-> "Store", op |-> OpOf(StoreOp, funct3(inst)), rs1 |-> rs1(inst),
          rs2 |-> rs2(inst), imm |-> imm_s(inst)]
    ELSE Panic

decode_branch(inst) ==
    IF Known(BrOp, funct3(inst))
    THEN [tag |-> "Branch", op |-> OpOf(BrOp, funct3(inst)), rs1 |-> rs1(inst),
          rs2 |-> rs2(inst), imm |-> imm_b(inst)]
    ELSE Panic

decode_system(inst) ==
    LET f3 == funct3(inst)
        f7 == funct7(inst)
        r2 == Value(rs2(inst))
    IN  IF f3 = 0
        THEN CASE f7 =  0 /\ r2 = 0 -> [tag |-> "Ecall"]
               [] f7 =  0 /\ r2 = 1 -> [tag |-> "Ebreak"]
               [] f7 = 24 /\ r2 = 2 -> [tag |-> "Mret"]
               [] f7 =  8 /\ r2 = 2 -> [tag |-> "Sret"]
               [] f7 =  8 /\ r2 = 5 -> [tag |-> "Wfi"]
               [] f7 =  9           -> [tag |-> "SfenceVma"]
               [] OTHER             -> Panic
        ELSE IF Known(CsrOp, f3)
             THEN [tag |-> "Csr", op |-> OpOf(CsrOp, f3), rd |-> rd(inst),
                   rs1 |-> rs1(inst), csr |-> Field(inst, 20, 12)]
             ELSE Panic

decode(inst) ==
    LET op == opcode(inst)
    IN  CASE op = \b0110011 -> decode_r(inst)
          [] op = \b0010011 -> decode_i_alu(inst)
          [] op = \b0000011 -> decode_load(inst)
          [] op = \b0100011 -> decode_store(inst)
          [] op = \b1100011 -> decode_branch(inst)
          [] op = \b0110111 -> [tag |-> "Lui", rd |-> rd(inst), imm |-> imm_u(inst)]
          [] op = \b0010111 -> [tag |-> "Auipc", rd |-> rd(inst), imm |-> imm_u(inst)]
          [] op = \b1101111 -> [tag |-> "Jal", rd |-> rd(inst), imm |-> imm_j(inst)]
          [] op = \b1100111 -> [tag |-> "Jalr", rd |-> rd(inst), rs1 |-> rs1(inst),
                                imm |-> imm_i(inst)]
          [] op = \b1110011 -> decode_system(inst)
          [] op = \b0001111 -> [tag |-> "Fence"]
          [] OTHER          -> Panic
=============================================================================
