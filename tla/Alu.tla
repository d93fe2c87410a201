-------------------------------- MODULE Alu --------------------------------
(***************************************************************************)
(* The results of execute() (src/execute/mod.rs) that are functions of     *)
(* their operands: the ALU groups and the conditions of branches.          *)
(***************************************************************************)
EXTENDS Words

\* v2 & 0x1F
shamt5(v) == Value(v \cap 0..4)

\* Mutant: slt compares without the casts to i32
RResultUncast(op, v1, v2) ==
    CASE op = "Add"  -> wrapping_add(v1, v2)
      [] op = "Sub"  -> wrapping_sub(v1, v2)
      [] op = "Sll"  -> Shl(v1, shamt5(v2))
      [] op \in {"Slt", "Sltu"} -> BoolWord(LtU32(v1, v2))
      [] op = "Xor"  -> SymDiff(v1, v2)
      [] op = "Srl"  -> Shr(v1, shamt5(v2))
      [] op = "Sra"  -> Sar(v1, shamt5(v2))
      [] op = "Or"   -> v1 \cup v2
      [] op = "And"  -> v1 \cap v2

RResult(op, v1, v2) ==
    CASE op = "Add"  -> wrapping_add(v1, v2)
      [] op = "Sub"  -> wrapping_sub(v1, v2)
      [] op = "Sll"  -> Shl(v1, shamt5(v2))
      [] op = "Slt"  -> BoolWord(LtI32(v1, v2))
      [] op = "Sltu" -> BoolWord(LtU32(v1, v2))
      [] op = "Xor"  -> SymDiff(v1, v2)
      [] op = "Srl"  -> Shr(v1, shamt5(v2))
      [] op = "Sra"  -> Sar(v1, shamt5(v2))
      [] op = "Or"   -> v1 \cup v2
      [] op = "And"  -> v1 \cap v2

\* Mutant: sltiu compares its sign-extended immediate as it stands, signed
IResultSigned(op, v, imm) ==
    CASE op = "Addi"  -> wrapping_add(v, imm)
      [] op \in {"Slti", "Sltiu"} -> BoolWord(LtI32(v, imm))
      [] op = "Xori"  -> SymDiff(v, imm)
      [] op = "Ori"   -> v \cup imm
      [] op = "Andi"  -> v \cap imm

IResult(op, v, imm) ==
    CASE op = "Addi"  -> wrapping_add(v, imm)
      [] op = "Slti"  -> BoolWord(LtI32(v, imm))
      [] op = "Sltiu" -> BoolWord(LtU32(v, imm))
      [] op = "Xori"  -> SymDiff(v, imm)
      [] op = "Ori"   -> v \cup imm
      [] op = "Andi"  -> v \cap imm

ShiftResult(op, v, shamt) ==
    CASE op = "Slli" -> Shl(v, Value(shamt))
      [] op = "Srli" -> Shr(v, Value(shamt))
      [] op = "Srai" -> Sar(v, Value(shamt))

\* Mutant: bge and bgeu do not take the branch when the operands are equal
TakenStrict(op, v1, v2) ==
    CASE op = "Beq"  -> v1 = v2
      [] op = "Bne"  -> v1 # v2
      [] op = "Blt"  -> LtI32(v1, v2)
      [] op = "Bge"  -> LtI32(v2, v1)
      [] op = "Bltu" -> LtU32(v1, v2)
      [] op = "Bgeu" -> LtU32(v2, v1)

Taken(op, v1, v2) ==
    CASE op = "Beq"  -> v1 = v2
      [] op = "Bne"  -> v1 # v2
      [] op = "Blt"  -> LtI32(v1, v2)
      [] op = "Bge"  -> ~LtI32(v1, v2)
      [] op = "Bltu" -> LtU32(v1, v2)
      [] op = "Bgeu" -> ~LtU32(v1, v2)
=============================================================================
