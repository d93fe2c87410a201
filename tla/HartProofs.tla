----------------------------- MODULE HartProofs -----------------------------
(***************************************************************************)
(* Theorems about decode(), for every 32-bit word, and about the hart, for *)
(* every memory size, base, tohost address, initial memory and cycle       *)
(* budget, and for both builds.                                            *)
(***************************************************************************)
EXTENDS Hart, MCDecode, WordTheorems

-----------------------------------------------------------------------------
(* The immediates *)

LEMMA BitSet == Bit = 0..31 /\ Sign = 31
  BY WidthAssumption DEF Bit, Sign

\* The immediates of decode.rs:30-47 are, on every one of the 2^32 words,
\* those of the reference model (mini-rv32ima.h:185-186, 193-194, 201-202,
\* 260-261): both sides place the same bit at every position.
THEOREM ImmediatesEqual ==
    ASSUME NEW inst \in Word
    PROVE  /\ imm_i(inst) = ref_imm_i(inst)
           /\ imm_u(inst) = ref_imm_u(inst)
           /\ imm_s(inst) = ref_imm_s(inst)
           /\ imm_b(inst) = ref_imm_b(inst)
           /\ imm_j(inst) = ref_imm_j(inst)
  <1>0. inst \subseteq 0..31
    BY BitSet DEF Word
  <1>1. imm_i(inst) = ref_imm_i(inst)
    BY <1>0, BitSet DEF imm_i, Sar, ref_imm_i, SignedFrom, Shr
  <1>2. imm_u(inst) = ref_imm_u(inst)
    <2>1. \A i \in inst : i \notin 0..11 <=> i \in 12..31
      BY <1>0
    <2> QED BY <2>1 DEF imm_u, ref_imm_u
  <1>3. imm_s(inst) = ref_imm_s(inst)
    BY <1>0, BitSet DEF imm_s, ref_imm_s, SignedFrom, Shl, Shr, Sar, Field
  <1>4. imm_b(inst) = ref_imm_b(inst)
    BY <1>0, BitSet DEF imm_b, ref_imm_b, SignedFrom, Shl, Shr, Sar, Field
  <1>5. imm_j(inst) = ref_imm_j(inst)
    BY <1>0, BitSet DEF imm_j, ref_imm_j, SignedFrom, Shl, Shr, Sar, Field
  <1> QED BY <1>1, <1>2, <1>3, <1>4, <1>5

-----------------------------------------------------------------------------
(* The type of decode() *)

LEMMA FieldTypes ==
    ASSUME NEW inst \in Word
    PROVE  /\ rd(inst) \in RegIdx /\ rs1(inst) \in RegIdx /\ rs2(inst) \in RegIdx
           /\ Field(inst, 20, 5) \in RegIdx
           /\ Field(inst, 20, 12) \in CsrAddr
           /\ imm_i(inst) \in Word /\ imm_u(inst) \in Word /\ imm_s(inst) \in Word
           /\ imm_b(inst) \in Word /\ imm_j(inst) \in Word
  <1>1. /\ rd(inst) \in RegIdx /\ rs1(inst) \in RegIdx /\ rs2(inst) \in RegIdx
        /\ Field(inst, 20, 5) \in RegIdx /\ Field(inst, 20, 12) \in CsrAddr
    BY DEF rd, rs1, rs2, Field, RegIdx, CsrAddr
  <1>2. \A w, n : Sar(w, n) \in Word
    BY DEF Sar, Word
  <1>3. imm_u(inst) \in Word
    BY DEF imm_u, Word
  <1> QED BY <1>1, <1>2, <1>3 DEF imm_i, imm_s, imm_b, imm_j

\* The operation named by a known code is one of the enum.
LEMMA OpOfTyped ==
    ASSUME NEW Ops, NEW code, Known(Ops, code)
    PROVE  OpOf(Ops, code) \in DOMAIN Ops
  BY DEF Known, OpOf

\* decode() is total: a word decodes to a well-formed Instruction or to one
\* of the panics, and its unreachable!() arm (decode.rs:84) is a panic too.
THEOREM DecodeTyped ==
    ASSUME NEW inst \in Word
    PROVE  decode(inst) \in Instruction \cup {Panic, Unreachable}
  <1> USE FieldTypes
  <1>1. decode_r(inst) \in Instruction \cup {Panic}
    BY OpOfTyped DEF decode_r, Instruction
  <1>2. decode_i_alu(inst) \in Instruction \cup {Unreachable}
    BY OpOfTyped DEF decode_i_alu, Instruction, ShiftOp
  <1>3. decode_load(inst) \in Instruction \cup {Panic}
    BY OpOfTyped DEF decode_load, Instruction
  <1>4. decode_store(inst) \in Instruction \cup {Panic}
    BY OpOfTyped DEF decode_store, Instruction
  <1>5. decode_branch(inst) \in Instruction \cup {Panic}
    BY OpOfTyped DEF decode_branch, Instruction
  <1>6. decode_system(inst) \in Instruction \cup {Panic}
    <2>1. CASE funct3(inst) = 0
      BY <2>1 DEF decode_system, Instruction, Plain
    <2>2. CASE funct3(inst) # 0
      BY <2>2, OpOfTyped DEF decode_system, Instruction
    <2> QED BY <2>1, <2>2
  <1> QED BY <1>1, <1>2, <1>3, <1>4, <1>5, <1>6 DEF decode, Instruction, Plain

-----------------------------------------------------------------------------
(* What the numbers of the tables say of single bits *)

LEMMA OpcodeBits ==
    ASSUME NEW inst
    PROVE  /\ opcode(inst) = 51 => 5 \in inst
           /\ opcode(inst) = 19 => 5 \notin inst
  <1> DEFINE f == Field(inst, 0, 7)
  <1>1. f \in SUBSET (0..6) /\ (5 \in f <=> 5 \in inst)
    BY DEF Field
  <1> HIDE DEF f
  <1>2. opcode(inst) = Weight(f, 0, 1) + Weight(f, 1, 2) + Weight(f, 2, 4) + Weight(f, 3, 8)
                       + Weight(f, 4, 16) + Weight(f, 5, 32) + Weight(f, 6, 64)
    BY <1>1, ValueIs DEF opcode, f
  <1> QED BY <1>1, <1>2 DEF Weight

LEMMA Funct3Bits == ASSUME NEW inst PROVE funct3(inst) \in 0..7
  <1> DEFINE f == Field(inst, 12, 3)
  <1>1. f \in SUBSET (0..6) /\ {3, 4, 5, 6} \cap f = {}
    BY DEF Field
  <1> HIDE DEF f
  <1>2. funct3(inst) = Weight(f, 0, 1) + Weight(f, 1, 2) + Weight(f, 2, 4) + Weight(f, 3, 8)
                       + Weight(f, 4, 16) + Weight(f, 5, 32) + Weight(f, 6, 64)
    BY <1>1, ValueIs DEF funct3, f
  <1> QED BY <1>1, <1>2 DEF Weight

LEMMA Funct7Bits ==
    ASSUME NEW inst
    PROVE  /\ funct7(inst) = 0 <=> inst \cap 25..31 = {}
           /\ funct7(inst) = 32 <=> inst \cap 25..31 = {30}
           /\ funct7(inst) = 24 <=> inst \cap 25..31 = {28, 29}
  <1> DEFINE f == Field(inst, 25, 7)
  <1>1. f \in SUBSET (0..6)
    BY DEF Field
  <1>2. /\ 0 \in f <=> 25 \in inst
        /\ 1 \in f <=> 26 \in inst
        /\ 2 \in f <=> 27 \in inst
        /\ 3 \in f <=> 28 \in inst
        /\ 4 \in f <=> 29 \in inst
        /\ 5 \in f <=> 30 \in inst
        /\ 6 \in f <=> 31 \in inst
    BY DEF Field
  <1> HIDE DEF f
  <1>3. funct7(inst) = Weight(f, 0, 1) + Weight(f, 1, 2) + Weight(f, 2, 4) + Weight(f, 3, 8)
                       + Weight(f, 4, 16) + Weight(f, 5, 32) + Weight(f, 6, 64)
    BY <1>1, ValueIs DEF funct7, f
  <1>4. \A i \in 25..31 : i \in {25, 26, 27, 28, 29, 30, 31}
    OBVIOUS
  <1>5. funct7(inst) = 0 <=> inst \cap 25..31 = {}
    BY <1>2, <1>3, <1>4 DEF Weight
  <1>6. funct7(inst) = 32 <=> inst \cap 25..31 = {30}
    BY <1>2, <1>3, <1>4 DEF Weight
  <1>7. funct7(inst) = 24 <=> inst \cap 25..31 = {28, 29}
    BY <1>2, <1>3, <1>4 DEF Weight
  <1> QED BY <1>5, <1>6, <1>7

LEMMA Rs2Bits ==
    ASSUME NEW inst
    PROVE  /\ Value(rs2(inst)) = 0 => rs2(inst) = {}
           /\ Value(rs2(inst)) = 1 => rs2(inst) = {0}
           /\ Value(rs2(inst)) = 2 => rs2(inst) = {1}
  <1> DEFINE f == rs2(inst)
  <1>1. f \in SUBSET (0..6) /\ \A i \in f : i \in {0, 1, 2, 3, 4}
    BY DEF rs2, Field
  <1> HIDE DEF f
  <1>2. Value(f) = Weight(f, 0, 1) + Weight(f, 1, 2) + Weight(f, 2, 4) + Weight(f, 3, 8)
                   + Weight(f, 4, 16) + Weight(f, 5, 32) + Weight(f, 6, 64)
    BY <1>1, ValueIs
  <1>3. Value(f) = 0 => \A i \in {0, 1, 2, 3, 4} : i \notin f
    BY <1>2 DEF Weight
  <1>4. Value(f) = 1 => 0 \in f /\ \A i \in {1, 2, 3, 4} : i \notin f
    BY <1>1, <1>2 DEF Weight
  <1>5. Value(f) = 2 => 1 \in f /\ \A i \in {0, 2, 3, 4} : i \notin f
    BY <1>1, <1>2 DEF Weight
  <1>6. Value(f) = 0 => f = {}
    BY <1>1, <1>3
  <1>7. Value(f) = 1 => f = {0}
    BY <1>1, <1>4
  <1>8. Value(f) = 2 => f = {1}
    BY <1>1, <1>5
  <1> QED BY <1>6, <1>7, <1>8 DEF f

\* The unreachable!() arm of decode_i_alu (decode.rs:84) is out of reach:
\* the arms before it have the eight values of funct3.
THEOREM NeverUnreachable == ASSUME NEW inst PROVE decode(inst) # Unreachable
  <1>1. funct3(inst) \in {0, 2, 3, 4, 6, 7} => Known(IOp, funct3(inst))
    BY DEF Known, IOp
  <1>2. decode_i_alu(inst) # Unreachable
    BY <1>1, Funct3Bits DEF decode_i_alu, Unreachable
  <1>3. /\ decode_r(inst) # Unreachable /\ decode_load(inst) # Unreachable
        /\ decode_store(inst) # Unreachable /\ decode_branch(inst) # Unreachable
    BY DEF decode_r, decode_load, decode_store, decode_branch, Panic, Unreachable
  <1>4. decode_system(inst) # Unreachable
    BY DEF decode_system, Panic, Unreachable
  <1> QED BY <1>2, <1>3, <1>4 DEF decode, Panic, Unreachable

-----------------------------------------------------------------------------
(* Which group decoder made an instruction, and what it says of the word   *)

LEMMA DecoderTags ==
    ASSUME NEW ir
    PROVE  /\ decode_r(ir).tag \in {"R", "Panic"}
           /\ decode_i_alu(ir).tag \in {"I", "Shift", "Unreachable"}
           /\ decode_load(ir).tag \in {"Load", "Panic"}
           /\ decode_store(ir).tag \in {"Store", "Panic"}
           /\ decode_branch(ir).tag \in {"Branch", "Panic"}
           /\ decode_system(ir).tag \in {"Ecall", "Ebreak", "Mret", "Sret", "Wfi",
                                         "SfenceVma", "Csr", "Panic"}
  <1>1. decode_r(ir).tag \in {"R", "Panic"}
    BY DEF decode_r, Panic
  <1>2. decode_i_alu(ir).tag \in {"I", "Shift", "Unreachable"}
    BY DEF decode_i_alu, Unreachable
  <1>3. /\ decode_load(ir).tag \in {"Load", "Panic"}
        /\ decode_store(ir).tag \in {"Store", "Panic"}
        /\ decode_branch(ir).tag \in {"Branch", "Panic"}
    BY DEF decode_load, decode_store, decode_branch, Panic
  <1>4. decode_system(ir).tag \in {"Ecall", "Ebreak", "Mret", "Sret", "Wfi",
                                  "SfenceVma", "Csr", "Panic"}
    BY DEF decode_system, Panic
  <1> QED BY <1>1, <1>2, <1>3, <1>4

LEMMA DecodedBy ==
    ASSUME NEW ir
    PROVE  /\ decode(ir).tag = "R" => opcode(ir) = 51 /\ decode(ir) = decode_r(ir)
           /\ decode(ir).tag \in {"I", "Shift"} => opcode(ir) = 19 /\ decode(ir) = decode_i_alu(ir)
           /\ decode(ir).tag = "Load" => opcode(ir) = 3 /\ decode(ir) = decode_load(ir)
           /\ decode(ir).tag = "Store" => opcode(ir) = 35 /\ decode(ir) = decode_store(ir)
           /\ decode(ir).tag = "Branch" => opcode(ir) = 99 /\ decode(ir) = decode_branch(ir)
           /\ decode(ir).tag \in {"Ecall", "Ebreak", "Mret", "Csr"} =>
                 opcode(ir) = 115 /\ decode(ir) = decode_system(ir)
           /\ decode(ir).tag = "Fence" => opcode(ir) = 15
  <1>1. CASE opcode(ir) \in {51, 19, 3, 35, 99, 115}
    BY <1>1, DecoderTags DEF decode
  <1>2. CASE opcode(ir) \notin {51, 19, 3, 35, 99, 115}
    <2>1. decode(ir).tag \in {"Lui", "Auipc", "Jal", "Jalr", "Fence", "Panic"}
      BY <1>2 DEF decode, Panic
    <2>2. decode(ir).tag = "Fence" => opcode(ir) = 15
      BY <1>2 DEF decode, Panic
    <2> QED BY <2>1, <2>2
  <1> QED BY <1>1, <1>2

LEMMA DecodedUpper ==
    ASSUME NEW ir
    PROVE  /\ decode(ir).tag = "Lui" =>
                opcode(ir) = 55 /\ decode(ir) = [tag |-> "Lui", rd |-> rd(ir), imm |-> imm_u(ir)]
           /\ decode(ir).tag = "Auipc" =>
                opcode(ir) = 23 /\ decode(ir) = [tag |-> "Auipc", rd |-> rd(ir), imm |-> imm_u(ir)]
           /\ decode(ir).tag = "Jal" =>
                opcode(ir) = 111 /\ decode(ir) = [tag |-> "Jal", rd |-> rd(ir), imm |-> imm_j(ir)]
           /\ decode(ir).tag = "Jalr" =>
                /\ opcode(ir) = 103
                /\ decode(ir) = [tag |-> "Jalr", rd |-> rd(ir), rs1 |-> rs1(ir), imm |-> imm_i(ir)]
  <1>1. CASE opcode(ir) \in {51, 19, 3, 35, 99, 115}
    BY <1>1, DecoderTags DEF decode
  <1>2. CASE opcode(ir) \notin {51, 19, 3, 35, 99, 115}
    BY <1>2 DEF decode, Panic
  <1> QED BY <1>1, <1>2

\* The operation of a known code has that code.
LEMMA CodeOf ==
    ASSUME NEW Ops, NEW code, Known(Ops, code)
    PROVE  OpOf(Ops, code) \in DOMAIN Ops /\ Ops[OpOf(Ops, code)] = code
  BY DEF Known, OpOf

-----------------------------------------------------------------------------
(* What decode() says of the word, group by group                          *)

LEMMA DecodedR ==
    ASSUME NEW ir, NEW inst, inst = decode(ir), inst.tag = "R"
    PROVE  /\ opcode(ir) = 51
           /\ inst.op \in DOMAIN ROp /\ ROp[inst.op] = <<funct3(ir), funct7(ir)>>
           /\ inst.rd = rd(ir) /\ inst.rs1 = rs1(ir) /\ inst.rs2 = rs2(ir)
  <1> DEFINE code == <<funct3(ir), funct7(ir)>>
  <1>1. opcode(ir) = 51 /\ inst = decode_r(ir)
    BY DecodedBy
  <1>2. /\ Known(ROp, code) /\ inst.op = OpOf(ROp, code)
        /\ inst.rd = rd(ir) /\ inst.rs1 = rs1(ir) /\ inst.rs2 = rs2(ir)
    BY <1>1 DEF decode_r, Panic
  <1> QED BY <1>1, <1>2, CodeOf

LEMMA DecodedI ==
    ASSUME NEW ir, NEW inst, inst = decode(ir), inst.tag = "I"
    PROVE  /\ opcode(ir) = 19
           /\ inst.op \in DOMAIN IOp /\ IOp[inst.op] = funct3(ir)
           /\ inst.rd = rd(ir) /\ inst.rs1 = rs1(ir) /\ inst.imm = imm_i(ir)
  <1>1. opcode(ir) = 19 /\ inst = decode_i_alu(ir)
    BY DecodedBy
  <1>2. /\ Known(IOp, funct3(ir)) /\ inst.op = OpOf(IOp, funct3(ir))
        /\ inst.rd = rd(ir) /\ inst.rs1 = rs1(ir) /\ inst.imm = imm_i(ir)
    BY <1>1 DEF decode_i_alu, Unreachable
  <1> QED BY <1>1, <1>2, CodeOf

LEMMA DecodedShift ==
    ASSUME NEW ir, NEW inst, inst = decode(ir), inst.tag = "Shift"
    PROVE  /\ opcode(ir) = 19
           /\ inst.op \in ShiftOp /\ funct3(ir) = IF inst.op = "Slli" THEN 1 ELSE 5
           /\ inst.rd = rd(ir) /\ inst.rs1 = rs1(ir) /\ inst.shamt = Field(ir, 20, 5)
  <1>1. opcode(ir) = 19 /\ inst = decode_i_alu(ir)
    BY DecodedBy
  <1>2. /\ funct3(ir) \in {0, 2, 3, 4, 6, 7} => Known(IOp, funct3(ir))
        /\ funct3(ir) \in {1, 5} => ~Known(IOp, funct3(ir))
    BY DEF Known, IOp
  <1>3. funct3(ir) \in {1, 5}
    BY <1>1, <1>2, Funct3Bits DEF decode_i_alu
  <1> QED BY <1>1, <1>2, <1>3 DEF decode_i_alu, ShiftOp

LEMMA DecodedLoad ==
    ASSUME NEW ir, NEW inst, inst = decode(ir), inst.tag = "Load"
    PROVE  /\ opcode(ir) = 3
           /\ inst.op \in DOMAIN LoadOp /\ LoadOp[inst.op] = funct3(ir)
           /\ inst.rd = rd(ir) /\ inst.rs1 = rs1(ir) /\ inst.imm = imm_i(ir)
  <1>1. opcode(ir) = 3 /\ inst = decode_load(ir)
    BY DecodedBy
  <1>2. /\ Known(LoadOp, funct3(ir)) /\ inst.op = OpOf(LoadOp, funct3(ir))
        /\ inst.rd = rd(ir) /\ inst.rs1 = rs1(ir) /\ inst.imm = imm_i(ir)
    BY <1>1 DEF decode_load, Panic
  <1> QED BY <1>1, <1>2, CodeOf

LEMMA DecodedStore ==
    ASSUME NEW ir, NEW inst, inst = decode(ir), inst.tag = "Store"
    PROVE  /\ opcode(ir) = 35
           /\ inst.op \in DOMAIN StoreOp /\ StoreOp[inst.op] = funct3(ir)
           /\ inst.rs1 = rs1(ir) /\ inst.rs2 = rs2(ir) /\ inst.imm = imm_s(ir)
  <1>1. opcode(ir) = 35 /\ inst = decode_store(ir)
    BY DecodedBy
  <1>2. /\ Known(StoreOp, funct3(ir)) /\ inst.op = OpOf(StoreOp, funct3(ir))
        /\ inst.rs1 = rs1(ir) /\ inst.rs2 = rs2(ir) /\ inst.imm = imm_s(ir)
    BY <1>1 DEF decode_store, Panic
  <1> QED BY <1>1, <1>2, CodeOf

LEMMA DecodedBranch ==
    ASSUME NEW ir, NEW inst, inst = decode(ir), inst.tag = "Branch"
    PROVE  /\ opcode(ir) = 99
           /\ inst.op \in DOMAIN BrOp /\ BrOp[inst.op] = funct3(ir)
           /\ inst.rs1 = rs1(ir) /\ inst.rs2 = rs2(ir) /\ inst.imm = imm_b(ir)
  <1>1. opcode(ir) = 99 /\ inst = decode_branch(ir)
    BY DecodedBy
  <1>2. /\ Known(BrOp, funct3(ir)) /\ inst.op = OpOf(BrOp, funct3(ir))
        /\ inst.rs1 = rs1(ir) /\ inst.rs2 = rs2(ir) /\ inst.imm = imm_b(ir)
    BY <1>1 DEF decode_branch, Panic
  <1> QED BY <1>1, <1>2, CodeOf

LEMMA DecodedCsr ==
    ASSUME NEW ir, NEW inst, inst = decode(ir), inst.tag = "Csr"
    PROVE  /\ opcode(ir) = 115 /\ funct3(ir) \notin {0, 4}
           /\ inst.op \in DOMAIN CsrOp /\ CsrOp[inst.op] = funct3(ir)
           /\ inst.rd = rd(ir) /\ inst.rs1 = rs1(ir) /\ inst.csr = Field(ir, 20, 12)
  <1>1. opcode(ir) = 115 /\ inst = decode_system(ir)
    BY DecodedBy
  <1>2. funct3(ir) # 0
    BY <1>1 DEF decode_system, Panic
  <1>3. /\ Known(CsrOp, funct3(ir)) /\ inst.op = OpOf(CsrOp, funct3(ir))
        /\ inst.rd = rd(ir) /\ inst.rs1 = rs1(ir) /\ inst.csr = Field(ir, 20, 12)
    BY <1>1, <1>2 DEF decode_system, Panic
  <1>4. inst.op \in DOMAIN CsrOp /\ CsrOp[inst.op] = funct3(ir)
    BY <1>3, CodeOf
  <1>5. funct3(ir) # 4
    BY <1>4 DEF CsrOp
  <1> QED BY <1>1, <1>2, <1>3, <1>4, <1>5

\* The instructions without operands, and the reference's numbers for them
LEMMA DecodedSystem ==
    ASSUME NEW ir, NEW inst, inst = decode(ir), inst.tag \in {"Ecall", "Ebreak", "Mret"}
    PROVE  /\ opcode(ir) = 115 /\ funct3(ir) = 0
           /\ inst.tag = "Ecall" => Field(ir, 20, 12) = {} /\ Field(ir, 20, 8) = {}
           /\ inst.tag = "Ebreak" => Field(ir, 20, 12) = {0} /\ Field(ir, 20, 8) = {0}
           /\ inst.tag = "Mret" => Field(ir, 20, 8) = {1}
  <1>1. opcode(ir) = 115 /\ inst = decode_system(ir)
    BY DecodedBy
  <1>2. funct3(ir) = 0
    BY <1>1 DEF decode_system, Panic
  <1>3. /\ inst.tag = "Ecall" => funct7(ir) = 0 /\ Value(rs2(ir)) = 0
        /\ inst.tag = "Ebreak" => funct7(ir) = 0 /\ Value(rs2(ir)) = 1
        /\ inst.tag = "Mret" => funct7(ir) = 24 /\ Value(rs2(ir)) = 2
    BY <1>1, <1>2 DEF decode_system, Panic
  <1>4. /\ inst.tag = "Ecall" => ir \cap 25..31 = {} /\ rs2(ir) = {}
        /\ inst.tag = "Ebreak" => ir \cap 25..31 = {} /\ rs2(ir) = {0}
        /\ inst.tag = "Mret" => ir \cap 25..31 = {28, 29} /\ rs2(ir) = {1}
    BY <1>3, Funct7Bits, Rs2Bits
  <1>5. \A n \in 5..12 : Field(ir, 20, n) =
          rs2(ir) \cup {i \in 5..(n - 1) : i + 20 \in ir \cap 25..31}
    BY DEF Field, rs2
  <1>6. inst.tag \in {"Ecall", "Ebreak"} =>
          Field(ir, 20, 12) = rs2(ir) /\ Field(ir, 20, 8) = rs2(ir)
    BY <1>4, <1>5
  <1>7. inst.tag = "Mret" => Field(ir, 20, 8) = {1}
    BY <1>4, <1>5
  <1> QED BY <1>1, <1>2, <1>4, <1>6, <1>7

-----------------------------------------------------------------------------
(* Fields of the words of numbers *)

\* The last three, five, six and seven binary digits of a number
LEMMA LastDigits ==
    ASSUME NEW q \in [0..7 -> Nat], NEW b \in [0..6 -> {0, 1}],
           \A i \in 0..6 : q[i] = 2 * q[i + 1] + b[i]
    PROVE  /\ q[0] % 8 = b[0] + 2 * b[1] + 4 * b[2]
           /\ q[0] % 32 = b[0] + 2 * b[1] + 4 * b[2] + 8 * b[3] + 16 * b[4]
           /\ q[0] % 64 = b[0] + 2 * b[1] + 4 * b[2] + 8 * b[3] + 16 * b[4] + 32 * b[5]
           /\ q[0] % 128 = b[0] + 2 * b[1] + 4 * b[2] + 8 * b[3] + 16 * b[4] + 32 * b[5] + 64 * b[6]
  <1>1. \A n \in Nat, k \in Nat, r \in 0..7 : n = 8 * k + r => n % 8 = r
    OBVIOUS
  <1>32. \A n \in Nat, k \in Nat, r \in 0..31 : n = 32 * k + r => n % 32 = r
    OBVIOUS
  <1>64. \A n \in Nat, k \in Nat, r \in 0..63 : n = 64 * k + r => n % 64 = r
    OBVIOUS
  <1>128. \A n \in Nat, k \in Nat, r \in 0..127 : n = 128 * k + r => n % 128 = r
    OBVIOUS
  <1>2. /\ q[0] = 2 * q[1] + b[0] /\ q[1] = 2 * q[2] + b[1] /\ q[2] = 2 * q[3] + b[2]
        /\ q[3] = 2 * q[4] + b[3] /\ q[4] = 2 * q[5] + b[4] /\ q[5] = 2 * q[6] + b[5]
        /\ q[6] = 2 * q[7] + b[6]
    OBVIOUS
  <1>3. /\ q[0] \in Nat /\ q[1] \in Nat /\ q[2] \in Nat /\ q[3] \in Nat
        /\ q[4] \in Nat /\ q[5] \in Nat /\ q[6] \in Nat /\ q[7] \in Nat
        /\ b[0] \in 0..1 /\ b[1] \in 0..1 /\ b[2] \in 0..1 /\ b[3] \in 0..1
        /\ b[4] \in 0..1 /\ b[5] \in 0..1 /\ b[6] \in 0..1
    OBVIOUS
  <1> DEFINE r3 == b[0] + 2 * b[1] + 4 * b[2]
             r5 == r3 + 8 * b[3] + 16 * b[4]
             r6 == r5 + 32 * b[5]
             r7 == r6 + 64 * b[6]
  <1>4. q[0] = 8 * q[3] + r3 /\ r3 \in 0..7
    BY <1>2, <1>3
  <1>5. q[0] = 32 * q[5] + r5 /\ r5 \in 0..31
    BY <1>2, <1>3
  <1>6. q[0] = 64 * q[6] + r6 /\ r6 \in 0..63
    BY <1>2, <1>3
  <1>7. q[0] = 128 * q[7] + r7 /\ r7 \in 0..127
    BY <1>2, <1>3
  <1>8. q[0] % 8 = r3 /\ q[0] % 32 = r5 /\ q[0] % 64 = r6 /\ q[0] % 128 = r7
    <2> HIDE DEF r3, r5, r6, r7
    <2> DEFINE x == q[0]
               y == q[5]
               z == q[6]
               t == q[7]
    <2>1. /\ x \in Nat /\ q[3] \in Nat /\ y \in Nat /\ z \in Nat /\ t \in Nat
          /\ x = 8 * q[3] + r3 /\ x = 32 * y + r5 /\ x = 64 * z + r6 /\ x = 128 * t + r7
      BY <1>3, <1>4, <1>5, <1>6, <1>7
    <2>2. x % 8 = r3
      BY <1>1, <1>4, <2>1, Zenon
    <2> HIDE DEF x, y, z, t
    <2>3. x % 32 = r5
      BY <1>32, <1>5, <2>1
    <2>4. x % 64 = r6
      BY <1>64, <1>6, <2>1
    <2>5. x % 128 = r7
      BY <1>128, <1>7, <2>1
    <2> QED BY <2>2, <2>3, <2>4, <2>5 DEF x
  <1> QED BY <1>8

\* n binary digits of the number m, from that of weight 2^lo on
Digits(m, lo, n) == (m \div 2^lo) % 2^n

\* The fields of the word of a number are its digits.
LEMMA FieldNumber ==
    ASSUME NEW m \in Nat, NEW lo \in 0..25, NEW n \in {3, 5, 6, 7}, lo + n <= 31
    PROVE  Value(Field(BitsOf(m), lo, n)) = Digits(m, lo, n)
  <1> DEFINE D(i) == m \div 2^i
             f == Field(BitsOf(m), lo, n)
             top == IF lo = 25 THEN 6 ELSE 7
             q == [i \in 0..7 |-> IF i <= 31 - lo THEN D(lo + i) ELSE D(31) \div 2]
             b == [i \in 0..6 |-> q[i] % 2]
  <1>1. /\ \A i \in 0..30 : D(i) \in Nat /\ D(i + 1) = D(i) \div 2
        /\ \A i \in Bit : i \in BitsOf(m) <=> i \in 0..30 /\ D(i) % 2 = 1
    BY Quotients
  <1>2. f \in SUBSET (0..6) /\ \A i \in 0..6 : i \in f <=> i < n /\ D(lo + i) % 2 = 1
    <2>1. \A i \in 0..6 : i \in f <=> i < n /\ lo + i \in BitsOf(m)
      BY DEF Field
    <2>2. f \in SUBSET (0..6)
      BY DEF Field
    <2>3. \A i \in 0..6 : i < n => lo + i \in 0..30 /\ lo + i \in Bit
      BY BitSet
    <2> HIDE DEF f, D
    <2> QED BY <1>1, <2>1, <2>2, <2>3
  <1>3. D(31) \in Nat /\ \A x \in Nat : x \div 2 \in Nat /\ x % 2 \in {0, 1}
                                         /\ x = 2 * (x \div 2) + (x % 2)
    <2>1. D(31) = D(30) \div 2 /\ D(30) \in Nat
      BY <1>1
    <2> HIDE DEF D
    <2> QED BY <2>1
  <1> HIDE DEF D, f
  <1>4. q \in [0..7 -> Nat] /\ b \in [0..6 -> {0, 1}] /\ q[0] = D(lo)
    <2>1. \A i \in 0..31 : D(i) \in Nat
      BY <1>1, <1>3
    <2>2. \A i \in 0..7 : q[i] \in Nat
      BY <2>1, <1>3
    <2> QED BY <2>2, <1>3
  <1>5. \A i \in 0..6 : q[i + 1] = q[i] \div 2
    <2> TAKE i \in 0..6
    <2>1. i <= 30 - lo => q[i] = D(lo + i) /\ q[i + 1] = D(lo + i + 1) /\ lo + i \in 0..30
      OBVIOUS
    <2>2. i > 30 - lo => i = 6 /\ lo = 25 /\ q[i] = D(31) /\ q[i + 1] = D(31) \div 2
      OBVIOUS
    <2> QED BY <1>1, <2>1, <2>2
  <1>6. \A i \in 0..6 : q[i] = 2 * q[i + 1] + b[i]
    <2>1. \A i \in 0..6 : q[i] \in Nat /\ b[i] = q[i] % 2
      BY <1>4
    <2> HIDE DEF q, b
    <2> QED BY <1>3, <1>5, <2>1
  <1>7. \A i \in 0..6 : Weight(f, i, 1) = IF i < n THEN b[i] ELSE 0
    <2>1. \A i \in 0..6 : i < n => q[i] = D(lo + i)
      OBVIOUS
    <2>2. \A i \in 0..6 : i < n => (i \in f <=> b[i] = 1)
      BY <1>2, <2>1
    <2>3. \A i \in 0..6 : b[i] \in {0, 1}
      BY <1>4
    <2> HIDE DEF q, b
    <2> QED BY <1>2, <2>2, <2>3 DEF Weight
  <1>8. Value(f) = Weight(f, 0, 1) + Weight(f, 1, 2) + Weight(f, 2, 4) + Weight(f, 3, 8)
                   + Weight(f, 4, 16) + Weight(f, 5, 32) + Weight(f, 6, 64)
    BY <1>2, ValueIs
  <1> DEFINE w(i) == IF i < n THEN b[i] ELSE 0
  <1>9. Value(f) = w(0) + 2 * w(1) + 4 * w(2) + 8 * w(3) + 16 * w(4) + 32 * w(5) + 64 * w(6)
    <2> HIDE DEF q, b
    <2>1. \A i \in 0..6 : w(i) \in {0, 1} /\ Weight(f, i, 1) = w(i)
      BY <1>4, <1>7
    <2>2. /\ Weight(f, 0, 1) = w(0)
          /\ Weight(f, 1, 2) = 2 * w(1)
          /\ Weight(f, 2, 4) = 4 * w(2)
          /\ Weight(f, 3, 8) = 8 * w(3)
          /\ Weight(f, 4, 16) = 16 * w(4)
          /\ Weight(f, 5, 32) = 32 * w(5)
          /\ Weight(f, 6, 64) = 64 * w(6)
      <3> HIDE DEF w
      <3> QED BY <2>1 DEF Weight
    <2> QED BY <1>8, <2>2
  <1> HIDE DEF q, b
  <1>10. /\ q[0] % 8 = b[0] + 2 * b[1] + 4 * b[2]
         /\ q[0] % 32 = b[0] + 2 * b[1] + 4 * b[2] + 8 * b[3] + 16 * b[4]
         /\ q[0] % 64 = b[0] + 2 * b[1] + 4 * b[2] + 8 * b[3] + 16 * b[4] + 32 * b[5]
         /\ q[0] % 128 = b[0] + 2 * b[1] + 4 * b[2] + 8 * b[3] + 16 * b[4] + 32 * b[5] + 64 * b[6]
    BY <1>4, <1>6, LastDigits
  <1>11. /\ b[0] \in 0..1 /\ b[1] \in 0..1 /\ b[2] \in 0..1 /\ b[3] \in 0..1
         /\ b[4] \in 0..1 /\ b[5] \in 0..1 /\ b[6] \in 0..1
    BY <1>4
  <1>12. /\ q[0] \in Nat
         /\ n = 3 => Value(f) = q[0] % 8
         /\ n = 5 => Value(f) = q[0] % 32
         /\ n = 6 => Value(f) = q[0] % 64
         /\ n = 7 => Value(f) = q[0] % 128
    BY <1>4, <1>9, <1>10, <1>11
  <1>13. q[0] = m \div 2^lo
    BY <1>4 DEF D
  <1> DEFINE p(i) == 2^i
  <1>14. p(3) = 8 /\ p(5) = 32 /\ p(6) = 64 /\ p(7) = 128
    OBVIOUS
  <1> HIDE DEF p
  <1>15. Value(f) = q[0] % p(n)
    BY <1>12, <1>14
  <1> QED BY <1>13, <1>15, Zenon DEF f, p, Digits

\* Seven binary digits are those of their number.
LEMMA SevenDigits ==
    ASSUME NEW f0 \in 0..1, NEW f1 \in 0..1, NEW f2 \in 0..1, NEW f3 \in 0..1,
           NEW f4 \in 0..1, NEW f5 \in 0..1, NEW f6 \in 0..1,
           NEW g0 \in 0..1, NEW g1 \in 0..1, NEW g2 \in 0..1, NEW g3 \in 0..1,
           NEW g4 \in 0..1, NEW g5 \in 0..1, NEW g6 \in 0..1,
           f0 + 2 * f1 + 4 * f2 + 8 * f3 + 16 * f4 + 32 * f5 + 64 * f6
             = g0 + 2 * g1 + 4 * g2 + 8 * g3 + 16 * g4 + 32 * g5 + 64 * g6
    PROVE  f0 = g0 /\ f1 = g1 /\ f2 = g2 /\ f3 = g3 /\ f4 = g4 /\ f5 = g5 /\ f6 = g6
  <1>1. f6 = g6
    OBVIOUS
  <1>2. f5 = g5
    BY <1>1
  <1>3. f4 = g4
    BY <1>1, <1>2
  <1> QED BY <1>1, <1>2, <1>3

\* Fields of the same number are the same.
LEMMA SameSmall ==
    ASSUME NEW f \in SUBSET (0..6), NEW g \in SUBSET (0..6), Value(f) = Value(g)
    PROVE  f = g
  <1>1. /\ Value(f) = Weight(f, 0, 1) + Weight(f, 1, 2) + Weight(f, 2, 4) + Weight(f, 3, 8)
                   + Weight(f, 4, 16) + Weight(f, 5, 32) + Weight(f, 6, 64)
        /\ Value(g) = Weight(g, 0, 1) + Weight(g, 1, 2) + Weight(g, 2, 4) + Weight(g, 3, 8)
                   + Weight(g, 4, 16) + Weight(g, 5, 32) + Weight(g, 6, 64)
    BY ValueIs
  <1> DEFINE F(i) == Weight(f, i, 1)
             G(i) == Weight(g, i, 1)
  <1>2. \A i \in {0, 1, 2, 3, 4, 5, 6} : i \in f <=> i \in g
    <2>1. \A i : /\ F(i) \in {0, 1} /\ G(i) \in {0, 1}
                 /\ i \in f <=> F(i) = 1
                 /\ i \in g <=> G(i) = 1
      BY DEF Weight
    <2>3. /\ Weight(f, 0, 1) = F(0) /\ Weight(g, 0, 1) = G(0)
          /\ Weight(f, 1, 2) = 2 * F(1) /\ Weight(g, 1, 2) = 2 * G(1)
          /\ Weight(f, 2, 4) = 4 * F(2) /\ Weight(g, 2, 4) = 4 * G(2)
          /\ Weight(f, 3, 8) = 8 * F(3) /\ Weight(g, 3, 8) = 8 * G(3)
          /\ Weight(f, 4, 16) = 16 * F(4) /\ Weight(g, 4, 16) = 16 * G(4)
          /\ Weight(f, 5, 32) = 32 * F(5) /\ Weight(g, 5, 32) = 32 * G(5)
          /\ Weight(f, 6, 64) = 64 * F(6) /\ Weight(g, 6, 64) = 64 * G(6)
      BY DEF Weight
    <2> HIDE DEF F, G
    <2>4. \A i : F(i) \in 0..1 /\ G(i) \in 0..1
      BY <2>1
    <2>5. F(0) + 2 * F(1) + 4 * F(2) + 8 * F(3) + 16 * F(4) + 32 * F(5) + 64 * F(6)
            = G(0) + 2 * G(1) + 4 * G(2) + 8 * G(3) + 16 * G(4) + 32 * G(5) + 64 * G(6)
      BY <1>1, <2>3
    <2>6. /\ F(0) = G(0) /\ F(1) = G(1) /\ F(2) = G(2) /\ F(3) = G(3)
          /\ F(4) = G(4) /\ F(5) = G(5) /\ F(6) = G(6)
      BY <2>4, <2>5, SevenDigits
    <2> QED BY <2>1, <2>6
  <1>3. \A i \in 0..6 : i \in {0, 1, 2, 3, 4, 5, 6}
    OBVIOUS
  <1>4. \A i \in f \cup g : i \in f /\ i \in g
    BY <1>2, <1>3
  <1> QED BY <1>4

\* The numbers below 2^31, which BitsOf has all the bits of
Number31 == 0..(2^31 - 1)

\* The fields of a word are those of a number below 2^31 when they hold its
\* digits, and only then.
LEMMA FieldsOf ==
    ASSUME NEW w \in Word, NEW m \in Number31
    PROVE  LET v == BitsOf(m)
           IN  /\ w \cap 0..6 = v \cap 0..6 <=> opcode(w) = Digits(m, 0, 7)
               /\ w \cap 7..11 = v \cap 7..11 <=> Value(rd(w)) = Digits(m, 7, 5)
               /\ w \cap 12..14 = v \cap 12..14 <=> funct3(w) = Digits(m, 12, 3)
               /\ w \cap 15..19 = v \cap 15..19 <=> Value(rs1(w)) = Digits(m, 15, 5)
               /\ w \cap 20..24 = v \cap 20..24 <=> Value(rs2(w)) = Digits(m, 20, 5)
               /\ w \cap 25..31 = v \cap 25..31 <=> funct7(w) = Digits(m, 25, 6)
  <1> DEFINE v == BitsOf(m)
  <1>1. m \in Nat
    BY SMT DEF Number31
  <1>2. \A i \in v : i < 31
    BY DEF BitsOf
  <1>3. \A lo \in 0..25, n \in {3, 5, 6, 7} : lo + n <= 31 =>
          Value(Field(v, lo, n)) = Digits(m, lo, n)
    BY <1>1, FieldNumber
  <1> HIDE DEF v
  <1>4. Field(v, 25, 7) = Field(v, 25, 6)
    BY <1>2 DEF Field
  <1>6. /\ Value(Field(v, 0, 7)) = Digits(m, 0, 7)
        /\ Value(Field(v, 7, 5)) = Digits(m, 7, 5)
        /\ Value(Field(v, 12, 3)) = Digits(m, 12, 3)
        /\ Value(Field(v, 15, 5)) = Digits(m, 15, 5)
        /\ Value(Field(v, 20, 5)) = Digits(m, 20, 5)
        /\ Value(Field(v, 25, 7)) = Digits(m, 25, 6)
    BY <1>3, <1>4
  <1>7. ASSUME NEW lo \in Nat, NEW n \in 1..7
        PROVE  w \cap lo..(lo + n - 1) = v \cap lo..(lo + n - 1)
                 <=> Value(Field(w, lo, n)) = Value(Field(v, lo, n))
    <2>1. Field(w, lo, n) \in SUBSET (0..6) /\ Field(v, lo, n) \in SUBSET (0..6)
      BY DEF Field
    <2>2. w \cap lo..(lo + n - 1) = v \cap lo..(lo + n - 1) => Field(w, lo, n) = Field(v, lo, n)
      BY DEF Field
    <2>3. ASSUME Field(w, lo, n) = Field(v, lo, n)
          PROVE  w \cap lo..(lo + n - 1) = v \cap lo..(lo + n - 1)
      <3>1. \A i \in lo..(lo + n - 1) : i - lo \in 0..(n - 1) /\ (i - lo) + lo = i
        OBVIOUS
      <3>2. \A i \in lo..(lo + n - 1) : /\ i \in w <=> i - lo \in Field(w, lo, n)
                                        /\ i \in v <=> i - lo \in Field(v, lo, n)
        BY <3>1 DEF Field
      <3> QED BY <2>3, <3>2
    <2> QED BY <2>1, <2>2, <2>3, SameSmall
  <1>8. /\ w \cap 0..6 = v \cap 0..6 <=> Value(Field(w, 0, 7)) = Value(Field(v, 0, 7))
        /\ w \cap 7..11 = v \cap 7..11 <=> Value(Field(w, 7, 5)) = Value(Field(v, 7, 5))
        /\ w \cap 12..14 = v \cap 12..14 <=> Value(Field(w, 12, 3)) = Value(Field(v, 12, 3))
        /\ w \cap 15..19 = v \cap 15..19 <=> Value(Field(w, 15, 5)) = Value(Field(v, 15, 5))
        /\ w \cap 20..24 = v \cap 20..24 <=> Value(Field(w, 20, 5)) = Value(Field(v, 20, 5))
        /\ w \cap 25..31 = v \cap 25..31 <=> Value(Field(w, 25, 7)) = Value(Field(v, 25, 7))
    <2> DEFINE Same(lo, hi, n) == w \cap lo..hi = v \cap lo..hi
                                    <=> Value(Field(w, lo, n)) = Value(Field(v, lo, n))
    <2>1. \A lo \in Nat, n \in 1..7, hi \in Nat : hi = lo + n - 1 => Same(lo, hi, n)
      BY <1>7
    <2> HIDE DEF Same
    <2>2. /\ Same(0, 6, 7) /\ Same(7, 11, 5) /\ Same(12, 14, 3)
          /\ Same(15, 19, 5) /\ Same(20, 24, 5) /\ Same(25, 31, 7)
      BY <2>1
    <2> QED BY <2>2 DEF Same
  <1> QED
    BY <1>6, <1>8 DEF opcode, rd, funct3, rs1, rs2, funct7, v

\* Two words are the same under a mask when their fields under it are.
LEMMA MaskedWords ==
    ASSUME NEW w \in Word, NEW v \in Word
    PROVE  /\ w \cap Op7 = v <=> /\ w \cap 0..6 = v \cap 0..6
                                 /\ v \cap 7..11 = {} /\ v \cap 12..14 = {} /\ v \cap 15..19 = {}
                                 /\ v \cap 20..24 = {} /\ v \cap 25..31 = {}
           /\ w \cap F3 = v <=> /\ w \cap 0..6 = v \cap 0..6 /\ w \cap 12..14 = v \cap 12..14
                                /\ v \cap 7..11 = {} /\ v \cap 15..19 = {}
                                /\ v \cap 20..24 = {} /\ v \cap 25..31 = {}
           /\ w \cap F3F7 = v <=> /\ w \cap 0..6 = v \cap 0..6 /\ w \cap 12..14 = v \cap 12..14
                                  /\ w \cap 25..31 = v \cap 25..31
                                  /\ v \cap 7..11 = {} /\ v \cap 15..19 = {} /\ v \cap 20..24 = {}
           /\ w \cap NoRd = v <=> /\ w \cap 0..6 = v \cap 0..6 /\ w \cap 7..11 = v \cap 7..11
                                  /\ w \cap 12..14 = v \cap 12..14 /\ w \cap 25..31 = v \cap 25..31
                                  /\ v \cap 15..19 = {} /\ v \cap 20..24 = {}
           /\ w \cap All = v <=> /\ w \cap 0..6 = v \cap 0..6 /\ w \cap 7..11 = v \cap 7..11
                                 /\ w \cap 12..14 = v \cap 12..14 /\ w \cap 15..19 = v \cap 15..19
                                 /\ w \cap 20..24 = v \cap 20..24 /\ w \cap 25..31 = v \cap 25..31
  <1> DEFINE Fields == {0..6, 7..11, 12..14, 15..19, 20..24, 25..31}
             Same(P) == w \cap P = v \cap P
             Free(P) == v \cap P = {}
             Splits(K, In, Out) == /\ In \cup Out = Fields
                                   /\ \A P \in In : P \subseteq K
                                   /\ \A P \in Out : P \cap K = {}
  <1>1. w \cup v \subseteq UNION Fields
    <2>1. \A i \in 0..31 : \/ i \in 0..6 \/ i \in 7..11 \/ i \in 12..14
                         \/ i \in 15..19 \/ i \in 20..24 \/ i \in 25..31
      OBVIOUS
    <2>2. w \subseteq 0..31 /\ v \subseteq 0..31
      BY BitSet DEF Word
    <2> QED BY <2>1, <2>2
  <1> HIDE DEF Fields
  <1>2. ASSUME NEW K, NEW In, NEW Out, Splits(K, In, Out)
        PROVE  w \cap K = v <=> (\A P \in In : Same(P)) /\ (\A P \in Out : Free(P))
    <2>1. w \cap K = v => (\A P \in In : Same(P)) /\ (\A P \in Out : Free(P))
      BY <1>2, Zenon
    <2>2. ASSUME \A P \in In : Same(P), \A P \in Out : Free(P)
          PROVE  w \cap K = v
      <3>1. \A i \in w \cup v : \E P \in In \cup Out : i \in P
        BY <1>1, <1>2
      <3>2. \A i \in w \cap K : i \in v
        BY <1>2, <2>2, <3>1
      <3>3. \A i \in v : i \in w \cap K
        BY <1>2, <2>2, <3>1
      <3> QED BY <3>2, <3>3
    <2> QED BY <2>1, <2>2
  <1> HIDE DEF Same, Free, Splits
  <1>3. w \cap Op7 = v <=> /\ Same(0..6)
                           /\ Free(7..11) /\ Free(12..14) /\ Free(15..19)
                           /\ Free(20..24) /\ Free(25..31)
    <2> DEFINE In == {0..6}
               Out == {7..11, 12..14, 15..19, 20..24, 25..31}
    <2>1. In \cup Out = Fields
      BY DEF Fields
    <2>2. (\A P \in In : P \subseteq Op7) /\ (\A P \in Out : P \cap Op7 = {})
      BY DEF Op7
    <2>3. Splits(Op7, In, Out)
      BY <2>1, <2>2 DEF Splits
    <2>4. w \cap Op7 = v <=> (\A P \in In : Same(P)) /\ (\A P \in Out : Free(P))
      <3> HIDE DEF In, Out
      <3> QED BY <1>2, <2>3, Zenon
    <2> QED BY <2>4
  <1>4. w \cap F3 = v <=> /\ Same(0..6) /\ Same(12..14)
                          /\ Free(7..11) /\ Free(15..19) /\ Free(20..24) /\ Free(25..31)
    <2> DEFINE In == {0..6, 12..14}
               Out == {7..11, 15..19, 20..24, 25..31}
    <2>1. In \cup Out = Fields
      BY DEF Fields
    <2>2. (\A P \in In : P \subseteq F3) /\ (\A P \in Out : P \cap F3 = {})
      BY DEF F3, Op7
    <2>3. Splits(F3, In, Out)
      BY <2>1, <2>2 DEF Splits
    <2>4. w \cap F3 = v <=> (\A P \in In : Same(P)) /\ (\A P \in Out : Free(P))
      <3> HIDE DEF In, Out
      <3> QED BY <1>2, <2>3, Zenon
    <2> QED BY <2>4
  <1>5. w \cap F3F7 = v <=> /\ Same(0..6) /\ Same(12..14) /\ Same(25..31)
                            /\ Free(7..11) /\ Free(15..19) /\ Free(20..24)
    <2> DEFINE In == {0..6, 12..14, 25..31}
               Out == {7..11, 15..19, 20..24}
    <2>1. In \cup Out = Fields
      BY DEF Fields
    <2>2. (\A P \in In : P \subseteq F3F7) /\ (\A P \in Out : P \cap F3F7 = {})
      BY DEF F3F7, F3, Op7
    <2>3. Splits(F3F7, In, Out)
      BY <2>1, <2>2 DEF Splits
    <2>4. w \cap F3F7 = v <=> (\A P \in In : Same(P)) /\ (\A P \in Out : Free(P))
      <3> HIDE DEF In, Out
      <3> QED BY <1>2, <2>3, Zenon
    <2> QED BY <2>4
  <1>6. w \cap NoRd = v <=> /\ Same(0..6) /\ Same(7..11) /\ Same(12..14) /\ Same(25..31)
                            /\ Free(15..19) /\ Free(20..24)
    <2> DEFINE In == {0..6, 7..11, 12..14, 25..31}
               Out == {15..19, 20..24}
    <2>1. In \cup Out = Fields
      BY DEF Fields
    <2>2. (\A P \in In : P \subseteq NoRd) /\ (\A P \in Out : P \cap NoRd = {})
      BY DEF NoRd
    <2>3. Splits(NoRd, In, Out)
      BY <2>1, <2>2 DEF Splits
    <2>4. w \cap NoRd = v <=> (\A P \in In : Same(P)) /\ (\A P \in Out : Free(P))
      <3> HIDE DEF In, Out
      <3> QED BY <1>2, <2>3, Zenon
    <2> QED BY <2>4
  <1>7. w \cap All = v <=> /\ Same(0..6) /\ Same(7..11) /\ Same(12..14) /\ Same(15..19)
                           /\ Same(20..24) /\ Same(25..31)
    <2>1. (\A P \in Fields : P \subseteq All) /\ Fields \cup {} = Fields
      BY BitSet DEF All, Fields
    <2>2. w \cap All = v <=> \A P \in Fields : Same(P)
      <3> DEFINE Out == {}
      <3>1. \A P \in Out : P \cap All = {} /\ Free(P)
        OBVIOUS
      <3>2. Splits(All, Fields, Out)
        BY <2>1 DEF Splits
      <3> HIDE DEF Out
      <3>3. w \cap All = v <=> (\A P \in Fields : Same(P)) /\ (\A P \in Out : Free(P))
        BY <1>2, <3>2, Zenon
      <3> QED BY <3>1, <3>3
    <2> QED BY <2>2 DEF Fields
  <1> QED BY <1>3, <1>4, <1>5, <1>6, <1>7 DEF Same, Free

-----------------------------------------------------------------------------
(* The rows of encoding.h                                                  *)

\* The rows of encoding.h by the fields they give: the opcode alone, with
\* funct3, with funct7 too, and, for the SYSTEM opcode, with rs2.
OpRow(ext, op, rust)         == Row(ext, op, Op7, rust)
F3Row(ext, op, f3, rust)     == Row(ext, op + 4096 * f3, F3, rust)
F7Row(ext, op, f3, f7, rust) == Row(ext, op + 4096 * f3 + \h2000000 * f7, F3F7, rust)
SysRow(ext, f7, r2, mask, rust) == Row(ext, 115 + \h100000 * r2 + \h2000000 * f7, mask, rust)

\* The rows of one group decoder, which the codes of its table tell apart
Rows(ext, tag, Ops, op7) == {F3Row(ext, op7, Ops[op], <<tag, op>>) : op \in DOMAIN Ops}
RRows == {F7Row("I", 51, ROp[op][1], ROp[op][2], <<"R", op>>) : op \in DOMAIN ROp}

Alone == {
    OpRow("I", 55, <<"Lui">>), OpRow("I", 23, <<"Auipc">>), OpRow("I", 111, <<"Jal">>),
    F3Row("I", 103, 0, <<"Jalr">>),
    F3Row("I", 15, 0, <<"Fence">>), F3Row("Zifencei", 15, 1, <<"Fence">>)}

Shifts == {
    F7Row("I", 19, 1, 0, <<"Shift", "Slli">>), F7Row("I", 19, 5, 0, <<"Shift", "Srli">>),
    F7Row("I", 19, 5, 32, <<"Shift", "Srai">>)}

Systems == {
    SysRow("I", 0, 0, All, <<"Ecall">>), SysRow("I", 0, 1, All, <<"Ebreak">>),
    SysRow("M-mode", 24, 2, All, <<"Mret">>), SysRow("S-mode", 8, 2, All, <<"Sret">>),
    SysRow("M-mode", 8, 5, All, <<"Wfi">>),
    SysRow("S-mode", 9, 0, NoRd, <<"SfenceVma">>)}

\* Samples of the extensions that the emulator does not have
Others == {Row("M", \h2000033, F3F7, <<>>), Row("A", \h202f, AmoOp, <<>>)}

\* Encodings, group by group, with the match of each row in its fields
LEMMA EncodingGroups ==
    Encodings = Alone \cup Shifts \cup Systems \cup Others
                \cup RRows \cup Rows("I", "I", IOp, 19) \cup Rows("I", "Load", LoadOp, 3)
                \cup Rows("I", "Store", StoreOp, 35) \cup Rows("I", "Branch", BrOp, 99)
                \cup Rows("Zicsr", "Csr", CsrOp, 115)
  <1>1. Rows("I", "Load", LoadOp, 3) = {
          Row("I", \h3, F3, <<"Load", "Lb">>),     Row("I", \h1003, F3, <<"Load", "Lh">>),
          Row("I", \h2003, F3, <<"Load", "Lw">>),  Row("I", \h4003, F3, <<"Load", "Lbu">>),
          Row("I", \h5003, F3, <<"Load", "Lhu">>)}
    BY DEF Rows, F3Row, LoadOp
  <1>2. Rows("I", "Store", StoreOp, 35) = {
          Row("I", \h23, F3, <<"Store", "Sb">>), Row("I", \h1023, F3, <<"Store", "Sh">>),
          Row("I", \h2023, F3, <<"Store", "Sw">>)}
    BY DEF Rows, F3Row, StoreOp
  <1>3. Rows("I", "Branch", BrOp, 99) = {
          Row("I", \h63, F3, <<"Branch", "Beq">>), Row("I", \h1063, F3, <<"Branch", "Bne">>),
          Row("I", \h4063, F3, <<"Branch", "Blt">>), Row("I", \h5063, F3, <<"Branch", "Bge">>),
          Row("I", \h6063, F3, <<"Branch", "Bltu">>), Row("I", \h7063, F3, <<"Branch", "Bgeu">>)}
    BY DEF Rows, F3Row, BrOp
  <1>4. Rows("I", "I", IOp, 19) = {
          Row("I", \h13, F3, <<"I", "Addi">>),     Row("I", \h2013, F3, <<"I", "Slti">>),
          Row("I", \h3013, F3, <<"I", "Sltiu">>),  Row("I", \h4013, F3, <<"I", "Xori">>),
          Row("I", \h6013, F3, <<"I", "Ori">>),    Row("I", \h7013, F3, <<"I", "Andi">>)}
    BY DEF Rows, F3Row, IOp
  <1>5. Rows("Zicsr", "Csr", CsrOp, 115) = {
          Row("Zicsr", \h1073, F3, <<"Csr", "Rw">>), Row("Zicsr", \h2073, F3, <<"Csr", "Rs">>),
          Row("Zicsr", \h3073, F3, <<"Csr", "Rc">>), Row("Zicsr", \h5073, F3, <<"Csr", "Rwi">>),
          Row("Zicsr", \h6073, F3, <<"Csr", "Rsi">>), Row("Zicsr", \h7073, F3, <<"Csr", "Rci">>)}
    BY DEF Rows, F3Row, CsrOp
  <1>6. RRows = {
          Row("I", \h33, F3F7, <<"R", "Add">>),    Row("I", \h40000033, F3F7, <<"R", "Sub">>),
          Row("I", \h1033, F3F7, <<"R", "Sll">>),  Row("I", \h2033, F3F7, <<"R", "Slt">>),
          Row("I", \h3033, F3F7, <<"R", "Sltu">>), Row("I", \h4033, F3F7, <<"R", "Xor">>),
          Row("I", \h5033, F3F7, <<"R", "Srl">>),  Row("I", \h40005033, F3F7, <<"R", "Sra">>),
          Row("I", \h6033, F3F7, <<"R", "Or">>),   Row("I", \h7033, F3F7, <<"R", "And">>)}
    BY SMT DEF RRows, F7Row, ROp
  <1>7. Alone = {
          Row("I", \h37, Op7, <<"Lui">>), Row("I", \h17, Op7, <<"Auipc">>),
          Row("I", \h6f, Op7, <<"Jal">>), Row("I", \h67, F3, <<"Jalr">>),
          Row("I", \hf, F3, <<"Fence">>), Row("Zifencei", \h100f, F3, <<"Fence">>)}
    BY SMT DEF Alone, OpRow, F3Row
  <1>8. Shifts = {
          Row("I", \h1013, F3F7, <<"Shift", "Slli">>), Row("I", \h5013, F3F7, <<"Shift", "Srli">>),
          Row("I", \h40005013, F3F7, <<"Shift", "Srai">>)}
    BY SMT DEF Shifts, F7Row
  <1>9. Systems = {
          Row("I", \h73, All, <<"Ecall">>),        Row("I", \h100073, All, <<"Ebreak">>),
          Row("M-mode", \h30200073, All, <<"Mret">>), Row("S-mode", \h10200073, All, <<"Sret">>),
          Row("M-mode", \h10500073, All, <<"Wfi">>),
          Row("S-mode", \h12000073, NoRd, <<"SfenceVma">>)}
    BY SMT DEF Systems, SysRow
  <1>10. /\ Alone \subseteq Encodings /\ Shifts \subseteq Encodings
        /\ Systems \subseteq Encodings /\ Others \subseteq Encodings
    BY SMT, <1>7, <1>8, <1>9 DEF Encodings, Others
  <1>11. /\ Rows("I", "Load", LoadOp, 3) \subseteq Encodings
        /\ Rows("I", "Store", StoreOp, 35) \subseteq Encodings
        /\ Rows("I", "Branch", BrOp, 99) \subseteq Encodings
    BY SMT, <1>1, <1>2, <1>3 DEF Encodings
  <1>12. /\ Rows("I", "I", IOp, 19) \subseteq Encodings
        /\ Rows("Zicsr", "Csr", CsrOp, 115) \subseteq Encodings
        /\ RRows \subseteq Encodings
    BY SMT, <1>4, <1>5, <1>6 DEF Encodings
  <1>13. ASSUME NEW row \in Encodings
         PROVE  row \in Alone \cup Shifts \cup Systems \cup Others
                \cup RRows \cup Rows("I", "I", IOp, 19) \cup Rows("I", "Load", LoadOp, 3)
                \cup Rows("I", "Store", StoreOp, 35) \cup Rows("I", "Branch", BrOp, 99)
                \cup Rows("Zicsr", "Csr", CsrOp, 115)
    BY SMT, <1>1, <1>2, <1>3, <1>4, <1>5, <1>6, <1>7, <1>8, <1>9
    DEF Encodings, Others
  <1>14. Encodings \subseteq
           Alone \cup Shifts \cup Systems \cup Others
                \cup RRows \cup Rows("I", "I", IOp, 19) \cup Rows("I", "Load", LoadOp, 3)
                \cup Rows("I", "Store", StoreOp, 35) \cup Rows("I", "Branch", BrOp, 99)
                \cup Rows("Zicsr", "Csr", CsrOp, 115)
    BY <1>13, Zenon
  <1>15. Alone \cup Shifts \cup Systems \cup Others
                \cup RRows \cup Rows("I", "I", IOp, 19) \cup Rows("I", "Load", LoadOp, 3)
                \cup Rows("I", "Store", StoreOp, 35) \cup Rows("I", "Branch", BrOp, 99)
                \cup Rows("Zicsr", "Csr", CsrOp, 115) \subseteq Encodings
    BY Zenon, <1>10, <1>11, <1>12
  <1> QED BY Zenon, <1>14, <1>15

LEMMA EmptyFields ==
    /\ opcode({}) = 0 /\ funct3({}) = 0 /\ funct7({}) = 0
    /\ Value(rd({})) = 0 /\ Value(rs1({})) = 0 /\ Value(rs2({})) = 0
  <1>1. \A lo, n : Field({}, lo, n) = {}
    BY DEF Field
  <1>2. Value({}) = 0
    BY ValueEmpty
  <1> QED BY <1>1, <1>2 DEF opcode, funct3, funct7, rd, rs1, rs2

\* When a word is the number m under a mask: the fields under the mask hold
\* the digits of m, which has no others.
LEMMA MaskedNumber ==
    ASSUME NEW w \in Word, NEW m \in Number31
    PROVE  LET v == BitsOf(m)
               op == opcode(w) = Digits(m, 0, 7)
               f3 == funct3(w) = Digits(m, 12, 3)
               f7 == funct7(w) = Digits(m, 25, 6)
               noRegs == Digits(m, 7, 5) = 0 /\ Digits(m, 15, 5) = 0 /\ Digits(m, 20, 5) = 0
           IN  /\ noRegs /\ Digits(m, 12, 3) = 0 /\ Digits(m, 25, 6) = 0 => (w \cap Op7 = v <=> op)
               /\ noRegs /\ Digits(m, 25, 6) = 0 => (w \cap F3 = v <=> op /\ f3)
               /\ noRegs => (w \cap F3F7 = v <=> op /\ f3 /\ f7)
               /\ noRegs => (w \cap NoRd = v <=> op /\ Value(rd(w)) = 0 /\ f3 /\ f7)
               /\ w \cap All = v <=> /\ op /\ f3 /\ f7
                                     /\ Value(rd(w)) = Digits(m, 7, 5)
                                     /\ Value(rs1(w)) = Digits(m, 15, 5)
                                     /\ Value(rs2(w)) = Digits(m, 20, 5)
  <1> DEFINE v == BitsOf(m)
  <1>1. v \in Word /\ {} \in Word
    BY WordClosed, ValueEmpty
  <1>2. /\ w \cap 0..6 = v \cap 0..6 <=> opcode(w) = Digits(m, 0, 7)
        /\ w \cap 7..11 = v \cap 7..11 <=> Value(rd(w)) = Digits(m, 7, 5)
        /\ w \cap 12..14 = v \cap 12..14 <=> funct3(w) = Digits(m, 12, 3)
        /\ w \cap 15..19 = v \cap 15..19 <=> Value(rs1(w)) = Digits(m, 15, 5)
        /\ w \cap 20..24 = v \cap 20..24 <=> Value(rs2(w)) = Digits(m, 20, 5)
        /\ w \cap 25..31 = v \cap 25..31 <=> funct7(w) = Digits(m, 25, 6)
    BY FieldsOf
  <1>3. /\ {} \cap 7..11 = v \cap 7..11 <=> 0 = Digits(m, 7, 5)
        /\ {} \cap 12..14 = v \cap 12..14 <=> 0 = Digits(m, 12, 3)
        /\ {} \cap 15..19 = v \cap 15..19 <=> 0 = Digits(m, 15, 5)
        /\ {} \cap 20..24 = v \cap 20..24 <=> 0 = Digits(m, 20, 5)
        /\ {} \cap 25..31 = v \cap 25..31 <=> 0 = Digits(m, 25, 6)
    <2>1. /\ {} \cap 7..11 = v \cap 7..11 <=> Value(rd({})) = Digits(m, 7, 5)
          /\ {} \cap 12..14 = v \cap 12..14 <=> funct3({}) = Digits(m, 12, 3)
          /\ {} \cap 15..19 = v \cap 15..19 <=> Value(rs1({})) = Digits(m, 15, 5)
          /\ {} \cap 20..24 = v \cap 20..24 <=> Value(rs2({})) = Digits(m, 20, 5)
          /\ {} \cap 25..31 = v \cap 25..31 <=> funct7({}) = Digits(m, 25, 6)
      BY <1>1, FieldsOf
    <2> HIDE DEF v
    <2> QED BY <2>1, EmptyFields
  <1> HIDE DEF v
  <1>4. /\ v \cap 7..11 = {} <=> Digits(m, 7, 5) = 0
        /\ v \cap 12..14 = {} <=> Digits(m, 12, 3) = 0
        /\ v \cap 15..19 = {} <=> Digits(m, 15, 5) = 0
        /\ v \cap 20..24 = {} <=> Digits(m, 20, 5) = 0
        /\ v \cap 25..31 = {} <=> Digits(m, 25, 6) = 0
    BY <1>3
  <1>5. /\ Digits(m, 7, 5) = 0 /\ Digits(m, 15, 5) = 0 /\ Digits(m, 20, 5) = 0
           /\ Digits(m, 12, 3) = 0 /\ Digits(m, 25, 6) = 0 =>
             (w \cap Op7 = v <=> opcode(w) = Digits(m, 0, 7))
        /\ Digits(m, 7, 5) = 0 /\ Digits(m, 15, 5) = 0 /\ Digits(m, 20, 5) = 0
           /\ Digits(m, 25, 6) = 0 =>
             (w \cap F3 = v <=> opcode(w) = Digits(m, 0, 7) /\ funct3(w) = Digits(m, 12, 3))
    BY <1>1, <1>2, <1>4, MaskedWords
  <1>6. Digits(m, 7, 5) = 0 /\ Digits(m, 15, 5) = 0 /\ Digits(m, 20, 5) = 0 =>
          /\ w \cap F3F7 = v <=> /\ opcode(w) = Digits(m, 0, 7) /\ funct3(w) = Digits(m, 12, 3)
                                 /\ funct7(w) = Digits(m, 25, 6)
          /\ w \cap NoRd = v <=> /\ opcode(w) = Digits(m, 0, 7) /\ Value(rd(w)) = 0
                                 /\ funct3(w) = Digits(m, 12, 3) /\ funct7(w) = Digits(m, 25, 6)
    BY <1>1, <1>2, <1>4, MaskedWords
  <1>7. w \cap All = v <=> /\ opcode(w) = Digits(m, 0, 7) /\ funct3(w) = Digits(m, 12, 3)
                           /\ funct7(w) = Digits(m, 25, 6) /\ Value(rd(w)) = Digits(m, 7, 5)
                           /\ Value(rs1(w)) = Digits(m, 15, 5) /\ Value(rs2(w)) = Digits(m, 20, 5)
    BY <1>1, <1>2, MaskedWords
  <1> QED BY <1>5, <1>6, <1>7 DEF v

\* The instructions that one funct3 code tells apart
LEMMA CodedRow ==
    ASSUME NEW w \in Word, NEW op7 \in 0..127, NEW code \in 0..7, NEW ext, NEW rust
    PROVE  Encodes(F3Row(ext, op7, code, rust), w) <=> opcode(w) = op7 /\ funct3(w) = code
  <1> DEFINE m == op7 + 4096 * code
  <1>1. m \in Number31
    BY SMT DEF Number31
  <1>2. /\ Digits(m, 0, 7) = op7 /\ Digits(m, 7, 5) = 0 /\ Digits(m, 12, 3) = code
    BY SMT DEF Digits
  <1>3. /\ Digits(m, 15, 5) = 0 /\ Digits(m, 20, 5) = 0 /\ Digits(m, 25, 6) = 0
    BY SMT DEF Digits
  <1> HIDE DEF m
  <1>4. Encodes(Row(ext, m, F3, rust), w) <=> w \cap F3 = BitsOf(m)
    BY DEF Encodes, Row
  <1>5. w \cap F3 = BitsOf(m) <=> opcode(w) = op7 /\ funct3(w) = code
    BY <1>1, <1>2, <1>3, MaskedNumber
  <1> QED BY <1>4, <1>5 DEF m, F3Row

\* The instructions that the opcode alone tells apart
LEMMA OpcodeRow ==
    ASSUME NEW w \in Word, NEW op \in {23, 55, 111}, NEW ext, NEW rust
    PROVE  Encodes(OpRow(ext, op, rust), w) <=> opcode(w) = op
  <1>1. op \in Number31
    BY SMT DEF Number31
  <1>2. /\ Digits(op, 0, 7) = op /\ Digits(op, 7, 5) = 0 /\ Digits(op, 12, 3) = 0
        /\ Digits(op, 15, 5) = 0 /\ Digits(op, 20, 5) = 0 /\ Digits(op, 25, 6) = 0
    BY SMT DEF Digits
  <1>3. Encodes(OpRow(ext, op, rust), w) <=> w \cap Op7 = BitsOf(op)
    BY DEF Encodes, Row, OpRow
  <1> QED BY <1>1, <1>2, <1>3, MaskedNumber

\* The instructions that funct3 and funct7 tell apart
LEMMA Coded7Row ==
    ASSUME NEW w \in Word, NEW op7 \in {19, 51}, NEW f3 \in 0..7, NEW f7 \in {0, 1, 32},
           NEW ext, NEW rust
    PROVE  Encodes(F7Row(ext, op7, f3, f7, rust), w)
             <=> opcode(w) = op7 /\ funct3(w) = f3 /\ funct7(w) = f7
  <1> DEFINE m == op7 + 4096 * f3 + \h2000000 * f7
  <1>1. m \in Number31
    BY SMT DEF Number31
  <1>2. /\ Digits(m, 0, 7) = op7 /\ Digits(m, 7, 5) = 0 /\ Digits(m, 12, 3) = f3
    BY SMT DEF Digits
  <1>3. /\ Digits(m, 15, 5) = 0 /\ Digits(m, 20, 5) = 0 /\ Digits(m, 25, 6) = f7
    BY SMT DEF Digits
  <1> HIDE DEF m
  <1>4. Encodes(Row(ext, m, F3F7, rust), w) <=> w \cap F3F7 = BitsOf(m)
    BY DEF Encodes, Row
  <1>5. w \cap F3F7 = BitsOf(m) <=> opcode(w) = op7 /\ funct3(w) = f3 /\ funct7(w) = f7
    BY <1>1, <1>2, <1>3, MaskedNumber
  <1> QED BY SMT, <1>4, <1>5 DEF m, F7Row

\* The instructions of the SYSTEM opcode without operands
LEMMA SystemRow ==
    ASSUME NEW w \in Word, NEW f7 \in {0, 8, 9, 24}, NEW r2 \in {0, 1, 2, 5}, NEW ext, NEW rust
    PROVE  /\ Encodes(SysRow(ext, f7, r2, All, rust), w) <=>
                /\ opcode(w) = 115 /\ funct3(w) = 0 /\ funct7(w) = f7 /\ Value(rs2(w)) = r2
                /\ rd(w) = x0 /\ rs1(w) = x0
           /\ r2 = 0 => (Encodes(SysRow(ext, f7, r2, NoRd, rust), w) <=>
                opcode(w) = 115 /\ funct3(w) = 0 /\ funct7(w) = f7 /\ rd(w) = x0)
  <1> DEFINE m == 115 + \h100000 * r2 + \h2000000 * f7
  <1>1. m \in Number31
    BY SMT DEF Number31
  <1>2. /\ Digits(m, 0, 7) = 115 /\ Digits(m, 7, 5) = 0 /\ Digits(m, 12, 3) = 0
    BY SMT DEF Digits
  <1>3. /\ Digits(m, 15, 5) = 0 /\ Digits(m, 20, 5) = r2 /\ Digits(m, 25, 6) = f7
    BY SMT DEF Digits
  <1> HIDE DEF m
  <1>4. /\ Encodes(Row(ext, m, All, rust), w) <=> w \cap All = BitsOf(m)
        /\ Encodes(Row(ext, m, NoRd, rust), w) <=> w \cap NoRd = BitsOf(m)
    BY DEF Encodes, Row
  <1>5. /\ w \cap All = BitsOf(m) <=>
             /\ opcode(w) = 115 /\ funct3(w) = 0 /\ funct7(w) = f7 /\ Value(rs2(w)) = r2
             /\ Value(rd(w)) = 0 /\ Value(rs1(w)) = 0
        /\ r2 = 0 => (w \cap NoRd = BitsOf(m) <=>
             opcode(w) = 115 /\ funct3(w) = 0 /\ funct7(w) = f7 /\ Value(rd(w)) = 0)
    BY <1>1, <1>2, <1>3, MaskedNumber
  <1>6. (Value(rd(w)) = 0 <=> rd(w) = {}) /\ (Value(rs1(w)) = 0 <=> rs1(w) = {})
    <2>1. rd(w) \in SUBSET (0..6) /\ rs1(w) \in SUBSET (0..6) /\ {} \in SUBSET (0..6)
      BY DEF rd, rs1, Field
    <2>2. Value({}) = 0
      BY ValueEmpty
    <2> QED BY <2>1, <2>2, SameSmall
  <1> QED BY SMT, <1>4, <1>5, <1>6 DEF m, x0, SysRow

-----------------------------------------------------------------------------
(* decode() against encoding.h, for every word                             *)

\* An operation is the one that its code gives.
LEMMA OpOfCode ==
    /\ \A op \in DOMAIN LoadOp : LoadOp[op] \in 0..7 /\ OpOf(LoadOp, LoadOp[op]) = op
    /\ \A op \in DOMAIN StoreOp : StoreOp[op] \in 0..7 /\ OpOf(StoreOp, StoreOp[op]) = op
    /\ \A op \in DOMAIN BrOp : BrOp[op] \in 0..7 /\ OpOf(BrOp, BrOp[op]) = op
    /\ \A op \in DOMAIN IOp : IOp[op] \in {0, 2, 3, 4, 6, 7} /\ OpOf(IOp, IOp[op]) = op
    /\ \A op \in DOMAIN CsrOp : CsrOp[op] \in 1..7 /\ OpOf(CsrOp, CsrOp[op]) = op
    /\ \A op \in DOMAIN ROp : /\ ROp[op][1] \in 0..7 /\ ROp[op][2] \in {0, 32}
                              /\ ROp[op] = <<ROp[op][1], ROp[op][2]>>
                              /\ OpOf(ROp, ROp[op]) = op
  <1>1. ASSUME NEW Ops, \A a \in DOMAIN Ops, b \in DOMAIN Ops : Ops[a] = Ops[b] => a = b
        PROVE  \A op \in DOMAIN Ops : OpOf(Ops, Ops[op]) = op
    BY <1>1 DEF OpOf
  <1>2. \A op \in DOMAIN LoadOp : LoadOp[op] \in 0..7 /\ OpOf(LoadOp, LoadOp[op]) = op
    <2>1. \A a \in DOMAIN LoadOp, b \in DOMAIN LoadOp : LoadOp[a] = LoadOp[b] => a = b
      BY DEF LoadOp
    <2>2. \A op \in DOMAIN LoadOp : LoadOp[op] \in 0..7
      BY DEF LoadOp
    <2> QED BY <1>1, <2>1, <2>2
  <1>3. \A op \in DOMAIN StoreOp : StoreOp[op] \in 0..7 /\ OpOf(StoreOp, StoreOp[op]) = op
    <2>1. \A a \in DOMAIN StoreOp, b \in DOMAIN StoreOp : StoreOp[a] = StoreOp[b] => a = b
      BY DEF StoreOp
    <2>2. \A op \in DOMAIN StoreOp : StoreOp[op] \in 0..7
      BY DEF StoreOp
    <2> QED BY <1>1, <2>1, <2>2
  <1>4. \A op \in DOMAIN BrOp : BrOp[op] \in 0..7 /\ OpOf(BrOp, BrOp[op]) = op
    <2>1. \A a \in DOMAIN BrOp, b \in DOMAIN BrOp : BrOp[a] = BrOp[b] => a = b
      BY DEF BrOp
    <2>2. \A op \in DOMAIN BrOp : BrOp[op] \in 0..7
      BY DEF BrOp
    <2> QED BY <1>1, <2>1, <2>2
  <1>5. \A op \in DOMAIN IOp : IOp[op] \in {0, 2, 3, 4, 6, 7} /\ OpOf(IOp, IOp[op]) = op
    <2>1. \A a \in DOMAIN IOp, b \in DOMAIN IOp : IOp[a] = IOp[b] => a = b
      BY DEF IOp
    <2>2. \A op \in DOMAIN IOp : IOp[op] \in {0, 2, 3, 4, 6, 7}
      BY DEF IOp
    <2> QED BY <1>1, <2>1, <2>2
  <1>6. \A op \in DOMAIN CsrOp : CsrOp[op] \in 1..7 /\ OpOf(CsrOp, CsrOp[op]) = op
    <2>1. \A a \in DOMAIN CsrOp, b \in DOMAIN CsrOp : CsrOp[a] = CsrOp[b] => a = b
      BY DEF CsrOp
    <2>2. \A op \in DOMAIN CsrOp : CsrOp[op] \in 1..7
      BY DEF CsrOp
    <2> QED BY <1>1, <2>1, <2>2
  <1>7. \A op \in DOMAIN ROp : /\ ROp[op][1] \in 0..7 /\ ROp[op][2] \in {0, 32}
                               /\ ROp[op] = <<ROp[op][1], ROp[op][2]>>
    BY DEF ROp
  <1>8. \A op \in DOMAIN ROp : OpOf(ROp, ROp[op]) = op
    <2>1. \A a \in DOMAIN ROp, b \in DOMAIN ROp : ROp[a] = ROp[b] => a = b
      BY DEF ROp
    <2> QED BY <1>1, <2>1
  <1> QED BY <1>2, <1>3, <1>4, <1>5, <1>6, <1>7, <1>8

\* Every word that encoding.h gives to an instruction of this hart decodes to
\* the Instruction of that name: decode.rs:4-139 against encoding.h.
THEOREM EncodedDecodes ==
    ASSUME NEW w \in Word, NEW row \in Encodings, row.rust # << >>, Encodes(row, w)
    PROVE  Names(row, decode(w))
  <1> DEFINE insn == decode(w)
  <1>1. \A ext, op, f3, f7, mask, rust :
          /\ OpRow(ext, op, rust).rust = rust /\ F3Row(ext, op, f3, rust).rust = rust
          /\ F7Row(ext, op, f3, f7, rust).rust = rust
          /\ SysRow(ext, f7, f3, mask, rust).rust = rust
          /\ Row(ext, op, mask, rust).rust = rust
    BY SMT DEF Row, OpRow, F3Row, F7Row, SysRow
  <1> HIDE DEF insn
  <1> SUFFICES Names(row, insn)
    BY DEF insn
  <1>2. /\ \A r, tag, op : r.rust = <<tag, op>> /\ insn.tag = tag /\ insn.op = op
                             => Names(r, insn)
        /\ \A r, tag : r.rust = <<tag>> /\ insn.tag = tag => Names(r, insn)
    <2> QED BY DEF Names
  <1>0. \A ext, tag, Ops, op7 : row \in Rows(ext, tag, Ops, op7) =>
          \E op \in DOMAIN Ops : row = F3Row(ext, op7, Ops[op], <<tag, op>>)
    BY DEF Rows
  <1>3. CASE row \in Rows("I", "Load", LoadOp, 3)
    <2>1. PICK op \in DOMAIN LoadOp : row = F3Row("I", 3, LoadOp[op], <<"Load", op>>)
      BY Zenon, <1>0, <1>3
    <2>2. opcode(w) = 3 /\ funct3(w) = LoadOp[op]
      BY <2>1, CodedRow, OpOfCode
    <2>3. insn.tag = "Load" /\ insn.op = op
      BY <2>2, OpOfCode DEF decode, decode_load, Known, insn
    <2> QED BY <1>1, <1>2, <2>1, <2>3
  <1>4. CASE row \in Rows("I", "Store", StoreOp, 35)
    <2>1. PICK op \in DOMAIN StoreOp : row = F3Row("I", 35, StoreOp[op], <<"Store", op>>)
      BY Zenon, <1>0, <1>4
    <2>2. opcode(w) = 35 /\ funct3(w) = StoreOp[op]
      BY <2>1, CodedRow, OpOfCode
    <2>3. insn.tag = "Store" /\ insn.op = op
      BY <2>2, OpOfCode DEF decode, decode_store, Known, insn
    <2> QED BY <1>1, <1>2, <2>1, <2>3
  <1>5. CASE row \in Rows("I", "Branch", BrOp, 99)
    <2>1. PICK op \in DOMAIN BrOp : row = F3Row("I", 99, BrOp[op], <<"Branch", op>>)
      BY Zenon, <1>0, <1>5
    <2>2. opcode(w) = 99 /\ funct3(w) = BrOp[op]
      BY <2>1, CodedRow, OpOfCode
    <2>3. insn.tag = "Branch" /\ insn.op = op
      BY <2>2, OpOfCode DEF decode, decode_branch, Known, insn
    <2> QED BY <1>1, <1>2, <2>1, <2>3
  <1>6. CASE row \in Rows("I", "I", IOp, 19)
    <2>1. PICK op \in DOMAIN IOp : row = F3Row("I", 19, IOp[op], <<"I", op>>)
      BY Zenon, <1>0, <1>6
    <2>2. opcode(w) = 19 /\ funct3(w) = IOp[op]
      BY <2>1, CodedRow, OpOfCode
    <2>3. insn.tag = "I" /\ insn.op = op
      <3>1. insn = decode_i_alu(w)
        BY <2>2 DEF decode, insn
      <3>2. Known(IOp, funct3(w)) /\ OpOf(IOp, funct3(w)) = op /\ funct3(w) \notin {1, 5}
        BY <2>2, OpOfCode DEF Known
      <3>3. decode_i_alu(w).tag = "I" /\ decode_i_alu(w).op = OpOf(IOp, funct3(w))
        BY <3>2 DEF decode_i_alu
      <3> QED BY <3>1, <3>2, <3>3
    <2> QED BY <1>1, <1>2, <2>1, <2>3
  <1>7. CASE row \in Rows("Zicsr", "Csr", CsrOp, 115)
    <2>1. PICK op \in DOMAIN CsrOp : row = F3Row("Zicsr", 115, CsrOp[op], <<"Csr", op>>)
      BY Zenon, <1>0, <1>7
    <2>2. opcode(w) = 115 /\ funct3(w) = CsrOp[op] /\ funct3(w) # 0
      BY <2>1, CodedRow, OpOfCode
    <2>3. insn.tag = "Csr" /\ insn.op = op
      <3>1. insn = decode_system(w)
        BY <2>2 DEF decode, insn
      <3>2. Known(CsrOp, funct3(w)) /\ OpOf(CsrOp, funct3(w)) = op
        BY <2>2, OpOfCode DEF Known
      <3>3. decode_system(w).tag = "Csr" /\ decode_system(w).op = OpOf(CsrOp, funct3(w))
        BY <2>2, <3>2 DEF decode_system
      <3> QED BY <3>1, <3>2, <3>3
    <2> QED BY <1>1, <1>2, <2>1, <2>3
  <1>8. CASE row \in RRows
    <2>1. PICK op \in DOMAIN ROp :
            row = F7Row("I", 51, ROp[op][1], ROp[op][2], <<"R", op>>)
      BY <1>8 DEF RRows
    <2>2. opcode(w) = 51 /\ <<funct3(w), funct7(w)>> = ROp[op]
      BY <2>1, Coded7Row, OpOfCode
    <2>3. insn.tag = "R" /\ insn.op = op
      BY <2>2, OpOfCode DEF decode, decode_r, Known, insn
    <2> QED BY <1>1, <1>2, <2>1, <2>3
  <1>9. CASE row \in Shifts
    <2>1. ~Known(IOp, 1) /\ ~Known(IOp, 5)
      BY DEF Known, IOp
    <2>2. ASSUME NEW f3 \in {1, 5}, NEW f7 \in {0, 32}, NEW rust,
                 row = F7Row("I", 19, f3, f7, rust)
          PROVE  /\ insn.tag = "Shift"
                 /\ insn.op = IF f3 = 1 THEN "Slli" ELSE IF f7 = 0 THEN "Srli" ELSE "Srai"
      <3>1. opcode(w) = 19 /\ funct3(w) = f3 /\ funct7(w) = f7
        BY <2>2, Coded7Row
      <3>2. insn = decode_i_alu(w)
        BY <3>1 DEF decode, insn
      <3>3. /\ decode_i_alu(w).tag = "Shift"
            /\ decode_i_alu(w).op = IF f3 = 1 THEN "Slli" ELSE IF f7 = 0 THEN "Srli" ELSE "Srai"
        BY <2>1, <3>1 DEF decode_i_alu
      <3> QED BY <3>2, <3>3
    <2>3. \/ row = F7Row("I", 19, 1, 0, <<"Shift", "Slli">>)
          \/ row = F7Row("I", 19, 5, 0, <<"Shift", "Srli">>)
          \/ row = F7Row("I", 19, 5, 32, <<"Shift", "Srai">>)
      BY <1>9 DEF Shifts
    <2>4. CASE row = F7Row("I", 19, 1, 0, <<"Shift", "Slli">>)
      <3>1. insn.tag = "Shift" /\ insn.op = "Slli"
        BY <2>2, <2>4
      <3> QED BY <1>1, <1>2, <2>4, <3>1
    <2>5. CASE row = F7Row("I", 19, 5, 0, <<"Shift", "Srli">>)
      <3>1. insn.tag = "Shift" /\ insn.op = "Srli"
        BY <2>2, <2>5
      <3> QED BY <1>1, <1>2, <2>5, <3>1
    <2>6. CASE row = F7Row("I", 19, 5, 32, <<"Shift", "Srai">>)
      <3>1. insn.tag = "Shift" /\ insn.op = "Srai"
        BY <2>2, <2>6
      <3> QED BY <1>1, <1>2, <2>6, <3>1
    <2> QED BY <2>3, <2>4, <2>5, <2>6
  <1>10. CASE row \in Alone
    <2>1. /\ opcode(w) = 55 => insn.tag = "Lui"
          /\ opcode(w) = 23 => insn.tag = "Auipc"
          /\ opcode(w) = 111 => insn.tag = "Jal"
          /\ opcode(w) = 103 => insn.tag = "Jalr"
          /\ opcode(w) = 15 => insn.tag = "Fence"
      BY DEF decode, insn
    <2>2. CASE row \in {OpRow("I", 55, <<"Lui">>), OpRow("I", 23, <<"Auipc">>),
                       OpRow("I", 111, <<"Jal">>)}
      BY <1>1, <1>2, <2>1, <2>2, OpcodeRow
    <2>3. CASE row \in {F3Row("I", 103, 0, <<"Jalr">>), F3Row("I", 15, 0, <<"Fence">>),
                       F3Row("Zifencei", 15, 1, <<"Fence">>)}
      BY <1>1, <1>2, <2>1, <2>3, CodedRow
    <2> QED BY <1>10, <2>2, <2>3 DEF Alone
  <1>11. CASE row \in Systems
    <2>1. ASSUME NEW f7 \in {0, 8, 9, 24}, NEW r2 \in {0, 1, 2, 5}, NEW rust, NEW ext,
                 row = SysRow(ext, f7, r2, All, rust)
          PROVE  opcode(w) = 115 /\ funct3(w) = 0 /\ funct7(w) = f7 /\ Value(rs2(w)) = r2
      BY <2>1, SystemRow
    <2>2. ASSUME NEW rust, NEW ext,
                 row = SysRow(ext, 9, 0, NoRd, rust)
          PROVE  opcode(w) = 115 /\ funct3(w) = 0 /\ funct7(w) = 9
      BY <2>2, SystemRow
    <2>3. opcode(w) = 115 /\ funct3(w) = 0 =>
            /\ funct7(w) = 0 /\ Value(rs2(w)) = 0 => insn.tag = "Ecall"
            /\ funct7(w) = 0 /\ Value(rs2(w)) = 1 => insn.tag = "Ebreak"
            /\ funct7(w) = 24 /\ Value(rs2(w)) = 2 => insn.tag = "Mret"
            /\ funct7(w) = 8 /\ Value(rs2(w)) = 2 => insn.tag = "Sret"
            /\ funct7(w) = 8 /\ Value(rs2(w)) = 5 => insn.tag = "Wfi"
            /\ funct7(w) = 9 => insn.tag = "SfenceVma"
      <3>1. opcode(w) = 115 => insn = decode_system(w)
        BY DEF decode, insn
      <3> QED BY <3>1 DEF decode_system
    <2>4. CASE row = SysRow("I", 0, 0, All, <<"Ecall">>)
      <3>1. insn.tag = "Ecall"
        BY <2>1, <2>3, <2>4
      <3> QED BY <1>1, <1>2, <2>4, <3>1
    <2>5. CASE row = SysRow("I", 0, 1, All, <<"Ebreak">>)
      <3>1. insn.tag = "Ebreak"
        BY <2>1, <2>3, <2>5
      <3> QED BY <1>1, <1>2, <2>5, <3>1
    <2>6. CASE row = SysRow("M-mode", 24, 2, All, <<"Mret">>)
      <3>1. insn.tag = "Mret"
        BY <2>1, <2>3, <2>6
      <3> QED BY <1>1, <1>2, <2>6, <3>1
    <2>7. CASE row = SysRow("S-mode", 8, 2, All, <<"Sret">>)
      <3>1. insn.tag = "Sret"
        BY <2>1, <2>3, <2>7
      <3> QED BY <1>1, <1>2, <2>7, <3>1
    <2>8. CASE row = SysRow("M-mode", 8, 5, All, <<"Wfi">>)
      <3>1. insn.tag = "Wfi"
        BY <2>1, <2>3, <2>8
      <3> QED BY <1>1, <1>2, <2>8, <3>1
    <2>9. CASE row = SysRow("S-mode", 9, 0, NoRd, <<"SfenceVma">>)
      <3>1. insn.tag = "SfenceVma"
        BY <2>2, <2>3, <2>9
      <3> QED BY <1>1, <1>2, <2>9, <3>1
    <2> QED BY <1>11, <2>4, <2>5, <2>6, <2>7, <2>8, <2>9 DEF Systems
  <1>12. CASE row \in Others
    BY <1>1, <1>12 DEF Others
  <1> QED
    BY <1>3, <1>4, <1>5, <1>6, <1>7, <1>8, <1>9, <1>10, <1>11, <1>12, EncodingGroups

\* Conversely: a word that decodes to an Instruction is one that encoding.h
\* gives to the instruction of that name, or decode() is lax about it.
THEOREM DecodedIsEncoded ==
    ASSUME NEW w \in Word, decode(w) # Panic
    PROVE  \/ \E row \in Encodings : row.rust # << >> /\ Encodes(row, w) /\ Names(row, decode(w))
           \/ Lax(w)
  <1> DEFINE insn == decode(w)
  <1>1. \A ext, op, f3, f7, mask, rust :
          /\ OpRow(ext, op, rust).rust = rust /\ F3Row(ext, op, f3, rust).rust = rust
          /\ F7Row(ext, op, f3, f7, rust).rust = rust
          /\ SysRow(ext, f7, f3, mask, rust).rust = rust
    BY SMT DEF Row, OpRow, F3Row, F7Row, SysRow
  <1>2. insn \in Instruction
    BY DecodeTyped, NeverUnreachable
  <1>3. \A ir : ir = insn => ir = decode(w)
    OBVIOUS
  <1> HIDE DEF insn
  <1> DEFINE Good(row) == /\ row \in Encodings /\ row.rust # << >>
                          /\ Encodes(row, w) /\ Names(row, insn)
  <1> SUFFICES (\E row : Good(row)) \/ Lax(w)
    BY DEF insn
  <1>4. /\ \A r, tag, op : r \in Encodings /\ r.rust = <<tag, op>> /\ Encodes(r, w)
                           /\ insn.tag = tag /\ insn.op = op => Good(r)
        /\ \A r, tag : r \in Encodings /\ r.rust = <<tag>> /\ Encodes(r, w) /\ insn.tag = tag
                         => Good(r)
    BY DEF Names
  <1> HIDE DEF Good
  <1>5. insn.tag \in {"R", "I", "Shift", "Load", "Store", "Branch", "Lui", "Auipc", "Jal",
                      "Jalr", "Csr"} \cup Plain
    BY <1>2 DEF Instruction
  <1>6. \A ext, tag, Ops, op7, op : op \in DOMAIN Ops =>
          F3Row(ext, op7, Ops[op], <<tag, op>>) \in Rows(ext, tag, Ops, op7)
    BY DEF Rows
  <1>7. CASE insn.tag = "Load"
    <2>1. opcode(w) = 3 /\ insn.op \in DOMAIN LoadOp /\ LoadOp[insn.op] = funct3(w)
      BY <1>3, <1>7, DecodedLoad
    <2> DEFINE row == F3Row("I", 3, LoadOp[insn.op], <<"Load", insn.op>>)
    <2>2. row \in Encodings /\ Encodes(row, w)
      BY <1>6, <2>1, CodedRow, OpOfCode, EncodingGroups
    <2> QED BY <1>1, <1>4, <1>7, <2>2
  <1>8. CASE insn.tag = "Store"
    <2>1. opcode(w) = 35 /\ insn.op \in DOMAIN StoreOp /\ StoreOp[insn.op] = funct3(w)
      BY <1>3, <1>8, DecodedStore
    <2> DEFINE row == F3Row("I", 35, StoreOp[insn.op], <<"Store", insn.op>>)
    <2>2. row \in Encodings /\ Encodes(row, w)
      BY <1>6, <2>1, CodedRow, OpOfCode, EncodingGroups
    <2> QED BY <1>1, <1>4, <1>8, <2>2
  <1>9. CASE insn.tag = "Branch"
    <2>1. opcode(w) = 99 /\ insn.op \in DOMAIN BrOp /\ BrOp[insn.op] = funct3(w)
      BY <1>3, <1>9, DecodedBranch
    <2> DEFINE row == F3Row("I", 99, BrOp[insn.op], <<"Branch", insn.op>>)
    <2>2. row \in Encodings /\ Encodes(row, w)
      BY <1>6, <2>1, CodedRow, OpOfCode, EncodingGroups
    <2> QED BY <1>1, <1>4, <1>9, <2>2
  <1>10. CASE insn.tag = "I"
    <2>1. opcode(w) = 19 /\ insn.op \in DOMAIN IOp /\ IOp[insn.op] = funct3(w)
      BY <1>3, <1>10, DecodedI
    <2> DEFINE row == F3Row("I", 19, IOp[insn.op], <<"I", insn.op>>)
    <2>2. row \in Encodings /\ Encodes(row, w)
      BY <1>6, <2>1, CodedRow, OpOfCode, EncodingGroups
    <2> QED BY <1>1, <1>4, <1>10, <2>2
  <1>11. CASE insn.tag = "Csr"
    <2>1. opcode(w) = 115 /\ insn.op \in DOMAIN CsrOp /\ CsrOp[insn.op] = funct3(w)
      BY <1>3, <1>11, DecodedCsr
    <2> DEFINE row == F3Row("Zicsr", 115, CsrOp[insn.op], <<"Csr", insn.op>>)
    <2>2. row \in Encodings /\ Encodes(row, w)
      BY <1>6, <2>1, CodedRow, OpOfCode, EncodingGroups
    <2> QED BY <1>1, <1>4, <1>11, <2>2
  <1>12. CASE insn.tag = "R"
    <2>1. opcode(w) = 51 /\ insn.op \in DOMAIN ROp /\ ROp[insn.op] = <<funct3(w), funct7(w)>>
      BY <1>3, <1>12, DecodedR
    <2> DEFINE row == F7Row("I", 51, ROp[insn.op][1], ROp[insn.op][2], <<"R", insn.op>>)
    <2>2. row \in RRows
      BY <2>1 DEF RRows
    <2>3. Encodes(row, w)
      BY <2>1, Coded7Row, OpOfCode
    <2> QED BY <1>1, <1>4, <1>12, <2>2, <2>3, EncodingGroups
  <1>13. CASE insn.tag = "Shift"
    <2>1. /\ opcode(w) = 19 /\ funct3(w) \in {1, 5}
          /\ insn.op \in ShiftOp /\ funct3(w) = IF insn.op = "Slli" THEN 1 ELSE 5
      BY <1>3, <1>13, DecodedShift DEF ShiftOp
    <2>2. funct7(w) # 0 => Lax(w)
      BY <2>1 DEF Lax
    <2>3. ASSUME funct7(w) = 0
          PROVE  \E op : insn.op = op /\ F7Row("I", 19, funct3(w), 0, <<"Shift", op>>) \in Shifts
      <3>1. ~Known(IOp, 1) /\ ~Known(IOp, 5)
        BY DEF Known, IOp
      <3>2. insn = decode_i_alu(w)
        BY <2>1 DEF decode, insn
      <3>3. insn.op = IF funct3(w) = 1 THEN "Slli" ELSE "Srli"
        BY <2>1, <2>3, <3>1, <3>2 DEF decode_i_alu
      <3> QED BY <2>1, <3>3 DEF Shifts
    <2>4. ASSUME funct7(w) = 0 PROVE \E row : Good(row)
      <3>1. PICK op : insn.op = op /\ F7Row("I", 19, funct3(w), 0, <<"Shift", op>>) \in Shifts
        BY <2>3, <2>4
      <3>2. Encodes(F7Row("I", 19, funct3(w), 0, <<"Shift", op>>), w)
        BY <2>1, <2>4, Coded7Row
      <3> QED BY <1>1, <1>4, <1>13, <3>1, <3>2, EncodingGroups
    <2> QED BY <2>2, <2>4
  <1>14. CASE insn.tag \in {"Lui", "Auipc", "Jal"}
    <2>1. PICK op \in {55, 23, 111} : OpRow("I", op, <<insn.tag>>) \in Alone /\ opcode(w) = op
      <3>1. /\ insn.tag = "Lui" => opcode(w) = 55
            /\ insn.tag = "Auipc" => opcode(w) = 23
            /\ insn.tag = "Jal" => opcode(w) = 111
        BY DecodedUpper DEF insn
      <3> QED BY <1>14, <3>1 DEF Alone
    <2>2. Encodes(OpRow("I", op, <<insn.tag>>), w)
      BY <2>1, OpcodeRow
    <2> QED BY <1>1, <1>4, <2>1, <2>2, EncodingGroups
  <1>15. CASE insn.tag = "Jalr"
    <2>1. opcode(w) = 103
      BY <1>15, DecodedUpper DEF insn
    <2>2. funct3(w) # 0 => Lax(w)
      BY <2>1 DEF Lax
    <2>3. F3Row("I", 103, 0, <<"Jalr">>) \in Encodings
      BY EncodingGroups DEF Alone
    <2>4. funct3(w) = 0 => Encodes(F3Row("I", 103, 0, <<"Jalr">>), w)
      BY <2>1, CodedRow
    <2> QED BY <1>1, <1>4, <1>15, <2>2, <2>3, <2>4
  <1>16. CASE insn.tag = "Fence"
    <2>1. opcode(w) = 15
      BY <1>16, DecodedBy DEF insn
    <2>2. funct3(w) \notin {0, 1} => Lax(w)
      BY <2>1 DEF Lax
    <2>3. /\ F3Row("I", 15, 0, <<"Fence">>) \in Encodings
          /\ F3Row("Zifencei", 15, 1, <<"Fence">>) \in Encodings
      BY EncodingGroups DEF Alone
    <2>4. /\ funct3(w) = 0 => Encodes(F3Row("I", 15, 0, <<"Fence">>), w)
          /\ funct3(w) = 1 => Encodes(F3Row("Zifencei", 15, 1, <<"Fence">>), w)
      BY <2>1, CodedRow
    <2> QED BY <1>1, <1>4, <1>16, <2>2, <2>3, <2>4
  <1>17. CASE insn.tag \in {"Ecall", "Ebreak", "Mret", "Sret", "Wfi", "SfenceVma"}
    <2>1. opcode(w) = 115 /\ insn = decode_system(w)
      <3>1. CASE opcode(w) \in {51, 19, 3, 35, 99, 115}
        BY <1>17, <3>1, DecoderTags DEF decode, insn
      <3>2. CASE opcode(w) \notin {51, 19, 3, 35, 99, 115}
        BY <1>17, <3>2 DEF decode, Panic, insn
      <3> QED BY <3>1, <3>2
    <2>2. funct3(w) = 0
      BY <1>17, <2>1 DEF decode_system, Panic
    <2>3. /\ insn.tag = "Ecall" => funct7(w) = 0 /\ Value(rs2(w)) = 0
          /\ insn.tag = "Ebreak" => funct7(w) = 0 /\ Value(rs2(w)) = 1
          /\ insn.tag = "Mret" => funct7(w) = 24 /\ Value(rs2(w)) = 2
          /\ insn.tag = "Sret" => funct7(w) = 8 /\ Value(rs2(w)) = 2
          /\ insn.tag = "Wfi" => funct7(w) = 8 /\ Value(rs2(w)) = 5
          /\ insn.tag = "SfenceVma" => funct7(w) = 9
      BY <1>17, <2>1, <2>2 DEF decode_system, Panic
    <2>4. rd(w) # x0 \/ rs1(w) # x0 => Lax(w)
      BY <2>1, <2>2 DEF Lax
    <2>5. /\ SysRow("I", 0, 0, All, <<"Ecall">>) \in Encodings
          /\ SysRow("I", 0, 1, All, <<"Ebreak">>) \in Encodings
          /\ SysRow("M-mode", 24, 2, All, <<"Mret">>) \in Encodings
          /\ SysRow("S-mode", 8, 2, All, <<"Sret">>) \in Encodings
          /\ SysRow("M-mode", 8, 5, All, <<"Wfi">>) \in Encodings
          /\ SysRow("S-mode", 9, 0, NoRd, <<"SfenceVma">>) \in Encodings
      BY EncodingGroups DEF Systems
    <2>6. ASSUME rd(w) = x0, rs1(w) = x0,
                 NEW f7 \in {0, 8, 24}, NEW r2 \in {0, 1, 2, 5}, NEW ext, NEW rust,
                 funct7(w) = f7, Value(rs2(w)) = r2
          PROVE  Encodes(SysRow(ext, f7, r2, All, rust), w)
      BY <2>1, <2>2, <2>6, SystemRow
    <2>7. ASSUME rd(w) = x0, funct7(w) = 9, NEW ext, NEW rust
          PROVE  Encodes(SysRow(ext, 9, 0, NoRd, rust), w)
      BY <2>1, <2>2, <2>7, SystemRow
    <2>8. ASSUME rd(w) = x0, rs1(w) = x0
          PROVE  \E row : Good(row)
      <3>1. CASE insn.tag = "Ecall"
        BY <1>1, <1>4, <2>3, <2>5, <2>6, <2>8, <3>1
      <3>2. CASE insn.tag = "Ebreak"
        BY <1>1, <1>4, <2>3, <2>5, <2>6, <2>8, <3>2
      <3>3. CASE insn.tag = "Mret"
        BY <1>1, <1>4, <2>3, <2>5, <2>6, <2>8, <3>3
      <3>4. CASE insn.tag = "Sret"
        BY <1>1, <1>4, <2>3, <2>5, <2>6, <2>8, <3>4
      <3>5. CASE insn.tag = "Wfi"
        BY <1>1, <1>4, <2>3, <2>5, <2>6, <2>8, <3>5
      <3>6. CASE insn.tag = "SfenceVma"
        BY <1>1, <1>4, <2>3, <2>5, <2>7, <2>8, <3>6
      <3> QED BY <1>17, <3>1, <3>2, <3>3, <3>4, <3>5, <3>6
    <2> QED BY <2>4, <2>8
  <1> QED
    BY <1>5, <1>7, <1>8, <1>9, <1>10, <1>11, <1>12, <1>13, <1>14, <1>15, <1>16, <1>17 DEF Plain

-----------------------------------------------------------------------------
(* Instructions of other extensions                                        *)

\* What is certain of a word that encoding.h encodes: it is an instruction of
\* this hart, it panics, or it is one of the two that ForeignPanics names.
Foreseen(w) ==
    \/ \E row \in Encodings : row.rust # << >> /\ Encodes(row, w)
    \/ decode(w) = Panic
    \/ opcode(w) = 19 /\ decode(w).tag = "Shift" /\ funct7(w) # 0
    \/ opcode(w) = 15 /\ decode(w).tag = "Fence" /\ funct3(w) = 2

\* ... which is so of any word that does not fall to the lax arms of jalr,
\* fence and the ecall group.
LEMMA ForeseenUnlessLax ==
    ASSUME NEW w \in Word,
           opcode(w) = 103 => funct3(w) = 0,
           opcode(w) = 15 => funct3(w) \in {0, 1, 2},
           opcode(w) = 115 /\ funct3(w) = 0 =>
               rd(w) = x0 /\ (rs1(w) = x0 \/ funct7(w) \notin {0, 8, 24})
    PROVE  Foreseen(w)
  <1>1. CASE ~Lax(w)
    BY <1>1, DecodedIsEncoded DEF Foreseen
  <1>2. CASE opcode(w) = 19 /\ funct3(w) \in {1, 5} /\ funct7(w) # 0
    <2>1. ~Known(IOp, 1) /\ ~Known(IOp, 5)
      BY DEF Known, IOp
    <2>2. decode(w) = decode_i_alu(w)
      BY <1>2 DEF decode
    <2>3. decode_i_alu(w).tag = "Shift"
      BY <1>2, <2>1 DEF decode_i_alu
    <2> QED BY <1>2, <2>2, <2>3 DEF Foreseen
  <1>3. CASE opcode(w) = 15 /\ funct3(w) = 2
    BY <1>3 DEF Foreseen, decode
  <1>4. CASE opcode(w) = 115 /\ funct3(w) = 0 /\ rd(w) = x0 /\ funct7(w) = 9
    <2>1. SysRow("S-mode", 9, 0, NoRd, <<"SfenceVma">>) \in Encodings
      BY EncodingGroups DEF Systems
    <2>2. Encodes(SysRow("S-mode", 9, 0, NoRd, <<"SfenceVma">>), w)
      BY <1>4, SystemRow
    <2>3. SysRow("S-mode", 9, 0, NoRd, <<"SfenceVma">>).rust # << >>
      BY SMT DEF SysRow, Row
    <2> QED BY <2>1, <2>2, <2>3 DEF Foreseen
  <1>5. CASE opcode(w) = 115 /\ funct3(w) = 0 /\ funct7(w) \notin {0, 8, 9, 24}
    <2>1. decode(w) = decode_system(w)
      BY <1>5 DEF decode
    <2>2. decode_system(w) = Panic
      BY <1>5 DEF decode_system
    <2> QED BY <2>1, <2>2 DEF Foreseen
  <1> QED BY <1>1, <1>2, <1>3, <1>4, <1>5 DEF Lax

\* When the match m settles that, under a mask that looks at the opcode, at
\* funct3 too, or at everything but rs1 and rs2
Settled(mask, m) ==
    /\ m \in Number31
    /\ \/ {0, 1} \subseteq mask /\ m % 4 # 3
       \/ Op7 \subseteq mask /\ m % 128 \notin {15, 103, 115}
       \/ F3 \subseteq mask /\ m % 128 = 15 /\ Digits(m, 12, 3) \in {0, 1, 2}
       \/ F3 \subseteq mask /\ m % 128 = 103 /\ Digits(m, 12, 3) = 0
       \/ F3 \subseteq mask /\ m % 128 = 115 /\ Digits(m, 12, 3) # 0
       \/ /\ NoRd \subseteq mask /\ m % 128 = 115 /\ Digits(m, 7, 5) = 0
          /\ \/ All \subseteq mask /\ Digits(m, 15, 5) = 0
             \/ Digits(m, 25, 6) \notin {0, 8, 24}

SettledHigh(mask, m) == m \in Number31 /\ Op7 \subseteq mask /\ m % 128 \notin {15, 103, 115}

\* The fields of a settled match are those of the word.
LEMMA SettledForeseen ==
    ASSUME NEW w \in Word, NEW mask, NEW m, Settled(mask, m), w \cap mask = BitsOf(m) \cap mask
    PROVE  Foreseen(w)
  <1> DEFINE v == BitsOf(m)
  <1>1. m \in Number31 /\ m \in Nat /\ Digits(m, 0, 7) = m % 128
    <2>1. m \in Number31
      BY DEF Settled
    <2>2. m \in Nat
      BY SMT, <2>1 DEF Number31
    <2>3. m \div 1 = m
      BY <2>2
    <2> QED BY <2>1, <2>2, <2>3 DEF Digits
  <1>2. /\ w \cap 0..6 = v \cap 0..6 <=> opcode(w) = m % 128
        /\ w \cap 7..11 = v \cap 7..11 <=> Value(rd(w)) = Digits(m, 7, 5)
        /\ w \cap 12..14 = v \cap 12..14 <=> funct3(w) = Digits(m, 12, 3)
        /\ w \cap 15..19 = v \cap 15..19 <=> Value(rs1(w)) = Digits(m, 15, 5)
        /\ w \cap 25..31 = v \cap 25..31 <=> funct7(w) = Digits(m, 25, 6)
    BY <1>1, FieldsOf
  <1>3. w \cap mask = v \cap mask
    OBVIOUS
  <1> HIDE DEF v
  <1>4. \A lo, hi : lo..hi \subseteq mask => w \cap lo..hi = v \cap lo..hi
    BY <1>3
  <1>5. /\ 0..6 \subseteq Op7 /\ 0..6 \subseteq F3 /\ 12..14 \subseteq F3
        /\ 0..6 \subseteq NoRd /\ 7..11 \subseteq NoRd /\ 12..14 \subseteq NoRd
        /\ 25..31 \subseteq NoRd /\ 15..19 \subseteq All
    BY BitSet DEF Op7, F3, NoRd, All
  <1>6. /\ Op7 \subseteq mask => opcode(w) = m % 128
        /\ F3 \subseteq mask => opcode(w) = m % 128 /\ funct3(w) = Digits(m, 12, 3)
        /\ NoRd \subseteq mask =>
             /\ opcode(w) = m % 128 /\ Value(rd(w)) = Digits(m, 7, 5)
             /\ funct3(w) = Digits(m, 12, 3) /\ funct7(w) = Digits(m, 25, 6)
        /\ All \subseteq mask => Value(rs1(w)) = Digits(m, 15, 5)
    <2>1. ASSUME Op7 \subseteq mask PROVE opcode(w) = m % 128
      <3>1. 0..6 \subseteq mask
        BY <1>5, <2>1
      <3> QED BY <1>2, <1>4, <3>1
    <2>2. ASSUME F3 \subseteq mask PROVE opcode(w) = m % 128 /\ funct3(w) = Digits(m, 12, 3)
      <3>1. 0..6 \subseteq mask /\ 12..14 \subseteq mask
        BY <1>5, <2>2
      <3> QED BY <1>2, <1>4, <3>1
    <2>3. ASSUME NoRd \subseteq mask
          PROVE  /\ opcode(w) = m % 128 /\ Value(rd(w)) = Digits(m, 7, 5)
                 /\ funct3(w) = Digits(m, 12, 3) /\ funct7(w) = Digits(m, 25, 6)
      <3>1. 0..6 \subseteq mask /\ 7..11 \subseteq mask
        BY <1>5, <2>3
      <3>2. 12..14 \subseteq mask /\ 25..31 \subseteq mask
        BY <1>5, <2>3
      <3> QED BY <1>2, <1>4, <3>1, <3>2
    <2>4. ASSUME All \subseteq mask PROVE Value(rs1(w)) = Digits(m, 15, 5)
      <3>1. 15..19 \subseteq mask
        BY <1>5, <2>4
      <3> QED BY <1>2, <1>4, <3>1
    <2> QED BY <2>1, <2>2, <2>3, <2>4
  <1>7. {0, 1} \subseteq mask /\ m % 4 # 3 => opcode(w) \notin {15, 103, 115}
    <2> SUFFICES ASSUME {0, 1} \subseteq mask, m % 4 # 3, opcode(w) \in {15, 103, 115}
                 PROVE  FALSE
      OBVIOUS
    <2> DEFINE f == Field(w, 0, 7)
    <2>1. f \in SUBSET (0..6) /\ (0 \in f <=> 0 \in w) /\ (1 \in f <=> 1 \in w)
      BY DEF Field
    <2> HIDE DEF f
    <2>2. opcode(w) = Weight(f, 0, 1) + Weight(f, 1, 2) + Weight(f, 2, 4) + Weight(f, 3, 8)
                      + Weight(f, 4, 16) + Weight(f, 5, 32) + Weight(f, 6, 64)
      BY <2>1, ValueIs DEF opcode, f
    <2>3. 0 \in f /\ 1 \in f
      BY <2>2 DEF Weight
    <2>4. 0 \in v /\ 1 \in v
      BY <1>3, <2>1, <2>3
    <2>5. m % 2 = 1 /\ (m \div 2) % 2 = 1
      <3>1. (m \div 2^0) % 2 = 1 /\ (m \div 2^1) % 2 = 1
        BY <2>4 DEF v, BitsOf
      <3>2. m \div 1 = m
        BY <1>1
      <3> QED BY <3>1, <3>2
    <2> QED BY <1>1, <2>5
  <1>8. /\ Value(rd(w)) = 0 => rd(w) = x0
        /\ Value(rs1(w)) = 0 => rs1(w) = x0
    <2>1. rd(w) \in SUBSET (0..6) /\ rs1(w) \in SUBSET (0..6) /\ {} \in SUBSET (0..6)
      BY DEF rd, rs1, Field
    <2>2. Value({}) = 0
      BY ValueEmpty
    <2> QED BY <2>1, <2>2, SameSmall DEF x0
  <1>9. /\ opcode(w) = 103 => funct3(w) = 0
        /\ opcode(w) = 15 => funct3(w) \in {0, 1, 2}
        /\ opcode(w) = 115 /\ funct3(w) = 0 =>
             rd(w) = x0 /\ (rs1(w) = x0 \/ funct7(w) \notin {0, 8, 24})
    BY <1>6, <1>7, <1>8 DEF Settled
  <1> QED BY <1>9, ForeseenUnlessLax

LEMMA SettledHighForeseen ==
    ASSUME NEW w \in Word, NEW mask, NEW m, SettledHigh(mask, m),
           w \cap mask = (BitsOf(m) \cup {31}) \cap mask
    PROVE  Foreseen(w)
  <1> DEFINE v == BitsOf(m)
  <1>1. m \in Number31 /\ m \in Nat /\ Digits(m, 0, 7) = m % 128
    <2>1. m \in Number31
      BY DEF SettledHigh
    <2>2. m \in Nat
      BY SMT, <2>1 DEF Number31
    <2>3. m \div 1 = m
      BY <2>2
    <2> QED BY <2>1, <2>2, <2>3 DEF Digits
  <1>2. w \cap 0..6 = v \cap 0..6 <=> opcode(w) = m % 128
    BY <1>1, FieldsOf
  <1>3. w \cap mask = (v \cup {31}) \cap mask
    OBVIOUS
  <1> HIDE DEF v
  <1>4. opcode(w) = m % 128
    <2>1. 0..6 \subseteq mask /\ 31 \notin 0..6
      BY DEF SettledHigh, Op7
    <2>2. \A i \in 0..6 : i \in w <=> i \in v
      BY <1>3, <2>1
    <2> QED BY <1>2, <2>2
  <1> QED BY <1>4, ForeseenUnlessLax DEF SettledHigh

\* What is certain of every word of an instruction of the tables
Expected(r) == \A w \in Word : w \cap r.mask = r.match \cap r.mask => Foreseen(w)

LEMMA GroupExpected ==
    \A mask, low, high :
        (\A m \in low : Settled(mask, m)) /\ (\A m \in high : SettledHigh(mask, m))
        => \A r \in Tables!Group(mask, low, high) : Expected(r)
  <1> SUFFICES ASSUME NEW mask, NEW low, NEW high, NEW r \in Tables!Group(mask, low, high),
                      \A m \in low : Settled(mask, m), \A m \in high : SettledHigh(mask, m)
               PROVE  Expected(r)
    BY Zenon
  <1>1. \A m : Tables!BitsOf(m) = BitsOf(m)
    BY DEF Tables!BitsOf, Tables!Bit, BitsOf, Bit
  <1>2. \A match : /\ Tables!Instr(match, mask).match = match
                   /\ Tables!Instr(match, mask).mask = mask
    BY DEF Tables!Instr
  <1>3. \/ \E m \in low : r = Tables!Instr(Tables!BitsOf(m), mask)
        \/ \E m \in high : r = Tables!Instr(Tables!BitsOf(m) \cup {31}, mask)
    BY DEF Tables!Group
  <1>4. \/ \E m \in low : r.match = BitsOf(m) /\ r.mask = mask
        \/ \E m \in high : r.match = BitsOf(m) \cup {31} /\ r.mask = mask
    BY <1>1, <1>2, <1>3
  <1> QED BY <1>4, SettledForeseen, SettledHighForeseen DEF Expected

\* What the masks of the tables look at
LEMMA CompressedMasks ==
    /\ {0, 1} \subseteq Tables!CF3 /\ {0, 1} \subseteq Tables!CF3F2
    /\ {0, 1} \subseteq Tables!CF3Rd
    /\ {0, 1} \subseteq Tables!CF4 /\ {0, 1} \subseteq Tables!CF4NoRs2
    /\ {0, 1} \subseteq Tables!CF6 /\ {0, 1} \subseteq Tables!CF6Bit6
    /\ {0, 1} \subseteq Tables!CF6F2 /\ {0, 1} \subseteq Tables!CF6F5
    /\ {0, 1} \subseteq Tables!CF8 /\ {0, 1} \subseteq Tables!CAll
  BY DEF Tables!CF3, Tables!CF3F2, Tables!CF3Rd, Tables!CF4, Tables!CF4NoRs2, Tables!CF6,
         Tables!CF6Bit6, Tables!CF6F2, Tables!CF6F5, Tables!CF8, Tables!CAll

LEMMA FullMasks ==
    /\ F3 \subseteq Tables!F3 /\ F3 \subseteq Tables!F3F12 /\ F3 \subseteq Tables!F12NoRd
    /\ F3 \subseteq Tables!NoRd /\ F3 \subseteq Tables!All
    /\ NoRd \subseteq Tables!NoRd /\ NoRd \subseteq Tables!All /\ All \subseteq Tables!All
  <1> USE DEF F3, Op7
  <1>1. F3 \subseteq Tables!F3
    BY DEF Tables!F3, Tables!Op7
  <1>2. F3 \subseteq Tables!F3F12 /\ F3 \subseteq Tables!F12NoRd /\ F3 \subseteq Tables!NoRd
    BY DEF Tables!F3F12, Tables!F12NoRd, Tables!NoRd
  <1>3. F3 \subseteq Tables!All /\ NoRd \subseteq Tables!All /\ All \subseteq Tables!All
    BY BitSet DEF Tables!All, Tables!Bit, All, NoRd, Bit
  <1>4. NoRd \subseteq Tables!NoRd
    BY DEF NoRd, Tables!NoRd
  <1> QED BY <1>1, <1>2, <1>3, <1>4

LEMMA OpcodeMasks ==
    /\ Op7 \subseteq Tables!F2 /\ Op7 \subseteq Tables!F3F2 /\ Op7 \subseteq Tables!VIndexed
    /\ Op7 \subseteq Tables!VUnit /\ Op7 \subseteq Tables!F3F5 /\ Op7 \subseteq Tables!F3Bit31
    /\ Op7 \subseteq Tables!F3Top2 /\ Op7 \subseteq Tables!LrOp /\ Op7 \subseteq Tables!F3F6
    /\ Op7 \subseteq Tables!F3F6Vs1 /\ Op7 \subseteq Tables!F3F6Vs1Vs2 /\ Op7 \subseteq Tables!F7
    /\ Op7 \subseteq Tables!F3F7Vs1 /\ Op7 \subseteq Tables!F3F8 /\ Op7 \subseteq Tables!F3F9
    /\ Op7 \subseteq Tables!F12 /\ Op7 \subseteq Tables!F3F12 /\ Op7 \subseteq Tables!F12NoRd
    /\ Op7 \subseteq Tables!F3Rs2NoRd /\ Op7 \subseteq Tables!F3Bit26 /\ Op7 \subseteq Tables!NoRd
    /\ Op7 \subseteq Tables!All /\ Op7 \subseteq Tables!Op7 /\ Op7 \subseteq Tables!F3
    /\ Op7 \subseteq Tables!F3F7 /\ Op7 \subseteq Tables!AmoOp
  <1>1. /\ Op7 \subseteq Tables!F2 /\ Op7 \subseteq Tables!F3F2 /\ Op7 \subseteq Tables!VIndexed
        /\ Op7 \subseteq Tables!VUnit /\ Op7 \subseteq Tables!F3F5 /\ Op7 \subseteq Tables!F3Bit31
        /\ Op7 \subseteq Tables!F3Top2
    BY DEF Op7, Tables!F2, Tables!F3F2, Tables!VIndexed, Tables!VUnit,
           Tables!F3F5, Tables!F3Bit31, Tables!F3Top2
  <1>2. /\ Op7 \subseteq Tables!LrOp /\ Op7 \subseteq Tables!F3F6 /\ Op7 \subseteq Tables!F3F6Vs1
        /\ Op7 \subseteq Tables!F3F6Vs1Vs2 /\ Op7 \subseteq Tables!F7
        /\ Op7 \subseteq Tables!F3F7Vs1 /\ Op7 \subseteq Tables!F3F8
    BY DEF Op7, Tables!LrOp, Tables!F3F6, Tables!F3F6Vs1, Tables!F3F6Vs1Vs2, Tables!F7,
           Tables!F3F7Vs1, Tables!F3F8
  <1>3. /\ Op7 \subseteq Tables!F3F9 /\ Op7 \subseteq Tables!F12 /\ Op7 \subseteq Tables!F3F12
        /\ Op7 \subseteq Tables!F12NoRd /\ Op7 \subseteq Tables!F3Rs2NoRd
        /\ Op7 \subseteq Tables!F3Bit26 /\ Op7 \subseteq Tables!NoRd
    BY DEF Op7, Tables!F3F9, Tables!F12, Tables!F3F12, Tables!F12NoRd, Tables!F3Rs2NoRd,
           Tables!F3Bit26, Tables!NoRd
  <1>4. /\ Op7 \subseteq Tables!Op7 /\ Op7 \subseteq Tables!F3 /\ Op7 \subseteq Tables!F3F7
        /\ Op7 \subseteq Tables!AmoOp
    BY DEF Op7, Tables!Op7, Tables!F3, Tables!F3F7, Tables!AmoOp
  <1>5. Op7 \subseteq Tables!All
    BY BitSet DEF Op7, Tables!All, Tables!Bit, Bit
  <1> QED BY <1>1, <1>2, <1>3, <1>4, <1>5

\* ... which holds of all the instructions of the tables.
THEOREM TablesForeseen == \A r \in Tables!Instructions : Expected(r)
  <1>1. \A r \in Tables!AddToCBeqz : Expected(r)
    BY SMTT(60), GroupExpected, CompressedMasks, FullMasks, OpcodeMasks
       DEF Tables!AddToCBeqz, Settled, SettledHigh, Number31, Digits
  <1>2. \A r \in Tables!CBnezToCras32 : Expected(r)
    BY SMTT(60), GroupExpected, CompressedMasks, FullMasks, OpcodeMasks
       DEF Tables!CBnezToCras32, Settled, SettledHigh, Number31, Digits
  <1>3. \A r \in Tables!Crc32BToFcvtWS : Expected(r)
    BY SMTT(60), GroupExpected, CompressedMasks, FullMasks, OpcodeMasks
       DEF Tables!Crc32BToFcvtWS, Settled, SettledHigh, Number31, Digits
  <1>4. \A r \in Tables!FcvtWuDToFsl : Expected(r)
    BY SMTT(60), GroupExpected, CompressedMasks, FullMasks, OpcodeMasks
       DEF Tables!FcvtWuDToFsl, Settled, SettledHigh, Number31, Digits
  <1>5. \A r \in Tables!FslwToKhmbt16 : Expected(r)
    BY SMTT(60), GroupExpected, CompressedMasks, FullMasks, OpcodeMasks
       DEF Tables!FslwToKhmbt16, Settled, SettledHigh, Number31, Digits
  <1>6. \A r \in Tables!KhmttToLbu : Expected(r)
    BY SMTT(60), GroupExpected, CompressedMasks, FullMasks, OpcodeMasks
       DEF Tables!KhmttToLbu, Settled, SettledHigh, Number31, Digits
  <1>7. \A r \in Tables!LdToSclip16 : Expected(r)
    BY SMTT(60), GroupExpected, CompressedMasks, FullMasks, OpcodeMasks
       DEF Tables!LdToSclip16, Settled, SettledHigh, Number31, Digits
  <1>8. \A r \in Tables!Sclip32ToSmax32 : Expected(r)
    BY SMTT(60), GroupExpected, CompressedMasks, FullMasks, OpcodeMasks
       DEF Tables!Sclip32ToSmax32, Settled, SettledHigh, Number31, Digits
  <1>9. \A r \in Tables!Smax8ToSub : Expected(r)
    BY SMTT(60), GroupExpected, CompressedMasks, FullMasks, OpcodeMasks
       DEF Tables!Smax8ToSub, Settled, SettledHigh, Number31, Digits
  <1>10. \A r \in Tables!Sub16ToVaaddVv : Expected(r)
    BY SMTT(60), GroupExpected, CompressedMasks, FullMasks, OpcodeMasks
       DEF Tables!Sub16ToVaaddVv, Settled, SettledHigh, Number31, Digits
  <1>11. \A r \in Tables!VaaddVxToVfmaxVf : Expected(r)
    BY SMTT(60), GroupExpected, CompressedMasks, FullMasks, OpcodeMasks
       DEF Tables!VaaddVxToVfmaxVf, Settled, SettledHigh, Number31, Digits
  <1>12. \A r \in Tables!VfmaxVvToVfwsubWv : Expected(r)
    BY SMTT(60), GroupExpected, CompressedMasks, FullMasks, OpcodeMasks
       DEF Tables!VfmaxVvToVfwsubWv, Settled, SettledHigh, Number31, Digits
  <1>13. \A r \in Tables!VidVToVmaxuVx : Expected(r)
    BY SMTT(60), GroupExpected, CompressedMasks, FullMasks, OpcodeMasks
       DEF Tables!VidVToVmaxuVx, Settled, SettledHigh, Number31, Digits
  <1>14. \A r \in Tables!VmergeVimToVnmsacVx : Expected(r)
    BY SMTT(60), GroupExpected, CompressedMasks, FullMasks, OpcodeMasks
       DEF Tables!VmergeVimToVnmsacVx, Settled, SettledHigh, Number31, Digits
  <1>15. \A r \in Tables!VnmsubVvToVsoxei8V : Expected(r)
    BY SMTT(60), GroupExpected, CompressedMasks, FullMasks, OpcodeMasks
       DEF Tables!VnmsubVvToVsoxei8V, Settled, SettledHigh, Number31, Digits
  <1>16. \A r \in Tables!VsraViToXnor : Expected(r)
    BY SMTT(60), GroupExpected, CompressedMasks, FullMasks, OpcodeMasks
       DEF Tables!VsraViToXnor, Settled, SettledHigh, Number31, Digits
  <1>17. \A r \in Tables!XorToZunpkd832 : Expected(r)
    BY SMTT(60), GroupExpected, CompressedMasks, FullMasks, OpcodeMasks
       DEF Tables!XorToZunpkd832, Settled, SettledHigh, Number31, Digits
  <1> QED
    BY Zenon, <1>1, <1>2, <1>3, <1>4, <1>5, <1>6, <1>7, <1>8, <1>9,
       <1>10, <1>11, <1>12, <1>13, <1>14, <1>15, <1>16, <1>17
       DEF Tables!Instructions

\* Whatever its operands, a word of the run's tables is foreseen.
LEMMA TableWordsForeseen == \A w \in TableWords : w \in Word => Foreseen(w)
  <1> SUFFICES ASSUME NEW w \in TableWords, w \in Word PROVE Foreseen(w)
    OBVIOUS
  <1>1. PICK row \in Tables!Instructions : \E ops \in Operands(row) : w = row.match \cup ops
    BY DEF TableWords
  <1>2. PICK ops \in Operands(row) : w = row.match \cup ops
    BY <1>1
  <1>3. ops \cap row.mask = {}
    BY DEF Operands
  <1>4. w \cap row.mask = row.match \cap row.mask
    BY <1>2, <1>3
  <1> QED BY <1>4, TablesForeseen DEF Expected

-----------------------------------------------------------------------------
(* The decoder run                                                         *)

\* The matches of the tables are words.
LEMMA GroupWords ==
    \A mask, low, high : \A r \in Tables!Group(mask, low, high) : r.match \in Word
  <1>1. \A m : Tables!BitsOf(m) \in Word
    BY DEF Tables!BitsOf, Tables!Bit, Word, Bit
  <1>2. \A m : Tables!BitsOf(m) \cup {31} \in Word
    BY <1>1, BitSet DEF Word
  <1>3. \A match, mask : Tables!Instr(match, mask).match = match
    BY DEF Tables!Instr
  <1>4. ASSUME NEW mask, NEW low, NEW high, NEW r \in Tables!Group(mask, low, high)
        PROVE  r.match \in Word
    <2>1. \E v \in Word : r = Tables!Instr(v, mask)
      BY <1>1, <1>2 DEF Tables!Group
    <2> QED BY <1>3, <2>1
  <1> QED BY <1>4

LEMMA TablesWords == \A r \in Tables!Instructions : r.match \in Word
  <1>1. /\ \A r \in Tables!AddToCBeqz : r.match \in Word
        /\ \A r \in Tables!CBnezToCras32 : r.match \in Word
        /\ \A r \in Tables!Crc32BToFcvtWS : r.match \in Word
    BY SMT, GroupWords DEF Tables!AddToCBeqz, Tables!CBnezToCras32, Tables!Crc32BToFcvtWS
  <1>2. /\ \A r \in Tables!FcvtWuDToFsl : r.match \in Word
        /\ \A r \in Tables!FslwToKhmbt16 : r.match \in Word
        /\ \A r \in Tables!KhmttToLbu : r.match \in Word
    BY SMT, GroupWords DEF Tables!FcvtWuDToFsl, Tables!FslwToKhmbt16, Tables!KhmttToLbu
  <1>3. /\ \A r \in Tables!LdToSclip16 : r.match \in Word
        /\ \A r \in Tables!Sclip32ToSmax32 : r.match \in Word
        /\ \A r \in Tables!Smax8ToSub : r.match \in Word
    BY SMT, GroupWords DEF Tables!LdToSclip16, Tables!Sclip32ToSmax32, Tables!Smax8ToSub
  <1>4. /\ \A r \in Tables!Sub16ToVaaddVv : r.match \in Word
        /\ \A r \in Tables!VaaddVxToVfmaxVf : r.match \in Word
        /\ \A r \in Tables!VfmaxVvToVfwsubWv : r.match \in Word
    BY SMT, GroupWords
       DEF Tables!Sub16ToVaaddVv, Tables!VaaddVxToVfmaxVf, Tables!VfmaxVvToVfwsubWv
  <1>5. /\ \A r \in Tables!VidVToVmaxuVx : r.match \in Word
        /\ \A r \in Tables!VmergeVimToVnmsacVx : r.match \in Word
        /\ \A r \in Tables!VnmsubVvToVsoxei8V : r.match \in Word
    BY SMT, GroupWords
       DEF Tables!VidVToVmaxuVx, Tables!VmergeVimToVnmsacVx, Tables!VnmsubVvToVsoxei8V
  <1>6. /\ \A r \in Tables!VsraViToXnor : r.match \in Word
        /\ \A r \in Tables!XorToZunpkd832 : r.match \in Word
    BY SMT, GroupWords DEF Tables!VsraViToXnor, Tables!XorToZunpkd832
  <1> QED
    BY <1>1, <1>2, <1>3, <1>4, <1>5, <1>6 DEF Tables!Instructions

LEMMA PackTyped == \A op, f3, f7, r2 : Pack(op, f3, f7, r2) \in Word
  <1>1. \A n : BitsOf(n) \in Word /\ Shl(BitsOf(n), 12) \in Word
               /\ Shl(BitsOf(n), 20) \in Word /\ Shl(BitsOf(n), 25) \in Word
    BY DEF BitsOf, Shl, Word
  <1> QED BY <1>1 DEF Pack, Word

\* The inputs of the run are words.
LEMMA InputsTyped == RawWords \cup TableWords \subseteq Word
  <1>1. RawWords \subseteq Word
    <2>1. \A w \in Word, i \in Bit : Flip(w, i) \in Word
      BY DEF Flip, SymDiff, Word
    <2>2. Bit \ {2, 3} \in Word
      BY DEF Word
    <2>3. Packed \subseteq Word /\ AnyOpcode \subseteq Word
      <3>1. ASSUME NEW w \in Packed PROVE w \in Word
        <4>1. \E op \in KnownOpcodes, f3 \in 0..7, f7 \in 0..127, r2 \in {0, 1, 2, 5} :
                w = Pack(op, f3, f7, r2)
          BY DEF Packed
        <4> QED BY <4>1, PackTyped
      <3>2. ASSUME NEW w \in AnyOpcode PROVE w \in Word
        <4>1. \E op, f3 : w = Pack(op, f3, 0, 0)
          BY DEF AnyOpcode
        <4> QED BY <4>1, PackTyped
      <3> QED BY <3>1, <3>2
    <2>4. Seeds \subseteq Word
      <3>1. ASSUME NEW w \in Seeds PROVE w \in Word
        <4>1. w = Bit \ {2, 3} \/ \E op \in KnownOpcodes, f3 \in 0..7 : w = Pack(op, f3, 0, 0)
          BY DEF Seeds
        <4> QED BY <2>2, <4>1, PackTyped
      <3> QED BY <3>1
    <2>5. Flipped \subseteq Word
      <3>1. ASSUME NEW v \in Flipped PROVE v \in Word
        <4>1. \E w \in Seeds, i \in Bit : v = Flip(w, i)
          BY DEF Flipped
        <4> QED BY <2>1, <2>4, <4>1
      <3> QED BY <3>1
    <2> QED BY <2>3, <2>5 DEF RawWords
  <1>2. TableWords \subseteq Word
    <2>1. \A row : \A ops \in Operands(row) : ops \in Word
      BY DEF Operands, Word
    <2>2. \A row \in Tables!Instructions : \A ops \in Operands(row) : row.match \cup ops \in Word
      <3>1. \A a \in Word, b \in Word : a \cup b \in Word
        BY DEF Word
      <3> QED BY <2>1, <3>1, TablesWords
    <2> QED BY <2>2 DEF TableWords
  <1> QED BY <1>1, <1>2

\* A word that has been decoded is decoded as decode() has it.
DecodeInv == raw \in Word /\ (Decoded => decoded = decode(raw))

LEMMA DecodeInductive == DecodeSpec => []DecodeInv
  <1>1. DecodeInit => DecodeInv
    BY InputsTyped DEF DecodeInit, DecodeInv, Decoded
  <1>2. DecodeInv /\ [DecodeNext]_decodeVars => DecodeInv'
    BY DEF DecodeInv, DecodeNext, Decode1, decodeVars, Decoded
  <1> QED BY <1>1, <1>2, PTL DEF DecodeSpec

\* What the run checks on samples, for every word of the decoder's input: the
\* unreachable!() arm at decode.rs:84 is never taken (DecodeTypeOK), ...
THEOREM DecodeTypeCorrect == DecodeSpec => []DecodeTypeOK
  <1>1. DecodeInv => DecodeTypeOK
    BY DecodeTyped, NeverUnreachable DEF DecodeInv, DecodeTypeOK
  <1> QED BY <1>1, DecodeInductive, PTL

\* ... the immediates are those of the reference model (ImmediatesAgree), ...
THEOREM DecodedImmediatesCorrect == DecodeSpec => []ImmediatesAgree
  <1>1. DecodeInv => ImmediatesAgree
    BY ImmediatesEqual DEF DecodeInv, ImmediatesAgree
  <1> QED BY <1>1, DecodeInductive, PTL

\* ... a word of encoding.h decodes to the Instruction of its name
\* (DecodesWhatItShould), ...
THEOREM DecodeCorrect == DecodeSpec => []DecodesWhatItShould
  <1>1. DecodeInv => DecodesWhatItShould
    BY EncodedDecodes DEF DecodeInv, DecodesWhatItShould
  <1> QED BY <1>1, DecodeInductive, PTL

\* ... and no other word does, but for the lax ones (DecodesNothingElse).
THEOREM DecodeExact == DecodeSpec => []DecodesNothingElse
  <1>1. DecodeInv => DecodesNothingElse
    BY DecodedIsEncoded DEF DecodeInv, DecodesNothingElse
  <1> QED BY <1>1, DecodeInductive, PTL

\* ... and an instruction of another extension panics, but for the shifts and
\* the cache operations that ForeignPanics names.
THEOREM ForeignCorrect == DecodeSpec => []ForeignPanics
  <1>1. DecodeInv => ForeignPanics
    <2> SUFFICES ASSUME DecodeInv, Decoded, raw \in ForeignWords PROVE ForeignPanics
      BY DEF ForeignPanics
    <2>1. raw \in Word /\ decoded = decode(raw)
      BY DEF DecodeInv, Decoded
    <2>2. raw \in TableWords /\ ~\E row \in Encodings : row.rust # << >> /\ Encodes(row, raw)
      BY DEF ForeignWords
    <2>3. Foreseen(raw)
      BY <2>1, <2>2, TableWordsForeseen
    <2> QED BY <2>1, <2>2, <2>3 DEF Foreseen, ForeignPanics
  <1> QED BY <1>1, DecodeInductive, PTL DEF DecodeSpec

-----------------------------------------------------------------------------
(* The memory *)

\* A read of one, two or four bytes yields a word.
LEMMA ReadTyped ==
    ASSUME NEW addr, NEW n \in {1, 2, 4}
    PROVE  ReadLE(addr, n) \in Word
  BY BitSet DEF ReadLE, Word

\* A write keeps the memory a vector of MEM_SIZE bytes.
LEMMA WriteTyped ==
    ASSUME MemoryTypeOK, NEW addr, NEW n, NEW val, WriteLE(addr, n, val)
    PROVE  MemoryTypeOK'
  BY DEF WriteLE, MemoryTypeOK, Field, Byte

\* What is fetched is an Instruction or a panic of the decoder.
LEMMA FetchedTyped ==
    Fetched \subseteq Instruction \cup {Panic, Unreachable}
  BY ReadTyped, DecodeTyped DEF Fetched, read32

-----------------------------------------------------------------------------
(* Registers and CSRs *)

LEMMA ReadRegTyped ==
    ASSUME HartTypeOK, NEW idx \in RegIdx
    PROVE  read_reg(idx) \in Word
  BY DEF HartTypeOK, read_reg, Word

LEMMA WriteRegTyped ==
    ASSUME HartTypeOK, NEW idx \in RegIdx, NEW val \in Word, write_reg(idx, val)
    PROVE  regs' \in [RegIdx -> Word]
  BY DEF HartTypeOK, write_reg

LEMMA ReadCsrTyped ==
    ASSUME HartTypeOK, NEW addr
    PROVE  read_csr(addr) \in Word
  BY DEF HartTypeOK, IsCsrFile, read_csr, csr_at, Word

\* Storing a word at a CSR address keeps a CSR file one.
LEMMA WriteCsrTyped ==
    ASSUME NEW f, IsCsrFile(f), NEW addr \in CsrAddr, NEW val \in Word
    PROVE  IsCsrFile(write_csr(f, addr, val))
  BY DEF IsCsrFile, write_csr

LEMMA CsrAddrs ==
    /\ {MSTATUS, MISA, MTVEC, MEPC, MCAUSE, MTVAL, MHARTID} \subseteq CsrAddr
    /\ {MSTATUS_MIE, MSTATUS_MPIE, MSTATUS_MPP_MASK, CAUSE_BREAKPOINT,
        CAUSE_ECALL_M, MisaReset, InsnSize} \subseteq Word
  BY BitSet DEF MSTATUS, MISA, MTVEC, MEPC, MCAUSE, MTVAL, MHARTID, CsrAddr, Word,
     MSTATUS_MIE, MSTATUS_MPIE, MSTATUS_MPP_MASK, CAUSE_BREAKPOINT, CAUSE_ECALL_M,
     MisaReset, InsnSize

-----------------------------------------------------------------------------
(* Arithmetic *)

LEMMA ResultsTyped ==
    ASSUME NEW v \in Word, NEW w \in Word
    PROVE  /\ \A op \in DOMAIN ROp : RResult(op, v, w) \in Word
           /\ \A op \in DOMAIN IOp : IResult(op, v, w) \in Word
           /\ \A op \in ShiftOp : \A shamt : ShiftResult(op, v, shamt) \in Word
  <1>1. LtU32(v, w) \in BOOLEAN /\ LtI32(v, w) \in BOOLEAN
    <2>1. LtU32(v, w) \in BOOLEAN
      BY DEF LtU32
    <2>2. (Sign \in v) \in BOOLEAN
      OBVIOUS
    <2> QED BY <2>1, <2>2 DEF LtI32
  <1>2. /\ BoolWord(LtU32(v, w)) \in Word
        /\ BoolWord(LtI32(v, w)) \in Word
    BY <1>1, BoolWordClosed
  <1>3. v \cup w \in Word /\ v \cap w \in Word
    BY DEF Word
  <1>4. \A op \in DOMAIN ROp : RResult(op, v, w) \in Word
    BY <1>2, <1>3, WordClosed DEF ROp, RResult
  <1>5. \A op \in DOMAIN IOp : IResult(op, v, w) \in Word
    BY <1>2, <1>3, WordClosed DEF IOp, IResult
  <1>6. \A op \in ShiftOp : \A shamt : ShiftResult(op, v, shamt) \in Word
    BY WordClosed DEF ShiftOp, ShiftResult
  <1> QED BY <1>4, <1>5, <1>6

LEMMA LoadTyped ==
    ASSUME NEW op \in DOMAIN LoadOp, NEW addr
    PROVE  LoadResult(op, addr) \in Word
  BY ReadTyped, WordClosed DEF LoadOp, LoadResult, read8, read16, read32

-----------------------------------------------------------------------------
(* Type correctness *)

\* An iteration that ends keeps the loop's variables typed.
LEMMA IterationTyped ==
    ASSUME LoopTypeOK, Iterating, EndIteration \/ Panicking,
           tohost_value' \in Word \cup {None}
    PROVE  LoopTypeOK'
  <1>1. CASE EndIteration
    BY <1>1 DEF LoopTypeOK, Iterating, EndIteration
  <1>2. CASE Panicking
    BY <1>2 DEF LoopTypeOK, Panicking
  <1> QED BY <1>1, <1>2

\* pc += 4 yields an address and ends the iteration one way or the other.
LEMMA NextInsnTyped ==
    ASSUME HartTypeOK, NextInsn
    PROVE  pc' \in Word /\ (EndIteration \/ Panicking)
  BY WordClosed, CsrAddrs DEF HartTypeOK, NextInsn, GoTo

LEMMA EffAddrTyped ==
    ASSUME HartTypeOK, NEW idx \in RegIdx, NEW imm \in Word
    PROVE  wrapping_add(read_reg(idx), imm) \in Word
  BY ReadRegTyped, WordClosed

\* Every handler of execute() keeps the types.
LEMMA ExecuteTyped ==
    ASSUME TypeOK, Iterating, NEW inst \in Instruction \cup {Panic, Unreachable},
           execute(inst)
    PROVE  TypeOK'
  <1> USE DEF TypeOK
  <1>0. /\ tohost_value \in Word \cup {None}
        /\ IsCsrFile(csrs) /\ pc \in Word /\ regs \in [RegIdx -> Word]
    BY DEF HartTypeOK
  <1>a. SUFFICES /\ MemoryTypeOK' /\ regs' \in [RegIdx -> Word] /\ pc' \in Word
                 /\ IsCsrFile(csrs)' /\ tohost_value' \in Word \cup {None}
                 /\ EndIteration \/ Panicking
    BY IterationTyped DEF HartTypeOK
  <1>1. CASE R(inst)
    <2>1. /\ inst.rd \in RegIdx /\ inst.rs1 \in RegIdx /\ inst.rs2 \in RegIdx
          /\ inst.op \in DOMAIN ROp
      BY <1>1 DEF R, Instruction, Panic, Unreachable, Plain
    <2>2. RResult(inst.op, read_reg(inst.rs1), read_reg(inst.rs2)) \in Word
      BY <2>1, ReadRegTyped, ResultsTyped
    <2>3. regs' \in [RegIdx -> Word]
      BY <1>1, <2>1, <2>2, WriteRegTyped DEF R
    <2> QED BY <1>0, <1>1, <2>3, NextInsnTyped DEF R, MemoryTypeOK, IsCsrFile
  <1>2. CASE I(inst)
    <2>1. inst.rd \in RegIdx /\ inst.rs1 \in RegIdx /\ inst.imm \in Word /\ inst.op \in DOMAIN IOp
      BY <1>2 DEF I, Instruction, Panic, Unreachable, Plain
    <2>2. IResult(inst.op, read_reg(inst.rs1), inst.imm) \in Word
      BY <2>1, ReadRegTyped, ResultsTyped
    <2>3. regs' \in [RegIdx -> Word]
      BY <1>2, <2>1, <2>2, WriteRegTyped DEF I
    <2> QED BY <1>0, <1>2, <2>3, NextInsnTyped DEF I, MemoryTypeOK, IsCsrFile
  <1>3. CASE Shift(inst)
    <2>1. inst.rd \in RegIdx /\ inst.rs1 \in RegIdx /\ inst.op \in ShiftOp
      BY <1>3 DEF Shift, Instruction, Panic, Unreachable, Plain
    <2>2. ShiftResult(inst.op, read_reg(inst.rs1), inst.shamt) \in Word
      BY <2>1, ReadRegTyped, ResultsTyped
    <2>3. regs' \in [RegIdx -> Word]
      BY <1>3, <2>1, <2>2, WriteRegTyped DEF Shift
    <2> QED BY <1>0, <1>3, <2>3, NextInsnTyped DEF Shift, MemoryTypeOK, IsCsrFile
  <1>4. CASE Load(inst)
    <2>1. inst.rd \in RegIdx /\ inst.op \in DOMAIN LoadOp
      BY <1>4 DEF Load, Instruction, Panic, Unreachable, Plain
    <2>2. regs' \in [RegIdx -> Word]
      BY <1>4, <2>1, LoadTyped, WriteRegTyped DEF Load
    <2> QED BY <1>0, <1>4, <2>2, NextInsnTyped DEF Load, MemoryTypeOK, IsCsrFile
  <1>5. CASE Store(inst)
    <2>1. inst.rs2 \in RegIdx
      BY <1>5 DEF Store, Instruction, Panic, Unreachable, Plain
    <2>2. MemoryTypeOK' /\ tohost_value' \in Word \cup {None}
      BY <1>0, <1>5, <2>1, ReadRegTyped, WriteTyped DEF Store
    <2> QED BY <1>0, <1>5, <2>2, NextInsnTyped DEF Store, IsCsrFile
  <1>6. CASE Branch(inst)
    <2>1. inst.imm \in Word
      BY <1>6 DEF Branch, Instruction, Panic, Unreachable, Plain
    <2>2. pc' \in Word /\ (EndIteration \/ Panicking)
      BY <1>0, <1>6, <2>1, NextInsnTyped, WordClosed DEF Branch, GoTo
    <2> QED BY <1>0, <1>6, <2>2 DEF Branch, MemoryTypeOK, IsCsrFile
  <1>7. CASE Upper(inst)
    <2>1. inst.rd \in RegIdx /\ inst.imm \in Word
      BY <1>7 DEF Upper, Instruction, Panic, Unreachable, Plain
    <2>2. regs' \in [RegIdx -> Word]
      BY <1>0, <1>7, <2>1, WordClosed, WriteRegTyped DEF Upper
    <2> QED BY <1>0, <1>7, <2>2, NextInsnTyped DEF Upper, MemoryTypeOK, IsCsrFile
  <1>8. CASE Jump(inst)
    <2>1. inst.rd \in RegIdx /\ inst.imm \in Word /\ (inst.tag = "Jalr" => inst.rs1 \in RegIdx)
      BY <1>8 DEF Jump, Instruction, Panic, Unreachable, Plain
    <2>2. CASE PcOverflows
      BY <1>0, <1>8, <2>2 DEF Jump, MemoryTypeOK, IsCsrFile
    <2>3. CASE ~PcOverflows
      <3>1. wrapping_add(pc, InsnSize) \in Word /\ wrapping_add(pc, inst.imm) \in Word
        BY <1>0, <2>1, CsrAddrs, WordClosed
      <3>2. inst.tag = "Jalr" => EffAddr(inst) \ {0} \in Word
        BY <2>1, EffAddrTyped DEF EffAddr, Word
      <3>3. regs' \in [RegIdx -> Word]
        BY <1>8, <2>1, <2>3, <3>1, WriteRegTyped DEF Jump
      <3>4. pc' \in Word /\ EndIteration
        BY <1>8, <2>3, <3>1, <3>2 DEF Jump, GoTo
      <3> QED BY <1>0, <1>8, <3>3, <3>4 DEF Jump, MemoryTypeOK, IsCsrFile
    <2> QED BY <2>2, <2>3
  <1>9. CASE Csr(inst)
    <2>1. /\ inst.rd \in RegIdx /\ inst.rs1 \in RegIdx /\ inst.csr \in CsrAddr
          /\ inst.op \in DOMAIN CsrOp
      BY <1>9 DEF Csr, Instruction, Panic, Unreachable, Plain
    <2> DEFINE old == read_csr(inst.csr)
               src == IF inst.op \in {"Rw", "Rs", "Rc"} THEN read_reg(inst.rs1) ELSE inst.rs1
    <2>2. old \in Word /\ src \in Word
      BY <2>1, BitSet, ReadCsrTyped, ReadRegTyped DEF RegIdx, Word
    <2>3. old \cup src \in Word /\ old \ src \in Word
      BY <2>2 DEF Word
    <2>4. IsCsrFile(csrs')
      BY <1>0, <1>9, <2>1, <2>2, <2>3, WriteCsrTyped DEF Csr, CsrOp
    <2>5. regs' \in [RegIdx -> Word]
      BY <1>9, <2>1, <2>2, WriteRegTyped DEF Csr
    <2> QED BY <1>0, <1>9, <2>4, <2>5, NextInsnTyped DEF Csr, MemoryTypeOK, IsCsrFile
  <1>10. CASE Skip(inst)
    BY <1>0, <1>10, NextInsnTyped DEF Skip, MemoryTypeOK, IsCsrFile
  <1>11. CASE Ecall(inst) \/ Ebreak(inst)
    <2>1. PICK cause \in Word, tval \in Word : trap(cause, tval)
      BY <1>0, <1>11, CsrAddrs DEF Ecall, Ebreak, Word
    <2>2. read_csr(MTVEC) \ {0, 1} \in Word /\ TrapStatus(read_csr(MSTATUS)) \in Word
      BY CsrAddrs, ReadCsrTyped DEF TrapStatus, Word
    <2>3. IsCsrFile(csrs')
      BY <1>0, <2>1, <2>2, CsrAddrs, WriteCsrTyped DEF trap
    <2> QED BY <1>0, <2>1, <2>2, <2>3 DEF trap, GoTo, MemoryTypeOK, IsCsrFile
  <1>12. CASE Mret(inst)
    <2>1. read_csr(MEPC) \in Word /\ MretStatus(read_csr(MSTATUS)) \in Word
      BY CsrAddrs, ReadCsrTyped DEF MretStatus, Word
    <2>2. IsCsrFile(csrs')
      BY <1>0, <1>12, <2>1, CsrAddrs, WriteCsrTyped DEF Mret
    <2> QED BY <1>0, <1>12, <2>1, <2>2 DEF Mret, GoTo, MemoryTypeOK, IsCsrFile
  <1>13. CASE LoadPanic(inst) \/ DecodePanic(inst)
    BY <1>0, <1>13 DEF LoadPanic, DecodePanic, hartVars, MemoryTypeOK, IsCsrFile
  <1>14. CASE StorePanic(inst)
    <2>1. MemoryTypeOK'
      BY <1>14, WriteTyped DEF StorePanic, MemoryTypeOK
    <2> QED BY <1>0, <1>14, <2>1 DEF StorePanic, hartVars, IsCsrFile
  <1> QED BY <1>1, <1>2, <1>3, <1>4, <1>5, <1>6, <1>7, <1>8, <1>9, <1>10, <1>11,
             <1>12, <1>13, <1>14 DEF execute

LEMMA InitTyped == Init => TypeOK
  BY HartAssumption, MemoryAssumption, CsrAddrs
  DEF Init, TypeOK, MemoryTypeOK, HartTypeOK, LoopTypeOK, IsCsrFile, new, Word

\* Every step of the hart and of its caller keeps the types.
LEMMA NextTyped == TypeOK /\ [Next]_vars => TypeOK'
  <1> SUFFICES ASSUME TypeOK, [Next]_vars PROVE TypeOK'
    OBVIOUS
  <1>1. CASE step
    BY <1>1, FetchedTyped, ExecuteTyped DEF step
  <1>2. CASE FetchPanic
    BY <1>2, IterationTyped
    DEF FetchPanic, hartVars, TypeOK, MemoryTypeOK, HartTypeOK, IsCsrFile
  <1>3. CASE Exhausted \/ \E max_cycles \in Budgets : Call(max_cycles)
    BY <1>3, HartAssumption
    DEF Exhausted, Call, hartVars, TypeOK, MemoryTypeOK, HartTypeOK, LoopTypeOK, IsCsrFile
  <1>4. CASE UNCHANGED vars
    BY <1>4 DEF vars, hartVars, loopVars, TypeOK, MemoryTypeOK, HartTypeOK, LoopTypeOK, IsCsrFile
  <1> QED BY <1>1, <1>2, <1>3, <1>4 DEF Next, run

\* The hart, the memory and the loop stay well typed for ever, in particular
\* no instruction, trap or store takes the memory's size, the registers or a
\* CSR out of its range.
THEOREM TypeCorrect == Spec => []TypeOK
  BY InitTyped, NextTyped, PTL DEF Spec

-----------------------------------------------------------------------------
(* The hardwired state *)

\* A CSR write is seen at its own address, except the two read-only ones,
\* and nowhere else.
LEMMA CsrAfterWrite ==
    ASSUME NEW f, NEW addr, NEW val, NEW a
    PROVE  csr_at(write_csr(f, addr, val), a) =
             IF a = addr /\ addr \notin {MHARTID, MISA} THEN val ELSE csr_at(f, a)
  BY DEF csr_at, write_csr

LEMMA WriteRegZero ==
    ASSUME HartTypeOK, NEW idx \in RegIdx, NEW val, write_reg(idx, val)
    PROVE  regs'[x0] = regs[x0]
  BY DEF HartTypeOK, write_reg, x0, RegIdx

LEMMA ExecuteHardwired ==
    ASSUME TypeOK, HardwiredState, NEW inst \in Instruction \cup {Panic, Unreachable},
           execute(inst)
    PROVE  HardwiredState'
  <1>0. HartTypeOK
    BY DEF TypeOK
  <1>1. regs'[x0] = regs[x0]
    <2>1. CASE UNCHANGED regs
      BY <2>1
    <2>2. CASE \E val : write_reg(inst.rd, val) /\ inst.rd \in RegIdx
      BY <1>0, <2>2, WriteRegZero
    <2>3. inst.tag \in {"R", "I", "Shift", "Load", "Lui", "Auipc", "Jal", "Jalr", "Csr"}
             => inst.rd \in RegIdx
      BY DEF Instruction, Panic, Unreachable, Plain
    <2> QED BY <2>1, <2>2, <2>3
         DEF execute, R, I, Shift, Load, LoadPanic, Store, StorePanic, Branch, Upper, Jump,
             Csr, Skip, Ecall, Ebreak, trap, Mret, DecodePanic, hartVars
  <1>2. \A a \in {MISA, MHARTID} : csr_at(csrs', a) = csr_at(csrs, a)
    <2>1. CASE UNCHANGED csrs
      BY <2>1
    <2>2. CASE Csr(inst)
      BY <2>2, CsrAfterWrite DEF Csr
    <2>3. CASE Ecall(inst) \/ Ebreak(inst)
      BY <2>3, CsrAfterWrite DEF Ecall, Ebreak, trap
    <2>4. CASE Mret(inst)
      BY <2>4, CsrAfterWrite DEF Mret
    <2> QED BY <2>1, <2>2, <2>3, <2>4
         DEF execute, R, I, Shift, Load, LoadPanic, Store, StorePanic, Branch, Upper, Jump,
             Skip, DecodePanic, hartVars
  <1> QED BY <1>1, <1>2 DEF HardwiredState, read_csr

\* x0, misa and mhartid never change, whatever the guest executes.
THEOREM HardwiredCorrect == Spec => []HardwiredState
  <1>1. Init => HardwiredState
    BY DEF Init, new, HardwiredState, read_csr, csr_at, MISA, MHARTID, RegIdx, x0
  <1>2. TypeOK /\ HardwiredState /\ [Next]_vars => HardwiredState'
    <2> SUFFICES ASSUME TypeOK, HardwiredState, [Next]_vars PROVE HardwiredState'
      OBVIOUS
    <2>1. CASE step
      BY <2>1, FetchedTyped, ExecuteHardwired DEF step
    <2>2. CASE UNCHANGED hartVars
      BY <2>2 DEF hartVars, HardwiredState, read_csr
    <2> QED BY <2>1, <2>2 DEF Next, run, FetchPanic, Exhausted, Call, vars
  <1> QED BY <1>1, <1>2, TypeCorrect, PTL DEF Spec

-----------------------------------------------------------------------------
(* The parity of the program counter *)

\* Branch and jal offsets are even on every word (decode.rs:37-47).
LEMMA OffsetsEven ==
    ASSUME NEW w \in Word
    PROVE  0 \notin imm_b(w) /\ 0 \notin imm_j(w)
  BY BitSet DEF imm_b, imm_j, Sar, Shl, Shr, Field, Word

LEMMA FetchedOffsets ==
    ASSUME NEW inst \in Fetched, inst.tag \in {"Branch", "Jal"}
    PROVE  inst.imm \in Word /\ 0 \notin inst.imm
  <1>1. PICK w \in Word : inst = decode(w)
    BY ReadTyped DEF Fetched, read32
  <1>2. /\ decode_r(w).tag \in {"R", "Panic"}
        /\ decode_i_alu(w).tag \in {"I", "Shift", "Unreachable"}
        /\ decode_load(w).tag \in {"Load", "Panic"}
        /\ decode_store(w).tag \in {"Store", "Panic"}
    BY DEF decode_r, decode_i_alu, decode_load, decode_store, Panic, Unreachable
  <1>3. decode_system(w).tag \in Plain \cup {"Csr", "Panic"}
    BY DEF decode_system, Plain, Panic
  <1>4. decode_branch(w).tag = "Panic" \/ decode_branch(w).imm = imm_b(w)
    BY DEF decode_branch, Panic
  <1>5. inst.imm = imm_b(w) \/ inst.imm = imm_j(w)
    <2>1. decode(w) \in
            {decode_r(w), decode_i_alu(w), decode_load(w), decode_store(w), decode_branch(w),
             decode_system(w), Panic,
             [tag |-> "Lui", rd |-> rd(w), imm |-> imm_u(w)],
             [tag |-> "Auipc", rd |-> rd(w), imm |-> imm_u(w)],
             [tag |-> "Jal", rd |-> rd(w), imm |-> imm_j(w)],
             [tag |-> "Jalr", rd |-> rd(w), rs1 |-> rs1(w), imm |-> imm_i(w)],
             [tag |-> "Fence"]}
      BY SMTT(30) DEF decode
    <2> QED BY <1>1, <1>2, <1>3, <1>4, <2>1 DEF Plain, Panic
  <1> QED BY <1>5, OffsetsEven, FieldTypes

\* The next instruction of an even pc is at an even pc.
LEMMA NextInsnEven ==
    ASSUME HartTypeOK, 0 \notin pc, NextInsn
    PROVE  0 \notin pc'
  BY CsrAddrs, EvenSum DEF HartTypeOK, NextInsn, GoTo, InsnSize

\* A pc becomes odd only by mret, in every guest.
THEOREM PcParity == Spec => OddPcOnlyByMret
  <1>1. TypeOK /\ [Next]_vars =>
          (0 \notin pc /\ 0 \in pc' => \E inst \in Fetched : inst.tag = "Mret")
    <2> SUFFICES ASSUME TypeOK, [Next]_vars, 0 \notin pc,
                        \A inst \in Fetched : inst.tag # "Mret"
                 PROVE  0 \notin pc'
      OBVIOUS
    <2>0. HartTypeOK /\ pc \in Word
      BY DEF TypeOK, HartTypeOK
    <2>1. CASE step
      <3>1. PICK inst \in Fetched : execute(inst)
        BY <2>1 DEF step
      <3>2. CASE Branch(inst)
        <4>1. 0 \notin wrapping_add(pc, inst.imm)
          BY <2>0, <3>2, FetchedOffsets, EvenSum DEF Branch
        <4> QED BY <2>0, <3>2, <4>1, NextInsnEven DEF Branch, GoTo
      <3>3. CASE Jump(inst)
        <4>1. inst.tag = "Jal" => 0 \notin wrapping_add(pc, inst.imm)
          BY <2>0, <3>3, FetchedOffsets, EvenSum
        <4> QED BY <3>3, <4>1 DEF Jump, GoTo
      <3>4. CASE Ecall(inst) \/ Ebreak(inst)
        BY <3>4 DEF Ecall, Ebreak, trap, GoTo
      <3>5. CASE NextInsn \/ UNCHANGED pc
        BY <2>0, <3>5, NextInsnEven
      <3> QED BY <3>1, <3>2, <3>3, <3>4, <3>5
           DEF execute, R, I, Shift, Load, LoadPanic, Store, StorePanic, Upper, Csr, Skip,
               Mret, DecodePanic, hartVars
    <2>2. CASE UNCHANGED pc
      BY <2>2
    <2> QED BY <2>1, <2>2 DEF Next, run, FetchPanic, Exhausted, Call, vars, hartVars
  <1> QED BY <1>1, TypeCorrect, PTL DEF Spec, OddPcOnlyByMret

-----------------------------------------------------------------------------
(* Panics *)

\* Of the steps that panic: what execute() may have done by then.
LEMMA ExecutePanics ==
    ASSUME TypeOK, Iterating, NEW inst \in Instruction \cup {Panic, Unreachable},
           execute(inst), status' = "panicked"
    PROVE  /\ pc' = pc
           /\ \/ /\ UNCHANGED <<regs, csrs, tohost_value>>
                 /\ \A m \in Index : data'[m] # data[m] =>
                       m >= MEM_SIZE - 3 /\ inst.tag = "Store"
              \/ OverflowChecks /\ 2..31 \subseteq pc /\ inst.tag \notin {"Jal", "Jalr"}
  <1>0. ~EndIteration
    BY DEF EndIteration, Iterating
  <1>1. CASE NextInsn /\ inst.tag \notin {"Jal", "Jalr"}
    BY <1>0, <1>1 DEF NextInsn, GoTo, PcOverflows
  <1>2. CASE Jump(inst)
    BY <1>0, <1>2 DEF Jump, GoTo
  <1>3. CASE Branch(inst)
    BY <1>0, <1>1, <1>3 DEF Branch, GoTo
  <1>4. CASE LoadPanic(inst) \/ DecodePanic(inst)
    BY <1>4 DEF LoadPanic, DecodePanic, hartVars
  <1>5. CASE StorePanic(inst)
    <2>1. inst.op \in DOMAIN StoreOp
      BY <1>5 DEF StorePanic, Instruction, Panic, Unreachable, Plain
    <2>2. Width(inst.op) \in {1, 2, 4}
      BY <2>1 DEF StoreOp, Width
    <2>3. \A m \in Index : data'[m] # data[m] => m >= MEM_SIZE - 3
      <3>1. CASE UNCHANGED data
        BY <3>1
      <3>2. CASE WriteLE(EffAddr(inst), Width(inst.op), read_reg(inst.rs2))
                 /\ InBounds(EffAddr(inst))
        <4> DEFINE off == offset(EffAddr(inst))
        <4>1. off \in Index
          BY <3>2 DEF InBounds, offset
        <4>2. off + Width(inst.op) > MEM_SIZE
          BY <1>5, <3>2, <4>1, <2>2, MemoryAssumption DEF StorePanic, Accessible, Index
        <4>3. \A m \in Index : data'[m] # data[m] => m >= off
          BY <3>2, <4>1, <2>2 DEF WriteLE, Index, TypeOK, MemoryTypeOK
        <4> QED BY <2>2, <4>1, <4>2, <4>3, MemoryAssumption DEF Index
      <3> QED BY <1>5, <3>1, <3>2 DEF StorePanic
    <2> QED BY <1>5, <2>3 DEF StorePanic, hartVars
  <1>6. CASE Ecall(inst) \/ Ebreak(inst) \/ Mret(inst)
    BY <1>0, <1>6 DEF Ecall, Ebreak, trap, Mret, GoTo
  <1> QED BY <1>1, <1>2, <1>3, <1>4, <1>5, <1>6
       DEF execute, R, I, Shift, Load, Store, Upper, Csr, Skip

\* A panic leaves the hart at the instruction that caused it, with nothing
\* done but the two exceptions the property names, in every guest and build.
THEOREM PanicsPrecise == Spec => PanicIsPrecise
  <1> DEFINE Precise ==
        status' = "panicked" =>
         /\ pc' = pc
         /\ \/ /\ UNCHANGED <<regs, csrs, tohost_value>>
               /\ \A m \in Index : data'[m] # data[m] =>
                     /\ m >= MEM_SIZE - 3
                     /\ \E inst \in Fetched : inst.tag = "Store"
            \/ /\ OverflowChecks /\ 2..31 \subseteq pc
               /\ \E inst \in Fetched : inst.tag \notin {"Jal", "Jalr"}
  <1>1. TypeOK /\ [Next]_vars => [Precise]_vars
    <2> SUFFICES ASSUME TypeOK, Next, status' = "panicked" PROVE Precise
      BY DEF Precise
    <2>1. CASE step
      <3>1. PICK inst \in Fetched : execute(inst)
        BY <2>1 DEF step
      <3> QED BY <2>1, <3>1, FetchedTyped, ExecutePanics DEF step
    <2>2. CASE FetchPanic
      BY <2>2 DEF FetchPanic, hartVars
    <2> QED BY <2>1, <2>2 DEF Next, run, Exhausted, Call
  <1> QED BY <1>1, TypeCorrect, PTL DEF Spec, PanicIsPrecise

-----------------------------------------------------------------------------
(* The loop *)

\* What one iteration does to the loop, whatever the instruction.
LEMMA ExecuteLoops ==
    ASSUME TypeOK, Iterating, NEW inst \in Instruction \cup {Panic, Unreachable},
           execute(inst)
    PROVE  /\ EndIteration \/ Panicking
           /\ tohost_value' = tohost_value \/ tohost_value' \in Word
  <1>1. CASE NextInsn /\ UNCHANGED tohost_value
    BY <1>1 DEF NextInsn, GoTo
  <1>2. CASE Store(inst)
    <2>1. inst.rs2 \in RegIdx /\ HartTypeOK
      BY <1>2 DEF Store, Instruction, Panic, Unreachable, Plain, TypeOK
    <2> QED BY <1>2, <2>1, ReadRegTyped DEF Store, NextInsn, GoTo
  <1>3. CASE Jump(inst) \/ Branch(inst)
    BY <1>3 DEF Jump, Branch, NextInsn, GoTo
  <1>4. CASE LoadPanic(inst) \/ StorePanic(inst) \/ DecodePanic(inst)
    BY <1>4 DEF LoadPanic, StorePanic, DecodePanic, hartVars
  <1>5. CASE Ecall(inst) \/ Ebreak(inst) \/ Mret(inst)
    BY <1>5 DEF Ecall, Ebreak, trap, Mret, GoTo
  <1> QED BY <1>1, <1>2, <1>3, <1>4, <1>5
       DEF execute, R, I, Shift, Load, Upper, Csr, Skip

LEMMA NoneIsNoWord == None \notin Word
  BY XLENAssumption DEF None, Word, Bit

\* Every step of run() is a step of the loop its caller sees, and one that
\* counts an iteration or changes the status.
LEMMA RunAdvances ==
    ASSUME TypeOK, run
    PROVE  Loop!Advance /\ (left' # left \/ status' # status)
  <1>0. left \in Nat /\ tohost_value \in Word \cup {None}
    BY DEF TypeOK, HartTypeOK, LoopTypeOK
  <1>1. CASE step
    <2>1. PICK inst \in Fetched : execute(inst)
      BY <1>1 DEF step
    <2>2. Iterating /\ inst \in Instruction \cup {Panic, Unreachable}
      BY <1>1, FetchedTyped DEF step
    <2>3. /\ EndIteration \/ Panicking
          /\ tohost_value' = tohost_value \/ tohost_value' \in Word
      BY <2>1, <2>2, ExecuteLoops
    <2>4. CASE EndIteration /\ tohost_value' = None
      BY <1>0, <2>2, <2>3, <2>4, NoneIsNoWord
      DEF EndIteration, Iterating, Loop!Advance, Loop!Continue, Loop!Iteration
    <2>5. CASE EndIteration /\ tohost_value' # None
      BY <1>0, <2>2, <2>3, <2>5
      DEF EndIteration, Iterating, Loop!Advance, Loop!Report, Loop!Iteration
    <2>6. CASE Panicking
      BY <2>2, <2>3, <2>6 DEF Panicking, Iterating, Loop!Advance, Loop!Crash, Loop!Iteration
    <2> QED BY <2>3, <2>4, <2>5, <2>6
  <1>2. CASE FetchPanic
    BY <1>2 DEF FetchPanic, Panicking, hartVars, Iterating, Loop!Advance, Loop!Crash,
                Loop!Iteration
  <1>3. CASE Exhausted
    BY <1>3 DEF Exhausted, hartVars, Loop!Advance, Loop!Timeout
  <1> QED BY <1>1, <1>2, <1>3 DEF run

\* Every step of the hart is a step of the loop, or none.
LEMMA LoopStep == TypeOK /\ [Next]_vars => [Loop!Next]_(Loop!loopVars)
  <1>1. ASSUME NEW max_cycles \in Budgets, Call(max_cycles) PROVE Loop!Next
    BY <1>1 DEF Call, hartVars, Loop!Next, Loop!Call
  <1>2. UNCHANGED vars => UNCHANGED Loop!loopVars
    BY DEF vars, hartVars, loopVars, Loop!loopVars
  <1> QED BY <1>1, <1>2, RunAdvances DEF Next, Loop!Next

\* The hart implements RunLoop, its fairness included: what is true of the
\* loop alone is true of the hart, whatever guest it runs.
THEOREM HartImplementsLoop == Spec => ImplementsLoop
  <1>1. Init => Loop!Init
    BY DEF Init, Loop!Init
  <1>2. TypeOK /\ <<run>>_vars => <<Loop!Advance>>_(Loop!loopVars)
    BY RunAdvances DEF Loop!loopVars
  <1> QED BY <1>1, <1>2, LoopStep, TypeCorrect, PTL
       DEF Spec, Fairness, ImplementsLoop, Loop!Spec, Loop!SafeSpec, Loop!Fairness

=============================================================================
