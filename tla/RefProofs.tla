----------------------------- MODULE RefProofs -----------------------------
(***************************************************************************)
(* Theorems about the reference core alone, for every guest: its types,    *)
(* its traps and returns, and its store-conditional.                       *)
(***************************************************************************)
EXTENDS RefHistory, WordTheorems

-----------------------------------------------------------------------------
(* RV32M *)

\* What is below a word is a word.
LEMMA BelowWord ==
    ASSUME NEW b \in Word, NEW r \in SUBSET Nat, LtU32(r, b)
    PROVE  r \in Word
  BY XLENAssumption DEF LtU32, Word, Bit

\* The registers of a division stay words; for every width.
LEMMA LongDivisionTyped ==
    ASSUME NEW a \in Word, NEW b \in Word
    PROVE  LongDivision(a, b) \in [q : Word, r : Word]
  <1> DEFINE D == [q : Word, r : Word]
             base == [q |-> {}, r |-> {}]
             next == [p \in D \X (1..XLEN) |-> Digit(a, b, p[1], XLEN - p[2])]
             body(f) == [k \in 0..XLEN |->
                           IF k = 0 THEN base ELSE Digit(a, b, f[k - 1], XLEN - k)]
             after == CHOOSE f : f = body(f)
  <1>1. LongDivision(a, b) = after[XLEN]
    BY Zenon DEF LongDivision
  <1>2. ASSUME NEW acc \in D, NEW k \in 1..XLEN PROVE Digit(a, b, acc, XLEN - k) \in D
    <2> DEFINE i == XLEN - k
               r == {j + 1 : j \in acc.r} \cup (IF i \in a THEN {0} ELSE {})
    <2>1. r \in SUBSET Nat /\ acc.q \cup {i} \in Word /\ r \cap Bit \in Word
      BY XLENAssumption DEF Word, Bit
    <2>2. wrapping_sub(r \cap Bit, b) \in Word
      BY <2>1, WordClosed
    <2>3. LtU32(r, b) => r \in Word
      BY <2>1, BelowWord
    <2>4. Digit(a, b, acc, i) =
             IF LtU32(r, b) THEN [acc EXCEPT !.r = r]
             ELSE [q |-> acc.q \cup {i}, r |-> wrapping_sub(r \cap Bit, b)]
      BY DEF Digit
    <2> HIDE DEF r, i
    <2>5. Digit(a, b, acc, i) \in D
      BY <2>1, <2>2, <2>3, <2>4
    <2> QED BY <2>5 DEF i
  <1>3. base \in D
    BY DEF Word
  <1>4. next \in [D \X (1..XLEN) -> D]
    BY <1>2
  <1>5. \A p \in D \X (1..XLEN) : next[p] = Digit(a, b, p[1], XLEN - p[2])
    OBVIOUS
  <1> HIDE DEF base, D, next
  <1>6. PICK g \in [0..XLEN -> D] :
           g[0] = base /\ \A k \in 1..XLEN : g[k] = next[<<g[k - 1], k>>]
    <2>1. XLEN \in Nat
      BY XLENAssumption
    <2> HIDE DEF body, after
    <2>2. RecursionSteps(XLEN, D, next)
      BY <1>4 DEF RecursionSteps
    <2>3. RecursionHas(XLEN, D, base, next)
      BY <1>3, <2>1, <2>2, RecursionExists
    <2> QED BY <2>3 DEF RecursionHas, RecursionSolves
  <1>7. g = body(g)
    <2>1. \A k \in 1..XLEN : g[k] = Digit(a, b, g[k - 1], XLEN - k)
      <3> TAKE k \in 1..XLEN
      <3>1. <<g[k - 1], k>> \in D \X (1..XLEN)
        BY XLENAssumption
      <3> QED BY <1>5, <1>6, <3>1
    <2>2. \A k \in 0..XLEN : k # 0 => k \in 1..XLEN
      BY XLENAssumption
    <2> QED BY <1>6, <2>1, <2>2
  <1>8. after = body(after)
    <2> HIDE DEF body
    <2> QED BY <1>7, Zenon
  <1> HIDE DEF after
  <1>9. after[0] = base /\ \A k \in 1..XLEN : after[k] = Digit(a, b, after[k - 1], XLEN - k)
    <2> DEFINE c == body(after)
    <2>1. c[0] = base /\ \A k \in 1..XLEN : c[k] = Digit(a, b, after[k - 1], XLEN - k)
      BY XLENAssumption
    <2> HIDE DEF c
    <2> QED BY <1>8, <2>1 DEF c
  <1> DEFINE S == {k \in 0..XLEN : after[k] \in D}
  <1>10. 0 \in S
    BY <1>3, <1>9, XLENAssumption
  <1>11. ASSUME NEW k \in 0..(XLEN - 1), k \in S PROVE k + 1 \in S
    <2>1. k + 1 \in 1..XLEN /\ k + 1 \in 0..XLEN /\ (k + 1) - 1 = k
      BY XLENAssumption
    <2>2. after[k + 1] = Digit(a, b, after[k], XLEN - (k + 1))
      BY <1>9, <2>1
    <2> QED BY <1>2, <1>11, <2>1, <2>2
  <1>12. XLEN \in S
    <2> HIDE DEF S
    <2>1. XLEN \in Nat /\ XLEN \in 0..XLEN
      BY XLENAssumption
    <2>2. \A k \in 0..XLEN : k \in S
      BY <1>10, <1>11, <2>1, UpTo
    <2> QED BY <2>1, <2>2
  <1> QED BY <1>1, <1>12 DEF D

-----------------------------------------------------------------------------
(* The results of the instructions are words *)

LEMMA Bits == Bit = 0..31 /\ Sign = 31
  BY RegisterAssumption DEF Bit, Sign

LEMMA F3Range == ASSUME NEW ir PROVE f3(ir) \in 0..7
  <1> DEFINE f == Field(ir, 12, 3)
  <1>1. f \in SUBSET (0..6) /\ {3, 4, 5, 6} \cap f = {}
    BY DEF Field
  <1> HIDE DEF f
  <1>2. f3(ir) = Weight(f, 0, 1) + Weight(f, 1, 2) + Weight(f, 2, 4) + Weight(f, 3, 8)
                 + Weight(f, 4, 16) + Weight(f, 5, 32) + Weight(f, 6, 64)
    BY <1>1, ValueIs DEF f3, f
  <1> QED BY <1>1, <1>2 DEF Weight

LEMMA EmptyWord == {} \in Word
  BY DEF Word

LEMMA ImmediatesTyped ==
    ASSUME NEW ir \in Word
    PROVE  /\ ref_imm_i(ir) \in Word /\ ref_imm_u(ir) \in Word /\ ref_imm_s(ir) \in Word
           /\ ref_imm_b(ir) \in Word /\ ref_imm_j(ir) \in Word
  BY Bits DEF ref_imm_i, ref_imm_u, ref_imm_s, ref_imm_b, ref_imm_j, SignedFrom, Shl, Shr, Word

LEMMA AluTyped ==
    ASSUME NEW ir, NEW a \in Word, NEW b \in Word
    PROVE  Alu(ir, a, b) \in Word
  <1>1. AluAdd(ir, a, b) \in Word
    BY WordClosed DEF AluAdd
  <1>2. SymDiff(a, b) \in Word /\ a \cup b \in Word /\ a \cap b \in Word
    BY WordClosed DEF Word
  <1>3. BoolWord(LtI32(a, b)) \in Word /\ BoolWord(LtU32(a, b)) \in Word
    BY EmptyWord, Bits DEF BoolWord, Word
  <1>4. \A n : Shl(a, n) \in Word /\ Shr(a, n) \in Word /\ Sar(a, n) \in Word
    BY WordClosed
  <1> QED BY <1>1, <1>2, <1>3, <1>4, F3Range DEF Alu

LEMMA DivisionTyped ==
    ASSUME NEW a \in Word, NEW b \in Word
    PROVE  /\ LongDivision(a, b).q \in Word /\ LongDivision(a, b).r \in Word
           /\ SignedQuotient(a, b) \in Word /\ SignedRemainder(a, b) \in Word
  <1>1. \A w \in Word : Neg(w) \in Word
    BY EmptyWord, WordClosed DEF Neg
  <1>2. \A w \in Word : Abs(w) \in Word
    BY <1>1 DEF Abs
  <1>3. \A c, w : w \in Word => NegIf(c, w) \in Word
    BY <1>1 DEF NegIf
  <1>4. \A v, w \in Word : LongDivision(v, w).q \in Word /\ LongDivision(v, w).r \in Word
    BY LongDivisionTyped
  <1> QED BY <1>2, <1>3, <1>4 DEF SignedQuotient, SignedRemainder

LEMMA MulDivTyped ==
    ASSUME NEW ir, NEW a \in Word, NEW b \in Word
    PROVE  MulDiv(ir, a, b) \in Word
  <1>1. \A p : High(p) \in Word /\ p \cap Bit \in Word
    BY DEF High, Word
  <1>2. AllOnes \in Word
    BY DEF AllOnes, Word
  <1> DEFINE overflow == a = IntMin /\ b = AllOnes
             quotient == IF b = {} THEN AllOnes ELSE IF overflow THEN a ELSE SignedQuotient(a, b)
             remainder == IF b = {} THEN a ELSE IF overflow THEN {} ELSE SignedRemainder(a, b)
  <1>3. quotient \in Word /\ remainder \in Word
    BY <1>2, EmptyWord, DivisionTyped
  <1> DEFINE mul == Product(a, b) \cap Bit
             mulh == High(Product(Extended(a), Extended(b)))
             mulhsu == High(Product(Extended(a), b))
             mulhu == High(Product(a, b))
             uquotient == IF b = {} THEN AllOnes ELSE LongDivision(a, b).q
             uremainder == IF b = {} THEN a ELSE LongDivision(a, b).r
  <1>4. uquotient \in Word /\ uremainder \in Word
    BY <1>2, DivisionTyped
  <1>5. f3(ir) \in 0..7 /\ mul \in Word /\ mulh \in Word /\ mulhsu \in Word /\ mulhu \in Word
    BY <1>1, F3Range
  <1>6. MulDiv(ir, a, b) =
          CASE f3(ir) = 0 -> mul
            [] f3(ir) = 1 -> mulh
            [] f3(ir) = 2 -> mulhsu
            [] f3(ir) = 3 -> mulhu
            [] f3(ir) = 4 -> quotient
            [] f3(ir) = 5 -> uquotient
            [] f3(ir) = 6 -> remainder
            [] f3(ir) = 7 -> uremainder
    BY DEF MulDiv
  <1> HIDE DEF quotient, remainder, uquotient, uremainder, mul, mulh, mulhsu, mulhu
  <1> QED BY <1>3, <1>4, <1>5, <1>6

LEMMA AmoTyped ==
    ASSUME NEW old \in Word, NEW v \in Word, NEW irmid \in {0, 1, 3, 4, 8, 12, 16, 20, 24, 28}
    PROVE  Amo(irmid, old, v) \in Word
  <1>1. SymDiff(v, old) \in Word /\ v \cup old \in Word /\ v \cap old \in Word
        /\ wrapping_add(v, old) \in Word
    BY WordClosed DEF Word
  <1> QED BY <1>1 DEF Amo

LEMMA RamRead ==
    ASSUME NEW addr, NEW n \in {1, 2, 4}
    PROVE  ReadLE(addr, n) \in Word
  BY Bits DEF ReadLE, Word

LEMMA RamWrite ==
    ASSUME MemoryTypeOK, NEW addr, NEW n, NEW val, WriteLE(addr, n, val)
    PROVE  MemoryTypeOK'
  BY DEF WriteLE, MemoryTypeOK, Field, Byte

LEMMA LoadedTyped ==
    ASSUME NEW ir, NEW addr, f3(ir) \notin {3, 6, 7}
    PROVE  Loaded(ir, addr) \in Word
  <1>1. read8(addr) \in Word /\ read16(addr) \in Word /\ read32(addr) \in Word
    BY RamRead DEF read8, read16, read32
  <1>2. \A w \in Word : \A n : SignExtend(w, n) \in Word
    BY DEF SignExtend, Word
  <1> QED BY <1>1, <1>2, F3Range DEF Loaded
-----------------------------------------------------------------------------
(* The types *)

LEMMA OperandsTyped ==
    ASSUME RefTypeOK, NEW ir
    PROVE  r1(ir) \in Word /\ r2(ir) \in Word /\ rdid(ir) \in SUBSET (0..4)
  <1>1. Field(ir, 7, 5) \in SUBSET (0..4) /\ Field(ir, 15, 5) \in SUBSET (0..4)
        /\ Field(ir, 20, 5) \in SUBSET (0..4)
    BY DEF Field
  <1> QED BY <1>1 DEF RefTypeOK, r1, r2, rdid

LEMMA TimedTyped ==
    ASSUME RefTypeOK
    PROVE  timed \in [DOMAIN CsrNo -> Word]
  <1>1. \A w \in Word : w \ {MTIP} \in Word
    BY DEF Word
  <1> QED BY <1>1 DEF RefTypeOK, timed

LEMMA PcTyped ==
    ASSUME RefTypeOK
    PROVE  pc_plus_4 \in Word /\ cycle \in Word
  <1>1. {2} \in Word /\ {0} \in Word
    BY Bits DEF Word
  <1> QED BY <1>1, WordClosed DEF RefTypeOK, pc_plus_4, cycle

LEMMA CsrReadTyped ==
    ASSUME RefTypeOK, NEW no
    PROVE  CsrRead(no) \in Word
  <1>1. ASSUME \E f \in DOMAIN CsrNo : CsrNo[f] = no
        PROVE  timed[CHOOSE f \in DOMAIN CsrNo : CsrNo[f] = no] \in Word
    BY <1>1, TimedTyped
  <1>2. cycle \in Word /\ Bit \ {8, 9, 10, 11, 20, 21, 22, 23} \in Word
        /\ {30, 22, 12, 8, 0} \in Word /\ {} \in Word
    BY PcTyped, Bits DEF Word
  <1> QED BY <1>1, <1>2 DEF CsrRead

\* What every step but a trap leaves to be shown
LEMMA RetireTyped ==
    ASSUME RefTypeOK, NEW rd \in SUBSET (0..4), NEW rval \in Word, NEW target \in Word,
           Retire(rd, rval, target)
    PROVE  regs' \in [SUBSET (0..4) -> Word] /\ pc' \in Word
  BY DEF Retire, WriteBack, RefTypeOK

LEMMA KeepTyped ==
    ASSUME RefTypeOK, KeepSystem
    PROVE  /\ mcsr' \in [DOMAIN CsrNo -> Word]
           /\ priv' \in SUBSET {0, 1} /\ asleep' \in BOOLEAN
           /\ reservation' \in SUBSET (0..28)
  BY TimedTyped DEF RefTypeOK, KeepSystem

LEMMA TrapTyped ==
    ASSUME RefTypeOK, cyclel' \in Word, NEW cause \in SUBSET {0, 1, 2, 3}, NEW tval \in Word,
           Trap(cause, tval)
    PROVE  RefTypeOK'
  <1>1. cause \in Word /\ \A w : w \cap Bit \in Word
    BY Bits DEF Word
  <1>2. \A w : Shl(w \cap {MIE}, 4) \cup Shl({0, 1}, 11) \in Word
    BY DEF Shl, Word
  <1>3. \A w : Shl(w \cap {MIE}, 4) \cup Shl(priv, 11) \in Word
    BY DEF Shl, Word
  <1>4. mcsr' \in [DOMAIN CsrNo -> Word]
    <2>1. pc \in Word
      BY DEF RefTypeOK
    <2> QED BY <1>1, <1>3, <2>1, TimedTyped DEF Trap
  <1>5. pc' \in Word
    BY DEF Trap, RefTypeOK, CsrNo
  <1> QED BY <1>4, <1>5 DEF Trap, RefTypeOK, MemoryTypeOK

LEMMA IllegalTyped ==
    ASSUME RefTypeOK, cyclel' \in Word, IllegalInsn
    PROVE  RefTypeOK'
  BY TrapTyped DEF IllegalInsn, RefTypeOK

\* Each case of the switch keeps the types.
LEMMA InsnTyped ==
    ASSUME RefTypeOK, cyclel' \in Word, NEW ir \in Word, MiniRV32IMAInsn(ir)
    PROVE  RefTypeOK'
  <1> USE OperandsTyped, PcTyped, ImmediatesTyped, EmptyWord
  <1>0. /\ pc \in Word /\ {} \in SUBSET (0..4)
        /\ \A v, w \in Word : wrapping_add(v, w) \in Word /\ wrapping_add(v, w) \ {0} \in Word
    BY WordClosed DEF RefTypeOK, Word
  <1>a. ASSUME NEW rd \in SUBSET (0..4), NEW rval \in Word, NEW target \in Word,
               Retire(rd, rval, target), KeepSystem, MemoryTypeOK'
        PROVE  RefTypeOK'
    BY <1>a, RetireTyped, KeepTyped DEF RefTypeOK
  <1>b. UNCHANGED data => MemoryTypeOK'
    BY DEF RefTypeOK, MemoryTypeOK
  <1>1. CASE Upper(ir)
    <2>1. wrapping_add(pc, ref_imm_u(ir)) \in Word
      BY <1>0
    <2>2. /\ \E rval \in Word : Retire(rdid(ir), rval, pc_plus_4)
          /\ KeepSystem /\ UNCHANGED data
      BY <1>1, <2>1 DEF Upper
    <2> QED BY <1>a, <1>b, <2>2
  <1>2. CASE Jump(ir)
    <2>1. /\ wrapping_add(pc, ref_imm_j(ir)) \in Word
          /\ wrapping_add(r1(ir), ref_imm_i(ir)) \ {0} \in Word
      BY <1>0
    <2>2. /\ \E target \in Word : Retire(rdid(ir), pc_plus_4, target)
          /\ KeepSystem /\ UNCHANGED data
      BY <1>2, <2>1 DEF Jump
    <2> QED BY <1>a, <1>b, <2>2
  <1>3. CASE Branch(ir)
    <2>1. wrapping_add(pc, ref_imm_b(ir)) \in Word
      BY <1>0
    <2>2. \/ /\ \E target \in Word : Retire({}, {}, target)
             /\ KeepSystem /\ UNCHANGED data
          \/ IllegalInsn
      BY <1>3, <2>1 DEF Branch
    <2> QED BY <1>0, <1>a, <1>b, <2>2, IllegalTyped
  <1>4. CASE Load(ir)
    <2> DEFINE addr == wrapping_add(r1(ir), ref_imm_i(ir))
    <2>1. addr \in Word
      BY <1>0
    <2>2. f3(ir) \notin {3, 6, 7} => Loaded(ir, addr) \in Word
      BY LoadedTyped
    <2> HIDE DEF addr
    <2>3. \/ \E rval \in Word : Retire(rdid(ir), rval, pc_plus_4) /\ KeepSystem /\ UNCHANGED data
          \/ IllegalInsn
          \/ Trap({0, 2}, addr)
      BY <1>4, <2>2 DEF Load, addr
    <2> QED BY <1>a, <1>b, <2>1, <2>3, IllegalTyped, TrapTyped
  <1>5. CASE Store(ir)
    <2> DEFINE addr == wrapping_add(r1(ir), ref_imm_s(ir))
    <2>1. addr \in Word
      BY <1>0
    <2> HIDE DEF addr
    <2>2. \/ /\ WriteLE(addr, 2^f3(ir), r2(ir)) \/ UNCHANGED data
             /\ Retire({}, {}, pc_plus_4) /\ KeepSystem
          \/ IllegalInsn
          \/ Trap({0, 1, 2}, addr)
      BY <1>5 DEF Store, addr
    <2>3. WriteLE(addr, 2^f3(ir), r2(ir)) => MemoryTypeOK'
      BY RamWrite DEF RefTypeOK
    <2> QED BY <1>0, <1>a, <1>b, <2>1, <2>2, <2>3, IllegalTyped, TrapTyped
  <1>6. CASE Op(ir)
    <2> DEFINE v2 == IF is_reg(ir) THEN r2(ir) ELSE ref_imm_i(ir)
    <2>1. MulDiv(ir, r1(ir), v2) \in Word /\ Alu(ir, r1(ir), v2) \in Word
      BY MulDivTyped, AluTyped
    <2> HIDE DEF v2
    <2>2. /\ \E rval \in Word : Retire(rdid(ir), rval, pc_plus_4)
          /\ KeepSystem /\ UNCHANGED data
      BY <1>6, <2>1 DEF Op, v2
    <2> QED BY <1>a, <1>b, <2>2
  <1>7. CASE Fence(ir)
    BY <1>0, <1>7, <1>a, <1>b DEF Fence
  <1>8. CASE Zicsr(ir)
    <2> DEFINE old == CsrRead(csrno(ir))
               src == IF f3(ir) < 4 THEN r1(ir) ELSE Field(ir, 15, 5)
               val == CASE f3(ir) \in {1, 5} -> src
                        [] f3(ir) \in {2, 6} -> old \cup src
                        [] f3(ir) \in {3, 7} -> old \ src
    <2>1. old \in Word /\ src \in Word
      BY CsrReadTyped, Bits DEF Field, Word
    <2>2. f3(ir) \in 0..7 /\ f3(ir) \notin {0, 4}
      BY <1>8, F3Range DEF Zicsr
    <2>3. val \in Word
      <3> HIDE DEF old, src
      <3>1. old \cup src \in Word /\ old \ src \in Word
        BY <2>1 DEF Word
      <3> QED BY <2>1, <2>2, <3>1
    <2> HIDE DEF val, src
    <2>4. /\ mcsr' = [f \in DOMAIN CsrNo |-> IF CsrNo[f] = csrno(ir) THEN val ELSE timed[f]]
          /\ Retire(rdid(ir), old, pc_plus_4) /\ UNCHANGED <<data, priv, asleep, reservation>>
      BY <1>8 DEF Zicsr, val, src
    <2> HIDE DEF old
    <2>5. mcsr' \in [DOMAIN CsrNo -> Word]
      BY <2>3, <2>4, TimedTyped
    <2> QED BY <1>b, <2>1, <2>4, <2>5, RetireTyped DEF RefTypeOK
  <1>9. CASE Mret(ir)
    <2>1. \A w : Shr(w \cap {MPIE}, 4) \cup Shl(priv, 11) \cup {MPIE} \in Word
      BY Bits DEF Shr, Shl, MPIE, Word
    <2>2. mcsr' \in [DOMAIN CsrNo -> Word]
      BY <1>9, <2>1, TimedTyped DEF Mret
    <2>3. priv' \in SUBSET {0, 1}
      BY <1>9 DEF Mret, Field
    <2>4. mcsr.mepc \in Word
      BY DEF RefTypeOK, CsrNo
    <2>5. Retire({}, {}, mcsr.mepc) /\ UNCHANGED <<data, asleep, reservation>>
      BY <1>9 DEF Mret
    <2>6. regs' \in [SUBSET (0..4) -> Word] /\ pc' \in Word
      BY <1>0, <2>4, <2>5, RetireTyped
    <2> QED BY <1>b, <2>2, <2>3, <2>5, <2>6 DEF RefTypeOK
  <1>10. CASE System(ir)
    <2>1. mcsr' = [timed EXCEPT !.mstatus = @ \cup {MIE}] => mcsr' \in [DOMAIN CsrNo -> Word]
      <3>1. \A w \in Word : w \cup {MIE} \in Word
        BY Bits DEF Word, MIE
      <3> QED BY <3>1, TimedTyped
    <2>2. ASSUME mcsr' = [timed EXCEPT !.mstatus = @ \cup {MIE}], asleep' = TRUE,
                 Retire({}, {}, pc_plus_4), UNCHANGED <<data, priv, reservation>>
          PROVE  RefTypeOK'
      BY <1>0, <1>b, <2>1, <2>2, RetireTyped DEF RefTypeOK
    <2>3. \/ \E cause \in SUBSET {0, 1, 2, 3} : Trap(cause, pc)
          \/ /\ mcsr' = [timed EXCEPT !.mstatus = @ \cup {MIE}] /\ asleep' = TRUE
             /\ Retire({}, {}, pc_plus_4) /\ UNCHANGED <<data, priv, reservation>>
          \/ IllegalInsn
      BY <1>10 DEF System
    <2> QED BY <1>0, <2>2, <2>3, TrapTyped, IllegalTyped
  <1>11. CASE SystemReserved(ir) \/ Unknown(ir)
    BY <1>11, IllegalTyped DEF SystemReserved, Unknown
  <1>12. CASE Atomic(ir)
    <2> DEFINE addr  == r1(ir)
               irmid == Value(Field(ir, 27, 5))
               old   == read32(addr)
               fails == irmid = 3 /\ reservation # Slot(addr)
               rval  == IF irmid = 3 THEN BoolWord(fails) ELSE old
    <2>1. Slot(addr) \in SUBSET (0..28)
      <3>1. wrapping_sub(addr, Base) \in Word
        BY WordClosed, MemoryAssumption
      <3> QED BY <3>1, Bits DEF Slot, Word
    <2>2. rval \in Word
      <3>1. BoolWord(fails) \in Word
        BY EmptyWord, Bits DEF BoolWord, Word
      <3> QED BY <3>1, RamRead DEF read32
    <2> HIDE DEF addr, irmid, old, fails, rval
    <2>3. \/ Trap({0, 1, 2}, addr)
          \/ IllegalInsn
          \/ /\ UNCHANGED data \/ WriteLE(addr, 4, Amo(irmid, old, r2(ir)))
             /\ reservation' = IF irmid = 2 THEN Slot(addr) ELSE reservation
             /\ Retire(rdid(ir), rval, pc_plus_4)
             /\ mcsr' = timed /\ UNCHANGED <<priv, asleep>>
      <3>1. Atomic(ir)
        BY <1>12
      <3> QED BY <3>1 DEF Atomic, addr, irmid, old, fails, rval
    <2>4. addr \in Word
      BY DEF addr
    <2>5. WriteLE(addr, 4, Amo(irmid, old, r2(ir))) => MemoryTypeOK'
      BY RamWrite DEF RefTypeOK
    <2>6. ASSUME UNCHANGED data \/ WriteLE(addr, 4, Amo(irmid, old, r2(ir))),
                 reservation' = IF irmid = 2 THEN Slot(addr) ELSE reservation,
                 Retire(rdid(ir), rval, pc_plus_4), mcsr' = timed, UNCHANGED <<priv, asleep>>
          PROVE  RefTypeOK'
      <3>1. MemoryTypeOK'
        BY <1>b, <2>5, <2>6
      <3>2. regs' \in [SUBSET (0..4) -> Word] /\ pc' \in Word
        BY <2>2, <2>6, RetireTyped
      <3>3. reservation' \in SUBSET (0..28) /\ mcsr' \in [DOMAIN CsrNo -> Word]
        BY <2>1, <2>6, TimedTyped DEF RefTypeOK
      <3> QED BY <2>6, <3>1, <3>2, <3>3 DEF RefTypeOK
    <2> QED BY <2>3, <2>4, <2>6, TrapTyped, IllegalTyped
  <1> QED BY <1>1, <1>2, <1>3, <1>4, <1>5, <1>6, <1>7, <1>8, <1>9, <1>10, <1>11, <1>12
          DEF MiniRV32IMAInsn

LEMMA AwakeTyped == RefTypeOK /\ Awake => RefTypeOK'
  <1> SUFFICES ASSUME RefTypeOK, Awake PROVE RefTypeOK'
    OBVIOUS
  <1>1. cyclel' \in Word /\ pc \in Word /\ read32(pc) \in Word
    BY PcTyped, RamRead DEF Awake, RefTypeOK, read32
  <1>2. FetchFault => RefTypeOK'
    BY <1>1, TrapTyped DEF FetchFault
  <1> QED BY <1>1, <1>2, InsnTyped DEF Awake

\* Every step of the reference core keeps the types.
LEMMA RefNextTyped == RefTypeOK /\ [RefNext]_refVars => RefTypeOK'
  <1> SUFFICES ASSUME RefTypeOK, [RefNext]_refVars PROVE RefTypeOK'
    OBVIOUS
  <1>1. CASE UNCHANGED refVars
    BY <1>1 DEF refVars, core, RefTypeOK, MemoryTypeOK
  <1>2. Sleep => RefTypeOK'
    BY TimedTyped DEF Sleep, RefTypeOK, MemoryTypeOK
  <1> QED BY <1>1, <1>2, AwakeTyped DEF RefNext, MiniRV32IMAStep

\* Every state of the reference core is well typed, for every set of guests.
THEOREM RefTypeCorrect == RefSpec => []RefTypeOK
  <1>1. RefInit => RefTypeOK
    BY GuestAssumption, MemoryAssumption
    DEF RefInit, InitCore, RefTypeOK, MemoryTypeOK, Word
  <1> QED BY <1>1, RefNextTyped, PTL DEF RefSpec

-----------------------------------------------------------------------------
(* What a step does, by the instruction it executes *)

\* A step that does not sleep takes a trap or executes the word at pc, and
\* what Record calls a trap is one.
LEMMA StepOfAwake ==
    ASSUME RefTypeOK, RefNext, ~asleep
    PROVE  /\ Record
           /\ \/ Raw = {} /\ \E cause, tval : Trap(cause, tval)
              \/ Raw = {read32(pc)} /\ MiniRV32IMAInsn(read32(pc))
  BY DEF RefNext, MiniRV32IMAStep, Sleep, Awake, FetchFault, Raw

LEMMA TrapIsTraps ==
    ASSUME RefTypeOK, NEW cause, NEW tval, Trap(cause, tval)
    PROVE  Traps
  <1>1. timed \in [DOMAIN CsrNo -> Word] /\ "mcause" \in DOMAIN CsrNo /\ "mtval" \in DOMAIN CsrNo
    BY TimedTyped DEF CsrNo
  <1>2. mcsr'.mcause = cause /\ mcsr'.mtval = tval
    BY <1>1 DEF Trap
  <1> QED BY <1>2 DEF Traps

LEMMA IllegalIsTraps == ASSUME RefTypeOK, IllegalInsn PROVE Traps
  BY TrapIsTraps DEF IllegalInsn

\* The timer's part of a step touches mip alone.
LEMMA TimedFields ==
    ASSUME RefTypeOK
    PROVE  timed.mepc = mcsr.mepc /\ timed.mstatus = mcsr.mstatus
  BY DEF RefTypeOK, timed, CsrNo

-----------------------------------------------------------------------------
(* Traps and returns *)

\* What the last trap has to give back is in the CSRs.
TrappedKept ==
    \A t \in trapped :
        /\ mcsr.mepc = t.pc
        /\ Field(mcsr.mstatus, 11, 2) = t.priv
        /\ (MPIE \in mcsr.mstatus) <=> t.mie

LEMMA TrapSaves ==
    ASSUME RefTypeOK, NEW cause, NEW tval, Trap(cause, tval)
    PROVE  /\ mcsr'.mepc = pc
           /\ Field(mcsr'.mstatus, 11, 2) = priv
           /\ (MPIE \in mcsr'.mstatus) <=> (MIE \in mcsr.mstatus)
  <1> DEFINE saved == Shl(mcsr.mstatus \cap {MIE}, 4) \cup Shl(priv, 11)
  <1>1. timed \in [DOMAIN CsrNo -> Word] /\ "mepc" \in DOMAIN CsrNo /\ "mstatus" \in DOMAIN CsrNo
    BY TimedTyped DEF CsrNo
  <1>2. mcsr'.mepc = pc /\ mcsr'.mstatus = saved
    BY <1>1, TimedFields DEF Trap
  <1>3. priv \in SUBSET {0, 1}
    BY DEF RefTypeOK
  <1>4. Field(saved, 11, 2) = priv
    <2>1. \A i \in 0..1 : i + 11 \in saved <=> i \in priv
      BY <1>3, Bits DEF Shl, MIE
    <2> HIDE DEF saved
    <2>2. Field(saved, 11, 2) = {i \in 0..1 : i + 11 \in saved}
      BY DEF Field
    <2>3. 0..1 = {0, 1}
      OBVIOUS
    <2> QED BY <1>3, <2>1, <2>2, <2>3
  <1>5. (MPIE \in saved) <=> (MIE \in mcsr.mstatus)
    BY <1>3, Bits DEF Shl, MIE, MPIE
  <1> QED BY <1>2, <1>4, <1>5

\* An instruction that neither traps nor returns nor stores into mepc or
\* mstatus leaves them as they are, up to MIE, which wfi sets.
LEMMA InsnKeeps ==
    ASSUME RefTypeOK, NEW ir, Raw = {ir}, MiniRV32IMAInsn(ir), ~Traps, ~Returns, ~StoresCsr
    PROVE  mcsr'.mepc = mcsr.mepc /\ mcsr'.mstatus \in {mcsr.mstatus, mcsr.mstatus \cup {MIE}}
  <1>1. KeepSystem \/ mcsr' = timed => mcsr'.mepc = mcsr.mepc /\ mcsr'.mstatus = mcsr.mstatus
    BY TimedFields DEF KeepSystem
  <1>2. \A cause, tval : ~Trap(cause, tval)
    BY TrapIsTraps
  <1>3. ~IllegalInsn
    BY IllegalIsTraps
  <1>4. CASE Upper(ir) \/ Jump(ir) \/ Branch(ir) \/ Load(ir) \/ Store(ir) \/ Op(ir) \/ Fence(ir)
    BY <1>1, <1>2, <1>3, <1>4 DEF Upper, Jump, Branch, Load, Store, Op, Fence
  <1>5. CASE Zicsr(ir)
    <2>1. csrno(ir) \notin {CsrNo.mepc, CsrNo.mstatus}
      BY <1>5 DEF StoresCsr, Zicsr
    <2>2. /\ "mepc" \in DOMAIN CsrNo /\ "mstatus" \in DOMAIN CsrNo
          /\ CsrNo["mepc"] # csrno(ir) /\ CsrNo["mstatus"] # csrno(ir)
      BY <2>1 DEF CsrNo
    <2>3. PICK val : mcsr' = [f \in DOMAIN CsrNo |-> IF CsrNo[f] = csrno(ir) THEN val ELSE timed[f]]
      BY <1>5 DEF Zicsr
    <2>4. mcsr'.mepc = timed.mepc /\ mcsr'.mstatus = timed.mstatus
      BY <2>2, <2>3
    <2> QED BY <2>4, TimedFields
  <1>6. ~Mret(ir)
    BY DEF Returns, Mret
  <1>7. CASE System(ir)
    <2>1. mcsr' = [timed EXCEPT !.mstatus = @ \cup {MIE}]
      BY <1>2, <1>3, <1>7 DEF System
    <2>2. timed \in [DOMAIN CsrNo -> Word] /\ "mepc" \in DOMAIN CsrNo /\ "mstatus" \in DOMAIN CsrNo
      BY TimedTyped DEF CsrNo
    <2> QED BY <2>1, <2>2, TimedFields
  <1>8. ~SystemReserved(ir) /\ ~Unknown(ir)
    BY <1>3 DEF SystemReserved, Unknown
  <1>9. CASE Atomic(ir)
    BY <1>1, <1>2, <1>3, <1>9 DEF Atomic
  <1> QED BY <1>4, <1>5, <1>6, <1>7, <1>8, <1>9 DEF MiniRV32IMAInsn

LEMMA TrappedStep == RefTypeOK /\ TrappedKept /\ [RefNext]_refVars => TrappedKept'
  <1> SUFFICES ASSUME RefTypeOK, TrappedKept, [RefNext]_refVars PROVE TrappedKept'
    OBVIOUS
  <1>1. CASE UNCHANGED refVars
    BY <1>1 DEF refVars, core, history, TrappedKept
  <1>2. CASE RefNext /\ asleep
    <2>1. mcsr' = timed /\ trapped' = trapped
      BY <1>2 DEF RefNext, MiniRV32IMAStep, Awake, Sleep, history
    <2> QED BY <2>1, TimedFields DEF TrappedKept
  <1>3. CASE RefNext /\ ~asleep
    <2>1. /\ Record
          /\ \/ Raw = {} /\ \E cause, tval : Trap(cause, tval)
             \/ Raw = {read32(pc)} /\ MiniRV32IMAInsn(read32(pc))
      BY <1>3, StepOfAwake
    <2>2. CASE Traps
      <3>1. trapped' = {[pc |-> pc, priv |-> priv, mie |-> MIE \in mcsr.mstatus]}
        BY <2>1, <2>2 DEF Record
      <3>2. /\ mcsr'.mepc = pc
            /\ Field(mcsr'.mstatus, 11, 2) = priv
            /\ (MPIE \in mcsr'.mstatus) <=> (MIE \in mcsr.mstatus)
        BY <2>2, TrapSaves DEF Traps
      <3> DEFINE t == [pc |-> pc, priv |-> priv, mie |-> MIE \in mcsr.mstatus]
      <3>3. t.pc = pc /\ t.priv = priv /\ t.mie = (MIE \in mcsr.mstatus)
        BY Zenon
      <3>4. trapped' = {t}
        BY <3>1
      <3> HIDE DEF t
      <3>5. ((MPIE \in mcsr'.mstatus) <=> t.mie)
        BY <3>2, <3>3, Zenon
      <3> QED BY <3>2, <3>3, <3>4, <3>5 DEF TrappedKept
    <2>3. CASE ~Traps /\ (Returns \/ StoresCsr)
      <3>1. trapped' = {}
        BY <2>1, <2>3 DEF Record
      <3> QED BY <3>1 DEF TrappedKept
    <2>4. CASE ~Traps /\ ~(Returns \/ StoresCsr)
      <3>1. trapped' = trapped
        BY <2>1, <2>4 DEF Record
      <3>2. Raw = {read32(pc)} /\ MiniRV32IMAInsn(read32(pc))
        BY <2>1, <2>4, TrapIsTraps
      <3>3. mcsr'.mepc = mcsr.mepc /\ mcsr'.mstatus \in {mcsr.mstatus, mcsr.mstatus \cup {MIE}}
        BY <2>4, <3>2, InsnKeeps
      <3>4. /\ Field(mcsr'.mstatus, 11, 2) = Field(mcsr.mstatus, 11, 2)
            /\ (MPIE \in mcsr'.mstatus) <=> (MPIE \in mcsr.mstatus)
        BY <3>3 DEF Field, MIE, MPIE
      <3>5. ASSUME NEW t \in trapped'
            PROVE  /\ mcsr'.mepc = t.pc
                   /\ Field(mcsr'.mstatus, 11, 2) = t.priv
                   /\ (MPIE \in mcsr'.mstatus) <=> t.mie
        <4>1. /\ mcsr.mepc = t.pc
              /\ Field(mcsr.mstatus, 11, 2) = t.priv
              /\ (MPIE \in mcsr.mstatus) <=> t.mie
          BY <3>1 DEF TrappedKept
        <4> QED BY <3>3, <3>4, <4>1, Zenon
      <3> QED BY <3>5 DEF TrappedKept
    <2> QED BY <2>2, <2>3, <2>4
  <1> QED BY <1>1, <1>2, <1>3

\* mret gives back the address, the mode and the interrupt enable that the
\* last trap took, in every guest (mini-rv32ima.h:407-416, 523-532).
THEOREM RefMretCorrect == RefSpec => RefMretUndoesTrap
  <1>1. RefInit => TrappedKept
    BY DEF RefInit, TrappedKept
  <1>2. RefTypeOK /\ TrappedKept /\ [RefNext]_refVars =>
          [~asleep /\ Returns =>
             \A t \in trapped :
                 /\ pc' = t.pc
                 /\ priv' = t.priv
                 /\ (MIE \in mcsr'.mstatus) <=> t.mie]_refVars
    <2> SUFFICES ASSUME RefTypeOK, TrappedKept, RefNext, ~asleep, Returns, NEW t \in trapped
                 PROVE  pc' = t.pc /\ priv' = t.priv /\ ((MIE \in mcsr'.mstatus) <=> t.mie)
      BY DEF refVars
    <2> DEFINE ir == read32(pc)
    <2>1. ir \in Raw /\ Raw = {ir}
      BY DEF Returns, Raw
    <2>2. major(ir) = 115 /\ f3(ir) = 0 /\ IsMret(ir) /\ InBounds(pc) /\ pc \cap {0, 1} = {}
      BY <2>1 DEF Returns, Raw
    <2> HIDE DEF ir
    <2>3. MiniRV32IMAInsn(ir)
      BY <2>2 DEF RefNext, MiniRV32IMAStep, Sleep, Awake, FetchFault, ir
    <2>4. Mret(ir)
      BY <2>2, <2>3 DEF MiniRV32IMAInsn, Upper, Jump, Branch, Load, Store, Op, Fence, Zicsr,
         System, SystemReserved, Atomic, Unknown
    <2>5. pc' = mcsr.mepc /\ priv' = Field(mcsr.mstatus, 11, 2)
      BY <2>4 DEF Mret, Retire
    <2>6. mcsr'.mstatus = Shr(mcsr.mstatus \cap {MPIE}, 4) \cup Shl(priv, 11) \cup {MPIE}
      <3>1. timed \in [DOMAIN CsrNo -> Word] /\ "mstatus" \in DOMAIN CsrNo
        BY TimedTyped DEF CsrNo
      <3> QED BY <2>4, <3>1, TimedFields DEF Mret
    <2>7. (MIE \in mcsr'.mstatus) <=> (MPIE \in mcsr.mstatus)
      <3>1. priv \in SUBSET {0, 1}
        BY DEF RefTypeOK
      <3> QED BY <2>6, <3>1, Bits DEF Shr, Shl, MIE, MPIE
    <2> QED BY <2>5, <2>7 DEF TrappedKept
  <1> QED BY <1>1, <1>2, RefTypeCorrect, TrappedStep, PTL DEF RefSpec, RefMretUndoesTrap

-----------------------------------------------------------------------------
(* lr.w and sc.w *)

\* An index has no bit above 28: MEM_SIZE is at most 2^27.
LEMMA IndexBits ==
    ASSUME NEW n \in Index
    PROVE  BitsOf(n) \in Word /\ BitsOf(n) \cap {29, 30, 31} = {}
  <1> DEFINE p(i) == 2^i
  <1>1. p(29) = 536870912 /\ p(30) = 1073741824
    OBVIOUS
  <1>2. n \in Nat /\ n < 134217728
    BY MemoryAssumption, SMT DEF Index
  <1>3. BitsOf(n) = {i \in Bit : i < 31 /\ (n \div p(i)) % 2 = 1}
    BY DEF BitsOf
  <1> HIDE DEF p
  <1>4. n \div p(29) = 0 /\ n \div p(30) = 0
    BY <1>1, <1>2, SMT
  <1>5. 29 \notin BitsOf(n) /\ 30 \notin BitsOf(n) /\ 31 \notin BitsOf(n)
    BY <1>3, <1>4
  <1> QED BY <1>3, <1>5 DEF Word

\* So two addresses in bounds with the same reservation are the same.
LEMMA SlotTells ==
    ASSUME NEW a \in Word, NEW b \in Word, InBounds(a), InBounds(b), Slot(a) = Slot(b)
    PROVE  a = b
  <1> DEFINE x == wrapping_sub(a, Base)
             y == wrapping_sub(b, Base)
  <1>1. x \cap {29, 30, 31} = {} /\ y \cap {29, 30, 31} = {}
    BY IndexBits DEF InBounds, WordOf
  <1>2. x \ {29, 30, 31} = y \ {29, 30, 31}
    BY DEF Slot
  <1>3. wrapping_add(Base, x) = a /\ wrapping_add(Base, y) = b
    BY AddSub, MemoryAssumption
  <1> HIDE DEF x, y
  <1>4. x = y
    BY <1>1, <1>2
  <1> QED BY <1>3, <1>4

\* The empty reservation is the one of the first word of the RAM.
LEMMA SlotOfBase ==
    InBounds(Base) /\ Slot(Base) = {} /\ Base \in Word
  <1>1. Base \in Word /\ 0 \in Index
    BY MemoryAssumption DEF Index
  <1>2. wrapping_sub(Base, Base) = {}
    BY <1>1, AddZero, SubAdd, EmptyWord
  <1>3. WordOf[0] = {}
    BY <1>1, BitsOfZero DEF WordOf
  <1> QED BY <1>1, <1>2, <1>3 DEF InBounds, Slot

\* The reservation is that of the last lr.w, which was in bounds.
LinkedReserved ==
    /\ linked = {} => reservation = {}
    /\ \A l \in linked : l \in Word /\ InBounds(l) /\ reservation = Slot(l)

\* Only lr.w moves the reservation.
LEMMA InsnReserves ==
    ASSUME RefTypeOK, NEW ir, Raw = {ir}, MiniRV32IMAInsn(ir)
    PROVE  /\ AtomicOp(2) \/ reservation' = reservation
           /\ AtomicOp(2) => reservation' = Slot(r1(ir)) /\ r1(ir) \in Word /\ InBounds(r1(ir))
  <1>1. /\ KeepSystem => reservation' = reservation
        /\ IllegalInsn => reservation' = reservation
        /\ \A cause, tval : Trap(cause, tval) => reservation' = reservation
    BY DEF KeepSystem, IllegalInsn, Trap
  <1>2. AtomicOp(2) <=> major(ir) = 47 /\ Value(Field(ir, 27, 5)) = 2 /\ Accessible(r1(ir), 4)
    BY DEF AtomicOp
  <1>3. CASE Atomic(ir)
    <2> DEFINE addr  == r1(ir)
               irmid == Value(Field(ir, 27, 5))
    <2> HIDE DEF addr, irmid
    <2>1. \/ ~Accessible(addr, 4) /\ Trap({0, 1, 2}, addr)
          \/ irmid # 2 /\ IllegalInsn
          \/ /\ Accessible(addr, 4)
             /\ reservation' = IF irmid = 2 THEN Slot(addr) ELSE reservation
      BY <1>3, Zenon DEF Atomic, addr, irmid
    <2>2. Accessible(addr, 4) => InBounds(addr)
      BY DEF Accessible
    <2>3. addr \in Word
      BY OperandsTyped DEF addr
    <2>4. AtomicOp(2) <=> major(ir) = 47 /\ irmid = 2 /\ Accessible(addr, 4)
      BY <1>2 DEF addr, irmid
    <2>5. Trap({0, 1, 2}, addr) \/ IllegalInsn => reservation' = reservation
      BY <1>1
    <2>6. r1(ir) = addr
      BY DEF addr
    <2>7. irmid = 2 => ~Accessible(addr, 4) \/ reservation' = Slot(addr)
      BY <2>1
    <2>8. irmid # 2 \/ ~Accessible(addr, 4) => AtomicOp(2) \/ reservation' = reservation
      BY <2>1, <2>5
    <2>9. major(ir) = 47
      BY <1>3 DEF Atomic
    <2> QED BY <2>2, <2>3, <2>4, <2>6, <2>7, <2>8, <2>9
  <1>4. CASE ~Atomic(ir)
    <2>1. reservation' = reservation
      BY <1>1, <1>4 DEF MiniRV32IMAInsn, Upper, Jump, Branch, Load, Store, Op, Fence, Zicsr, Mret,
         System, SystemReserved, Unknown
    <2>2. major(ir) # 47
      BY <1>4 DEF MiniRV32IMAInsn, Upper, Jump, Branch, Load, Store, Op, Fence, Zicsr, Mret,
         System, SystemReserved, Unknown
    <2> QED BY <1>2, <2>1, <2>2
  <1> QED BY <1>3, <1>4

LEMMA LinkedStep == RefTypeOK /\ LinkedReserved /\ [RefNext]_refVars => LinkedReserved'
  <1> SUFFICES ASSUME RefTypeOK, LinkedReserved, [RefNext]_refVars PROVE LinkedReserved'
    OBVIOUS
  <1>0. \A l : (InBounds(l)' <=> InBounds(l)) /\ (Slot(l)' = Slot(l))
    BY DEF InBounds, Slot, WordOf
  <1>1. CASE UNCHANGED <<reservation, linked>>
    BY <1>0, <1>1 DEF LinkedReserved
  <1>2. CASE RefNext /\ ~asleep /\ ~UNCHANGED <<reservation, linked>>
    <2> DEFINE ir == read32(pc)
    <2>1. /\ Record
          /\ \/ Raw = {} /\ \E cause, tval : Trap(cause, tval)
             \/ Raw = {ir} /\ MiniRV32IMAInsn(ir)
      BY <1>2, StepOfAwake
    <2>2. linked' = IF AtomicOp(2) THEN {r1(x) : x \in Raw} ELSE linked
      BY <2>1 DEF Record
    <2> HIDE DEF ir
    <2>3. CASE Raw = {ir} /\ MiniRV32IMAInsn(ir)
      <3>1. CASE AtomicOp(2)
        <4>1. reservation' = Slot(r1(ir)) /\ r1(ir) \in Word /\ InBounds(r1(ir))
          BY <2>3, <3>1, InsnReserves
        <4>2. linked' = {r1(ir)}
          BY <2>2, <2>3, <3>1
        <4> QED BY <1>0, <4>1, <4>2 DEF LinkedReserved
      <3>2. CASE ~AtomicOp(2)
        BY <1>2, <2>2, <2>3, <3>2, InsnReserves
      <3> QED BY <3>1, <3>2
    <2>4. CASE Raw = {} /\ \E cause, tval : Trap(cause, tval)
      BY <1>2, <2>2, <2>4 DEF AtomicOp, Trap
    <2> QED BY <2>1, <2>3, <2>4
  <1> QED BY <1>1, <1>2 DEF refVars, core, history, RefNext, MiniRV32IMAStep, Awake, Sleep

\* sc.w stores at the address of the last lr.w and nowhere else, in every
\* guest; before any lr.w, in the first word of the RAM
\* (mini-rv32ima.h:465-472).
THEOREM ScCorrect == RefSpec => ScStoresWhereLinked
  <1>1. RefInit => LinkedReserved
    BY DEF RefInit, InitCore, LinkedReserved
  <1>2. RefTypeOK /\ LinkedReserved /\ [RefNext]_refVars =>
          [~asleep /\ AtomicOp(3) /\ data' # data =>
             \A ir \in Raw : r1(ir) \in IF linked = {} THEN {Base} ELSE linked]_refVars
    <2> SUFFICES ASSUME RefTypeOK, LinkedReserved, RefNext, ~asleep, AtomicOp(3), data' # data,
                        NEW ir \in Raw
                 PROVE  r1(ir) \in IF linked = {} THEN {Base} ELSE linked
      BY DEF refVars
    <2> DEFINE addr == r1(ir)
    <2>1. Raw = {ir} /\ MiniRV32IMAInsn(ir)
      BY StepOfAwake DEF Raw
    <2>2. major(ir) = 47 /\ Value(Field(ir, 27, 5)) = 3 /\ Accessible(addr, 4)
      BY <2>1 DEF AtomicOp
    <2>3. Atomic(ir)
      BY <2>1, <2>2 DEF MiniRV32IMAInsn, Upper, Jump, Branch, Load, Store, Op, Fence, Zicsr,
         Mret, System, SystemReserved, Unknown
    <2>4. reservation = Slot(addr)
      <3>1. \A cause, tval : Trap(cause, tval) => UNCHANGED data
        BY DEF Trap
      <3>2. IllegalInsn => UNCHANGED data
        BY <3>1 DEF IllegalInsn
      <3> QED BY <2>2, <2>3, <3>1, <3>2 DEF Atomic
    <2>5. addr \in Word /\ InBounds(addr)
      BY <2>2, OperandsTyped DEF Accessible
    <2>6. CASE linked = {}
      <3>1. Slot(addr) = Slot(Base)
        BY <2>4, <2>6, SlotOfBase DEF LinkedReserved
      <3>2. addr = Base
        BY <2>5, <3>1, SlotOfBase, SlotTells
      <3> QED BY <2>6, <3>2
    <2>7. CASE linked # {}
      <3>1. PICK l \in linked : TRUE
        BY <2>7
      <3>2. l \in Word /\ InBounds(l) /\ Slot(l) = Slot(addr)
        BY <2>4 DEF LinkedReserved
      <3>3. addr = l
        BY <2>5, <3>2, SlotTells
      <3> QED BY <2>7, <3>3
    <2> QED BY <2>6, <2>7
  <1> QED BY <1>1, <1>2, RefTypeCorrect, LinkedStep, PTL DEF RefSpec, ScStoresWhereLinked
=============================================================================
