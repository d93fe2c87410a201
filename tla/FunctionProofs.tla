--------------------------- MODULE FunctionProofs ---------------------------
(***************************************************************************)
(* The functions without a state, proved: what the results of execute()    *)
(* are as integers and that the reference model has the same, for every    *)
(* width of a word; what the C library of environment v copies, fills,     *)
(* compares and reads; and the period of its shift register.               *)
(***************************************************************************)
EXTENDS MCFunctions, WordTheorems, SequenceTheorems

OperandsInv == a \in Word /\ b \in Word

LEMMA OperandsAreWords == Spec => []OperandsInv
  <1>1. Init => OperandsInv
    BY DEF Init, OperandsInv, Word
  <1>2. ASSUME OperandsInv, [Next]_vars PROVE OperandsInv'
    <2>1. \A w \in Word, i \in Bit : SymDiff(w, {i}) \in Word
      BY DEF SymDiff, Word
    <2>2. CASE FlipA
      BY <1>2, <2>1, <2>2 DEF FlipA, OperandsInv
    <2>3. CASE FlipB
      BY <1>2, <2>1, <2>3 DEF FlipB, OperandsInv
    <2>4. CASE Poke
      BY <1>2, <2>4 DEF Poke, OnMemory, OperandsInv
    <2>5. CASE Write \/ Erase
      BY <1>2, <2>5 DEF Write, Erase, OnText, OperandsInv
    <2>6. CASE UNCHANGED vars
      BY <1>2, <2>6 DEF vars, OperandsInv
    <2> QED BY <1>2, <2>2, <2>3, <2>4, <2>5, <2>6 DEF Next
  <1> QED BY <1>1, <1>2, PTL DEF Spec

-----------------------------------------------------------------------------
(* The orders *)

LEMMA SignedOrder ==
    ASSUME NEW v \in Word, NEW w \in Word
    PROVE  LtI32(v, w) <=> Signed(v) < Signed(w)
  <1> DEFINE m == 2^XLEN
             h == 2^Sign
  <1>1. /\ m = 2 * h /\ h \in Nat \ {0}
        /\ Sign \in v <=> Value(v) >= h
        /\ Sign \in w <=> Value(w) >= h
    BY SignValue
  <1>2. Value(v) \in Nat /\ Value(w) \in Nat /\ Value(v) < m /\ Value(w) < m
    BY ValueBound
  <1>3. LtU32(v, w) <=> Value(v) < Value(w)
    BY ValueOrder
  <1>4. /\ Signed(v) = IF Sign \in v THEN Value(v) - m ELSE Value(v)
        /\ Signed(w) = IF Sign \in w THEN Value(w) - m ELSE Value(w)
    BY DEF Signed, Modulus
  <1> HIDE DEF m, h
  <1>5. m \in Nat
    BY <1>1
  <1>6. CASE (Sign \in v) = (Sign \in w)
    <2>1. LtI32(v, w) <=> LtU32(v, w)
      BY <1>6 DEF LtI32
    <2>2. Sign \in v <=> Sign \in w
      BY <1>6
    <2> QED BY <1>2, <1>3, <1>4, <1>5, <2>1, <2>2
  <1>7. CASE (Sign \in v) # (Sign \in w)
    <2>1. LtI32(v, w) <=> Sign \in v
      BY <1>7 DEF LtI32
    <2>2. Sign \in v <=> Sign \notin w
      BY <1>7
    <2> QED BY <1>1, <1>2, <1>4, <1>5, <2>1, <2>2
  <1> QED BY <1>6, <1>7

\* Equal or below, signed or not: each branch compares the integers its name
\* says, for every width.
THEOREM BranchesCorrect == Spec => []BranchesOrder
  <1>1. ASSUME OperandsInv PROVE BranchesOrder
    <2>1. a \in Word /\ b \in Word
      BY <1>1 DEF OperandsInv
    <2>2. /\ LtU32(a, b) <=> Value(a) < Value(b)
          /\ a = b <=> Value(a) = Value(b)
          /\ LtI32(a, b) <=> Signed(a) < Signed(b)
      BY <2>1, ValueOrder, SignedOrder
    <2>3. /\ Taken("Beq", a, b) <=> a = b
          /\ Taken("Bne", a, b) <=> a # b
          /\ Taken("Blt", a, b) <=> LtI32(a, b)
          /\ Taken("Bge", a, b) <=> ~LtI32(a, b)
          /\ Taken("Bltu", a, b) <=> LtU32(a, b)
          /\ Taken("Bgeu", a, b) <=> ~LtU32(a, b)
      BY DEF Taken
    <2>4. Value(a) \in Int /\ Value(b) \in Int /\ Signed(a) \in Int /\ Signed(b) \in Int
      <3>1. Value(a) \in Nat /\ Value(b) \in Nat
        BY <2>1, ValueBound
      <3>2. Modulus \in Nat
        BY PowerStep, XLENAssumption DEF Modulus
      <3> QED BY <3>1, <3>2 DEF Signed
    <2> QED BY <2>2, <2>3, <2>4 DEF BranchesOrder
  <1>2. [](OperandsInv => BranchesOrder)
    BY <1>1, PTL
  <1> QED BY <1>2, OperandsAreWords, PTL

\* An immediate operation is the register operation of its name, for every
\* width (execute/mod.rs:31-38, 46-50).
THEOREM ImmediatesCorrect == Spec => []ImmediateForms
  <1>1. ImmediateForms
    <2>1. /\ IResult("Addi", a, b) = RResult("Add", a, b)
          /\ IResult("Slti", a, b) = RResult("Slt", a, b)
          /\ IResult("Sltiu", a, b) = RResult("Sltu", a, b)
          /\ IResult("Xori", a, b) = RResult("Xor", a, b)
          /\ IResult("Ori", a, b) = RResult("Or", a, b)
          /\ IResult("Andi", a, b) = RResult("And", a, b)
      BY DEF IResult, RResult
    <2>2. /\ ShiftResult("Slli", a, b \cap 0..4) = RResult("Sll", a, b)
          /\ ShiftResult("Srli", a, b \cap 0..4) = RResult("Srl", a, b)
          /\ ShiftResult("Srai", a, b \cap 0..4) = RResult("Sra", a, b)
      BY DEF ShiftResult, RResult, shamt5
    <2> QED BY <2>1, <2>2 DEF ImmediateForms
  <1> QED BY <1>1, PTL

-----------------------------------------------------------------------------
(* Signs *)

LEMMA SignedIs ==
    ASSUME NEW w \in Word
    PROVE  /\ Signed(w) = IF Sign \in w THEN Value(w) - 2^XLEN ELSE Value(w)
           /\ Signed(w) \in Int
  <1>1. Value(w) \in Nat /\ 2^XLEN \in Nat
    BY ValueBound, PowerStep, XLENAssumption
  <1> QED BY <1>1 DEF Signed, Modulus

\* The sign is that of the byte or halfword, the rest of the value its
\* remainder, for every width of a word and of what is extended to one.
THEOREM SignExtendCorrect == Spec => []SignExtends
  <1>1. ASSUME OperandsInv PROVE SignExtends
    <2> SUFFICES ASSUME NEW n \in 1..XLEN
                 PROVE  Signed(SignExtend(a, n)) =
                          IF n - 1 \in a THEN (Value(a) % 2^n) - 2^n ELSE Value(a) % 2^n
      BY DEF SignExtends
    <2> DEFINE w == SignExtend(a, n)
               r == Value(Low(a, n))
    <2>1. a \in Word /\ w \in Word /\ n \in 0..XLEN /\ n - 1 \in Nat
      BY <1>1, WordClosed DEF OperandsInv
    <2>2. Low(w, n) = Low(a, n)
      <3>1. \A i \in 0..(n - 1) : i \in w <=> i \in a
        <4>1. \A i \in 0..(n - 1) : i \in Bit /\ i < n /\ ~(i >= n)
          BY XLENAssumption DEF Bit
        <4> QED BY <4>1 DEF SignExtend
      <3> QED BY <3>1 DEF Low
    <2>3. r = Value(a) % 2^n /\ r \in Nat
      BY <2>1, ShrValue, LowAll, LowBound
    <2>4. 2^n \in Nat /\ 2^XLEN \in Nat
      BY <2>1, PowerStep, XLENAssumption
    <2>5. CASE n - 1 \in a
      <3>1. n..(XLEN - 1) \subseteq w
        BY <2>1, <2>5 DEF SignExtend, Bit
      <3>2. Sign \in w
        <4>1. Sign \in Bit /\ (Sign >= n \/ Sign = n - 1)
          BY <2>1, XLENAssumption DEF Sign, Bit
        <4> QED BY <2>1, <2>5, <4>1 DEF SignExtend
      <3>3. Value(w) = (r + 2^XLEN) - 2^n
        BY <2>1, <2>2, <3>1, HighOnes
      <3>4. Signed(w) = Value(w) - 2^XLEN
        BY <2>1, <3>2, SignedIs
      <3>5. Signed(w) = r - 2^n
        BY <2>3, <2>4, <3>3, <3>4
      <3> QED BY <2>3, <2>5, <3>5
    <2>6. CASE n - 1 \notin a
      <3>1. w = Low(a, n)
        <4>1. \A i \in Bit : i \in w <=> i < n /\ i \in a
          BY <2>6 DEF SignExtend
        <4>2. w \subseteq Bit /\ a \subseteq Bit /\ \A i \in Bit : i \in 0..(n - 1) <=> i < n
          BY <2>1, XLENAssumption DEF Word, Bit
        <4> QED BY <4>1, <4>2 DEF Low
      <3>2. Sign \notin w
        <4>1. Sign >= n \/ Sign = n - 1
          BY <2>1, XLENAssumption DEF Sign
        <4> QED BY <2>1, <2>6, <4>1, XLENAssumption DEF SignExtend, Bit, Sign
      <3>3. Signed(w) = r
        BY <2>1, <3>1, <3>2, SignedIs
      <3> QED BY <2>3, <2>6, <3>3
    <2> QED BY <2>5, <2>6
  <1>2. [](OperandsInv => SignExtends)
    BY <1>1, PTL
  <1> QED BY <1>2, OperandsAreWords, PTL

LEMMA FloorQuotient ==
    \A x \in Nat, d \in Nat \ {0}, q \in Nat : (x - d * q) \div d = (x \div d) - q
  OBVIOUS

\* An arithmetic shift divides and rounds towards minus infinity.
LEMMA SarValue ==
    ASSUME NEW w \in Word, NEW n \in 0..(XLEN - 1)
    PROVE  Signed(Sar(w, n)) = Signed(w) \div 2^n
  <1> DEFINE k == XLEN - n
             s == Sar(w, n)
             x == Value(w)
             d == 2^n
             q == 2^k
             m == 2^XLEN
             h == Value(Shr(w, n))
  <1>1. n \in 0..XLEN /\ n \in Nat /\ k \in 1..XLEN /\ k \in Nat /\ XLEN = n + k /\ s \in Word
    BY XLENAssumption, WordClosed
  <1>2. d \in Nat \ {0} /\ q \in Nat /\ m \in Nat /\ m = d * q
    <2> HIDE DEF k
    <2> QED BY <1>1, PowerStep, PowerSum, XLENAssumption
  <1>3. h = x \div d /\ x \in Nat /\ h \in Nat
    BY <1>1, ShrValue, WordClosed, ValueBound
  <1>4. Sign \in s <=> Sign \in w
    <2>1. /\ Sign \in Bit
          /\ (n = 0 => Sign + n = Sign) /\ (n # 0 => Sign + n > Sign)
          /\ \A i \in w : i <= Sign
      BY <1>1, XLENAssumption DEF Sign, Bit, Word
    <2> QED BY <1>1, <2>1, XLENAssumption DEF Sar, Sign
  <1>5. CASE Sign \notin w
    <2>1. s = Shr(w, n)
      BY <1>5 DEF Sar, Shr
    <2>2. Signed(s) = h
      BY <1>1, <1>4, <1>5, <2>1, SignedIs
    <2>3. Signed(w) = x
      BY <1>5, SignedIs
    <2> QED BY <1>3, <2>2, <2>3
  <1>6. CASE Sign \in w
    <2>1. k..(XLEN - 1) \subseteq s
      BY <1>1, <1>6, XLENAssumption DEF Sar, Sign, Bit
    <2>2. Low(s, k) = Low(Shr(w, n), k)
      <3>1. \A i \in 0..(k - 1) : i \in Bit /\ ~(i + n > Sign)
        BY <1>1, XLENAssumption DEF Bit, Sign
      <3>2. \A i \in 0..(k - 1) : i \in s <=> i \in Shr(w, n)
        BY <3>1 DEF Sar, Shr
      <3> HIDE DEF k, s
      <3> QED BY <3>2 DEF Low
    <2>3. Low(Shr(w, n), k) = Shr(w, n)
      <3>1. \A i \in Shr(w, n) : i \in 0..(k - 1)
        BY <1>1, XLENAssumption DEF Shr, Word, Bit
      <3> HIDE DEF k
      <3> QED BY <3>1 DEF Low
    <2>4. Value(s) = (h + m) - q
      <3>1. k \in 0..XLEN
        BY <1>1
      <3> HIDE DEF k, s
      <3> QED BY <1>1, <2>1, <2>2, <2>3, <3>1, HighOnes
    <2>5. Signed(s) = Value(s) - m /\ Signed(w) = x - m
      BY <1>1, <1>4, <1>6, SignedIs
    <2>6. Signed(s) = h - q
      <3> HIDE DEF s, h, m, q
      <3> QED BY <1>2, <1>3, <2>4, <2>5
    <2>7. (x - m) \div d = (x \div d) - q
      <3> HIDE DEF x, d, q, m
      <3> QED BY <1>2, <1>3, FloorQuotient
    <2> QED BY <1>3, <2>5, <2>6, <2>7
  <1> QED BY <1>5, <1>6

-----------------------------------------------------------------------------
(* The ten operations *)

\* A shift amount below the width is in the lowest five bits, when the width
\* is at most that of the emulator.
LEMMA ShiftAmount ==
    ASSUME XLEN <= 32, NEW w \in Word, Value(w) < XLEN
    PROVE  shamt5(w) = Value(w)
  <1>1. w \subseteq 0..4
    <2> SUFFICES ASSUME NEW i \in w, i >= 5 PROVE FALSE
      BY XLENAssumption DEF Word, Bit
    <2>1. i \in Nat /\ {i} \in Word /\ {i} \subseteq w
      BY XLENAssumption DEF Word, Bit
    <2>2. Value({i}) = 2^i
      <3>1. {} \in SUBSET Nat /\ IsFiniteSet({}) /\ i \notin {} /\ {} \cup {i} = {i}
        BY FS_EmptySet
      <3>2. Value({} \cup {i}) = Value({}) + 2^i /\ Value({}) = 0
        BY <2>1, <3>1, ValueAdd
      <3>3. 2^i \in Nat
        BY <2>1, PowerStep
      <3> QED BY <3>1, <3>2, <3>3
    <2>3. 2^i >= 32
      <3> DEFINE p(k) == 2^k
      <3>1. p(5) = 32
        OBVIOUS
      <3>2. \A k \in Nat : p(k) \in Nat /\ \A j \in Nat : j < k => p(j) < p(k)
        BY PowerOrder, PowerStep
      <3> HIDE DEF p
      <3>3. p(i) >= 32
        BY <2>1, <3>1, <3>2
      <3> QED BY <3>3 DEF p
    <2>4. Value({i}) <= Value(w) /\ Value(w) \in Nat /\ Value({i}) \in Nat
      BY <2>1, ValueMonotone, ValueBound
    <2> QED BY <2>2, <2>3, <2>4, XLENAssumption
  <1>2. w \cap 0..4 = w
    BY <1>1
  <1> QED BY <1>2 DEF shamt5

LEMMA TruthValue == \A p : Value(BoolWord(p)) = Truth(p)
  <1>1. Value({0}) = 1
    <2>1. {} \in SUBSET Nat /\ IsFiniteSet({}) /\ 0 \in Nat /\ 0 \notin {} /\ {} \cup {0} = {0}
      BY FS_EmptySet
    <2>2. Value({} \cup {0}) = Value({}) + 2^0 /\ Value({}) = 0
      BY <2>1, ValueAdd
    <2> QED BY <2>1, <2>2
  <1> QED BY <1>1, ValueEmpty DEF BoolWord, Truth

\* What each of the ten is, for every pair of operands.
LEMMA SumsAndDifferences ==
    ASSUME NEW v \in Word, NEW w \in Word
    PROVE  /\ Value(RResult("Add", v, w)) = (Value(v) + Value(w)) % Modulus
           /\ Value(RResult("Sub", v, w)) = (Value(v) - Value(w)) % Modulus
  <1> DEFINE m == 2^XLEN
             s == Value(wrapping_add(v, w))
             d == Value(wrapping_sub(v, w))
  <1>1. m \in Nat \ {0} /\ m = Modulus
    BY PowerStep, XLENAssumption DEF Modulus
  <1>2. Value(v) \in Nat /\ Value(w) \in Nat /\ s \in Nat /\ d \in Nat /\ s < m /\ d < m
    BY WordClosed, ValueBound
  <1>3. Value(v) + Value(w) = s \/ Value(v) + Value(w) = s + m
    BY <1>2, AddValue
  <1>4. Value(v) - Value(w) = d \/ Value(v) - Value(w) = d - m
    BY <1>2, SubValue
  <1>5. RResult("Add", v, w) = wrapping_add(v, w) /\ RResult("Sub", v, w) = wrapping_sub(v, w)
    BY DEF RResult
  <1> HIDE DEF m, s, d
  <1>6. \A x \in Nat, y \in Nat \ {0} : x < y => x % y = x /\ (x + y) % y = x /\ (x - y) % y = x
    OBVIOUS
  <1>7. s % m = s /\ (s + m) % m = s /\ d % m = d /\ (d - m) % m = d
    BY <1>1, <1>2, <1>6
  <1>8. s = (Value(v) + Value(w)) % m
    BY <1>3, <1>7
  <1>9. d = (Value(v) - Value(w)) % m
    BY <1>4, <1>7
  <1> QED BY <1>1, <1>5, <1>8, <1>9 DEF s, d

LEMMA BitwiseResults ==
    ASSUME NEW v \in Word, NEW w \in Word
    PROVE  /\ Value(RResult("Or", v, w)) + Value(RResult("And", v, w)) = Value(v) + Value(w)
           /\ Value(RResult("Xor", v, w)) =
                 Value(RResult("Or", v, w)) - Value(RResult("And", v, w))
           /\ \A i \in Bit : Value(RResult("And", v, w)) % 2^(i + 1) <= Value(w) % 2^(i + 1)
  <1>1. /\ RResult("Or", v, w) = v \cup w
        /\ RResult("And", v, w) = v \cap w
        /\ RResult("Xor", v, w) = SymDiff(v, w)
    BY DEF RResult
  <1>2. ASSUME NEW i \in Bit PROVE Value(v \cap w) % 2^(i + 1) <= Value(w) % 2^(i + 1)
    <2> DEFINE n == i + 1
    <2>1. n \in 0..XLEN /\ v \cap w \in Word
      BY XLENAssumption DEF Bit, Word
    <2> HIDE DEF n
    <2>2. /\ Value(v \cap w) % 2^n = Value(Low(v \cap w, n))
          /\ Value(w) % 2^n = Value(Low(w, n))
      BY <2>1, ShrValue
    <2>3. Low(v \cap w, n) \in Word /\ Low(w, n) \in Word /\ Low(v \cap w, n) \subseteq Low(w, n)
      BY DEF Low, Word
    <2>4. Value(Low(v \cap w, n)) <= Value(Low(w, n))
      BY <2>3, ValueMonotone
    <2> QED BY <2>2, <2>4 DEF n
  <1>3. /\ Value(v \cup w) + Value(v \cap w) = Value(v) + Value(w)
        /\ Value(SymDiff(v, w)) = Value(v \cup w) - Value(v \cap w)
    BY LogicValue
  <1> QED BY <1>1, <1>2, <1>3, Zenon

LEMMA ShiftResults ==
    ASSUME XLEN <= 32, NEW v \in Word, NEW w \in Word, Value(w) < XLEN
    PROVE  /\ Value(RResult("Sll", v, w)) = (Value(v) * 2^Value(w)) % Modulus
           /\ Value(RResult("Srl", v, w)) = Value(v) \div 2^Value(w)
           /\ Signed(RResult("Sra", v, w)) = Signed(v) \div 2^Value(w)
  <1> DEFINE n == Value(w)
  <1>1. n \in 0..XLEN /\ n \in 0..(XLEN - 1)
    BY ValueBound, XLENAssumption
  <1>2. shamt5(w) = n
    BY ShiftAmount
  <1>3. /\ RResult("Sll", v, w) = Shl(v, n)
        /\ RResult("Srl", v, w) = Shr(v, n)
        /\ RResult("Sra", v, w) = Sar(v, n)
    BY <1>2 DEF RResult
  <1> HIDE DEF n
  <1>4. /\ Value(Shl(v, n)) = (Value(v) * 2^n) % Modulus
        /\ Value(Shr(v, n)) = Value(v) \div 2^n
        /\ Signed(Sar(v, n)) = Signed(v) \div 2^n
    BY <1>1, ShlValue, ShrValue, SarValue DEF Modulus
  <1> QED BY <1>3, <1>4 DEF n

\* The ten register operations are the integer operations they are named for
\* (execute/mod.rs:12-23), for every width up to that of the emulator: beyond
\* it five bits do not hold every shift amount.
THEOREM ResultsCorrect == ASSUME XLEN <= 32 PROVE Spec => []ResultsAreIntegers
  <1>1. ASSUME OperandsInv PROVE ResultsAreIntegers
    <2>1. a \in Word /\ b \in Word
      BY <1>1 DEF OperandsInv
    <2>2. /\ Ra("Add") = (Value(a) + Value(b)) % Modulus
          /\ Ra("Sub") = (Value(a) - Value(b)) % Modulus
      BY <2>1, SumsAndDifferences DEF Ra
    <2>3. /\ Ra("Slt") = Truth(Signed(a) < Signed(b))
          /\ Ra("Sltu") = Truth(Value(a) < Value(b))
      <3>1. /\ RResult("Slt", a, b) = BoolWord(LtI32(a, b))
            /\ RResult("Sltu", a, b) = BoolWord(LtU32(a, b))
        BY DEF RResult
      <3>2. (LtI32(a, b) <=> Signed(a) < Signed(b)) /\ (LtU32(a, b) <=> Value(a) < Value(b))
        BY <2>1, SignedOrder, ValueOrder
      <3>3. /\ Truth(LtI32(a, b)) = Truth(Signed(a) < Signed(b))
            /\ Truth(LtU32(a, b)) = Truth(Value(a) < Value(b))
        BY <3>2 DEF Truth
      <3> QED BY <3>1, <3>3, TruthValue DEF Ra
    <2>4. /\ Ra("Or") + Ra("And") = Value(a) + Value(b)
          /\ Ra("Xor") = Ra("Or") - Ra("And")
          /\ \A i \in Bit : Ra("And") % 2^(i + 1) <= Value(b) % 2^(i + 1)
      BY <2>1, BitwiseResults DEF Ra
    <2>5. Value(b) < XLEN =>
            /\ Ra("Sll") = (Value(a) * 2^Value(b)) % Modulus
            /\ Ra("Srl") = Value(a) \div 2^Value(b)
            /\ Signed(RResult("Sra", a, b)) = Signed(a) \div 2^Value(b)
      BY <2>1, ShiftResults DEF Ra
    <2> QED BY <2>2, <2>3, <2>4, <2>5 DEF ResultsAreIntegers
  <1>2. [](OperandsInv => ResultsAreIntegers)
    BY <1>1, PTL
  <1> QED BY <1>2, OperandsAreWords, PTL

-----------------------------------------------------------------------------
(* The reference model *)

\* The raw words of AluAgrees have the funct3 they are made from.
LEMMA Funct3 ==
    ASSUME NEW n \in 0..7, NEW bits \in SUBSET {5, 30}
    PROVE  /\ f3(Ir(n, bits)) = n
           /\ is_reg(Ir(n, bits)) <=> 5 \in bits
           /\ 30 \in Ir(n, bits) <=> 30 \in bits
  <1> DEFINE w == Field(Ir(n, bits), 12, 3)
             ones == {k \in 0..2 : (n \div 2^k) % 2 = 1}
  <1>1. w = ones
    <2>1. \A i \in 0..2 : i + 12 \in Ir(n, bits) <=> i \in ones
      <3>1. \A i \in 0..2 : i + 12 # 5 /\ i + 12 # 30
        OBVIOUS
      <3>2. ones \subseteq 0..2
        OBVIOUS
      <3>3. \A i \in 0..2 : i + 12 \in {j + 12 : j \in ones} <=> i \in ones
        <4> HIDE DEF ones
        <4> QED BY <3>2
      <3> HIDE DEF ones
      <3> QED BY <3>1, <3>3 DEF Ir, ones
    <2>2. w = {i \in 0..2 : i + 12 \in Ir(n, bits)}
      BY DEF Field
    <2> HIDE DEF w
    <2> QED BY <2>1, <2>2
  <1>2. /\ 0 \in ones <=> n % 2 = 1
        /\ 1 \in ones <=> (n \div 2) % 2 = 1
        /\ 2 \in ones <=> (n \div 4) % 2 = 1
        /\ 3 \notin ones /\ 4 \notin ones /\ 5 \notin ones /\ 6 \notin ones
    <2>1. 2^0 = 1 /\ 2^1 = 2 /\ 2^2 = 4
      OBVIOUS
    <2> QED BY <2>1
  <1>3. ones \in SUBSET (0..6)
    OBVIOUS
  <1> HIDE DEF ones
  <1>4. Value(ones) = Weight(ones, 0, 1) + Weight(ones, 1, 2) + Weight(ones, 2, 4)
    BY <1>2, <1>3, ValueIs DEF Weight
  <1>5. Value(ones) = n
    BY <1>2, <1>4 DEF Weight
  <1>6. f3(Ir(n, bits)) = n
    BY <1>1, <1>5 DEF f3
  <1>7. \A x \in {5, 30} : x \in Ir(n, bits) <=> x \in bits
    <2>1. \A x \in {5, 30}, i \in 0..2 : x # i + 12
      OBVIOUS
    <2> QED BY <2>1 DEF Ir
  <1> QED BY <1>6, <1>7 DEF is_reg

\* What the shared case of the reference model computes
RefComputes(ir, n, bits, v, w) ==
    /\ n = 0 => Alu(ir, v, w) =
                   IF 5 \in bits /\ 30 \in bits THEN wrapping_sub(v, w) ELSE wrapping_add(v, w)
    /\ n = 1 => Alu(ir, v, w) = Shl(v, Value(w \cap 0..4))
    /\ n = 2 => Alu(ir, v, w) = BoolWord(LtI32(v, w))
    /\ n = 3 => Alu(ir, v, w) = BoolWord(LtU32(v, w))
    /\ n = 4 => Alu(ir, v, w) = SymDiff(v, w)
    /\ n = 5 => Alu(ir, v, w) =
                   IF 30 \in bits THEN Sar(v, Value(w \cap 0..4)) ELSE Shr(v, Value(w \cap 0..4))
    /\ n = 6 => Alu(ir, v, w) = v \cup w
    /\ n = 7 => Alu(ir, v, w) = v \cap w

LEMMA RefComputed ==
    ASSUME NEW n \in 0..7, NEW bits \in SUBSET {5, 30}, NEW v, NEW w
    PROVE  RefComputes(Ir(n, bits), n, bits, v, w)
  <1> SUFFICES ASSUME NEW ir, ir = Ir(n, bits)
               PROVE  RefComputes(ir, n, bits, v, w)
    OBVIOUS
  <1>1. /\ f3(ir) = n
        /\ is_reg(ir) <=> 5 \in bits
        /\ 30 \in ir <=> 30 \in bits
    BY Funct3
  <1>2. AluAdd(ir, v, w) =
           IF 5 \in bits /\ 30 \in bits THEN wrapping_sub(v, w) ELSE wrapping_add(v, w)
    BY <1>1 DEF AluAdd
  <1>3. n = 0 => Alu(ir, v, w) =
           IF 5 \in bits /\ 30 \in bits THEN wrapping_sub(v, w) ELSE wrapping_add(v, w)
    <2>1. n = 0 => Alu(ir, v, w) = AluAdd(ir, v, w)
      BY <1>1 DEF Alu
    <2> QED BY <1>2, <2>1, Zenon
  <1>4. n = 1 => Alu(ir, v, w) = Shl(v, Value(w \cap 0..4))
    BY <1>1 DEF Alu
  <1>5. n = 2 => Alu(ir, v, w) = BoolWord(LtI32(v, w))
    BY <1>1 DEF Alu
  <1>6. n = 3 => Alu(ir, v, w) = BoolWord(LtU32(v, w))
    BY <1>1 DEF Alu
  <1>7. n = 4 => Alu(ir, v, w) = SymDiff(v, w)
    BY <1>1 DEF Alu
  <1>8. n = 5 => Alu(ir, v, w) =
           IF 30 \in bits THEN Sar(v, Value(w \cap 0..4)) ELSE Shr(v, Value(w \cap 0..4))
    BY <1>1 DEF Alu
  <1>9. n = 6 => Alu(ir, v, w) = v \cup w
    BY <1>1 DEF Alu
  <1>10. n = 7 => Alu(ir, v, w) = v \cap w
    BY <1>1 DEF Alu
  <1> QED BY <1>3, <1>4, <1>5, <1>6, <1>7, <1>8, <1>9, <1>10 DEF RefComputes

\* The reference model computes for each operation what the emulator does
\* (mini-rv32ima.h:320-330), for every width and pair of operands.
THEOREM AluAgreesCorrect == Spec => []AluAgrees
  <1>1. AluAgrees
    <2>1. ASSUME NEW op, NEW n,
                 <<op, n>> \in {<<"Add", 0>>, <<"Sll", 1>>, <<"Slt", 2>>, <<"Sltu", 3>>,
                               <<"Xor", 4>>, <<"Srl", 5>>, <<"Or", 6>>, <<"And", 7>>}
          PROVE  RResult(op, a, b) = Alu(Ir(n, OpReg), a, b)
      <3>1. /\ n \in 0..7 /\ OpReg \in SUBSET {5, 30}
            /\ ~(5 \in OpReg /\ 30 \in OpReg) /\ 30 \notin OpReg
        BY <2>1 DEF OpReg
      <3>2. RefComputes(Ir(n, OpReg), n, OpReg, a, b)
        BY <3>1, RefComputed
      <3>3. CASE op \in {"Add", "Slt", "Sltu"}
        BY <2>1, <3>1, <3>2, <3>3 DEF RefComputes, RResult
      <3>4. CASE op \in {"Sll", "Srl"}
        BY <2>1, <3>1, <3>2, <3>4 DEF RefComputes, RResult, shamt5
      <3>5. CASE op \in {"Xor", "Or", "And"}
        BY <2>1, <3>2, <3>5 DEF RefComputes, RResult
      <3> QED BY <2>1, <3>3, <3>4, <3>5
    <2>2. ASSUME NEW op, NEW n, <<op, n>> \in {<<"Sub", 0>>, <<"Sra", 5>>}
          PROVE  RResult(op, a, b) = Alu(Ir(n, OpReg \cup Alt), a, b)
      <3>1. /\ n \in 0..7 /\ OpReg \cup Alt \in SUBSET {5, 30}
            /\ 5 \in OpReg \cup Alt /\ 30 \in OpReg \cup Alt
        BY <2>2 DEF OpReg, Alt
      <3>2. RefComputes(Ir(n, OpReg \cup Alt), n, OpReg \cup Alt, a, b)
        BY <3>1, RefComputed
      <3>3. CASE op = "Sub"
        BY <2>2, <3>1, <3>2, <3>3 DEF RefComputes, RResult
      <3>4. CASE op = "Sra"
        BY <2>2, <3>1, <3>2, <3>4 DEF RefComputes, RResult, shamt5
      <3> QED BY <2>2, <3>3, <3>4
    <2>3. ASSUME NEW bits \in {{}, Alt}, NEW op, NEW n,
                 <<op, n>> \in {<<"Addi", 0>>, <<"Slti", 2>>, <<"Sltiu", 3>>, <<"Xori", 4>>,
                               <<"Ori", 6>>, <<"Andi", 7>>}
          PROVE  IResult(op, a, b) = Alu(Ir(n, bits), a, b)
      <3>1. n \in 0..7 /\ bits \in SUBSET {5, 30} /\ 5 \notin bits
        BY <2>3 DEF Alt
      <3>2. RefComputes(Ir(n, bits), n, bits, a, b)
        BY <3>1, RefComputed
      <3>3. CASE op \in {"Addi", "Slti", "Sltiu"}
        BY <2>3, <3>1, <3>2, <3>3 DEF RefComputes, IResult
      <3>4. CASE op \in {"Xori", "Ori", "Andi"}
        BY <2>3, <3>2, <3>4 DEF RefComputes, IResult
      <3> QED BY <2>3, <3>3, <3>4
    <2>4. /\ ShiftResult("Slli", a, b \cap 0..4) = Alu(Ir(1, {}), a, b)
          /\ ShiftResult("Srli", a, b \cap 0..4) = Alu(Ir(5, {}), a, b)
          /\ ShiftResult("Srai", a, b \cap 0..4) = Alu(Ir(5, Alt), a, b)
      <3>1. /\ RefComputes(Ir(1, {}), 1, {}, a, b)
            /\ RefComputes(Ir(5, {}), 5, {}, a, b)
            /\ RefComputes(Ir(5, Alt), 5, Alt, a, b)
        BY RefComputed DEF Alt
      <3>2. 30 \in Alt
        BY DEF Alt
      <3> QED BY <3>1, <3>2 DEF RefComputes, ShiftResult
    <2>5. \A op \in {<<"Add", 0>>, <<"Sll", 1>>, <<"Slt", 2>>, <<"Sltu", 3>>, <<"Xor", 4>>,
                    <<"Srl", 5>>, <<"Or", 6>>, <<"And", 7>>} :
             RResult(op[1], a, b) = Alu(Ir(op[2], OpReg), a, b)
      BY <2>1
    <2>6. \A op \in {<<"Sub", 0>>, <<"Sra", 5>>} :
             RResult(op[1], a, b) = Alu(Ir(op[2], OpReg \cup Alt), a, b)
      BY <2>2
    <2>7. \A op \in {<<"Addi", 0>>, <<"Slti", 2>>, <<"Sltiu", 3>>, <<"Xori", 4>>, <<"Ori", 6>>,
                    <<"Andi", 7>>}, bits \in {{}, Alt} :
             IResult(op[1], a, b) = Alu(Ir(op[2], bits), a, b)
      BY <2>3
    <2> QED BY <2>4, <2>5, <2>6, <2>7 DEF AluAgrees
  <1> QED BY <1>1, PTL

-----------------------------------------------------------------------------
(* Long division.  A remainder that takes one more bit of the dividend may *)
(* have one bit more than a word: NW is about such words.                  *)

NW == INSTANCE WordTheorems WITH XLEN <- XLEN + 1

LEMMA NextWidth == XLEN + 1 \in Nat \ {0}
  BY XLENAssumption

LEMMA NextWidthSame ==
    /\ \A w : NW!Value(w) = Value(w)
    /\ \A v, w : NW!LtU32(v, w) = LtU32(v, w)
    /\ \A w, n, x : NW!Weight(w, n, x) = Weight(w, n, x)
    /\ \A w, n : NW!Low(w, n) = Low(w, n)
    /\ NW!Bit = 0..XLEN /\ NW!Word = SUBSET (0..XLEN)
  <1>1. \A w : NW!Value(w) = Value(w)
    BY DEF Value, NW!Value, SumSet, NW!SumSet, FoldSet, NW!FoldSet, MapThenFoldSet,
           NW!MapThenFoldSet
  <1>2. \A v, w : NW!LtU32(v, w) = LtU32(v, w)
    BY DEF LtU32, NW!LtU32
  <1>3. \A w, n, x : NW!Weight(w, n, x) = Weight(w, n, x)
    BY DEF Weight, NW!Weight
  <1>4. \A w, n : NW!Low(w, n) = Low(w, n)
    BY DEF Low, NW!Low
  <1>5. NW!Bit = 0..XLEN /\ NW!Word = SUBSET (0..XLEN)
    <2>1. (XLEN + 1) - 1 = XLEN
      BY XLENAssumption
    <2> QED BY <2>1 DEF NW!Bit, NW!Word
  <1> QED BY <1>1, <1>2, <1>3, <1>4, <1>5

\* The bits of a word from i on
LEMMA ShrStep ==
    ASSUME NEW w \in Word, NEW i \in Bit
    PROVE  /\ Value(Shr(w, i)) = Weight(w, i, 1) + 2 * Value(Shr(w, i + 1))
           /\ Value(Shr(w, i)) \in Nat /\ Value(Shr(w, i + 1)) \in Nat
  <1> DEFINE h == Shr(w, i)
  <1>1. h \in Word /\ Shr(w, i + 1) \in Word
    BY WordClosed
  <1>2. Shr(h, 1) = Shr(w, i + 1)
    <2>1. \A j \in Bit : j + 1 \in h <=> j + (i + 1) \in w
      <3> TAKE j \in Bit
      <3>1. (j + 1) + i = j + (i + 1) /\ j \in Int /\ i \in Int
        BY XLENAssumption DEF Bit
      <3>2. j + 1 \notin Bit => j + (i + 1) \notin w
        BY XLENAssumption DEF Bit, Word
      <3> QED BY <3>1, <3>2 DEF Shr
    <2> HIDE DEF h
    <2> QED BY <2>1 DEF Shr
  <1>3. 0 \in h <=> i \in w
    BY XLENAssumption DEF Shr, Bit
  <1>4. Value(h) = Weight(h, 0, 1) + 2 * Value(Shr(h, 1))
    <2> HIDE DEF h
    <2> QED BY <1>1, ValueHalves
  <1>5. Weight(h, 0, 1) = Weight(w, i, 1)
    BY <1>3 DEF Weight
  <1> QED BY <1>1, <1>2, <1>4, <1>5, ValueBound

\* A remainder with one more bit below it
Shifted(v, r, i) == {j + 1 : j \in r} \cup (IF i \in v THEN {0} ELSE {})

LEMMA ShiftedValue ==
    ASSUME NEW v \in Word, NEW r \in Word, NEW w \in Word, NEW i \in Bit
    PROVE  /\ Value(Shifted(v, r, i)) = Weight(v, i, 1) + 2 * Value(r)
           /\ Value(Shifted(v, r, i)) =
                 Value(Shifted(v, r, i) \cap Bit)
                 + (IF XLEN \in Shifted(v, r, i) THEN 2^XLEN ELSE 0)
           /\ LtU32(Shifted(v, r, i), w) <=> Value(Shifted(v, r, i)) < Value(w)
           /\ Shifted(v, r, i) \cap Bit \in Word
  <1> DEFINE s == Shifted(v, r, i)
  <1>1. /\ s \in NW!Word /\ w \in NW!Word
        /\ 0 \in s <=> i \in v
        /\ \A j \in NW!Bit : j + 1 \in s <=> j \in r
        /\ r \subseteq NW!Bit
    <2>1. \A j \in r : j \in 0..(XLEN - 1) /\ j + 1 \in 0..XLEN /\ j + 1 # 0
      BY XLENAssumption DEF Word, Bit
    <2>2. \A j \in w : j \in 0..XLEN
      BY XLENAssumption DEF Word, Bit
    <2>3. 0 \in 0..XLEN
      BY XLENAssumption
    <2>4. s \subseteq 0..XLEN
      BY <2>1, <2>3 DEF Shifted
    <2>5. 0 \in s <=> i \in v
      BY <2>1 DEF Shifted
    <2>6. \A j \in 0..XLEN : j + 1 \in s <=> j \in r
      <3> TAKE j \in 0..XLEN
      <3>1. j + 1 # 0 /\ \A k \in r : k + 1 = j + 1 => k = j
        BY <2>1
      <3> QED BY <3>1 DEF Shifted
    <2> HIDE DEF s
    <2>7. r \subseteq 0..XLEN /\ w \subseteq 0..XLEN
      BY <2>1, <2>2, XLENAssumption
    <2>8. s \in NW!Word /\ w \in NW!Word
      BY <2>4, <2>7, NextWidthSame
    <2>9. r \subseteq NW!Bit /\ \A j \in NW!Bit : j + 1 \in s <=> j \in r
      BY <2>6, <2>7, NextWidthSame
    <2> QED BY <2>5, <2>8, <2>9
  <1> HIDE DEF s
  <1>2. NW!Shr(s, 1) = r
    BY <1>1 DEF NW!Shr
  <1>3. Value(s) = Weight(s, 0, 1) + 2 * Value(r)
    <2>1. NW!Value(s) = NW!Weight(s, 0, 1) + 2 * NW!Value(NW!Shr(s, 1))
      BY <1>1, NextWidth, NW!ValueHalves
    <2> QED BY <1>2, <2>1, NextWidthSame
  <1>4. Weight(s, 0, 1) = Weight(v, i, 1)
    BY <1>1 DEF Weight
  <1>5. LtU32(s, w) <=> Value(s) < Value(w)
    <2>1. NW!LtU32(s, w) <=> NW!Value(s) < NW!Value(w)
      BY <1>1, NextWidth, NW!ValueOrder
    <2> QED BY <2>1, NextWidthSame
  <1>6. Value(s) = Value(s \cap Bit) + (IF XLEN \in s THEN 2^XLEN ELSE 0)
    <2>1. s \in SUBSET Nat /\ XLEN \in Nat /\ Low(s, XLEN + 1) = s /\ Low(s, XLEN) = s \cap Bit
      <3>1. XLEN \in Nat /\ (XLEN + 1) - 1 = XLEN
        BY XLENAssumption
      <3>2. s \subseteq 0..XLEN
        BY <1>1, NextWidthSame
      <3>3. s \in SUBSET Nat
        BY <3>1, <3>2
      <3>4. Low(s, XLEN + 1) = s
        BY <3>1, <3>2 DEF Low
      <3> QED BY <3>1, <3>3, <3>4 DEF Low, Bit
    <2>2. Value(Low(s, XLEN + 1)) = Value(Low(s, XLEN)) + Weight(s, XLEN, 2^XLEN)
      BY <2>1, LowStep
    <2> QED BY <2>1, <2>2 DEF Weight
  <1>7. s \cap Bit \in Word
    BY DEF Word
  <1> QED BY <1>3, <1>4, <1>5, <1>6, <1>7 DEF s

\* What quotient and remainder are once the bits of the dividend from i on
\* are divided
Divided(v, w, acc, i) ==
    /\ acc \in [q : Word, r : Word]
    /\ \A j \in acc.q : j >= i
    /\ Value(acc.r) < Value(w)
    /\ Value(Shr(acc.q, i)) * Value(w) + Value(acc.r) = Value(Shr(v, i))

LEMMA DoubleAndAdd ==
    \A A \in Nat, Q \in Nat, B \in Nat, r \in Nat, c \in Nat :
       Q * B + r = A => /\ (2 * Q) * B + (c + 2 * r) = c + 2 * A
                        /\ (2 * Q + 1) * B + ((c + 2 * r) - B) = c + 2 * A
  OBVIOUS

LEMMA DigitDivides ==
    ASSUME NEW v \in Word, NEW w \in Word, NEW i \in Bit, NEW acc, Divided(v, w, acc, i + 1)
    PROVE  Divided(v, w, Digit(v, w, acc, i), i)
  <1> DEFINE s == Shifted(v, acc.r, i)
             next == Digit(v, w, acc, i)
             c == Weight(v, i, 1)
             A == Value(Shr(v, i + 1))
             Q == Value(Shr(acc.q, i + 1))
             B == Value(w)
             r == Value(acc.r)
  <1>1. /\ acc.q \in Word /\ acc.r \in Word
        /\ acc = [q |-> acc.q, r |-> acc.r]
        /\ \A j \in acc.q : j >= i + 1
    BY DEF Divided
  <1>2. /\ A \in Nat /\ Q \in Nat /\ B \in Nat /\ r \in Nat
        /\ r < B /\ Q * B + r = A
    BY <1>1, WordClosed, ValueBound DEF Divided
  <1>3. c \in {0, 1} /\ Value(Shr(v, i)) = c + 2 * A
    BY ShrStep DEF Weight
  <1>4. /\ Value(s) = c + 2 * r
        /\ Value(s) = Value(s \cap Bit) + (IF XLEN \in s THEN 2^XLEN ELSE 0)
        /\ LtU32(s, w) <=> Value(s) < B
        /\ s \cap Bit \in Word
    BY <1>1, ShiftedValue
  <1>5. /\ (2 * Q) * B + (c + 2 * r) = c + 2 * A
        /\ (2 * Q + 1) * B + ((c + 2 * r) - B) = c + 2 * A
    <2> HIDE DEF c, A, Q, B, r
    <2>1. c \in Nat
      BY <1>3
    <2> QED BY <1>2, <2>1, DoubleAndAdd
  <1>6. next = IF LtU32(s, w) THEN [q |-> acc.q, r |-> s]
               ELSE [q |-> acc.q \cup {i}, r |-> wrapping_sub(s \cap Bit, w)]
    <2>1. [acc EXCEPT !.r = s] = [q |-> acc.q, r |-> s]
      BY <1>1
    <2> QED BY <2>1 DEF Digit, Shifted
  <1>7. /\ Value(Shr(acc.q, i)) = 2 * Q
        /\ acc.q \cup {i} \in Word
        /\ Value(Shr(acc.q \cup {i}, i)) = 2 * Q + 1
    <2>1. i \notin acc.q /\ acc.q \cup {i} \in Word /\ i \in Int
      BY <1>1, XLENAssumption DEF Word, Bit
    <2>2. Value(Shr(acc.q, i)) = 0 + 2 * Q
      BY <1>1, <2>1, ShrStep DEF Weight
    <2>3. Shr(acc.q \cup {i}, i + 1) = Shr(acc.q, i + 1)
      <3>1. \A j \in Bit : j + (i + 1) # i
        BY <2>1 DEF Bit
      <3> QED BY <3>1 DEF Shr
    <2>4. Value(Shr(acc.q \cup {i}, i)) = 1 + 2 * Q
      <3>1. Weight(acc.q \cup {i}, i, 1) = 1
        BY DEF Weight
      <3> QED BY <2>1, <2>3, <3>1, ShrStep
    <2> HIDE DEF Q
    <2> QED BY <1>2, <2>1, <2>2, <2>4
  <1>8. CASE LtU32(s, w)
    <2>1. next = [q |-> acc.q, r |-> s] /\ next.q = acc.q /\ next.r = s
      BY <1>6, <1>8
    <2>2. s \in Word
      <3>1. Value(s) < 2^XLEN /\ Value(s \cap Bit) \in Nat /\ 2^XLEN \in Nat
        BY <1>4, <1>8, ValueBound, PowerStep, XLENAssumption
      <3>2. XLEN \notin s
        <4> HIDE DEF s
        <4> QED BY <1>4, <3>1
      <3>3. s \subseteq Bit \cup {XLEN}
        BY <1>1, XLENAssumption DEF Shifted, Word, Bit
      <3> HIDE DEF s
      <3> QED BY <3>2, <3>3 DEF Word
    <2>3. Value(next.r) < B /\ Value(Shr(next.q, i)) * B + Value(next.r) = Value(Shr(v, i))
      <3> HIDE DEF next, s, c, A, Q, B, r
      <3> QED BY <1>3, <1>4, <1>5, <1>7, <1>8, <2>1
    <2>4. next \in [q : Word, r : Word]
      BY <1>1, <2>1, <2>2
    <2>5. \A j \in next.q : j >= i
      BY <1>1, <2>1, XLENAssumption DEF Word, Bit
    <2> HIDE DEF next
    <2> QED BY <2>3, <2>4, <2>5 DEF Divided, next
  <1>9. CASE ~LtU32(s, w)
    <2> DEFINE d == wrapping_sub(s \cap Bit, w)
               m == 2^XLEN
    <2>1. next = [q |-> acc.q \cup {i}, r |-> d] /\ next.q = acc.q \cup {i} /\ next.r = d
      BY <1>6, <1>9
    <2>2. d \in Word
      BY <1>4, WordClosed
    <2>3. /\ Value(s \cap Bit) - B = Value(d) \/ Value(s \cap Bit) - B = Value(d) - m
          /\ Value(d) \in Nat /\ Value(d) < m /\ m \in Nat /\ B < m
          /\ Value(s \cap Bit) \in Nat
      <3>1. /\ Value(d) \in Nat /\ Value(d) < m /\ m \in Nat /\ B < m
            /\ Value(s \cap Bit) \in Nat
        BY <1>4, <2>2, ValueBound, PowerStep, XLENAssumption
      <3>2. Value(s \cap Bit) - B = Value(d) - (IF LtU32(s \cap Bit, w) THEN m ELSE 0)
        BY <1>4, SubValue
      <3> HIDE DEF d, m, s, B
      <3> QED BY <3>1, <3>2
    <2>4. Value(d) = Value(s) - B
      <3> HIDE DEF d, m, s, c, B, r
      <3>1. Value(s) \in Nat /\ Value(s) >= B /\ Value(s) - B < B
        BY <1>2, <1>3, <1>4, <1>9
      <3>2. Value(s) = Value(s \cap Bit) \/ Value(s) = Value(s \cap Bit) + m
        BY <1>4, <2>3 DEF m
      <3>3. \A S \in Nat, T \in Nat, D \in Nat, C \in Nat, N \in Nat :
               /\ S >= C /\ S - C < C /\ D < N /\ C < N
               /\ S = T \/ S = T + N
               /\ T - C = D \/ T - C = D - N
               => D = S - C
        OBVIOUS
      <3>4. B \in Nat
        BY <1>2
      <3> QED BY <2>3, <3>1, <3>2, <3>3, <3>4
    <2>5. Value(next.r) < B /\ Value(Shr(next.q, i)) * B + Value(next.r) = Value(Shr(v, i))
      <3>1. Value(s) - B < B /\ Value(next.r) = (c + 2 * r) - B
        <4> HIDE DEF next, s, c, B, r, d
        <4> QED BY <1>2, <1>3, <1>4, <2>1, <2>4
      <3> HIDE DEF next, s, c, A, Q, B, r, d
      <3> QED BY <1>3, <1>4, <1>5, <1>7, <2>1, <3>1
    <2>6. next \in [q : Word, r : Word]
      BY <1>7, <2>1, <2>2
    <2>7. \A j \in next.q : j >= i
      BY <1>1, <2>1, XLENAssumption DEF Word, Bit
    <2> HIDE DEF next
    <2> QED BY <2>5, <2>6, <2>7 DEF Divided, next
  <1> QED BY <1>8, <1>9

\* The recursion of a long division has its value, bit by bit from the top.
LEMMA LongDivisionSteps ==
    ASSUME NEW v \in Word, NEW w \in Word
    PROVE  \E after :
              /\ LongDivision(v, w) = after[XLEN]
              /\ after[0] = [q |-> {}, r |-> {}]
              /\ \A k \in 1..XLEN : after[k] = Digit(v, w, after[k - 1], XLEN - k)
  <1> DEFINE D == [q : Word, r : Word]
             base == [q |-> {}, r |-> {}]
             next == [p \in D \X (1..XLEN) |-> Digit(v, w, p[1], XLEN - p[2])]
             body(f) == [k \in 0..XLEN |->
                           IF k = 0 THEN base ELSE Digit(v, w, f[k - 1], XLEN - k)]
             after == CHOOSE f : f = body(f)
  <1>1. LongDivision(v, w) = after[XLEN]
    BY Zenon DEF LongDivision
  <1>2. ASSUME NEW acc \in D, NEW k \in 1..XLEN PROVE Digit(v, w, acc, XLEN - k) \in D
    <2> DEFINE i == XLEN - k
               s == Shifted(v, acc.r, i)
    <2>1. i \in Bit /\ acc.q \in Word /\ acc.r \in Word /\ acc.q \cup {i} \in Word
      BY XLENAssumption DEF Word, Bit
    <2>2. s \cap Bit \in Word /\ wrapping_sub(s \cap Bit, w) \in Word
      BY <2>1, ShiftedValue, WordClosed
    <2>3. LtU32(s, w) => s \in Word
      <3>1. s \subseteq Nat
        BY <2>1, XLENAssumption DEF Shifted, Word, Bit
      <3> HIDE DEF s
      <3> QED BY <3>1, XLENAssumption DEF LtU32, Word, Bit
    <2>4. Digit(v, w, acc, i) =
             IF LtU32(s, w) THEN [acc EXCEPT !.r = s]
             ELSE [q |-> acc.q \cup {i}, r |-> wrapping_sub(s \cap Bit, w)]
      BY DEF Digit, Shifted
    <2> HIDE DEF s, i
    <2>5. Digit(v, w, acc, i) \in D
      BY <2>1, <2>2, <2>3, <2>4
    <2> QED BY <2>5 DEF i
  <1>3. base \in D
    BY DEF Word
  <1>4. next \in [D \X (1..XLEN) -> D]
    BY <1>2
  <1>5. \A p \in D \X (1..XLEN) : next[p] = Digit(v, w, p[1], XLEN - p[2])
    OBVIOUS
  <1> HIDE DEF base, D, next
  <1>6. PICK g \in [0..XLEN -> D] :
           g[0] = base /\ \A k \in 1..XLEN : g[k] = next[<<g[k - 1], k>>]
    <2>1. XLEN \in Nat
      BY XLENAssumption
    <2> HIDE DEF body, after
    <2>2. RecursionSteps(XLEN, D, next)
      BY <1>4 DEF RecursionSteps
    <2>3. RecursionHas(XLEN, D, base, next)
      BY <1>3, <2>1, <2>2, RecursionExists
    <2> QED BY <2>3 DEF RecursionHas, RecursionSolves
  <1>7. g = body(g)
    <2>1. \A k \in 1..XLEN : g[k] = Digit(v, w, g[k - 1], XLEN - k)
      <3> TAKE k \in 1..XLEN
      <3>1. <<g[k - 1], k>> \in D \X (1..XLEN)
        BY XLENAssumption
      <3> QED BY <1>5, <1>6, <3>1
    <2>2. \A k \in 0..XLEN : k # 0 => k \in 1..XLEN
      BY XLENAssumption
    <2> QED BY <1>6, <2>1, <2>2
  <1>8. after = body(after)
    <2> HIDE DEF body
    <2> QED BY <1>7, Zenon
  <1> HIDE DEF after
  <1>9. after[0] = base /\ \A k \in 1..XLEN : after[k] = Digit(v, w, after[k - 1], XLEN - k)
    <2> DEFINE c == body(after)
    <2>1. c[0] = base /\ \A k \in 1..XLEN : c[k] = Digit(v, w, after[k - 1], XLEN - k)
      BY XLENAssumption
    <2> HIDE DEF c
    <2> QED BY <1>8, <2>1 DEF c
  <1> HIDE DEF body
  <1> QED BY <1>1, <1>9 DEF base

\* Quotient and remainder of words, for every divisor but zero
LEMMA LongDivisionDivides ==
    ASSUME NEW v \in Word, NEW w \in Word, w # {}
    PROVE  LET d == LongDivision(v, w)
           IN  /\ d.q \in Word /\ d.r \in Word
               /\ Value(d.r) < Value(w)
               /\ Value(d.q) * Value(w) + Value(d.r) = Value(v)
  <1>1. PICK after : /\ LongDivision(v, w) = after[XLEN]
                     /\ after[0] = [q |-> {}, r |-> {}]
                     /\ \A k \in 1..XLEN : after[k] = Digit(v, w, after[k - 1], XLEN - k)
    BY LongDivisionSteps
  <1> DEFINE S == {k \in 0..XLEN : Divided(v, w, after[k], XLEN - k)}
             n == XLEN
  <1>2. n \in Nat /\ n \in 1..n /\ n \in 0..n
    BY XLENAssumption
  <1>3. 0 \in S
    <2>1. Value(w) > 0
      <3>1. Value(w) # Value({}) /\ Value({}) = 0 /\ Value(w) \in Nat
        BY ValueEmpty, ValueOrder, ValueBound
      <3> QED BY <3>1
    <2>2. \A u \in Word : Shr(u, XLEN - 0) = {}
      BY XLENAssumption DEF Shr, Word, Bit
    <2>3. \A x \in Nat : 0 * x + 0 = 0
      OBVIOUS
    <2>4. Value(w) \in Nat /\ {} \in Word /\ Value({}) = 0
      BY ValueBound, ValueEmpty
    <2>5. after[0].q = {} /\ after[0].r = {} /\ after[0] \in [q : Word, r : Word]
      BY <1>1, <2>4
    <2>6. Value(Shr({}, XLEN - 0)) * Value(w) + Value({}) = Value(Shr(v, XLEN - 0))
      BY <2>2, <2>3, <2>4
    <2>7. Divided(v, w, after[0], XLEN - 0)
      BY <2>1, <2>4, <2>5, <2>6 DEF Divided
    <2> QED BY <1>2, <2>7
  <1>4. ASSUME NEW k \in 0..(XLEN - 1), k \in S PROVE k + 1 \in S
    <2> DEFINE l == k + 1
               i == XLEN - l
    <2>1. l \in 1..XLEN /\ l \in 0..XLEN /\ l - 1 = k /\ i \in Bit /\ XLEN - k = i + 1
      BY XLENAssumption DEF Bit
    <2>2. Divided(v, w, after[k], i + 1)
      BY <1>4, <2>1
    <2>3. after[l] = Digit(v, w, after[k], i)
      BY <1>1, <2>1
    <2> HIDE DEF i
    <2>4. Divided(v, w, after[l], i)
      BY <2>1, <2>2, <2>3, DigitDivides
    <2> HIDE DEF l
    <2>5. l \in S
      BY <2>1, <2>4 DEF i
    <2> QED BY <2>5 DEF l
  <1>5. n \in S
    <2> HIDE DEF S
    <2>1. \A k \in 0..n : k \in S
      BY <1>2, <1>3, <1>4, UpTo
    <2> QED BY <1>2, <2>1
  <1>6. XLEN - XLEN = 0 /\ \A u \in Word : Shr(u, 0) = u
    <2>1. \A j \in Bit : j + 0 = j
      BY XLENAssumption DEF Bit
    <2> QED BY <2>1, XLENAssumption DEF Shr, Word
  <1> DEFINE d == LongDivision(v, w)
  <1>7. Divided(v, w, d, 0)
    BY <1>1, <1>5, <1>6
  <1> HIDE DEF d
  <1>8. /\ d.q \in Word /\ d.r \in Word
        /\ Value(d.r) < Value(w)
        /\ Value(d.q) * Value(w) + Value(d.r) = Value(v)
    BY <1>6, <1>7 DEF Divided
  <1> QED BY <1>8 DEF d

-----------------------------------------------------------------------------
(* Quotients and remainders of integers *)

LEMMA FloorExists ==
    \A x \in Int, n \in Nat \ {0} :
       /\ x = (x % n) + n * (x \div n)
       /\ x % n \in Nat /\ x % n < n /\ x \div n \in Int
  OBVIOUS

LEMMA FloorUnique ==
    \A r \in Nat, n \in Nat \ {0}, k \in Int :
       r < n => (r + n * k) % n = r /\ (r + n * k) \div n = k
  OBVIOUS

LEMMA FloorShift ==
    ASSUME NEW x \in Int, NEW n \in Nat \ {0}, NEW k \in Int
    PROVE  (x + n * k) % n = x % n /\ (x + n * k) \div n = (x \div n) + k
  <1> DEFINE r == x % n
             q == x \div n
  <1>1. x = r + n * q /\ r \in Nat /\ r < n /\ q \in Int
    BY FloorExists
  <1> HIDE DEF r, q
  <1>2. \A i \in Int, j \in Int, l \in Int, s \in Int : (s + i * j) + i * l = s + i * (j + l)
    OBVIOUS
  <1>3. (r + n * q) + n * k = r + n * (q + k)
    BY <1>1, <1>2
  <1>4. q + k \in Int
    BY <1>1
  <1>5. (r + n * (q + k)) % n = r /\ (r + n * (q + k)) \div n = q + k
    BY <1>1, <1>4, FloorUnique
  <1>6. (x + n * k) % n = r /\ (x + n * k) \div n = q + k
    BY <1>1, <1>3, <1>5
  <1> QED BY <1>6 DEF r, q

\* Numbers that differ by a multiple of n have one remainder.
LEMMA SameRemainder ==
    ASSUME NEW x \in Int, NEW y \in Int, NEW n \in Nat \ {0}, NEW k \in Int, x = y + n * k
    PROVE  x % n = y % n
  BY FloorShift

LEMMA RemainderSum ==
    ASSUME NEW x \in Int, NEW y \in Int, NEW n \in Nat \ {0}
    PROVE  ((x % n) + (y % n)) % n = (x + y) % n
  <1> DEFINE r == x % n
             q == x \div n
             s == y % n
             t == y \div n
  <1>1. /\ x = r + n * q /\ r \in Nat /\ q \in Int
        /\ y = s + n * t /\ s \in Nat /\ t \in Int
    BY FloorExists
  <1> HIDE DEF r, q, s, t
  <1>2. \A h \in Int, i \in Int, j \in Int, l \in Int, m \in Int :
           (i + h * j) + (l + h * m) = (i + l) + h * (j + m)
    OBVIOUS
  <1>3. x + y = (r + s) + n * (q + t)
    BY <1>1, <1>2
  <1> DEFINE sum == x + y
             rest == r + s
             times == q + t
  <1>4. sum \in Int /\ rest \in Int /\ times \in Int /\ sum = rest + n * times
    BY <1>1, <1>3
  <1> HIDE DEF sum, rest, times
  <1>5. (rest + n * times) % n = rest % n
    BY <1>4, FloorShift
  <1>6. sum % n = rest % n
    BY <1>4, <1>5
  <1> QED BY <1>6 DEF sum, rest, r, s

\* Remainder and quotient by a divisor n of the divisor n * m
LEMMA RemainderOfRemainder ==
    ASSUME NEW x \in Int, NEW n \in Nat \ {0}, NEW m \in Nat \ {0}, n * m \in Nat \ {0}
    PROVE  /\ (x % (n * m)) % n = x % n
           /\ (x % (n * m)) \div n = (x \div n) % m
  <1> DEFINE d == n * m
             r == x % d
             q == x \div d
             t == r \div n
             u == r % n
  <1>1. x = r + d * q /\ r \in Nat /\ r < d /\ q \in Int
    <2> HIDE DEF d
    <2> QED BY FloorExists DEF d
  <1>2. \A i \in Int, j \in Int, l \in Int : (i * j) * l = i * (j * l)
    OBVIOUS
  <1> HIDE DEF r, q
  <1>3. d * q = n * (m * q) /\ m * q \in Int
    BY <1>1, <1>2
  <1>4. x = r + n * (m * q)
    BY <1>1, <1>3
  <1> DEFINE l == m * q
  <1>5. x % n = r % n /\ x \div n = t + l
    <2>1. x = r + n * l /\ l \in Int /\ r \in Int
      BY <1>1, <1>3, <1>4
    <2> HIDE DEF l
    <2>2. (r + n * l) % n = r % n /\ (r + n * l) \div n = (r \div n) + l
      BY <2>1, FloorShift
    <2> QED BY <2>1, <2>2
  <1>6. r = u + n * t /\ u \in Nat /\ t \in Int
    BY <1>1, FloorExists
  <1> HIDE DEF t, u
  <1>7. t \in Nat /\ t < m
    <2>1. \A i \in Nat \ {0}, j \in Int, k \in Int : i * j < i * k => j < k
      OBVIOUS
    <2>2. \A i \in Nat \ {0}, j \in Int, k \in Nat : k + i * j >= 0 /\ k < i => j >= 0
      OBVIOUS
    <2>3. n * t < n * m /\ u < n
      <3>1. u < n
        BY <1>1, FloorExists DEF u
      <3>2. n * t \in Int
        BY <1>6
      <3> QED BY <1>1, <1>6, <3>1, <3>2
    <2>4. t < m
      BY <1>6, <2>1, <2>3
    <2>5. u + n * t >= 0
      BY <1>1, <1>6
    <2>6. t >= 0
      BY <1>6, <2>2, <2>3, <2>5
    <2> QED BY <1>6, <2>4, <2>6
  <1>8. (t + m * q) % m = t
    BY <1>1, <1>7, FloorUnique
  <1> QED BY <1>5, <1>8 DEF r, t

-----------------------------------------------------------------------------
(* Products.  DW is about words of twice the width. *)

DW == INSTANCE WordTheorems WITH XLEN <- 2 * XLEN

LEMMA DoubleWidth ==
    /\ 2 * XLEN \in Nat \ {0} /\ 2 * XLEN \in Nat /\ XLEN \in 0..(2 * XLEN)
    /\ 2^(2 * XLEN) = 2^XLEN * 2^XLEN
    /\ 2^XLEN \in Nat \ {0} /\ 2^(2 * XLEN) \in Nat \ {0}
  <1> DEFINE m == 2 * XLEN
  <1>1. XLEN \in Nat \ {0} /\ m \in Nat \ {0} /\ m = XLEN + XLEN /\ XLEN \in 0..m
    BY XLENAssumption
  <1> HIDE DEF m
  <1>2. \A k \in Nat : 2^k \in Nat \ {0}
    BY PowerStep
  <1>3. 2^(XLEN + XLEN) = 2^XLEN * 2^XLEN
    BY <1>1, PowerSum
  <1> QED BY <1>1, <1>2, <1>3 DEF m

LEMMA DoubleWidthSame ==
    /\ \A w : DW!Value(w) = Value(w)
    /\ \A v, w : DW!wrapping_add(v, w) = Wide!wrapping_add(v, w)
    /\ \A w, n : DW!Shl(w, n) = Wide!Shl(w, n)
    /\ \A w, n : DW!SignExtend(w, n) = Wide!SignExtend(w, n)
    /\ \A w, n, x : DW!Weight(w, n, x) = Weight(w, n, x)
    /\ \A w, n : DW!Low(w, n) = Low(w, n)
  <1>1. \A w : DW!Value(w) = Value(w)
    BY DEF Value, DW!Value, SumSet, DW!SumSet, FoldSet, DW!FoldSet, MapThenFoldSet,
           DW!MapThenFoldSet
  <1>2. \A v, w : DW!wrapping_add(v, w) = Wide!wrapping_add(v, w)
    BY DEF DW!wrapping_add, Wide!wrapping_add, DW!Carries, Wide!Carries, DW!Xor3, Wide!Xor3,
           DW!Bit, Wide!Bit
  <1>3. \A w, n : DW!Shl(w, n) = Wide!Shl(w, n)
    BY DEF DW!Shl, Wide!Shl, DW!Bit, Wide!Bit
  <1>4. \A w, n : DW!SignExtend(w, n) = Wide!SignExtend(w, n)
    BY DEF DW!SignExtend, Wide!SignExtend, DW!Bit, Wide!Bit
  <1>5. \A w, n, x : DW!Weight(w, n, x) = Weight(w, n, x)
    BY DEF Weight, DW!Weight
  <1>6. \A w, n : DW!Low(w, n) = Low(w, n)
    BY DEF Low, DW!Low
  <1> QED BY <1>1, <1>2, <1>3, <1>4, <1>5, <1>6

\* One partial product more
PartialSum(v, w, x, k) ==
    IF k - 1 \in w THEN Wide!wrapping_add(x, Wide!Shl(v, k - 1)) ELSE x

LEMMA PartialSumTyped ==
    ASSUME NEW v \in DW!Word, NEW w, NEW x \in DW!Word, NEW k
    PROVE  PartialSum(v, w, x, k) \in DW!Word
  <1>1. DW!Shl(v, k - 1) \in DW!Word
    BY DoubleWidth, DW!WordClosed
  <1>2. DW!wrapping_add(x, DW!Shl(v, k - 1)) \in DW!Word
    BY <1>1, DoubleWidth, DW!WordClosed
  <1> QED BY <1>2, DoubleWidthSame DEF PartialSum

LEMMA ProductSteps ==
    ASSUME NEW v \in DW!Word, NEW w
    PROVE  \E sum :
              /\ Product(v, w) = sum[2 * XLEN]
              /\ sum[0] = {}
              /\ \A k \in 1..(2 * XLEN) : sum[k] = PartialSum(v, w, sum[k - 1], k)
  <1> DEFINE n == 2 * XLEN
             D == DW!Word
             step(x, k) == PartialSum(v, w, x, k)
             next == [p \in D \X (1..n) |-> step(p[1], p[2])]
             body(f) == [k \in 0..n |-> IF k = 0 THEN {} ELSE step(f[k - 1], k)]
             sum == CHOOSE f : f = body(f)
  <1>1. Product(v, w) = sum[n]
    <2> DEFINE body2(f) == [k \in 0..n |->
                 IF k = 0 THEN {}
                 ELSE IF k - 1 \in w THEN Wide!wrapping_add(f[k - 1], Wide!Shl(v, k - 1))
                 ELSE f[k - 1]]
    <2>1. Product(v, w) = (CHOOSE f : f = body2(f))[n]
      BY Zenon DEF Product
    <2>2. \A f : body2(f) = body(f)
      BY DEF PartialSum
    <2> HIDE DEF body, body2
    <2> QED BY <2>1, <2>2
  <1>2. n \in Nat /\ n \in Nat \ {0}
    BY DoubleWidth
  <1>3. {} \in D
    BY DEF DW!Word
  <1>4. \A x \in D, k \in 1..n : step(x, k) \in D
    BY PartialSumTyped
  <1> HIDE DEF D, step, n
  <1>5. next \in [D \X (1..n) -> D]
    BY <1>4
  <1>6. \A p \in D \X (1..n) : next[p] = step(p[1], p[2])
    OBVIOUS
  <1> HIDE DEF next
  <1>7. PICK g \in [0..n -> D] :
           g[0] = {} /\ \A k \in 1..n : g[k] = next[<<g[k - 1], k>>]
    <2> HIDE DEF body, sum
    <2>1. RecursionSteps(n, D, next)
      BY <1>5 DEF RecursionSteps
    <2>2. RecursionHas(n, D, {}, next)
      BY <1>2, <1>3, <2>1, RecursionExists
    <2> QED BY <2>2 DEF RecursionHas, RecursionSolves
  <1>8. g = body(g)
    <2>1. \A k \in 1..n : g[k] = step(g[k - 1], k)
      <3> TAKE k \in 1..n
      <3>1. <<g[k - 1], k>> \in D \X (1..n)
        BY <1>2
      <3> QED BY <1>6, <1>7, <3>1
    <2>2. \A k \in 0..n : k # 0 => k \in 1..n
      BY <1>2
    <2> QED BY <1>7, <2>1, <2>2
  <1>9. sum = body(sum)
    <2> HIDE DEF body
    <2> QED BY <1>8, Zenon
  <1> HIDE DEF sum
  <1>10. sum[0] = {} /\ \A k \in 1..n : sum[k] = step(sum[k - 1], k)
    <2> DEFINE c == body(sum)
    <2>1. c[0] = {} /\ \A k \in 1..n : c[k] = step(sum[k - 1], k)
      BY <1>2
    <2> HIDE DEF c
    <2> QED BY <1>9, <2>1 DEF c
  <1> HIDE DEF body
  <1> QED BY <1>1, <1>10 DEF step, n

\* One partial product more, in numbers
LEMMA PartialSumValue ==
    ASSUME NEW v \in DW!Word, NEW w \in DW!Word, NEW x \in DW!Word, NEW k \in 1..(2 * XLEN),
           NEW l \in Nat, Value(x) = (Value(v) * l) % 2^(2 * XLEN)
    PROVE  Value(PartialSum(v, w, x, k))
             = (Value(v) * (l + Weight(w, k - 1, 2^(k - 1)))) % 2^(2 * XLEN)
  <1> DEFINE n == 2 * XLEN
             m == 2^n
             i == k - 1
             p == 2^i
             y == Wide!Shl(v, i)
             s == Wide!wrapping_add(x, y)
             V == Value(v)
  <1>1. i \in 0..n /\ i \in Nat /\ n \in Nat /\ m \in Nat \ {0} /\ p \in Nat
    <2>1. i \in 0..n /\ i \in Nat /\ n \in Nat
      BY DoubleWidth
    <2> HIDE DEF i, n
    <2> QED BY <2>1, PowerStep
  <1>2. V \in Nat
    BY DoubleWidth, DoubleWidthSame, DW!ValueBound
  <1>3. CASE i \notin w
    <2>1. PartialSum(v, w, x, k) = x /\ Weight(w, i, p) = 0
      BY <1>3 DEF PartialSum, Weight
    <2> QED BY <2>1
  <1>4. CASE i \in w
    <2>1. y \in DW!Word /\ Value(y) = (V * p) % m
      <3>1. DW!Shl(v, i) \in DW!Word /\ DW!Value(DW!Shl(v, i)) = (DW!Value(v) * 2^i) % 2^n
        <4> HIDE DEF i
        <4> QED BY <1>1, DoubleWidth, DW!WordClosed, DW!ShlValue DEF n
      <3> QED BY <3>1, DoubleWidthSame
    <2>2. s \in DW!Word /\ Value(s) \in Nat /\ Value(s) < m
      <3> HIDE DEF y
      <3>1. DW!wrapping_add(x, y) \in DW!Word
        BY <2>1, DoubleWidth, DW!WordClosed
      <3>2. s \in DW!Word
        BY <3>1, DoubleWidthSame
      <3> HIDE DEF s
      <3>3. DW!Value(s) \in Nat /\ DW!Value(s) < 2^(2 * XLEN)
        BY <3>2, DoubleWidth, DW!ValueBound
      <3> QED BY <3>2, <3>3, DoubleWidthSame
    <2>3. Value(x) + Value(y) = Value(s) \/ Value(x) + Value(y) = Value(s) + m
      <3> HIDE DEF y
      <3>1. DW!Value(x) + DW!Value(y) = DW!Value(DW!wrapping_add(x, y))
                + (IF DW!CarryInto(x, y, 2 * XLEN) THEN 2^(2 * XLEN) ELSE 0)
        BY <2>1, DoubleWidth, DW!AddValue
      <3>2. Value(x) + Value(y)
               = Value(s) + (IF DW!CarryInto(x, y, 2 * XLEN) THEN m ELSE 0)
        BY <3>1, DoubleWidthSame
      <3> HIDE DEF s, m
      <3> QED BY <1>1, <2>2, <3>2
    <2>4. Value(s) = (Value(x) + Value(y)) % m
      <3> HIDE DEF s, y, m
      <3>1. \A e \in Nat, d \in Nat \ {0} : e < d => e % d = e /\ (e + d) % d = e
        OBVIOUS
      <3>2. Value(s) % m = Value(s) /\ (Value(s) + m) % m = Value(s)
        BY <1>1, <2>2, <3>1
      <3> QED BY <2>3, <3>2
    <2>5. Value(s) = (V * l + V * p) % m
      <3> HIDE DEF m, V, s, y, p
      <3>1. V * l \in Int /\ V * p \in Int
        BY <1>1, <1>2
      <3>2. (((V * l) % m) + ((V * p) % m)) % m = (V * l + V * p) % m
        BY <1>1, <3>1, RemainderSum
      <3>3. Value(x) = (V * l) % m
        BY DEF m, n, V
      <3> QED BY <2>1, <2>4, <3>2, <3>3
    <2>6. V * l + V * p = V * (l + p)
      <3> HIDE DEF V, p
      <3> QED BY <1>1, <1>2
    <2>7. PartialSum(v, w, x, k) = s /\ Weight(w, i, p) = p
      BY <1>4 DEF PartialSum, Weight
    <2> HIDE DEF s, p, V
    <2>8. Value(PartialSum(v, w, x, k)) = (V * (l + Weight(w, i, p))) % m
      BY <2>5, <2>6, <2>7
    <2> QED BY <2>8 DEF V, p
  <1> QED BY <1>3, <1>4

\* The 64 bits of a product are the product of the numbers modulo 2^64.
LEMMA ProductValue ==
    ASSUME NEW v \in DW!Word, NEW w \in DW!Word
    PROVE  /\ Product(v, w) \in DW!Word
           /\ Value(Product(v, w)) = (Value(v) * Value(w)) % 2^(2 * XLEN)
  <1> DEFINE n == 2 * XLEN
             m == 2^n
             V == Value(v)
             low(k) == Value(Low(w, k))
  <1>1. PICK sum : /\ Product(v, w) = sum[n]
                   /\ sum[0] = {}
                   /\ \A k \in 1..n : sum[k] = PartialSum(v, w, sum[k - 1], k)
    BY ProductSteps
  <1>2. n \in Nat /\ n \in Nat \ {0} /\ m \in Nat \ {0}
    BY DoubleWidth
  <1>3. /\ low(0) = 0
        /\ \A k \in Nat : low(k) \in Nat /\ low(k + 1) = low(k) + Weight(w, k, 2^k)
        /\ low(n) = Value(w)
    <2>1. w \in SUBSET Nat /\ Low(w, n) = w
      <3>1. DW!Low(w, 2 * XLEN) = w /\ w \in SUBSET Nat
        BY DoubleWidth, DW!LowAll
      <3> QED BY <3>1, DoubleWidthSame
    <2>2. \A k \in Nat : /\ Value(Low(w, 0)) = 0
                         /\ Value(Low(w, k)) \in Nat
                         /\ Value(Low(w, k + 1)) = Value(Low(w, k)) + Weight(w, k, 2^k)
      BY <2>1, LowStep
    <2>3. 0 \in Nat
      OBVIOUS
    <2> QED BY <2>1, <2>2, <2>3
  <1>4. V \in Nat
    BY DoubleWidth, DoubleWidthSame, DW!ValueBound
  <1> DEFINE S == {k \in 0..n : sum[k] \in DW!Word /\ Value(sum[k]) = (V * low(k)) % m}
  <1>5. 0 \in S
    <2>1. {} \in DW!Word /\ Value({}) = 0
      BY ValueEmpty DEF DW!Word
    <2>2. (V * low(0)) % m = 0
      <3> HIDE DEF V, low, m
      <3>1. \A i \in Nat, d \in Nat \ {0} : (i * 0) % d = 0
        OBVIOUS
      <3> QED BY <1>2, <1>3, <1>4, <3>1
    <2> HIDE DEF V, low, m, n
    <2>3. 0 \in 0..n
      BY <1>2
    <2> QED BY <1>1, <2>1, <2>2, <2>3
  <1>6. ASSUME NEW k \in 0..(n - 1), k \in S PROVE k + 1 \in S
    <2> DEFINE l == k + 1
    <2>1. l \in 1..n /\ l \in 0..n /\ k \in Nat /\ l - 1 = k
      BY <1>2
    <2>2. sum[k] \in DW!Word /\ Value(sum[k]) = (V * low(k)) % m /\ low(k) \in Nat
      BY <1>3, <1>6, <2>1
    <2>3. low(l) = low(k) + Weight(w, k, 2^k)
      BY <1>3, <2>1
    <2>4. sum[l] = PartialSum(v, w, sum[k], l)
      BY <1>1, <2>1
    <2> HIDE DEF l, low
    <2>5. Value(PartialSum(v, w, sum[k], l))
             = (V * (low(k) + Weight(w, l - 1, 2^(l - 1)))) % 2^(2 * XLEN)
      BY <2>1, <2>2, PartialSumValue
    <2>6. Value(sum[l]) = (V * low(l)) % m
      BY <2>1, <2>3, <2>4, <2>5
    <2>7. sum[l] \in DW!Word
      BY <2>2, <2>4, PartialSumTyped
    <2> HIDE DEF V, m, n
    <2>8. l \in S
      BY <2>1, <2>6, <2>7
    <2> QED BY <2>8 DEF l
  <1>7. n \in S
    <2> HIDE DEF S, n
    <2>1. \A k \in 0..n : k \in S
      BY <1>2, <1>5, <1>6, UpTo
    <2>2. n \in 0..n
      BY <1>2
    <2> QED BY <2>1, <2>2
  <1> QED BY <1>1, <1>3, <1>7

\* Its lower and upper half
LEMMA ProductHalves ==
    ASSUME NEW p \in DW!Word
    PROVE  /\ p \cap Bit \in Word /\ High(p) \in Word
           /\ Value(p \cap Bit) = Value(p) % 2^XLEN
           /\ Value(High(p)) = Value(p) \div 2^XLEN
  <1>1. /\ DW!Value(DW!Shr(p, XLEN)) = DW!Value(p) \div 2^XLEN
        /\ DW!Value(DW!Low(p, XLEN)) = DW!Value(p) % 2^XLEN
    BY DoubleWidth, DW!ShrValue
  <1>2. DW!Shr(p, XLEN) = High(p)
    <2>1. \A i \in Bit : i \in DW!Bit
      BY XLENAssumption DEF Bit, DW!Bit
    <2>2. \A i \in DW!Bit : i + XLEN \in p => i \in Bit
      BY XLENAssumption DEF Bit, DW!Bit, DW!Word
    <2> QED BY <2>1, <2>2 DEF DW!Shr, High
  <1>3. Low(p, XLEN) = p \cap Bit
    BY DEF Low, Bit
  <1>4. p \cap Bit \in Word /\ High(p) \in Word
    BY DEF Word, High
  <1> QED BY <1>1, <1>2, <1>3, <1>4, DoubleWidthSame

LEMMA WideWord ==
    ASSUME NEW w \in Word
    PROVE  w \in DW!Word
  BY XLENAssumption DEF Word, Bit, DW!Word, DW!Bit

\* A word extended to twice its width
LEMMA ExtendedValue ==
    ASSUME NEW w \in Word
    PROVE  /\ Extended(w) \in DW!Word
           /\ \E i \in {0, 1} : Value(Extended(w)) = Signed(w) + 2^(2 * XLEN) * i
  <1> DEFINE e == Extended(w)
             m == 2^(2 * XLEN)
             p == 2^XLEN
  <1>1. e \in DW!Word /\ e = DW!SignExtend(w, XLEN)
    <2>1. w \in DW!Word
      BY WideWord
    <2>2. DW!SignExtend(w, XLEN) \in DW!Word
      BY <2>1, DoubleWidth, DW!WordClosed
    <2> QED BY <2>2, DoubleWidthSame DEF Extended
  <1>2. \A i \in DW!Bit : i \in e <=> \/ i < XLEN /\ i \in w
                                      \/ i >= XLEN /\ Sign \in w
    BY <1>1 DEF DW!SignExtend, Sign
  <1>3. e \subseteq DW!Bit /\ \A i \in w : i \in DW!Bit /\ i < XLEN
    BY <1>1, WideWord, XLENAssumption DEF DW!Word, Word, Bit
  <1>4. m \in Nat /\ p \in Nat /\ Value(w) \in Nat
    BY DoubleWidth, ValueBound
  <1> HIDE DEF e
  <1>5. CASE Sign \in w
    <2>1. Low(e, XLEN) = w
      <3>1. \A i \in 0..(XLEN - 1) : i \in DW!Bit /\ i < XLEN /\ ~(i >= XLEN)
        BY XLENAssumption DEF DW!Bit
      <3>2. \A i \in 0..(XLEN - 1) : i \in e <=> i \in w
        BY <1>2, <3>1
      <3>3. w \subseteq 0..(XLEN - 1)
        BY DEF Word, Bit
      <3> QED BY <3>2, <3>3 DEF Low
    <2>2. XLEN..(2 * XLEN - 1) \subseteq e
      <3>1. \A i \in XLEN..(2 * XLEN - 1) : i \in DW!Bit /\ i >= XLEN
        BY XLENAssumption DEF DW!Bit
      <3> QED BY <1>2, <1>5, <3>1
    <2>3. DW!Value(e) = (DW!Value(DW!Low(e, XLEN)) + 2^(2 * XLEN)) - 2^XLEN
      BY <1>1, <2>2, DoubleWidth, DW!HighOnes
    <2>4. Value(e) = (Value(w) + m) - p
      BY <2>1, <2>3, DoubleWidthSame
    <2>5. Signed(w) = Value(w) - p
      BY <1>5, SignedIs
    <2> HIDE DEF m, p
    <2>6. Value(e) = Signed(w) + m * 1
      BY <1>4, <2>4, <2>5
    <2> QED BY <1>1, <2>6 DEF e, m
  <1>6. CASE Sign \notin w
    <2>1. e = w
      BY <1>2, <1>3, <1>6
    <2>2. Value(e) = Signed(w)
      BY <1>6, <2>1, SignedIs
    <2> HIDE DEF m
    <2>3. Value(e) = Signed(w) + m * 0
      BY <1>4, <2>1, <2>2
    <2> QED BY <1>1, <2>3 DEF e, m
  <1> QED BY <1>5, <1>6

\* The range of a signed word, and the word of a number in it
LEMMA SignedRange ==
    ASSUME NEW w \in Word
    PROVE  /\ 2^XLEN = 2 * 2^Sign /\ 2^Sign \in Nat \ {0}
           /\ Signed(w) \in Int /\ -(2^Sign) <= Signed(w) /\ Signed(w) < 2^Sign
           /\ Sign \in w <=> Signed(w) < 0
  <1> DEFINE p == 2^XLEN
             h == 2^Sign
  <1>1. p = 2 * h /\ h \in Nat \ {0} /\ (Sign \in w <=> Value(w) >= h)
    BY SignValue
  <1>2. Value(w) \in Nat /\ Value(w) < p
    BY ValueBound
  <1>3. Signed(w) = IF Sign \in w THEN Value(w) - p ELSE Value(w)
    BY SignedIs
  <1> HIDE DEF p, h
  <1>4. /\ Signed(w) \in Int /\ -h <= Signed(w) /\ Signed(w) < h
        /\ Sign \in w <=> Signed(w) < 0
    BY <1>1, <1>2, <1>3
  <1> QED BY <1>1, <1>4 DEF p, h

LEMMA SignedOf ==
    ASSUME NEW w \in Word, NEW z \in Int, -(2^Sign) <= z, z < 2^Sign, Value(w) = z % 2^XLEN
    PROVE  Signed(w) = z
  <1> DEFINE p == 2^XLEN
             h == 2^Sign
  <1>1. p = 2 * h /\ h \in Nat \ {0} /\ (Sign \in w <=> Value(w) >= h)
    BY SignValue
  <1>2. Signed(w) = IF Sign \in w THEN Value(w) - p ELSE Value(w)
    BY SignedIs
  <1>3. -h <= z /\ z < h /\ Value(w) = z % p
    OBVIOUS
  <1> HIDE DEF p, h
  <1>4. CASE z >= 0
    <2>1. z \in Nat /\ z < p /\ p \in Nat \ {0}
      BY <1>1, <1>3, <1>4
    <2>2. (z + p * 0) % p = z /\ z + p * 0 = z
      BY <2>1, FloorUnique
    <2> QED BY <1>1, <1>2, <1>3, <2>1, <2>2
  <1>5. CASE z < 0
    <2> DEFINE r == z + p
    <2>1. r \in Nat /\ r < p /\ p \in Nat \ {0} /\ z = r + p * (-1) /\ r >= h
      BY <1>1, <1>3, <1>5
    <2> HIDE DEF r
    <2>2. (r + p * (-1)) % p = r
      BY <2>1, FloorUnique
    <2>3. Value(w) = r
      BY <1>3, <2>1, <2>2
    <2> QED BY <1>1, <1>2, <2>1, <2>3 DEF r
  <1> QED BY <1>4, <1>5

LEMMA BoundedProduct ==
    ASSUME NEW h \in Nat, NEW m \in Nat, NEW x \in Int, NEW y \in Int,
           -h <= x, x <= h, -m <= y, y <= m
    PROVE  -(h * m) <= x * y /\ x * y <= h * m
  <1>1. \A i \in Nat, j \in Nat : i <= h /\ j <= m => i * j <= h * m /\ i * j \in Nat
    <2> TAKE i \in Nat, j \in Nat
    <2> HAVE i <= h /\ j <= m
    <2>1. \A c \in Nat, s \in Nat, t \in Nat : s <= t => c * s <= c * t /\ s * c <= t * c
      OBVIOUS
    <2>2. i * j <= i * m /\ i * m <= h * m
      BY <2>1
    <2>3. i * j \in Nat /\ i * m \in Nat /\ h * m \in Nat
      OBVIOUS
    <2> QED BY <2>2, <2>3
  <1>2. h * m \in Nat
    OBVIOUS
  <1>3. CASE x >= 0 /\ y >= 0
    BY <1>1, <1>2, <1>3
  <1>4. CASE x >= 0 /\ y < 0
    <2>1. x * (-y) <= h * m /\ x * (-y) \in Nat
      BY <1>1, <1>4
    <2>2. x * y = -(x * (-y))
      OBVIOUS
    <2> QED BY <1>2, <2>1, <2>2
  <1>5. CASE x < 0 /\ y >= 0
    <2>1. (-x) * y <= h * m /\ (-x) * y \in Nat
      BY <1>1, <1>5
    <2>2. x * y = -((-x) * y)
      OBVIOUS
    <2> QED BY <1>2, <2>1, <2>2
  <1>6. CASE x < 0 /\ y < 0
    <2>1. (-x) * (-y) <= h * m /\ (-x) * (-y) \in Nat
      BY <1>1, <1>6
    <2>2. x * y = (-x) * (-y)
      OBVIOUS
    <2> QED BY <1>2, <2>1, <2>2
  <1> QED BY <1>3, <1>4, <1>5, <1>6

\* The upper half of a product whose factors stand for x and y: the quotient
\* of x * y by 2^XLEN, rounded towards minus infinity.
LEMMA HighOfProduct ==
    ASSUME NEW v \in DW!Word, NEW w \in DW!Word, NEW x \in Int, NEW y \in Int,
           NEW i \in Int, NEW j \in Int,
           Value(v) = x + 2^(2 * XLEN) * i, Value(w) = y + 2^(2 * XLEN) * j,
           -(2^Sign) <= x, x <= 2^Sign, -(2^XLEN - 1) <= y, y <= 2^XLEN - 1
    PROVE  Signed(High(Product(v, w))) = (x * y) \div 2^XLEN
  <1> DEFINE n == 2^(2 * XLEN)
             m == 2^XLEN
             h == 2^Sign
             p == Product(v, w)
             xy == x * y
             z == xy \div m
  <1>1. n = m * m /\ n \in Nat \ {0} /\ m \in Nat \ {0} /\ h \in Nat \ {0}
    BY DoubleWidth, SignValue, ValueEmpty
  <1>2. /\ Value(v) = x + n * i /\ Value(w) = y + n * j
        /\ -h <= x /\ x <= h /\ -(m - 1) <= y /\ y <= m - 1
    OBVIOUS
  <1>3. p \in DW!Word /\ Value(p) = (Value(v) * Value(w)) % n
    BY ProductValue
  <1>4. xy \in Int
    OBVIOUS
  <1> HIDE DEF n, m, h, p, xy
  <1>5. Value(p) = xy % n
    <2> DEFINE k == (i * y + j * x) + n * (i * j)
    <2>1. \A r \in Int, s \in Int, t \in Int, u \in Int, c \in Int :
             (r + c * t) * (s + c * u)
                = r * s + c * ((t * s + u * r) + c * (t * u))
      OBVIOUS
    <2>2. Value(v) * Value(w) = xy + n * k
      <3>1. n \in Int
        BY <1>1
      <3>2. (x + n * i) * (y + n * j) = x * y + n * ((i * y + j * x) + n * (i * j))
        BY <2>1, <3>1
      <3> QED BY <1>2, <3>2 DEF xy
    <2>3. k \in Int
      BY <1>1
    <2> HIDE DEF k
    <2>4. (xy + n * k) % n = xy % n
      BY <1>1, <1>4, <2>3, FloorShift
    <2> QED BY <1>3, <2>2, <2>4
  <1>6. -(h * m) <= xy /\ xy < h * m
    <2> DEFINE l == m - 1
    <2>1. l \in Nat /\ -l <= y /\ y <= l /\ h \in Nat
      BY <1>1, <1>2
    <2> HIDE DEF l
    <2>2. -(h * l) <= xy /\ xy <= h * l
      BY <1>2, <2>1, BoundedProduct DEF xy
    <2>3. \A s \in Nat, t \in Nat : s * (t - 1) = s * t - s /\ s * t \in Nat
      OBVIOUS
    <2>4. h * l = h * m - h /\ h * m \in Nat
      BY <1>1, <2>1, <2>3 DEF l
    <2> QED BY <1>1, <1>4, <2>1, <2>2, <2>4
  <1>7. xy = (xy % m) + m * z /\ xy % m \in Nat /\ xy % m < m /\ z \in Int
    BY <1>1, <1>4, FloorExists
  <1>8. -h <= z /\ z < h
    <2> DEFINE r == xy % m
    <2> HIDE DEF r, z
    <2>1. r \in Nat /\ r < m /\ xy = r + m * z
      BY <1>7 DEF r
    <2>2. \A s \in Nat \ {0}, t \in Int, u \in Int, q \in Nat :
             q < s /\ -(t * s) <= q + s * u => -t <= u
      <3> TAKE s \in Nat \ {0}, t \in Int, u \in Int, q \in Nat
      <3> HAVE q < s /\ -(t * s) <= q + s * u
      <3>1. 0 <= q + s * (u + t) /\ u + t \in Int
        <4>1. s * (u + t) = s * u + t * s /\ s * u \in Int /\ t * s \in Int
          OBVIOUS
        <4> QED BY <4>1
      <3>2. \A c \in Int : c < 0 => s * c <= -s
        OBVIOUS
      <3>3. ~(u + t < 0)
        <4>1. s * (u + t) \in Int
          OBVIOUS
        <4> QED BY <3>1, <3>2, <4>1
      <3> QED BY <3>3
    <2>3. \A s \in Nat \ {0}, t \in Int, u \in Int, q \in Nat :
             q + s * u < t * s => u < t
      <3> TAKE s \in Nat \ {0}, t \in Int, u \in Int, q \in Nat
      <3> HAVE q + s * u < t * s
      <3>1. 0 < s * (t - u) /\ t - u \in Int
        <4>1. s * (t - u) = t * s - s * u /\ s * u \in Int /\ t * s \in Int
          OBVIOUS
        <4> QED BY <4>1
      <3>2. \A c \in Int : c <= 0 => s * c <= 0
        OBVIOUS
      <3> QED BY <3>1, <3>2
    <2>4. h \in Int /\ m \in Nat \ {0} /\ z \in Int
      BY <1>1, <1>7
    <2>5. -h <= z
      BY <1>6, <2>1, <2>2, <2>4
    <2>6. z < h
      BY <1>6, <2>1, <2>3, <2>4
    <2> QED BY <2>5, <2>6
  <1>9. Value(High(p)) = z % m
    <2>1. Value(High(p)) = Value(p) \div m
      BY <1>3, ProductHalves DEF m
    <2>2. m * m \in Nat \ {0}
      BY <1>1
    <2>3. (xy % (m * m)) \div m = (xy \div m) % m
      BY <1>1, <1>4, <2>2, RemainderOfRemainder
    <2> QED BY <1>1, <1>5, <2>1, <2>3
  <1> HIDE DEF z
  <1>10. High(p) \in Word
    BY <1>3, ProductHalves
  <1>11. -(2^Sign) <= z /\ z < 2^Sign /\ Value(High(p)) = z % 2^XLEN /\ z \in Int
    BY <1>7, <1>8, <1>9 DEF h, m
  <1>12. Signed(High(p)) = z
    <2> DEFINE u == High(p)
    <2>1. u \in Word /\ Value(u) = z % 2^XLEN
      BY <1>10, <1>11
    <2> HIDE DEF u
    <2>2. Signed(u) = z
      BY <1>11, <2>1, SignedOf
    <2> QED BY <2>2 DEF u
  <1> QED BY <1>12 DEF p, z, xy, m

-----------------------------------------------------------------------------
(* Signed division *)

LEMMA NegValue ==
    ASSUME NEW w \in Word
    PROVE  /\ Neg(w) \in Word
           /\ Value(Neg(w)) = IF Value(w) = 0 THEN 0 ELSE 2^XLEN - Value(w)
  <1> DEFINE m == 2^XLEN
             d == wrapping_sub({}, w)
  <1>1. {} \in Word /\ Value({}) = 0 /\ d \in Word
    BY ValueEmpty, WordClosed
  <1>2. /\ Value({}) - Value(w) = Value(d) - (IF LtU32({}, w) THEN m ELSE 0)
        /\ LtU32({}, w) <=> Value({}) < Value(w)
    BY <1>1, SubValue, ValueOrder
  <1>3. Value(w) \in Nat /\ Value(d) \in Nat /\ m \in Nat
    BY <1>1, ValueBound, PowerStep, XLENAssumption
  <1> HIDE DEF m, d
  <1>4. Value(d) = IF Value(w) = 0 THEN 0 ELSE m - Value(w)
    BY <1>1, <1>2, <1>3
  <1> QED BY <1>1, <1>4 DEF Neg, m, d

LEMMA AbsValue ==
    ASSUME NEW w \in Word
    PROVE  /\ Abs(w) \in Word
           /\ Value(Abs(w)) = Magnitude(Signed(w))
           /\ w # {} => Abs(w) # {}
  <1> DEFINE m == 2^XLEN
             h == 2^Sign
  <1>1. m = 2 * h /\ h \in Nat \ {0} /\ (Sign \in w <=> Value(w) >= h)
    BY SignValue
  <1>2. Value(w) \in Nat /\ Value(w) < m
    BY ValueBound
  <1>3. Signed(w) = IF Sign \in w THEN Value(w) - m ELSE Value(w)
    BY SignedIs
  <1>4. Neg(w) \in Word /\ Value(Neg(w)) = IF Value(w) = 0 THEN 0 ELSE m - Value(w)
    BY NegValue
  <1>5. Abs(w) = IF Sign \in w THEN Neg(w) ELSE w
    BY DEF Abs
  <1> HIDE DEF m, h
  <1>6. Value(Abs(w)) = Magnitude(Signed(w))
    BY <1>1, <1>2, <1>3, <1>4, <1>5 DEF Magnitude
  <1>7. Abs(w) \in Word
    BY <1>4, <1>5
  <1>8. Value({}) = 0 /\ (w # {} => Value(w) # 0)
    BY ValueEmpty, ValueOrder
  <1>9. w # {} => Value(Abs(w)) # 0
    BY <1>1, <1>2, <1>4, <1>5, <1>8
  <1> QED BY <1>6, <1>7, <1>8, <1>9

\* A number with its sign put back, as far as a word can hold it
LEMMA NegIfValue ==
    ASSUME NEW w \in Word, NEW c \in BOOLEAN
    PROVE  LET z == IF c THEN -Value(w) ELSE Value(w)
           IN  /\ \E k \in Int : Signed(NegIf(c, w)) = z + 2^XLEN * k
               /\ Value(w) < 2^Sign => Signed(NegIf(c, w)) = z
  <1> DEFINE m == 2^XLEN
             h == 2^Sign
             n == NegIf(c, w)
             z == IF c THEN -Value(w) ELSE Value(w)
  <1>1. n \in Word /\ Value(n) = IF c /\ Value(w) # 0 THEN m - Value(w) ELSE Value(w)
    BY NegValue DEF NegIf
  <1>2. Value(w) \in Nat /\ Value(w) < m
    BY ValueBound
  <1>3. /\ m = 2 * h /\ h \in Nat \ {0}
        /\ Signed(n) = IF Value(n) >= h THEN Value(n) - m ELSE Value(n)
    <2> HIDE DEF n
    <2> QED BY <1>1, SignValue, SignedIs
  <1> HIDE DEF m, h, n
  <1>4. z \in Int /\ (Signed(n) = z + m * 0 \/ Signed(n) = z + m * 1 \/ Signed(n) = z + m * (-1))
    BY <1>1, <1>2, <1>3
  <1>5. Value(w) < h => Signed(n) = z
    BY <1>1, <1>2, <1>3
  <1> HIDE DEF z
  <1>6. \E k \in Int : Signed(n) = z + m * k
    BY <1>4
  <1> QED BY <1>5, <1>6 DEF m, h, n, z

\* Quotient and remainder recombine to the dividend modulo 2^XLEN, the
\* remainder is below the divisor and has the sign of the dividend.
Recombines(q, r, v, w) ==
    /\ (Signed(q) * Signed(w) + Signed(r) - Signed(v)) % 2^XLEN = 0
    /\ Magnitude(Signed(r)) < Magnitude(Signed(w))
    /\ Signed(r) # 0 => (Signed(r) < 0 <=> Signed(v) < 0)

LEMMA SignedDivision ==
    ASSUME NEW v \in Word, NEW w \in Word, w # {}
    PROVE  Recombines(SignedQuotient(v, w), SignedRemainder(v, w), v, w)
  <1> DEFINE m == 2^XLEN
             h == 2^Sign
             d == LongDivision(Abs(v), Abs(w))
             x == Signed(v)
             y == Signed(w)
             Q == Value(d.q)
             R == Value(d.r)
             q == Signed(SignedQuotient(v, w))
             r == Signed(SignedRemainder(v, w))
  <1>1. /\ m \in Nat \ {0} /\ h \in Nat
        /\ x \in Int /\ (Sign \in v <=> x < 0)
        /\ y \in Int /\ -h <= y /\ y < h /\ (Sign \in w <=> y < 0)
    <2>1. m \in Nat \ {0}
      BY DoubleWidth
    <2> HIDE DEF m
    <2> QED BY <2>1, SignedRange
  <1>2. /\ d.q \in Word /\ d.r \in Word /\ Q \in Nat /\ R \in Nat
        /\ R < Magnitude(y)
        /\ Q * Magnitude(y) + R = Magnitude(x)
    <2>1. /\ Abs(v) \in Word /\ Value(Abs(v)) = Magnitude(x)
          /\ Abs(w) \in Word /\ Value(Abs(w)) = Magnitude(y) /\ Abs(w) # {}
      BY AbsValue
    <2> HIDE DEF x, y
    <2>2. /\ d.q \in Word /\ d.r \in Word
          /\ R < Value(Abs(w)) /\ Q * Value(Abs(w)) + R = Value(Abs(v))
      BY <2>1, LongDivisionDivides
    <2> QED BY <2>1, <2>2, ValueBound
  <1> DEFINE t == IF (x < 0) # (y < 0) THEN -Q ELSE Q
             s == IF x < 0 THEN -R ELSE R
  <1>3. PICK k \in Int : q = t + m * k
    <2> DEFINE c == (Sign \in v) # (Sign \in w)
    <2>1. c \in BOOLEAN /\ (c <=> (x < 0) # (y < 0))
      BY <1>1
    <2>2. SignedQuotient(v, w) = NegIf(c, d.q)
      BY DEF SignedQuotient
    <2> HIDE DEF c, d, x, y, m
    <2>3. \E k \in Int : Signed(NegIf(c, d.q)) = (IF c THEN -Q ELSE Q) + m * k
      BY <1>2, <2>1, NegIfValue DEF m
    <2> QED BY <2>1, <2>2, <2>3
  <1>4. r = s
    <2> DEFINE c == Sign \in v
    <2>1. c \in BOOLEAN /\ (c <=> x < 0)
      BY <1>1
    <2>2. SignedRemainder(v, w) = NegIf(c, d.r)
      BY DEF SignedRemainder
    <2>3. R < h
      <3> HIDE DEF x, y, h, R
      <3> QED BY <1>1, <1>2 DEF Magnitude
    <2> HIDE DEF c, d, x, y
    <2>4. Signed(NegIf(c, d.r)) = IF c THEN -R ELSE R
      BY <1>2, <2>1, <2>3, NegIfValue
    <2> QED BY <2>1, <2>2, <2>4
  <1> HIDE DEF m, h, d, x, y, Q, R, q, r
  <1>5. t * y + s - x = 0 /\ t \in Int /\ s \in Int
    <2>1. \A i \in Int, j \in Int :
             (-i) * j = -(i * j) /\ i * (-j) = -(i * j) /\ (-i) * (-j) = i * j
      OBVIOUS
    <2>2. Magnitude(y) = (IF y < 0 THEN -y ELSE y) /\ Magnitude(x) = IF x < 0 THEN -x ELSE x
      BY DEF Magnitude
    <2>3. t * y = IF x < 0 THEN -(Q * Magnitude(y)) ELSE Q * Magnitude(y)
      <3>1. CASE y < 0
        <4>1. Magnitude(y) = -y /\ Q * (-y) = -(Q * y) /\ (-Q) * y = -(Q * y) /\ Q * y \in Int
          BY <1>1, <1>2, <2>1, <2>2, <3>1
        <4> QED BY <3>1, <4>1
      <3>2. CASE ~(y < 0)
        <4>1. Magnitude(y) = y /\ (-Q) * y = -(Q * y) /\ Q * y \in Int
          BY <1>1, <1>2, <2>1, <2>2, <3>2
        <4> QED BY <3>2, <4>1
      <3> QED BY <3>1, <3>2
    <2>4. Q * Magnitude(y) \in Int
      BY <1>1, <1>2, <2>2
    <2>5. t \in Int /\ s \in Int
      BY <1>2
    <2> DEFINE QB == Q * Magnitude(y)
               ty == t * y
    <2>6. /\ ty = (IF x < 0 THEN -QB ELSE QB) /\ QB + R = Magnitude(x) /\ QB \in Int
      BY <1>2, <2>3, <2>4
    <2> HIDE DEF QB, ty
    <2>7. ty + s - x = 0
      BY <1>1, <1>2, <2>2, <2>6
    <2> QED BY <2>5, <2>7 DEF ty
  <1> HIDE DEF t
  <1>6. (q * y + r - x) % m = 0
    <2>1. \A i \in Int, j \in Int, l \in Int, c \in Int, e \in Int, f \in Int :
             (i + j * l) * c + e - f = (i * c + e - f) + j * (l * c)
      OBVIOUS
    <2>2. q * y + r - x = 0 + m * (k * y) /\ k * y \in Int
      <3>1. (t + m * k) * y + s - x = (t * y + s - x) + m * (k * y)
        BY <1>1, <1>5, <2>1
      <3>2. k * y \in Int
        BY <1>1
      <3> QED BY <1>3, <1>4, <1>5, <3>1, <3>2
    <2>3. (0 + m * (k * y)) % m = 0
      <3>1. 0 \in Nat /\ 0 < m
        BY <1>1
      <3> QED BY <1>1, <2>2, <3>1, FloorUnique
    <2> QED BY <2>2, <2>3
  <1>7. Magnitude(r) < Magnitude(y)
    BY <1>1, <1>2, <1>4 DEF Magnitude
  <1>8. r # 0 => (r < 0 <=> x < 0)
    BY <1>1, <1>2, <1>4
  <1> QED BY <1>6, <1>7, <1>8 DEF Recombines, m, q, r, x, y

-----------------------------------------------------------------------------
(* RV32M *)

\* The operands of the signed overflow
LEMMA Extremes ==
    /\ IntMin \in Word /\ Signed(IntMin) = -(2^Sign)
    /\ AllOnes \in Word /\ Signed(AllOnes) = -1
  <1> DEFINE m == 2^XLEN
             h == 2^Sign
  <1>1. Sign \in Nat /\ Sign \in Bit /\ 0 \in 0..XLEN /\ Bit = 0..(XLEN - 1)
    BY XLENAssumption DEF Sign, Bit
  <1>2. IntMin \in Word /\ AllOnes \in Word /\ Sign \in IntMin /\ Sign \in AllOnes
    BY <1>1 DEF IntMin, AllOnes, Word
  <1>3. m = 2 * h /\ h \in Nat
    BY ValueEmpty, SignValue
  <1>4. Value(IntMin) = h
    <2>1. {} \in SUBSET Nat /\ IsFiniteSet({}) /\ Sign \notin {} /\ {} \cup {Sign} = {Sign}
      BY FS_EmptySet
    <2>2. Value({} \cup {Sign}) = Value({}) + 2^Sign /\ Value({}) = 0
      BY <1>1, <2>1, ValueAdd
    <2> HIDE DEF h
    <2> QED BY <1>3, <2>1, <2>2 DEF IntMin, h
  <1>5. Value(AllOnes) = m - 1
    <2>1. Value(AllOnes) = (Value(Low(AllOnes, 0)) + m) - 2^0
      BY <1>1, <1>2, HighOnes DEF AllOnes
    <2>2. AllOnes \in SUBSET Nat /\ 0 \in Nat
      BY <1>1 DEF AllOnes
    <2>3. Value(Low(AllOnes, 0)) = 0
      BY <2>2, LowStep
    <2>4. 2^0 = 1
      OBVIOUS
    <2> HIDE DEF m
    <2> QED BY <1>3, <2>1, <2>3, <2>4
  <1>6. Signed(IntMin) = Value(IntMin) - m /\ Signed(AllOnes) = Value(AllOnes) - m
    BY <1>2, SignedIs
  <1> HIDE DEF m, h
  <1>7. Signed(IntMin) = -h /\ Signed(AllOnes) = -1
    BY <1>3, <1>4, <1>5, <1>6
  <1> QED BY <1>2, <1>7 DEF h

LEMMA OverflowRecombines == Recombines(IntMin, {}, IntMin, AllOnes)
  <1> DEFINE h == 2^Sign
             m == 2^XLEN
  <1>1. Signed(IntMin) = -h /\ Signed(AllOnes) = -1
    BY Extremes
  <1>2. {} \in Word /\ Value({}) = 0 /\ Sign \notin {}
    BY ValueEmpty
  <1>3. Signed({}) = 0
    BY <1>2, SignedIs
  <1>4. m = 2 * h /\ h \in Nat \ {0}
    BY <1>2, SignValue
  <1> HIDE DEF h, m
  <1>5. (-h) * (-1) + 0 - (-h) = m
    BY <1>4
  <1>6. m % m = 0
    <2>1. m \in Nat \ {0} /\ 0 < m /\ 0 \in Nat /\ m = 0 + m * 1
      BY <1>4
    <2>2. (0 + m * 1) % m = 0
      BY <2>1, FloorUnique
    <2> QED BY <2>1, <2>2
  <1>7. (Signed(IntMin) * Signed(AllOnes) + Signed({}) - Signed(IntMin)) % m = 0
    BY <1>1, <1>3, <1>5, <1>6
  <1>8. Magnitude(Signed({})) < Magnitude(Signed(AllOnes))
    BY <1>1, <1>3 DEF Magnitude
  <1> QED BY <1>3, <1>7, <1>8 DEF Recombines, m

\* What the case of RV32M computes for each of its eight operations
LEMMA MulDivComputes ==
    LET overflow == a = IntMin /\ b = AllOnes
    IN  /\ M(0) = Product(a, b) \cap Bit
        /\ M(1) = High(Product(Extended(a), Extended(b)))
        /\ M(2) = High(Product(Extended(a), b))
        /\ M(3) = High(Product(a, b))
        /\ M(4) = IF b = {} THEN AllOnes ELSE IF overflow THEN a ELSE SignedQuotient(a, b)
        /\ M(5) = IF b = {} THEN AllOnes ELSE LongDivision(a, b).q
        /\ M(6) = IF b = {} THEN a ELSE IF overflow THEN {} ELSE SignedRemainder(a, b)
        /\ M(7) = IF b = {} THEN a ELSE LongDivision(a, b).r
  <1>1. \A n \in 0..7 : f3(Ir(n, OpReg)) = n
    <2>1. OpReg \in SUBSET {5, 30}
      BY DEF OpReg
    <2> QED BY <2>1, Funct3
  <1>2. M(0) = Product(a, b) \cap Bit
    BY <1>1 DEF M, MulDiv
  <1>3. M(1) = High(Product(Extended(a), Extended(b)))
    BY <1>1 DEF M, MulDiv
  <1>4. M(2) = High(Product(Extended(a), b))
    BY <1>1 DEF M, MulDiv
  <1>5. M(3) = High(Product(a, b))
    BY <1>1 DEF M, MulDiv
  <1>6. M(4) = IF b = {} THEN AllOnes
               ELSE IF a = IntMin /\ b = AllOnes THEN a ELSE SignedQuotient(a, b)
    BY <1>1 DEF M, MulDiv
  <1>7. M(5) = IF b = {} THEN AllOnes ELSE LongDivision(a, b).q
    BY <1>1 DEF M, MulDiv
  <1>8. M(6) = IF b = {} THEN a
               ELSE IF a = IntMin /\ b = AllOnes THEN {} ELSE SignedRemainder(a, b)
    BY <1>1 DEF M, MulDiv
  <1>9. M(7) = IF b = {} THEN a ELSE LongDivision(a, b).r
    BY <1>1 DEF M, MulDiv
  <1> QED BY <1>2, <1>3, <1>4, <1>5, <1>6, <1>7, <1>8, <1>9

\* The four products
LEMMA Products ==
    ASSUME a \in Word, b \in Word
    PROVE  /\ Value(M(0)) = (Value(a) * Value(b)) % Modulus
           /\ Signed(M(1)) = (Signed(a) * Signed(b)) \div Modulus
           /\ Signed(M(2)) = (Signed(a) * Value(b)) \div Modulus
           /\ Value(M(3)) = (Value(a) * Value(b)) \div Modulus
  <1> DEFINE m == 2^XLEN
             n == 2^(2 * XLEN)
             h == 2^Sign
             p == Product(a, b)
  <1>1. /\ m \in Nat \ {0} /\ n = m * m /\ n \in Nat \ {0} /\ m * m \in Nat \ {0}
        /\ m = 2 * h /\ h \in Nat \ {0}
    <2>1. m = 2 * h /\ h \in Nat \ {0}
      BY SignValue
    <2>2. m \in Nat \ {0} /\ n = m * m /\ n \in Nat \ {0}
      BY DoubleWidth
    <2> QED BY <2>1, <2>2
  <1>2. a \in DW!Word /\ b \in DW!Word
    BY WideWord
  <1>3. /\ Value(a) \in Nat /\ Value(a) < m /\ Value(b) \in Nat /\ Value(b) < m
    BY ValueBound
  <1>4. /\ Value(p \cap Bit) = ((Value(a) * Value(b)) % n) % m
        /\ Value(High(p)) = ((Value(a) * Value(b)) % n) \div m
    <2>1. p \in DW!Word /\ Value(p) = (Value(a) * Value(b)) % n
      BY <1>2, ProductValue
    <2> HIDE DEF p, n
    <2>2. Value(p \cap Bit) = Value(p) % m /\ Value(High(p)) = Value(p) \div m
      BY <2>1, ProductHalves
    <2> QED BY <2>1, <2>2
  <1>5. /\ Signed(a) \in Int /\ -h <= Signed(a) /\ Signed(a) < h
        /\ Signed(b) \in Int /\ -h <= Signed(b) /\ Signed(b) < h
    BY SignedRange
  <1>6. PICK i \in {0, 1} : Value(Extended(a)) = Signed(a) + n * i
    BY ExtendedValue
  <1>7. PICK j \in {0, 1} : Value(Extended(b)) = Signed(b) + n * j
    BY ExtendedValue
  <1>8. Extended(a) \in DW!Word /\ Extended(b) \in DW!Word
    BY ExtendedValue
  <1> HIDE DEF m, n, h
  <1>9. Value(b) = Value(b) + n * 0
    BY <1>1, <1>3
  <1>10. /\ -h <= Signed(a) /\ Signed(a) <= h
         /\ -(m - 1) <= Signed(b) /\ Signed(b) <= m - 1
         /\ -(m - 1) <= Value(b) /\ Value(b) <= m - 1
         /\ i \in Int /\ j \in Int /\ 0 \in Int /\ Value(b) \in Int
    BY <1>1, <1>3, <1>5, <1>6, <1>7
  <1>11. Signed(High(Product(Extended(a), Extended(b)))) = (Signed(a) * Signed(b)) \div m
    <2> DEFINE x == Signed(a)
               y == Signed(b)
               v == Extended(a)
               w == Extended(b)
    <2>1. /\ v \in DW!Word /\ w \in DW!Word /\ x \in Int /\ y \in Int /\ i \in Int /\ j \in Int
          /\ Value(v) = x + 2^(2 * XLEN) * i /\ Value(w) = y + 2^(2 * XLEN) * j
          /\ -(2^Sign) <= x /\ x <= 2^Sign /\ -(2^XLEN - 1) <= y /\ y <= 2^XLEN - 1
      BY <1>5, <1>6, <1>7, <1>8, <1>10 DEF m, n, h
    <2> HIDE DEF x, y, v, w
    <2>2. Signed(High(Product(v, w))) = (x * y) \div 2^XLEN
      BY <2>1, HighOfProduct
    <2> QED BY <2>2 DEF x, y, v, w, m
  <1>12. Signed(High(Product(Extended(a), b))) = (Signed(a) * Value(b)) \div m
    <2> DEFINE x == Signed(a)
               y == Value(b)
               v == Extended(a)
               w == b
               l == 0
    <2>1. /\ v \in DW!Word /\ w \in DW!Word /\ x \in Int /\ y \in Int /\ i \in Int /\ l \in Int
          /\ Value(v) = x + 2^(2 * XLEN) * i /\ Value(w) = y + 2^(2 * XLEN) * l
          /\ -(2^Sign) <= x /\ x <= 2^Sign /\ -(2^XLEN - 1) <= y /\ y <= 2^XLEN - 1
      BY <1>2, <1>5, <1>6, <1>8, <1>9, <1>10 DEF m, n, h
    <2> HIDE DEF x, y, v, w, l
    <2>2. Signed(High(Product(v, w))) = (x * y) \div 2^XLEN
      BY <2>1, HighOfProduct
    <2> QED BY <2>2 DEF x, y, v, w, m
  <1> DEFINE z == Value(a) * Value(b)
  <1>13. z \in Int /\ (z % n) % m = z % m
    <2>1. z \in Int
      BY <1>3
    <2> HIDE DEF z
    <2>2. (z % (m * m)) % m = z % m
      BY <1>1, <2>1, RemainderOfRemainder
    <2> QED BY <1>1, <2>1, <2>2
  <1>14. z % n = z
    <2>1. \A s \in Nat, t \in Nat, u \in Nat : s < u /\ t < u => s * t < u * u /\ s * t \in Nat
      <3> TAKE s \in Nat, t \in Nat, u \in Nat
      <3> HAVE s < u /\ t < u
      <3>1. \A c \in Nat, d \in Nat, e \in Nat : d <= e => c * d <= c * e /\ d * c <= e * c
        OBVIOUS
      <3>2. \A c \in Nat \ {0}, d \in Nat, e \in Nat : d < e => d * c < e * c
        OBVIOUS
      <3>3. s * t <= s * u /\ s * u < u * u
        BY <3>1, <3>2
      <3>4. s * t \in Nat /\ s * u \in Nat /\ u * u \in Nat
        OBVIOUS
      <3> QED BY <3>3, <3>4
    <2>2. z < n /\ z \in Nat
      BY <1>1, <1>3, <2>1
    <2> HIDE DEF z
    <2>3. z + n * 0 = z /\ 0 \in Int
      BY <1>1, <2>2
    <2>4. (z + n * 0) % n = z
      BY <1>1, <2>2, <2>3, FloorUnique
    <2> QED BY <2>3, <2>4
  <1> HIDE DEF z
  <1>15. /\ M(0) = p \cap Bit
         /\ M(1) = High(Product(Extended(a), Extended(b)))
         /\ M(2) = High(Product(Extended(a), b))
         /\ M(3) = High(p)
    BY MulDivComputes
  <1> HIDE DEF p
  <1>16. m = Modulus
    BY DEF m, Modulus
  <1>17. Value(M(0)) = z % m /\ Value(M(3)) = z \div m
    BY <1>4, <1>13, <1>14, <1>15 DEF z
  <1>18. /\ Signed(M(1)) = (Signed(a) * Signed(b)) \div m
         /\ Signed(M(2)) = (Signed(a) * Value(b)) \div m
    BY <1>11, <1>12, <1>15
  <1> QED BY <1>16, <1>17, <1>18 DEF z

\* The products, quotients and remainders of RV32M in the reference model
\* are those of integers, with the results of the ISA where there are none,
\* for every width and pair of operands (mini-rv32ima.h:300-317).
THEOREM MulDivCorrect == Spec => []MulDivIntegers
  <1>1. ASSUME OperandsInv PROVE MulDivIntegers
    <2>1. a \in Word /\ b \in Word
      BY <1>1 DEF OperandsInv
    <2>2. /\ Value(M(0)) = (Value(a) * Value(b)) % Modulus
          /\ Signed(M(1)) = (Signed(a) * Signed(b)) \div Modulus
          /\ Signed(M(2)) = (Signed(a) * Value(b)) \div Modulus
          /\ Value(M(3)) = (Value(a) * Value(b)) \div Modulus
      BY <2>1, Products
    <2>3. b = {} => M(4) = Bit /\ M(5) = Bit /\ M(6) = a /\ M(7) = a
      BY MulDivComputes DEF AllOnes
    <2>4. ASSUME b # {}
          PROVE  /\ Value(M(5)) * Value(b) + Value(M(7)) = Value(a)
                 /\ Value(M(7)) < Value(b)
      <3>1. M(5) = LongDivision(a, b).q /\ M(7) = LongDivision(a, b).r
        BY <2>4, MulDivComputes
      <3> QED BY <2>1, <2>4, <3>1, LongDivisionDivides
    <2>5. ASSUME b # {} PROVE Recombines(M(4), M(6), a, b)
      <3>1. CASE a = IntMin /\ b = AllOnes
        <4>1. M(4) = a /\ M(6) = {}
          BY <2>5, <3>1, MulDivComputes
        <4> QED BY <3>1, <4>1, OverflowRecombines
      <3>2. CASE ~(a = IntMin /\ b = AllOnes)
        <4>1. M(4) = SignedQuotient(a, b) /\ M(6) = SignedRemainder(a, b)
          BY <2>5, <3>2, MulDivComputes
        <4> QED BY <2>1, <2>5, <4>1, SignedDivision
      <3> QED BY <3>1, <3>2
    <2>6. b # {} =>
             /\ (Signed(M(4)) * Signed(b) + Signed(M(6)) - Signed(a)) % Modulus = 0
             /\ Magnitude(Signed(M(6))) < Magnitude(Signed(b))
             /\ Signed(M(6)) # 0 => (Signed(M(6)) < 0 <=> Signed(a) < 0)
      BY <2>5 DEF Recombines, Modulus
    <2> QED BY <2>2, <2>3, <2>4, <2>6 DEF MulDivIntegers
  <1>2. [](OperandsInv => MulDivIntegers)
    BY <1>1, PTL
  <1> QED BY <1>2, OperandsAreWords, PTL

-----------------------------------------------------------------------------
(* The C library, on a memory of any size *)

\* A memory of n + 1 bytes
OfSize(data, n) == n \in Nat /\ data \in [0..n -> Int]

\* The bytes of src copied to dest, so far as the first len of them
CopyOf(data, n, dest, src, len) ==
    [c \in 0..n |-> IF c \in Region(dest, len) THEN data[src + c - dest] ELSE data[c]]

\* The iterations of memcpy go over the length, no more and no less.
LEMMA IterationsCover ==
    ASSUME NEW dest \in Nat, NEW src \in Nat, NEW len \in Nat
    PROVE  LET unit == MemcpyUnit(dest, src, len)
           IN  /\ unit \in Nat \ {0} /\ Iterations(len, unit) \in Nat
               /\ Iterations(len, unit) * unit = len
  <1> DEFINE unit == MemcpyUnit(dest, src, len)
  <1>1. CASE unit = 1
    <2>1. \A l \in Nat : (l + 1 - 1) \div 1 = l /\ l * 1 = l
      OBVIOUS
    <2> QED BY <1>1, <2>1 DEF Iterations
  <1>2. CASE unit = PTR /\ len % PTR = 0
    <2>1. \A l \in Nat : l % 4 = 0 =>
             (l + 4 - 1) \div 4 \in Nat /\ ((l + 4 - 1) \div 4) * 4 = l
      OBVIOUS
    <2>2. \A l \in Nat : l % 8 = 0 =>
             (l + 8 - 1) \div 8 \in Nat /\ ((l + 8 - 1) \div 8) * 8 = l
      OBVIOUS
    <2>3. PTR = 4 \/ PTR = 8
      BY StringAssumption
    <2> QED BY <1>2, <2>1, <2>2, <2>3 DEF Iterations
  <1>3. unit = 1 \/ (unit = PTR /\ len % PTR = 0)
    BY DEF MemcpyUnit, Aligned
  <1> QED BY <1>1, <1>2, <1>3

\* memcpy copies, by words or by bytes, where the two regions do not meet.
LEMMA MemcpyCopies ==
    ASSUME NEW n, NEW data, OfSize(data, n),
           NEW dest \in Nat, NEW src \in Nat, NEW len \in Nat,
           Region(dest, len) \subseteq 0..n, Region(src, len) \subseteq 0..n,
           Region(dest, len) \cap Region(src, len) = {}
    PROVE  memcpy(data, dest, src, len) = CopyOf(data, n, dest, src, len)
  <1> DEFINE unit == MemcpyUnit(dest, src, len)
             N == Iterations(len, unit)
             step(x, k) ==
                LET d == dest + (k - 1) * unit
                    s == src + (k - 1) * unit
                IN  [c \in 0..n |-> IF c \in d..(d + unit - 1) THEN x[s + c - d] ELSE x[c]]
             body(f) == [k \in 0..N |-> IF k = 0 THEN data ELSE step(f[k - 1], k)]
             after == CHOOSE f : f = body(f)
             copy(k) == CopyOf(data, n, dest, src, k * unit)
             g == [k \in 0..N |-> copy(k)]
  <1>0. n \in Nat /\ data \in [0..n -> Int]
    BY DEF OfSize
  <1>1. memcpy(data, dest, src, len) = after[N]
    <2>1. DOMAIN data = 0..n
      BY <1>0
    <2> DEFINE body2(f) ==
                 [k \in 0..N |->
                    IF k = 0 THEN data
                    ELSE LET d == dest + (k - 1) * unit
                             s == src + (k - 1) * unit
                         IN  [c \in DOMAIN data |->
                                IF c \in d..(d + unit - 1) THEN f[k - 1][s + c - d]
                                ELSE f[k - 1][c]]]
    <2>2. memcpy(data, dest, src, len) = (CHOOSE f : f = body2(f))[N]
      BY Zenon DEF memcpy
    <2>3. \A f : body2(f) = body(f)
      BY <2>1
    <2> HIDE DEF body, body2
    <2> QED BY <2>2, <2>3
  <1>2. unit \in Nat \ {0} /\ N \in Nat /\ N * unit = len
    BY IterationsCover
  <1> HIDE DEF unit, N
  <1>3. copy(0) = data
    <2>1. 0 * unit = 0
      BY <1>2
    <2>2. Region(dest, 0) = {}
      BY DEF Region
    <2>3. data = [c \in 0..n |-> data[c]]
      BY <1>0
    <2> QED BY <2>1, <2>2, <2>3 DEF CopyOf
  <1>4. ASSUME NEW k \in 1..N PROVE step(copy(k - 1), k) = copy(k)
    <2> DEFINE o == (k - 1) * unit
               x == copy(k - 1)
    <2>1. o \in Nat /\ k * unit = o + unit /\ o + unit <= len
      <3>1. \A i \in Nat, j \in Nat, u \in Nat : i <= j => i * u <= j * u
        OBVIOUS
      <3>2. k * unit <= N * unit
        BY <1>2, <3>1
      <3>3. \A i \in Nat \ {0}, u \in Nat :
               (i - 1) * u \in Nat /\ i * u = (i - 1) * u + u /\ i * u \in Nat
        OBVIOUS
      <3>4. k \in Nat \ {0} /\ unit \in Nat
        BY <1>2
      <3>5. o \in Nat /\ k * unit = o + unit
        BY <3>3, <3>4
      <3> QED BY <1>2, <3>2, <3>5
    <2>2. x = CopyOf(data, n, dest, src, o)
      OBVIOUS
    <2> HIDE DEF x
    <2>3. step(x, k) = [c \in 0..n |->
             IF c \in (dest + o)..((dest + o) + unit - 1) THEN x[(src + o) + c - (dest + o)]
             ELSE x[c]]
      OBVIOUS
    <2> HIDE DEF o, step
    <2>4. ASSUME NEW c \in 0..n
          PROVE  (IF c \in (dest + o)..((dest + o) + unit - 1)
                  THEN x[(src + o) + c - (dest + o)] ELSE x[c])
                 = IF c \in Region(dest, o + unit) THEN data[src + c - dest] ELSE data[c]
      <3>1. CASE c \in (dest + o)..((dest + o) + unit - 1)
        <4>1. /\ c \in Region(dest, o + unit)
              /\ (src + o) + c - (dest + o) = src + c - dest
              /\ src + c - dest \in Region(src, len)
          BY <1>2, <2>1, <3>1 DEF Region
        <4>2. src + c - dest \in 0..n /\ src + c - dest \notin Region(dest, o)
          <5>1. Region(dest, o) \subseteq Region(dest, len)
            BY <1>2, <2>1 DEF Region
          <5> QED BY <4>1, <5>1
        <4>3. x[src + c - dest] = data[src + c - dest]
          BY <2>2, <4>2 DEF CopyOf
        <4> QED BY <3>1, <4>1, <4>3
      <3>2. CASE c \notin (dest + o)..((dest + o) + unit - 1)
        <4>1. c \in Region(dest, o + unit) <=> c \in Region(dest, o)
          BY <1>2, <2>1, <3>2 DEF Region
        <4>2. x[c] = IF c \in Region(dest, o) THEN data[src + c - dest] ELSE data[c]
          BY <2>2 DEF CopyOf
        <4> QED BY <3>2, <4>1, <4>2
      <3> QED BY <3>1, <3>2
    <2>5. step(x, k) = CopyOf(data, n, dest, src, o + unit)
      BY <2>3, <2>4 DEF CopyOf
    <2> QED BY <2>1, <2>5 DEF x
  <1> HIDE DEF step, copy
  <1>5. \A k \in 0..N : k # 0 => k \in 1..N /\ k - 1 \in 0..N
    BY <1>2
  <1>6. g = body(g)
    <2>1. \A k \in 0..N : g[k] = IF k = 0 THEN data ELSE step(g[k - 1], k)
      BY <1>3, <1>4, <1>5
    <2>2. g = [k \in 0..N |-> g[k]]
      OBVIOUS
    <2> HIDE DEF g
    <2> QED BY <2>1, <2>2
  <1>7. after = body(after)
    <2> HIDE DEF body, g
    <2> QED BY <1>6, Zenon
  <1> HIDE DEF after
  <1>8. \A k \in 0..N : after[k] = IF k = 0 THEN data ELSE step(after[k - 1], k)
    <2> DEFINE c == body(after)
    <2>1. \A k \in 0..N : c[k] = IF k = 0 THEN data ELSE step(after[k - 1], k)
      OBVIOUS
    <2> HIDE DEF c
    <2> QED BY <1>7, <2>1 DEF c
  <1> HIDE DEF body, g
  <1> DEFINE S == {k \in 0..N : after[k] = copy(k)}
  <1>9. 0 \in S
    BY <1>2, <1>3, <1>8
  <1>10. ASSUME NEW k \in 0..(N - 1), k \in S PROVE k + 1 \in S
    <2> DEFINE l == k + 1
    <2>1. l \in 1..N /\ l \in 0..N /\ l - 1 = k /\ l # 0
      BY <1>2
    <2> HIDE DEF l
    <2>2. after[l] = step(copy(l - 1), l)
      BY <1>8, <1>10, <2>1
    <2>3. l \in S
      BY <1>4, <2>1, <2>2
    <2> QED BY <2>3 DEF l
  <1>11. after[N] = copy(N)
    <2>1. \A k \in 0..N : k \in S
      <3> HIDE DEF S
      <3> QED BY <1>2, <1>9, <1>10, UpTo
    <2>2. N \in 0..N
      BY <1>2
    <2> QED BY <2>1, <2>2
  <1> QED BY <1>1, <1>2, <1>11 DEF copy

\* In such a memory every string has an end.
Ended(data, n) == OfSize(data, n) /\ data[n] = 0

\* A string of len bytes and a final 0
IsString(data, n, s, len) ==
    /\ len \in Nat /\ s + len \in 0..n
    /\ data[s + len] = 0
    /\ \A i \in 0..(len - 1) : data[s + i] # 0

\* strlen counts the bytes before the first that is 0.
LEMMA StrlenIs ==
    ASSUME NEW n, NEW data, Ended(data, n), NEW s \in 0..n
    PROVE  IsString(data, n, s, strlen(data, s))
  <1> DEFINE go == {p \in 0..n : data[p] # 0}
             val == [p \in 0..n |-> p]
             body(f) == [p \in DOMAIN data |-> IF data[p] = 0 THEN p ELSE f[p + 1]]
  <1>0. n \in Nat /\ DOMAIN data = 0..n /\ data[n] = 0
    BY DEF Ended, OfSize
  <1>1. strlen(data, s) = Search(0, n, go, val)[s] - s
    <2>1. strlen(data, s) = (CHOOSE f : f = body(f))[s] - s
      BY Zenon DEF strlen
    <2>2. \A f : body(f) = SearchBody(f, 0, n, go, val)
      BY <1>0 DEF SearchBody
    <2> HIDE DEF body, go, val
    <2> QED BY <2>1, <2>2 DEF Search
  <1>2. PICK j \in s..n : StopsAt(s, j, go) /\ Search(0, n, go, val)[s] = val[j]
    <2>1. n \notin go /\ 0 \in Int /\ n \in Int
      BY <1>0
    <2> HIDE DEF go, val, body
    <2> QED BY <2>1, SearchFinds
  <1>3. j \in 0..n /\ val[j] = j /\ data[j] = 0 /\ \A k \in s..(j - 1) : data[k] # 0
    BY <1>2 DEF StopsAt
  <1> HIDE DEF go, val
  <1>4. strlen(data, s) = j - s
    BY <1>1, <1>2, <1>3
  <1> DEFINE len == j - s
  <1>5. len \in Nat /\ s + len = j
    BY <1>2
  <1>6. \A i \in 0..(len - 1) : s + i \in s..(j - 1)
    BY <1>2
  <1>7. IsString(data, n, s, len)
    BY <1>3, <1>5, <1>6 DEF IsString
  <1> HIDE DEF len
  <1> QED BY <1>4, <1>7 DEF len

\* How far two strings of a memory go before the later one leaves it
Reach(n, s1, s2) == n - (IF s1 > s2 THEN s1 ELSE s2)

Inside(data, s1, s2) == {j \in DOMAIN data : {s1 + j, s2 + j} \subseteq DOMAIN data}

LEMMA BothInside ==
    ASSUME NEW n \in Nat, NEW data, DOMAIN data = 0..n, NEW s1 \in 0..n, NEW s2 \in 0..n
    PROVE  /\ Inside(data, s1, s2) = 0..Reach(n, s1, s2)
           /\ Reach(n, s1, s2) \in Nat
           /\ \A i \in 0..Reach(n, s1, s2) : s1 + i \in 0..n /\ s2 + i \in 0..n /\ i \in 0..n
  <1> DEFINE inside == Inside(data, s1, s2)
             N == Reach(n, s1, s2)
  <1>1. \A j \in 0..n : (s1 + j \in 0..n /\ s2 + j \in 0..n) <=> j <= N
    BY DEF Reach
  <1>2. N \in Nat /\ N <= n
    BY DEF Reach
  <1>3. DOMAIN data = 0..n
    OBVIOUS
  <1>4. inside = {j \in 0..n : s1 + j \in 0..n /\ s2 + j \in 0..n}
    BY <1>3 DEF Inside
  <1>5. \A i \in 0..N : i \in 0..n
    BY <1>2
  <1> HIDE DEF N, inside
  <1>6. \A i \in 0..N : s1 + i \in 0..n /\ s2 + i \in 0..n
    BY <1>1, <1>2, <1>5
  <1>7. inside = 0..N
    <2>1. \A j \in 0..n : j \in 0..N <=> j <= N
      BY <1>2
    <2>2. inside \subseteq 0..N
      BY <1>1, <1>4, <2>1
    <2>3. 0..N \subseteq inside
      BY <1>4, <1>5, <1>6
    <2> QED BY <2>2, <2>3
  <1> QED BY <1>2, <1>5, <1>6, <1>7 DEF inside, N

\* Two strings differ, or both end, first at i.
FirstStop(data, s1, s2, i) ==
    /\ data[s1 + i] # data[s2 + i] \/ data[s1 + i] = 0
    /\ \A j \in 0..(i - 1) : data[s1 + j] = data[s2 + j] /\ data[s1 + j] # 0

\* The result of comparing two strings in a memory of n + 1 bytes
StopResult(data, n, s1, s2, result) ==
    \E i \in 0..n : /\ s1 + i \in 0..n /\ s2 + i \in 0..n
                    /\ FirstStop(data, s1, s2, i)
                    /\ result = data[s1 + i] - data[s2 + i]

\* strcmp goes up to there, and no further than the memory.
LEMMA StrcmpOrders ==
    ASSUME NEW n, NEW data, Ended(data, n), NEW s1 \in 0..n, NEW s2 \in 0..n
    PROVE  StopResult(data, n, s1, s2, strcmp(data, s1, s2))
  <1> DEFINE inside == Inside(data, s1, s2)
             N == Reach(n, s1, s2)
             go == {i \in 0..N : data[s1 + i] # 0 /\ data[s1 + i] = data[s2 + i]}
             val == [i \in 0..N |-> data[s1 + i] - data[s2 + i]]
             body(f) == [i \in inside |->
                LET c1 == data[s1 + i]
                    c2 == data[s2 + i]
                IN  IF c1 # 0 /\ c1 = c2 THEN f[i + 1] ELSE c1 - c2]
  <1>0. n \in Nat /\ DOMAIN data = 0..n /\ data[n] = 0
    BY DEF Ended, OfSize
  <1>1. /\ inside = 0..N /\ N \in Nat
        /\ \A i \in 0..N : s1 + i \in 0..n /\ s2 + i \in 0..n /\ i \in 0..n
    <2> HIDE DEF go, val, body
    <2> QED BY <1>0, BothInside
  <1>2. N \notin go
    <2>1. s1 + N = n \/ s2 + N = n
      BY <1>0 DEF Reach
    <2> HIDE DEF N
    <2> QED BY <1>0, <2>1
  <1> HIDE DEF inside, N
  <1>3. strcmp(data, s1, s2) = Search(0, N, go, val)[0]
    <2>1. strcmp(data, s1, s2) = (CHOOSE f : f = body(f))[0]
      BY Zenon DEF strcmp, inside, Inside
    <2>2. \A f : body(f) = SearchBody(f, 0, N, go, val)
      BY <1>1 DEF SearchBody
    <2> HIDE DEF body, go, val
    <2> QED BY <2>1, <2>2 DEF Search
  <1>4. PICK i \in 0..N : StopsAt(0, i, go) /\ Search(0, N, go, val)[0] = val[i]
    <2>1. 0 \in Int /\ N \in Int /\ 0 \in 0..N
      BY <1>1
    <2> HIDE DEF go, val, body
    <2> QED BY <1>2, <2>1, SearchFinds
  <1>5. i \notin go /\ \A j \in 0..(i - 1) : j \in go
    BY <1>4 DEF StopsAt
  <1>6. FirstStop(data, s1, s2, i)
    BY <1>4, <1>5 DEF FirstStop
  <1>7. val[i] = data[s1 + i] - data[s2 + i]
    OBVIOUS
  <1> HIDE DEF go, val
  <1> QED BY <1>1, <1>3, <1>4, <1>6, <1>7 DEF StopResult

\* The leading words that memcmp skips are equal, byte by byte.
LEMMA SkippedEqual ==
    ASSUME NEW data, NEW s1 \in Nat, NEW s2 \in Nat, NEW n \in Nat
    PROVE  LET first == SkipWords(data, s1, s2, n)
           IN  /\ first \in 0..n
               /\ \A i \in 0..(first - 1) : data[s1 + i] = data[s2 + i]
  <1> DEFINE N == n \div PTR
             same(i) == WordsEqual(data, s1 + i * PTR, s2 + i * PTR)
             go == {i \in 0..N : i < N /\ same(i)}
             val == [i \in 0..N |-> i * PTR]
             body(f) == [i \in 0..N |-> IF i < N /\ same(i) THEN f[i + 1] ELSE i * PTR]
  <1>1. /\ PTR \in Nat \ {0} /\ N \in Nat /\ N * PTR <= n
    <2>1. \A l \in Nat : l \div 4 \in Nat /\ (l \div 4) * 4 <= l
      OBVIOUS
    <2>2. \A l \in Nat : l \div 8 \in Nat /\ (l \div 8) * 8 <= l
      OBVIOUS
    <2>3. PTR = 4 \/ PTR = 8
      BY StringAssumption
    <2> QED BY <2>1, <2>2, <2>3
  <1> HIDE DEF N
  <1>2. SkipWords(data, s1, s2, n) = Search(0, N, go, val)[0]
    <2>1. SkipWords(data, s1, s2, n) = (CHOOSE f : f = body(f))[0]
      BY Zenon DEF SkipWords, N
    <2>2. \A f : body(f) = SearchBody(f, 0, N, go, val)
      <3> HIDE DEF same
      <3> QED BY DEF SearchBody
    <2> HIDE DEF body, go, val
    <2> QED BY <2>1, <2>2 DEF Search
  <1> HIDE DEF same
  <1>3. PICK j \in 0..N : StopsAt(0, j, go) /\ Search(0, N, go, val)[0] = val[j]
    <2>1. 0 \in Int /\ N \in Int /\ 0 \in 0..N /\ N \notin go
      BY <1>1
    <2> HIDE DEF go, val, body
    <2> QED BY <2>1, SearchFinds
  <1>4. val[j] = j * PTR /\ \A k \in 0..(j - 1) : same(k)
    BY <1>3 DEF StopsAt
  <1> HIDE DEF go, val
  <1> DEFINE first == j * PTR
  <1>5. first \in 0..n
    <2>1. \A x \in Nat, y \in Nat, u \in Nat : x <= y => x * u <= y * u /\ x * u \in Nat
      OBVIOUS
    <2>2. first <= N * PTR /\ first \in Nat /\ N * PTR \in Nat
      BY <1>1, <2>1
    <2> QED BY <1>1, <2>2
  <1>6. ASSUME NEW i \in 0..(first - 1) PROVE data[s1 + i] = data[s2 + i]
    <2> DEFINE k == i \div PTR
               r == i % PTR
    <2>1. k \in Nat /\ r \in 0..(PTR - 1) /\ i = k * PTR + r /\ i < first
      <3>1. \A l \in Nat : l \div 4 \in Nat /\ l % 4 \in 0..3 /\ l = (l \div 4) * 4 + (l % 4)
        OBVIOUS
      <3>2. \A l \in Nat : l \div 8 \in Nat /\ l % 8 \in 0..7 /\ l = (l \div 8) * 8 + (l % 8)
        OBVIOUS
      <3>3. PTR = 4 \/ PTR = 8
        BY StringAssumption
      <3>4. i \in Nat /\ i < first
        BY <1>5
      <3> QED BY <3>1, <3>2, <3>3, <3>4
    <2> HIDE DEF k, r
    <2>2. k \in 0..(j - 1)
      <3>1. \A x \in Nat, y \in Nat, u \in Nat : x >= y => x * u >= y * u /\ x * u \in Nat
        OBVIOUS
      <3>2. k >= j => k * PTR >= first /\ k * PTR \in Nat
        BY <1>1, <2>1, <3>1
      <3>3. k * PTR \in Nat /\ first \in Nat
        BY <1>1, <1>5, <2>1
      <3>4. ~(k >= j)
        BY <2>1, <3>2, <3>3
      <3> QED BY <2>1, <3>4
    <2>3. \A l \in 0..(PTR - 1) : data[(s1 + k * PTR) + l] = data[(s2 + k * PTR) + l]
      BY <1>4, <2>2 DEF same, WordsEqual
    <2>4. (s1 + k * PTR) + r = s1 + i /\ (s2 + k * PTR) + r = s2 + i
      <3>1. k * PTR \in Nat
        BY <1>1, <2>1
      <3> QED BY <2>1, <3>1
    <2>5. data[(s1 + k * PTR) + r] = data[(s2 + k * PTR) + r]
      BY <2>1, <2>3
    <2> QED BY <2>4, <2>5
  <1>7. SkipWords(data, s1, s2, n) = first
    BY <1>2, <1>3, <1>4
  <1> HIDE DEF first
  <1> QED BY <1>5, <1>6, <1>7

\* No bytes differ and the result is 0, or it is that of the first that do.
SameBytes(data, s1, s2, n) == \A i \in 0..(n - 1) : data[s1 + i] = data[s2 + i]
Orders(data, s1, s2, n, result) ==
    \/ SameBytes(data, s1, s2, n) /\ result = 0
    \/ \E i \in 0..(n - 1) :
          /\ SameBytes(data, s1, s2, i) /\ data[s1 + i] # data[s2 + i]
          /\ result = data[s1 + i] - data[s2 + i]

LEMMA MemcmpOrders ==
    ASSUME NEW data, NEW s1 \in Nat, NEW s2 \in Nat, NEW n \in Nat
    PROVE  Orders(data, s1, s2, n, memcmp(data, s1, s2, n))
  <1> DEFINE first == IF Aligned({s1, s2}) THEN SkipWords(data, s1, s2, n) ELSE 0
             differ(i) == data[s1 + i] # data[s2 + i]
             value(i) == data[s1 + i] - data[s2 + i]
             go == {i \in first..n : i # n /\ ~differ(i)}
             val == [i \in first..n |-> IF i = n THEN 0 ELSE value(i)]
             body(f) == [i \in first..n |->
                           IF i = n THEN 0 ELSE IF differ(i) THEN value(i) ELSE f[i + 1]]
  <1>1. first \in 0..n /\ \A i \in 0..(first - 1) : ~differ(i)
    <2>1. CASE Aligned({s1, s2})
      BY <2>1, SkippedEqual
    <2>2. CASE ~Aligned({s1, s2})
      BY <2>2
    <2> QED BY <2>1, <2>2
  <1>2. memcmp(data, s1, s2, n) = Search(first, n, go, val)[first]
    <2>1. memcmp(data, s1, s2, n) = (CHOOSE f : f = body(f))[first]
      BY Zenon DEF memcmp
    <2> HIDE DEF first, differ, value
    <2>2. \A f : body(f) = SearchBody(f, first, n, go, val)
      BY DEF SearchBody
    <2> HIDE DEF body, go, val
    <2> QED BY <2>1, <2>2 DEF Search
  <1> HIDE DEF first, differ, value
  <1>3. PICK j \in first..n : StopsAt(first, j, go) /\ Search(first, n, go, val)[first] = val[j]
    <2>1. first \in Int /\ n \in Int /\ first \in first..n /\ n \notin go
      BY <1>1
    <2> HIDE DEF go, val, body
    <2> QED BY <2>1, SearchFinds
  <1>4. /\ val[j] = (IF j = n THEN 0 ELSE value(j))
        /\ j = n \/ differ(j)
        /\ \A k \in first..(j - 1) : ~differ(k)
    BY <1>3 DEF StopsAt
  <1>5. \A k \in 0..(j - 1) : ~differ(k)
    BY <1>1, <1>3, <1>4
  <1> HIDE DEF go, val
  <1>6. CASE j = n
    <2>1. memcmp(data, s1, s2, n) = 0
      BY <1>2, <1>3, <1>4, <1>6
    <2> QED BY <1>5, <1>6, <2>1 DEF differ, SameBytes, Orders
  <1>7. CASE j # n
    <2>1. memcmp(data, s1, s2, n) = value(j) /\ differ(j)
      BY <1>2, <1>3, <1>4, <1>7
    <2>2. j \in 0..(n - 1)
      BY <1>1, <1>3, <1>7
    <2> QED BY <1>5, <2>1, <2>2 DEF differ, value, SameBytes, Orders
  <1> QED BY <1>6, <1>7

\* strcpy copies a string with its final 0, where the two do not meet.
LEMMA StrcpyCopies ==
    ASSUME NEW n, NEW data, Ended(data, n),
           NEW dest \in 0..n, NEW src \in 0..n, NEW len \in Nat \ {0},
           len = strlen(data, src) + 1,
           Region(dest, len) \subseteq 0..n, Region(dest, len) \cap Region(src, len) = {}
    PROVE  strcpy(data, dest, src) = CopyOf(data, n, dest, src, len)
  <1> DEFINE inside == Inside(data, dest, src)
             N == Reach(n, dest, src)
             step(x, i) == [x EXCEPT ![dest + i] = x[src + i]]
             body(f) == [i \in inside |-> step(IF i = 0 THEN data ELSE f[i - 1], i)]
             after == CHOOSE f : f = body(f)
             stops(f, i) == f[i][dest + i] = 0 /\ \A j \in 0..(i - 1) : f[j][dest + j] # 0
             last(f) == CHOOSE i \in DOMAIN f : stops(f, i)
  <1>0. n \in Nat /\ DOMAIN data = 0..n /\ data \in [0..n -> Int]
    BY DEF Ended, OfSize
  <1>1. strcpy(data, dest, src) = after[last(after)]
    BY Zenon DEF strcpy, Inside
  <1>2. /\ inside = 0..N /\ N \in Nat
        /\ \A i \in 0..N : dest + i \in 0..n /\ src + i \in 0..n /\ i \in 0..n
    <2> HIDE DEF step, body, after, stops, last
    <2> QED BY <1>0, BothInside
  <1>3. /\ src + (len - 1) \in 0..n /\ data[src + (len - 1)] = 0
        /\ \A i \in 0..(len - 2) : data[src + i] # 0
    <2> DEFINE l == strlen(data, src)
    <2>1. /\ l \in Nat /\ src + l \in 0..n /\ data[src + l] = 0
          /\ \A i \in 0..(l - 1) : data[src + i] # 0
      <3> HIDE DEF step, body, after, stops, last, inside, N
      <3> QED BY StrlenIs DEF IsString
    <2>2. len = l + 1
      OBVIOUS
    <2> HIDE DEF l
    <2>3. l = len - 1 /\ l - 1 = len - 2
      BY <2>1, <2>2
    <2> QED BY <2>1, <2>3
  <1>4. len - 1 \in 0..N
    <2>1. dest + (len - 1) \in 0..n
      <3>1. dest + (len - 1) \in Region(dest, len)
        BY DEF Region
      <3> QED BY <3>1
    <2>2. \A i \in Nat : dest + i \in 0..n /\ src + i \in 0..n => i \in 0..N
      BY <1>0 DEF Reach
    <2>3. len - 1 \in Nat
      OBVIOUS
    <2> HIDE DEF N
    <2> QED BY <1>3, <2>1, <2>2, <2>3
  <1> HIDE DEF inside, N
  <1>5. /\ after \in [0..N -> [0..n -> Int]]
        /\ after[0] = step(data, 0)
        /\ \A i \in 1..N : after[i] = step(after[i - 1], i)
    <2> DEFINE D == [0..n -> Int]
               next == [p \in D \X (1..N) |-> step(p[1], p[2])]
               base == step(data, 0)
    <2>1. \A x \in D, i \in 0..N : step(x, i) \in D
      BY <1>0, <1>2
    <2>2. RecursionHas(N, D, base, next)
      <3>1. base \in D
        <4>1. 0 \in 0..N /\ data \in D
          BY <1>0, <1>2
        <4> HIDE DEF D, step
        <4> QED BY <2>1, <4>1
      <3>2. RecursionSteps(N, D, next)
        <4>1. \A i \in 1..N : i \in 0..N
          BY <1>2
        <4> HIDE DEF D, step
        <4> QED BY <2>1, <4>1 DEF RecursionSteps
      <3> HIDE DEF D, next, base, body, step
      <3> QED BY <1>2, <3>1, <3>2, RecursionExists
    <2>3. PICK f \in [0..N -> D] : RecursionSolves(f, N, base, next)
      <3> HIDE DEF D, next, base
      <3> QED BY <2>2 DEF RecursionHas
    <2>4. \A i \in 0..N : i # 0 => i \in 1..N /\ i - 1 \in 0..N
      BY <1>2
    <2>5. f[0] = base /\ \A i \in 1..N : f[i] = next[<<f[i - 1], i>>]
      BY <2>3 DEF RecursionSolves
    <2> HIDE DEF D
    <2>6. \A i \in 0..N : f[i] = step(IF i = 0 THEN data ELSE f[i - 1], i)
      <3> HIDE DEF step
      <3> TAKE i \in 0..N
      <3>1. CASE i = 0
        BY <2>5, <3>1
      <3>2. CASE i # 0
        <4>1. i \in 1..N /\ f[i - 1] \in D
          BY <2>3, <2>4, <3>2
        <4>2. next[<<f[i - 1], i>>] = step(f[i - 1], i)
          BY <4>1
        <4> QED BY <2>5, <3>2, <4>1, <4>2
      <3> QED BY <3>1, <3>2
    <2>7. f = body(f)
      <3> HIDE DEF step
      <3>1. f = [i \in 0..N |-> f[i]]
        BY <2>3
      <3> QED BY <1>2, <2>6, <3>1
    <2>8. after = body(after)
      <3> HIDE DEF body
      <3> QED BY <2>7, Zenon
    <2> HIDE DEF after
    <2>9. /\ after = [i \in 0..N |-> after[i]]
          /\ \A i \in 0..N : after[i] = step(IF i = 0 THEN data ELSE after[i - 1], i)
      <3> DEFINE c == body(after)
      <3>1. /\ c = [i \in 0..N |-> c[i]]
            /\ \A i \in 0..N : c[i] = step(IF i = 0 THEN data ELSE after[i - 1], i)
        <4> HIDE DEF step
        <4> QED BY <1>2
      <3> HIDE DEF c
      <3> QED BY <2>8, <3>1 DEF c
    <2> HIDE DEF body
    <2>10. 0 \in 0..N /\ \A i \in 1..N : i \in 0..N /\ i # 0
      BY <1>2
    <2> HIDE DEF step
    <2>11. after[0] = step(data, 0)
      BY <2>9, <2>10
    <2>12. \A i \in 1..N : after[i] = step(after[i - 1], i)
      BY <2>9, <2>10
    <2>13. \A i \in 0..N : after[i] \in D
      <3> DEFINE S == {i \in 0..N : after[i] \in D}
      <3>1. 0 \in S
        <4>1. 0 \in 0..N /\ data \in D
          BY <1>0, <1>2 DEF D
        <4> QED BY <2>1, <2>11, <4>1
      <3>2. ASSUME NEW i \in 0..(N - 1), i \in S PROVE i + 1 \in S
        <4> DEFINE l == i + 1
        <4>1. l \in 1..N /\ l \in 0..N /\ l - 1 = i
          BY <1>2
        <4> HIDE DEF l
        <4>2. l \in S
          BY <2>1, <2>12, <3>2, <4>1
        <4> QED BY <4>2 DEF l
      <3>3. \A i \in 0..N : i \in S
        <4> HIDE DEF S
        <4> QED BY <1>2, <3>1, <3>2, UpTo
      <3> QED BY <3>3
    <2>14. after \in [0..N -> D]
      BY <2>9, <2>13
    <2> QED BY <2>11, <2>12, <2>14 DEF D
  <1> HIDE DEF after, body
  <1> DEFINE copy(i) == CopyOf(data, n, dest, src, i)
             S == {i \in 0..(len - 1) : after[i] = copy(i + 1)}
  <1>6. ASSUME NEW i \in 0..(len - 1) PROVE step(copy(i), i) = copy(i + 1)
    <2>1. dest + i \in 0..n /\ src + i \in 0..n /\ src + i \notin Region(dest, i)
      <3>1. src + i \in Region(src, len) /\ Region(dest, i) \subseteq Region(dest, len)
        BY DEF Region
      <3>2. i \in 0..N
        BY <1>2, <1>4
      <3> QED BY <1>2, <3>1, <3>2
    <2>2. copy(i)[src + i] = data[src + i]
      BY <2>1 DEF CopyOf
    <2>3. ASSUME NEW c \in 0..n
          PROVE  (IF c = dest + i THEN data[src + i] ELSE copy(i)[c]) = copy(i + 1)[c]
      <3>1. copy(i)[c] = IF c \in Region(dest, i) THEN data[src + c - dest] ELSE data[c]
        BY DEF CopyOf
      <3>2. copy(i + 1)[c] = IF c \in Region(dest, i + 1) THEN data[src + c - dest] ELSE data[c]
        BY DEF CopyOf
      <3>3. c \in Region(dest, i + 1) <=> c \in Region(dest, i) \/ c = dest + i
        BY DEF Region
      <3>4. c = dest + i => src + c - dest = src + i
        OBVIOUS
      <3> QED BY <3>1, <3>2, <3>3, <3>4
    <2>4. step(copy(i), i) = [c \in 0..n |-> IF c = dest + i THEN data[src + i] ELSE copy(i)[c]]
      BY <2>2 DEF CopyOf
    <2>5. copy(i + 1) = [c \in 0..n |-> copy(i + 1)[c]]
      BY DEF CopyOf
    <2> HIDE DEF copy, step
    <2> QED BY <2>3, <2>4, <2>5
  <1>7. copy(0) = data
    <2>1. Region(dest, 0) = {}
      BY DEF Region
    <2> QED BY <1>0, <2>1 DEF CopyOf
  <1>8. \A i \in 0..(len - 1) : after[i] = copy(i + 1)
    <2> HIDE DEF step, copy
    <2>1. 0 \in S
      <3>1. 0 \in 0..(len - 1)
        OBVIOUS
      <3>2. step(copy(0), 0) = copy(0 + 1)
        BY <1>6, <3>1
      <3> QED BY <1>5, <1>7, <3>1, <3>2
    <2>2. ASSUME NEW i \in 0..((len - 1) - 1), i \in S PROVE i + 1 \in S
      <3> DEFINE l == i + 1
      <3>1. l \in 0..(len - 1) /\ l - 1 = i
        OBVIOUS
      <3>2. l \in 1..N
        BY <1>2, <1>4
      <3>3. after[i] = copy(l)
        BY <2>2
      <3> HIDE DEF l
      <3>4. after[l] = step(copy(l), l)
        BY <1>5, <3>1, <3>2, <3>3
      <3>5. step(copy(l), l) = copy(l + 1)
        BY <1>6, <3>1
      <3>6. l \in S
        BY <3>1, <3>4, <3>5
      <3> QED BY <3>6 DEF l
    <2>3. \A i \in 0..(len - 1) : i \in S
      <3>1. len - 1 \in Nat
        OBVIOUS
      <3> HIDE DEF S
      <3> QED BY <2>1, <2>2, <3>1, UpTo
    <2> QED BY <2>3
  <1>9. \A i \in 0..(len - 1) : after[i][dest + i] = data[src + i]
    <2> TAKE i \in 0..(len - 1)
    <2>1. /\ dest + i \in 0..n /\ dest + i \in Region(dest, i + 1)
          /\ src + (dest + i) - dest = src + i
      <3>1. i \in 0..N
        BY <1>2, <1>4
      <3>2. dest + i \in 0..n
        BY <1>2, <3>1
      <3>3. dest + i \in Region(dest, i + 1) /\ src + (dest + i) - dest = src + i
        BY DEF Region
      <3> QED BY <3>2, <3>3
    <2>2. copy(i + 1)[dest + i] = data[src + i]
      BY <2>1 DEF CopyOf
    <2> HIDE DEF copy
    <2> QED BY <1>8, <2>2
  <1> HIDE DEF copy, step
  <1>10. DOMAIN after = 0..N
    BY <1>5
  <1>11. stops(after, len - 1)
    <2>1. len - 1 \in 0..(len - 1)
      OBVIOUS
    <2>2. \A j \in 0..((len - 1) - 1) : j \in 0..(len - 1) /\ j \in 0..(len - 2)
      OBVIOUS
    <2> QED BY <1>3, <1>9, <2>1, <2>2
  <1>12. ASSUME NEW i \in 0..N, stops(after, i) PROVE i = len - 1
    <2>1. ~(i < len - 1)
      <3>1. i < len - 1 => i \in 0..(len - 1) /\ i \in 0..(len - 2)
        BY <1>2
      <3> QED BY <1>3, <1>9, <1>12, <3>1
    <2>2. ~(len - 1 < i)
      <3>1. len - 1 < i => len - 1 \in 0..(i - 1)
        BY <1>2
      <3>2. len - 1 \in 0..(len - 1)
        OBVIOUS
      <3> QED BY <1>3, <1>9, <1>12, <3>1, <3>2
    <2>3. i \in Int /\ len - 1 \in Int
      BY <1>2
    <2> QED BY <2>1, <2>2, <2>3
  <1>13. last(after) = len - 1
    <2> HIDE DEF stops
    <2> QED BY <1>4, <1>10, <1>11, <1>12
  <1>14. after[len - 1] = copy(len)
    <2>1. len - 1 \in 0..(len - 1) /\ (len - 1) + 1 = len
      OBVIOUS
    <2> QED BY <1>8, <2>1
  <1> HIDE DEF last, stops
  <1> QED BY <1>1, <1>13, <1>14 DEF copy

-----------------------------------------------------------------------------
(* memset.  PW is about words of the size of a pointer. *)

PW == INSTANCE WordTheorems WITH XLEN <- 8 * PTR

LEMMA PointerWords ==
    /\ PTR = 4 \/ PTR = 8
    /\ 8 * PTR \in Nat \ {0}
    /\ W!Bit = 0..(8 * PTR - 1) /\ PW!Bit = 0..(8 * PTR - 1)
    /\ \A n : W!BitsOf(n) = PW!BitsOf(n)
    /\ \A w : W!Value(w) = PW!Value(w) /\ PW!Value(w) = Value(w)
  <1>1. PTR = 4 \/ PTR = 8
    BY StringAssumption
  <1>2. W!Bit = 0..(8 * PTR - 1) /\ PW!Bit = 0..(8 * PTR - 1)
    BY DEF W!Bit, PW!Bit
  <1>3. \A n : W!BitsOf(n) = PW!BitsOf(n)
    BY <1>2 DEF W!BitsOf, PW!BitsOf
  <1>4. \A w : W!Value(w) = PW!Value(w) /\ PW!Value(w) = Value(w)
    BY DEF W!Value, PW!Value, Value, W!SumSet, PW!SumSet, SumSet, W!FoldSet, PW!FoldSet, FoldSet,
           W!MapThenFoldSet, PW!MapThenFoldSet, MapThenFoldSet
  <1> QED BY <1>1, <1>2, <1>3, <1>4

\* A byte is a word of eight bits, and the number they stand for.
LEMMA ByteWord ==
    ASSUME NEW v \in 0..255
    PROVE  W!BitsOf(v) \in SUBSET (0..7) /\ W!Value(W!BitsOf(v)) = v
  <1> DEFINE p(k) == 2^k
             bits(k) == PW!BitsOf(k)
             value(w) == PW!Value(w)
  <1>1. /\ p(0) = 1 /\ p(8) = 256
        /\ \A i \in Nat : p(i) \in Nat \ {0}
        /\ \A i \in Nat, j \in Nat : i < j => p(i) < p(j)
    <2>1. p(0) = 1 /\ p(8) = 256
      OBVIOUS
    <2>2. \A i \in Nat : p(i) \in Nat \ {0}
      BY PowerStep
    <2>3. \A i \in Nat, j \in Nat : i < j => p(i) < p(j)
      BY PowerOrder
    <2> QED BY <2>1, <2>2, <2>3
  <1>2. bits(v) \in SUBSET (0..7)
    <2>1. ASSUME NEW i \in PW!Bit, i > 7 PROVE (v \div p(i)) % 2 # 1
      <3>1. i \in Nat
        BY <2>1, PointerWords
      <3> HIDE DEF p
      <3>2. p(i) \in Nat \ {0} /\ 256 <= p(i)
        <4>1. i = 8 \/ 8 < i
          BY <2>1, <3>1
        <4> QED BY <1>1, <3>1, <4>1
      <3>3. \A d \in Nat : 256 <= d => v \div d = 0
        OBVIOUS
      <3>4. v \div p(i) = 0
        BY <3>2, <3>3
      <3> QED BY <3>4
    <2>2. \A i \in bits(v) : i \in PW!Bit /\ (v \div p(i)) % 2 = 1
      BY DEF PW!BitsOf
    <2>3. \A i \in PW!Bit : i \in Nat
      BY PointerWords
    <2> HIDE DEF p, bits
    <2> QED BY <2>1, <2>2, <2>3
  <1> DEFINE S == {k \in 0..255 : value(bits(k)) = k}
  <1>3. value({0}) = 1 /\ {0} \in PW!Word
    <2>1. {} \in SUBSET Nat /\ IsFiniteSet({}) /\ 0 \in Nat /\ 0 \notin {}
      BY FS_EmptySet
    <2>2. ASSUME NEW w \in SUBSET Nat, IsFiniteSet(w), NEW i \in Nat, i \notin w
          PROVE  PW!Value({}) = 0 /\ PW!Value(w \cup {i}) = PW!Value(w) + p(i)
      <3>1. Value({}) = 0 /\ Value(w \cup {i}) = Value(w) + p(i)
        BY <2>2, ValueAdd
      <3> HIDE DEF p
      <3> QED BY <3>1, PointerWords
    <2>3. {} \cup {0} = {0}
      OBVIOUS
    <2>4. {0} \in PW!Word
      BY PointerWords DEF PW!Word
    <2>5. value({}) = 0 /\ value({} \cup {0}) = value({}) + p(0)
      <3> HIDE DEF p
      <3> QED BY <2>1, <2>2
    <2> HIDE DEF p, value
    <2> QED BY <1>1, <2>3, <2>4, <2>5
  <1>4. 0 \in S
    <2>1. bits(0) = {}
      BY PointerWords, PW!BitsOfZero
    <2>2. value({}) = 0
      BY PointerWords, PW!ValueEmpty
    <2> QED BY <2>1, <2>2
  <1>5. ASSUME NEW k \in 0..254, k \in S PROVE k + 1 \in S
    <2> DEFINE sum == PW!wrapping_add(bits(k), {0})
               out == PW!CarryInto(bits(k), {0}, 8 * PTR)
    <2>1. k \in PW!Number
      BY SMT DEF PW!Number
    <2>2. bits(k + 1) = sum
      BY <2>1, PointerWords, PW!BitsOfNext
    <2>3. bits(k) \in PW!Word /\ sum \in PW!Word
      <3>1. bits(k) \in PW!Word
        BY DEF PW!BitsOf, PW!Word
      <3> QED BY <1>3, <3>1, PointerWords, PW!WordClosed
    <2>4. value(bits(k)) + value({0}) = value(sum) + (IF out THEN p(8 * PTR) ELSE 0)
      BY <1>3, <2>3, PointerWords, PW!AddValue
    <2>5. value(sum) \in Nat
      BY <2>3, PointerWords, PW!ValueBound
    <2>6. p(8 * PTR) \in Nat /\ 255 < p(8 * PTR)
      <3>1. 8 * PTR \in Nat /\ 8 < 8 * PTR
        BY PointerWords
      <3> HIDE DEF p
      <3> QED BY <1>1, <3>1
    <2>7. value(bits(k)) = k
      BY <1>5
    <2> HIDE DEF p, value, bits, sum, out
    <2>8. value(sum) = k + 1
      BY <1>3, <2>4, <2>5, <2>6, <2>7
    <2> QED BY <2>2, <2>8
  <1>6. value(bits(v)) = v
    <2>1. 0 \in Int /\ 255 \in Int /\ 255 - 1 = 254
      OBVIOUS
    <2>2. 0..255 \subseteq S
      <3> HIDE DEF S
      <3> QED BY <1>4, <1>5, <2>1, IntervalInduction
    <2> QED BY <2>2
  <1> QED BY <1>2, <1>6, PointerWords

\* Each byte of a replicated one is that byte.
LEMMA ReplicatedBytes ==
    ASSUME NEW byte \in Int, NEW k \in 0..(PTR - 1)
    PROVE  ByteOf(Replicated(byte), k) = byte % 256
  <1> DEFINE v == byte % 256
             one == W!BitsOf(v)
             half == one \cup W!Shl(one, 8)
             word == half \cup W!Shl(half, 16)
             all == word \cup W!Shl(W!Shl(word, 16), 16)
  <1>1. v \in 0..255
    OBVIOUS
  <1>2. one \in SUBSET (0..7) /\ W!Value(one) = v
    <2> HIDE DEF v
    <2> QED BY <1>1, ByteWord
  <1>3. Replicated(byte) = all
    BY DEF Replicated
  <1> HIDE DEF v, one
  <1>4. \A i : i \in half <=> i \in one \/ (i \in W!Bit /\ i - 8 \in one)
    BY DEF W!Shl
  <1> HIDE DEF half
  <1>5. \A i : i \in word <=> i \in half \/ (i \in W!Bit /\ i - 16 \in half)
    BY DEF W!Shl
  <1> HIDE DEF word
  <1>6. \A i : i \in all <=> \/ i \in word
                             \/ i \in W!Bit /\ i - 16 \in W!Bit /\ (i - 16) - 16 \in word
    BY DEF W!Shl
  <1> HIDE DEF all
  <1>7. ASSUME NEW i \in 0..7 PROVE i + 8 * k \in all <=> i \in one
    <2>2. CASE PTR = 4
      <3>1. W!Bit = 0..31 /\ k \in 0..3
        BY <2>2, PointerWords
      <3> QED BY <1>2, <1>4, <1>5, <1>6, <3>1
    <2>3. CASE PTR = 8
      <3>1. W!Bit = 0..63 /\ k \in 0..7
        BY <2>3, PointerWords
      <3> QED BY <1>2, <1>4, <1>5, <1>6, <3>1
    <2> QED BY <2>2, <2>3, PointerWords
  <1>8. W!Field(all, 8 * k, 8) = one
    <2>1. W!Field(all, 8 * k, 8) = {i \in 0..7 : i + 8 * k \in all}
      BY DEF W!Field
    <2> QED BY <1>2, <1>7, <2>1
  <1> QED BY <1>2, <1>3, <1>8 DEF ByteOf, v

\* The byte stored in len places from dest on
FillOf(data, n, dest, byte, len) ==
    [c \in 0..n |-> IF c \in Region(dest, len) THEN byte % 256 ELSE data[c]]

\* memset, by words or by bytes
LEMMA MemsetFills ==
    ASSUME NEW n, NEW data, OfSize(data, n), NEW dest \in Nat, NEW byte \in Int, NEW len \in Nat
    PROVE  memset(data, dest, byte, len) = FillOf(data, n, dest, byte, len)
  <1> DEFINE words == Aligned({dest, len})
             filled(c) == IF c \notin dest..(dest + len - 1) THEN data[c]
                          ELSE IF words THEN ByteOf(Replicated(byte), (c - dest) % PTR)
                          ELSE byte % 256
  <1>1. memset(data, dest, byte, len) = [c \in 0..n |-> filled(c)]
    BY DEF memset, OfSize
  <1>2. ASSUME NEW c \in 0..n
        PROVE  filled(c) = IF c \in Region(dest, len) THEN byte % 256 ELSE data[c]
    <2>1. CASE c \notin Region(dest, len)
      BY <2>1 DEF Region
    <2>2. CASE c \in Region(dest, len)
      <3> DEFINE k == (c - dest) % PTR
      <3>1. k \in 0..(PTR - 1)
        <4>1. \A x \in Nat : x % 4 \in 0..(4 - 1) /\ x % 8 \in 0..(8 - 1)
          OBVIOUS
        <4>2. c - dest \in Nat
          BY <2>2 DEF Region
        <4> QED BY <4>1, <4>2, PointerWords
      <3> HIDE DEF k
      <3>2. ByteOf(Replicated(byte), k) = byte % 256
        BY <3>1, ReplicatedBytes
      <3> QED BY <2>2, <3>2 DEF k, Region
    <2> QED BY <2>1, <2>2
  <1> HIDE DEF filled
  <1> QED BY <1>1, <1>2 DEF FillOf

-----------------------------------------------------------------------------
(* The memory of the runs *)

MemoryInv == mem \in [Cell -> Int] /\ mem[11] = 0

LEMMA MemoryInvariant == Spec => []MemoryInv
  <1>1. Init => MemoryInv
    BY DEF Init, MemoryInv, Blank, Cell
  <1>2. MemoryInv /\ [Next]_vars => MemoryInv'
    <2> SUFFICES ASSUME MemoryInv, [Next]_vars PROVE MemoryInv'
      OBVIOUS
    <2>1. CASE Poke
      BY <2>1 DEF MemoryInv, Poke, Cell, Bytes
    <2>2. CASE UNCHANGED mem
      BY <2>2 DEF MemoryInv
    <2>3. Poke \/ UNCHANGED mem
      BY DEF Next, vars, FlipA, FlipB, Write, Erase, OnWords, OnText
    <2> QED BY <2>1, <2>2, <2>3
  <1> QED BY <1>1, <1>2, PTL DEF Spec

\* FirstOf looks at the least of the places.
LEMMA FirstIs ==
    ASSUME NEW places \in SUBSET Int, NEW s1, NEW s2, NEW i \in places,
           \A j \in places : i <= j
    PROVE  FirstOf(places, s1, s2) = mem[s1 + i] - mem[s2 + i]
  <1> DEFINE c == CHOOSE k \in places : \A j \in places : k <= j
  <1>1. c \in places /\ \A j \in places : c <= j
    OBVIOUS
  <1>2. FirstOf(places, s1, s2) = mem[s1 + c] - mem[s2 + c]
    BY DEF FirstOf
  <1> HIDE DEF c
  <1>3. c = i
    BY <1>1
  <1> QED BY <1>2, <1>3

LEMMA MemcmpUnsigned ==
    ASSUME NEW s1 \in Nat, NEW s2 \in Nat, NEW n \in Nat
    PROVE  memcmp(mem, s1, s2, n) =
              FirstOf({i \in 0..(n - 1) : mem[s1 + i] # mem[s2 + i]}, s1, s2)
  <1> DEFINE places == {i \in 0..(n - 1) : mem[s1 + i] # mem[s2 + i]}
  <1>1. Orders(mem, s1, s2, n, memcmp(mem, s1, s2, n))
    BY MemcmpOrders, Zenon
  <1> DEFINE result == memcmp(mem, s1, s2, n)
  <1> SUFFICES ASSUME Orders(mem, s1, s2, n, result) PROVE result = FirstOf(places, s1, s2)
    BY <1>1
  <1> HIDE DEF result
  <1>2. CASE SameBytes(mem, s1, s2, n) /\ result = 0
    <2>1. places = {}
      BY <1>2 DEF SameBytes
    <2> HIDE DEF places
    <2> QED BY <1>2, <2>1 DEF FirstOf
  <1>3. CASE \E i \in 0..(n - 1) :
                 /\ SameBytes(mem, s1, s2, i) /\ mem[s1 + i] # mem[s2 + i]
                 /\ result = mem[s1 + i] - mem[s2 + i]
    <2>1. PICK i \in 0..(n - 1) :
                 /\ SameBytes(mem, s1, s2, i) /\ mem[s1 + i] # mem[s2 + i]
                 /\ result = mem[s1 + i] - mem[s2 + i]
      BY <1>3
    <2>2. i \in places /\ places \in SUBSET Int
      BY <2>1
    <2>3. \A j \in places : i <= j
      <3>1. \A j \in places : j \in Nat /\ j \notin 0..(i - 1)
        BY <2>1 DEF SameBytes
      <3> HIDE DEF places
      <3> QED BY <3>1
    <2> HIDE DEF places
    <2> QED BY <2>1, <2>2, <2>3, FirstIs
  <1> HIDE DEF places
  <1> QED BY <1>2, <1>3 DEF Orders

LEMMA StrcmpUnsigned ==
    ASSUME MemoryInv, NEW s1 \in Cell, NEW s2 \in Cell
    PROVE  LET longest == 11 - (IF s1 > s2 THEN s1 ELSE s2)
               stops == {i \in 0..longest : mem[s1 + i] # mem[s2 + i] \/ mem[s1 + i] = 0}
           IN  strcmp(mem, s1, s2) = FirstOf(stops, s1, s2)
  <1> DEFINE longest == 11 - (IF s1 > s2 THEN s1 ELSE s2)
             stops == {i \in 0..longest : mem[s1 + i] # mem[s2 + i] \/ mem[s1 + i] = 0}
  <1>1. PICK i \in 0..11 : /\ s1 + i \in 0..11 /\ s2 + i \in 0..11
                           /\ FirstStop(mem, s1, s2, i)
                           /\ strcmp(mem, s1, s2) = mem[s1 + i] - mem[s2 + i]
    <2>1. Ended(mem, 11) /\ s1 \in 0..11 /\ s2 \in 0..11
      BY DEF MemoryInv, Cell, Ended, OfSize
    <2>2. StopResult(mem, 11, s1, s2, strcmp(mem, s1, s2))
      BY <2>1, StrcmpOrders, Zenon
    <2> QED BY <2>2 DEF StopResult
  <1>2. i \in 0..longest
    BY <1>1 DEF Cell
  <1>3. i \in stops /\ stops \in SUBSET Int
    BY <1>1, <1>2 DEF FirstStop
  <1>4. \A j \in stops : i <= j
    <2>1. \A j \in stops : j \in Nat /\ j \notin 0..(i - 1)
      BY <1>1 DEF FirstStop
    <2> HIDE DEF stops
    <2> QED BY <1>1, <2>1
  <1> HIDE DEF stops
  <1>5. FirstOf(stops, s1, s2) = mem[s1 + i] - mem[s2 + i]
    BY <1>3, <1>4, FirstIs
  <1> QED BY <1>1, <1>5 DEF stops

\* memcmp and strcmp order by the first bytes that differ, for pointers of
\* either size (string.c:48-85).
THEOREM ComparesCorrect == Spec => []ComparesUnsigned
  <1>1. MemoryInv => ComparesUnsigned
    <2>1. Pointers \subseteq Cell /\ Pointers \subseteq Nat /\ Lengths \subseteq Nat
      BY DEF Pointers, Lengths, Cell
    <2>2. ASSUME MemoryInv, NEW s1 \in Pointers, NEW s2 \in Pointers, NEW n \in Lengths
          PROVE  memcmp(mem, s1, s2, n) =
                    FirstOf({i \in 0..(n - 1) : mem[s1 + i] # mem[s2 + i]}, s1, s2)
      <3>1. s1 \in Nat /\ s2 \in Nat /\ n \in Nat
        BY <2>1
      <3> QED BY <3>1, MemcmpUnsigned, Zenon
    <2>3. ASSUME MemoryInv, NEW s1 \in Pointers, NEW s2 \in Pointers
          PROVE  LET longest == 11 - (IF s1 > s2 THEN s1 ELSE s2)
                     stops == {i \in 0..longest : mem[s1 + i] # mem[s2 + i] \/ mem[s1 + i] = 0}
                 IN  strcmp(mem, s1, s2) = FirstOf(stops, s1, s2)
      <3>1. s1 \in Cell /\ s2 \in Cell
        BY <2>1
      <3> QED BY <2>3, <3>1, StrcmpUnsigned
    <2> QED BY <2>2, <2>3 DEF ComparesUnsigned
  <1> QED BY <1>1, MemoryInvariant, PTL

\* memcpy, memset and strcpy change the bytes they name to what they should
\* be and no other, for pointers of either size (string.c:5-38, 87-93).
THEOREM CopiesCorrect == Spec => []CopiesAndFills
  <1>1. ASSUME MemoryInv PROVE CopiesAndFills
    <2> DEFINE given == {0, 1, -1, 300}
    <2>1. /\ Ended(mem, 11) /\ OfSize(mem, 11) /\ DOMAIN mem = 0..11
          /\ Cell = 0..11
      BY <1>1 DEF MemoryInv, Cell, Ended, OfSize
    <2>2. /\ Pointers \subseteq Nat /\ Pointers \subseteq 0..11 /\ Lengths \subseteq Nat
          /\ given \subseteq Int
      BY DEF Pointers, Lengths
    <2> HIDE DEF given
    <2>3. \A dest, src, len : Copied(dest, src, len) = CopyOf(mem, 11, dest, src, len)
      BY <2>1 DEF Copied, CopyOf
    <2>4. ASSUME NEW dest \in Pointers, NEW len \in Lengths, NEW byte \in given
          PROVE  memset(mem, dest, byte, len) =
                    [c \in Cell |-> IF c \in Region(dest, len) THEN byte % 256 ELSE mem[c]]
      <3>1. dest \in Nat /\ len \in Nat /\ byte \in Int
        BY <2>2
      <3>2. memset(mem, dest, byte, len) = FillOf(mem, 11, dest, byte, len)
        BY <2>1, <3>1, MemsetFills
      <3> QED BY <2>1, <3>2, Zenon DEF FillOf
    <2>5. ASSUME NEW dest \in Pointers, NEW src \in Pointers, NEW len \in Lengths,
                 Region(dest, len) \cup Region(src, len) \subseteq Cell,
                 Region(dest, len) \cap Region(src, len) = {}
          PROVE  memcpy(mem, dest, src, len) = Copied(dest, src, len)
      <3>1. dest \in Nat /\ src \in Nat /\ len \in Nat
        BY <2>2
      <3>2. Region(dest, len) \subseteq 0..11 /\ Region(src, len) \subseteq 0..11
        BY <2>1, <2>5
      <3>3. memcpy(mem, dest, src, len) = CopyOf(mem, 11, dest, src, len)
        BY <2>1, <2>5, <3>1, <3>2, MemcpyCopies
      <3> QED BY <2>3, <3>3
    <2>6. ASSUME NEW dest \in Pointers, NEW src \in Pointers,
                 Region(dest, strlen(mem, src) + 1) \subseteq Cell,
                 Region(dest, strlen(mem, src) + 1) \cap Region(src, strlen(mem, src) + 1) = {}
          PROVE  strcpy(mem, dest, src) = Copied(dest, src, strlen(mem, src) + 1)
      <3> DEFINE len == strlen(mem, src) + 1
      <3>1. dest \in 0..11 /\ src \in 0..11
        BY <2>2
      <3>2. len \in Nat \ {0}
        <4>1. IsString(mem, 11, src, strlen(mem, src))
          BY <2>1, <3>1, StrlenIs, Zenon
        <4> QED BY <4>1 DEF IsString
      <3>3. /\ len = strlen(mem, src) + 1
            /\ Region(dest, len) \subseteq 0..11 /\ Region(dest, len) \cap Region(src, len) = {}
        BY <2>1, <2>6
      <3> HIDE DEF len
      <3>4. strcpy(mem, dest, src) = CopyOf(mem, 11, dest, src, len)
        BY <2>1, <3>1, <3>2, <3>3, StrcpyCopies, Zenon
      <3>5. strcpy(mem, dest, src) = Copied(dest, src, len)
        BY <2>3, <3>4, Zenon
      <3> QED BY <3>5 DEF len
    <2>7. ASSUME NEW dest \in Pointers, NEW src \in Pointers
          PROVE  LET len == strlen(mem, src) + 1
                 IN  /\ Region(dest, len) \subseteq Cell
                     /\ Region(dest, len) \cap Region(src, len) = {}
                     => strcpy(mem, dest, src) = Copied(dest, src, len)
      BY <2>6, Zenon
    <2>8. ASSUME NEW dest \in Pointers, NEW src \in Pointers, NEW len \in Lengths
          PROVE  /\ Region(dest, len) \cup Region(src, len) \subseteq Cell
                 /\ Region(dest, len) \cap Region(src, len) = {}
                 => memcpy(mem, dest, src, len) = Copied(dest, src, len)
      BY <2>5, Zenon
    <2> SUFFICES ASSUME NEW dest \in Pointers
                 PROVE  /\ \A len \in Lengths, byte \in given :
                              Region(dest, len) \subseteq Cell =>
                              memset(mem, dest, byte, len) =
                                  [c \in Cell |-> IF c \in Region(dest, len) THEN byte % 256
                                                  ELSE mem[c]]
                        /\ \A src \in Pointers, len \in Lengths :
                              /\ Region(dest, len) \cup Region(src, len) \subseteq Cell
                              /\ Region(dest, len) \cap Region(src, len) = {}
                              => memcpy(mem, dest, src, len) = Copied(dest, src, len)
                        /\ \A src \in Pointers :
                              LET len == strlen(mem, src) + 1
                              IN  /\ Region(dest, len) \subseteq Cell
                                  /\ Region(dest, len) \cap Region(src, len) = {}
                                  => strcpy(mem, dest, src) = Copied(dest, src, len)
      BY Zenon DEF CopiesAndFills, given
    <2>9. \A len \in Lengths, byte \in given : Region(dest, len) \subseteq Cell =>
             memset(mem, dest, byte, len) =
                [c \in Cell |-> IF c \in Region(dest, len) THEN byte % 256 ELSE mem[c]]
      BY <2>4
    <2>10. \A src \in Pointers, len \in Lengths :
              /\ Region(dest, len) \cup Region(src, len) \subseteq Cell
              /\ Region(dest, len) \cap Region(src, len) = {}
              => memcpy(mem, dest, src, len) = Copied(dest, src, len)
      BY <2>8, Zenon
    <2>11. \A src \in Pointers :
              LET len == strlen(mem, src) + 1
              IN  /\ Region(dest, len) \subseteq Cell
                  /\ Region(dest, len) \cap Region(src, len) = {}
                  => strcpy(mem, dest, src) = Copied(dest, src, len)
      BY <2>7, Zenon
    <2> QED BY <2>9, <2>10, <2>11, Zenon
  <1> QED BY <1>1, MemoryInvariant, PTL

-----------------------------------------------------------------------------
(* The shift register of 6 bits *)

\* What it leads to, as arithmetic
ShiftNext(x) == (((x + (x \div 2)) % 2) * 32) + (x \div 2)

LEMMA ShiftNextIs ==
    /\ Shift!MAX_TEST_PAGES = 63
    /\ \A x \in Nat : Shift!LFSR_NEXT(x) = ShiftNext(x) /\ ShiftNext(x) \in Nat
  BY DEF Shift!MAX_TEST_PAGES, Shift!LFSR_NEXT, ShiftNext

\* The walk from 1 meets every number, and is back at 1 after 63 steps.
ShiftCycle(w) ==
    /\ w[0] = 1 /\ w[63] = 1
    /\ \A i \in 0..62 : w[i + 1] = ShiftNext(w[i])
    /\ \A i \in 0..62 : w[i] \in 1..63
    /\ \A x \in 1..63 : \E i \in 0..62 : w[i] = x

LEMMA ShiftOrder ==
    ASSUME NEW w, w[0] = 1, \A i \in 0..62 : w[i + 1] = ShiftNext(w[i])
    PROVE  ShiftCycle(w)
  <1>1. /\ w[1] = 32 /\ w[2] = 16 /\ w[3] = 8 /\ w[4] = 4
        /\ w[5] = 2 /\ w[6] = 33 /\ w[7] = 48 /\ w[8] = 24
    BY DEF ShiftNext
  <1>2. /\ w[9] = 12 /\ w[10] = 6 /\ w[11] = 35 /\ w[12] = 17
        /\ w[13] = 40 /\ w[14] = 20 /\ w[15] = 10 /\ w[16] = 37
    BY <1>1 DEF ShiftNext
  <1>3. /\ w[17] = 50 /\ w[18] = 57 /\ w[19] = 60 /\ w[20] = 30
        /\ w[21] = 47 /\ w[22] = 23 /\ w[23] = 11 /\ w[24] = 5
    BY <1>2 DEF ShiftNext
  <1>4. /\ w[25] = 34 /\ w[26] = 49 /\ w[27] = 56 /\ w[28] = 28
        /\ w[29] = 14 /\ w[30] = 39 /\ w[31] = 19 /\ w[32] = 9
    BY <1>3 DEF ShiftNext
  <1>5. /\ w[33] = 36 /\ w[34] = 18 /\ w[35] = 41 /\ w[36] = 52
        /\ w[37] = 26 /\ w[38] = 45 /\ w[39] = 54 /\ w[40] = 59
    BY <1>4 DEF ShiftNext
  <1>6. /\ w[41] = 29 /\ w[42] = 46 /\ w[43] = 55 /\ w[44] = 27
        /\ w[45] = 13 /\ w[46] = 38 /\ w[47] = 51 /\ w[48] = 25
    BY <1>5 DEF ShiftNext
  <1>7. /\ w[49] = 44 /\ w[50] = 22 /\ w[51] = 43 /\ w[52] = 21
        /\ w[53] = 42 /\ w[54] = 53 /\ w[55] = 58 /\ w[56] = 61
    BY <1>6 DEF ShiftNext
  <1>8. /\ w[57] = 62 /\ w[58] = 63 /\ w[59] = 31 /\ w[60] = 15
        /\ w[61] = 7 /\ w[62] = 3 /\ w[63] = 1
    BY <1>7 DEF ShiftNext
  <1>9. \A i \in 0..62 : w[i] \in 1..63
    BY <1>1, <1>2, <1>3, <1>4, <1>5, <1>6, <1>7, <1>8
  <1>10. \A x \in 1..63 : \E i \in 0..62 : w[i] = x
    BY <1>1, <1>2, <1>3, <1>4, <1>5, <1>6, <1>7, <1>8
  <1> QED BY <1>8, <1>9, <1>10 DEF ShiftCycle

LEMMA ShiftCycleExists == \E w : ShiftCycle(w)
  <1> DEFINE next == [p \in Nat \X (1..63) |-> ShiftNext(p[1])]
  <1>1. RecursionHas(63, Nat, 1, next)
    <2>1. RecursionSteps(63, Nat, next)
      BY ShiftNextIs DEF RecursionSteps
    <2> HIDE DEF next
    <2> QED BY <2>1, RecursionExists
  <1>2. PICK w \in [0..63 -> Nat] : RecursionSolves(w, 63, 1, next)
    <2> HIDE DEF next
    <2> QED BY <1>1 DEF RecursionHas
  <1>3. w[0] = 1 /\ \A k \in 1..63 : w[k] = next[<<w[k - 1], k>>]
    BY <1>2 DEF RecursionSolves
  <1>4. \A k \in 1..63 : w[k] = ShiftNext(w[k - 1])
    <2>1. \A k \in 1..63 : w[k - 1] \in Nat
      BY <1>2
    <2> QED BY <1>3, <2>1
  <1>5. \A i \in 0..62 : w[i + 1] = ShiftNext(w[i])
    <2> TAKE i \in 0..62
    <2> DEFINE k == i + 1
    <2>1. k \in 1..63 /\ k - 1 = i
      OBVIOUS
    <2> HIDE DEF k
    <2>2. w[k] = ShiftNext(w[i])
      BY <1>4, <2>1
    <2> QED BY <2>2 DEF k
  <1> QED BY <1>3, <1>5, ShiftOrder

\* So a walk from any number does: it is the same walk from a later step on.
LEMMA ShiftMeetsEveryNumber ==
    ASSUME NEW x \in 1..63
    PROVE  Shift!MeetsEveryNumber(x)
  <1>1. PICK w : ShiftCycle(w)
    BY ShiftCycleExists
  <1>2. PICK j \in 0..62 : w[j] = x
    BY <1>1 DEF ShiftCycle
  <1> DEFINE at(i) == w[IF i + j < 63 THEN i + j ELSE i + j - 63]
             body(f) == [i \in 0..62 |-> IF i = 0 THEN x ELSE Shift!LFSR_NEXT(f[i - 1])]
             walk == CHOOSE f : f = body(f)
             g == [i \in 0..62 |-> at(i)]
  <1>3. at(0) = x /\ \A i \in 0..62 : at(i) \in 1..63
    <2>1. \A i \in 0..62 : w[i] \in 1..63
      BY <1>1 DEF ShiftCycle
    <2>2. ASSUME NEW i \in 0..62 PROVE at(i) \in 1..63
      <3> DEFINE k == IF i + j < 63 THEN i + j ELSE i + j - 63
      <3>1. k \in 0..62
        OBVIOUS
      <3> HIDE DEF k
      <3>2. w[k] \in 1..63
        BY <2>1, <3>1
      <3> QED BY <3>2 DEF k
    <2>3. (IF 0 + j < 63 THEN 0 + j ELSE 0 + j - 63) = j
      OBVIOUS
    <2>4. at(0) = x
      BY <1>2, <2>3
    <2> HIDE DEF at
    <2> QED BY <2>2, <2>4
  <1>4. ASSUME NEW i \in 1..62 PROVE at(i) = Shift!LFSR_NEXT(at(i - 1))
    <2>1. at(i) = ShiftNext(at(i - 1))
      <3> DEFINE k == IF i + j <= 63 THEN i + j - 1 ELSE i + j - 64
      <3>1. /\ k \in 0..62 /\ at(i - 1) = w[k]
            /\ i + j # 63 => at(i) = w[k + 1]
            /\ i + j = 63 => k = 62 /\ at(i) = w[0]
        OBVIOUS
      <3> HIDE DEF at, k
      <3>2. w[k + 1] = ShiftNext(w[k]) /\ w[0] = w[63]
        BY <1>1, <3>1 DEF ShiftCycle
      <3>3. k = 62 => w[k + 1] = w[63]
        OBVIOUS
      <3> QED BY <3>1, <3>2, <3>3
    <2>2. at(i - 1) \in Nat
      <3>1. i - 1 \in 0..62
        OBVIOUS
      <3> HIDE DEF at
      <3> QED BY <1>3, <3>1
    <2> HIDE DEF at
    <2> QED BY <2>1, <2>2, ShiftNextIs
  <1> HIDE DEF at
  <1>5. Shift!Walk(x) = walk
    <2> DEFINE body2(f) == [i \in 0..(Shift!MAX_TEST_PAGES - 1) |->
                              IF i = 0 THEN x ELSE Shift!LFSR_NEXT(f[i - 1])]
    <2>1. Shift!Walk(x) = CHOOSE f : f = body2(f)
      BY Zenon DEF Shift!Walk
    <2>2. \A f : body2(f) = body(f)
      <3>1. Shift!MAX_TEST_PAGES - 1 = 62
        BY ShiftNextIs
      <3> QED BY <3>1, Zenon
    <2> HIDE DEF body, body2
    <2> QED BY <2>1, <2>2
  <1>6. walk = body(walk)
    <2>1. \A i \in 0..62 : i # 0 => i \in 1..62 /\ i - 1 \in 0..62
      OBVIOUS
    <2>2. \A i \in 0..62 : g[i] = IF i = 0 THEN x ELSE Shift!LFSR_NEXT(g[i - 1])
      BY <1>3, <1>4, <2>1
    <2>3. g = [i \in 0..62 |-> g[i]]
      OBVIOUS
    <2> HIDE DEF g
    <2>4. g = body(g)
      BY <2>2, <2>3
    <2> HIDE DEF body
    <2> QED BY <2>4, Zenon
  <1> HIDE DEF walk
  <1>7. \A i \in 0..62 : walk[i] = IF i = 0 THEN x ELSE Shift!LFSR_NEXT(walk[i - 1])
    <2> DEFINE c == body(walk)
    <2>1. \A i \in 0..62 : c[i] = IF i = 0 THEN x ELSE Shift!LFSR_NEXT(walk[i - 1])
      OBVIOUS
    <2> HIDE DEF c
    <2> QED BY <1>6, <2>1 DEF c
  <1> HIDE DEF body, g
  <1> DEFINE S == {i \in 0..62 : walk[i] = at(i)}
  <1>8. \A i \in 0..62 : walk[i] = at(i)
    <2>1. 0 \in S
      BY <1>3, <1>7
    <2>2. ASSUME NEW i \in 0..(62 - 1), i \in S PROVE i + 1 \in S
      <3> DEFINE k == i + 1
      <3>1. k \in 1..62 /\ k \in 0..62 /\ k # 0 /\ k - 1 = i
        OBVIOUS
      <3> HIDE DEF k
      <3>2. k \in S
        BY <1>4, <1>7, <2>2, <3>1
      <3> QED BY <3>2 DEF k
    <2>3. \A i \in 0..62 : i \in S
      <3> HIDE DEF S
      <3> QED BY <2>1, <2>2, UpTo
    <2> QED BY <2>3
  <1>9. \A y \in 1..63 : \E i \in 0..62 : at(i) = y
    <2> TAKE y \in 1..63
    <2>1. PICK m \in 0..62 : w[m] = y
      BY <1>1 DEF ShiftCycle
    <2> DEFINE i == IF m >= j THEN m - j ELSE m - j + 63
    <2>2. i \in 0..62 /\ at(i) = y
      BY <2>1 DEF at
    <2> QED BY <2>2
  <1>10. {walk[i] : i \in 0..62} = 1..63
    <2>1. \A i \in 0..62 : walk[i] \in 1..63
      BY <1>3, <1>8
    <2>2. \A y \in 1..63 : \E i \in 0..62 : walk[i] = y
      BY <1>8, <1>9
    <2> HIDE DEF walk
    <2>3. {walk[i] : i \in 0..62} \subseteq 1..63
      BY <2>1, Zenon
    <2>4. 1..63 \subseteq {walk[i] : i \in 0..62}
      BY <2>2, Zenon
    <2> QED BY <2>3, <2>4, Zenon
  <1>11. Shift!MAX_TEST_PAGES = 63 /\ Shift!MAX_TEST_PAGES - 1 = 62
    BY ShiftNextIs
  <1>12. {Shift!Walk(x)[i] : i \in 0..(Shift!MAX_TEST_PAGES - 1)} = 1..Shift!MAX_TEST_PAGES
    BY <1>5, <1>10, <1>11
  <1> QED BY <1>12 DEF Shift!MeetsEveryNumber

\* From whatever number vm_boot starts, for words of every width
\* (riscv_test.h:66-71)
THEOREM PeriodCorrect == Spec => []FramesInFullPeriod
  <1>1. ASSUME OperandsInv PROVE FramesInFullPeriod
    <2> DEFINE entropy == Value(a) + Modulus * Value(b)
    <2>1. entropy \in Nat
      <3>1. Value(a) \in Nat /\ Value(b) \in Nat
        BY <1>1, ValueBound DEF OperandsInv
      <3>2. Modulus \in Nat
        BY XLENAssumption, PowerStep DEF Modulus
      <3>3. \A x \in Nat, y \in Nat, m \in Nat : x + m * y \in Nat
        OBVIOUS
      <3> QED BY <3>1, <3>2, <3>3
    <2> HIDE DEF entropy
    <2>2. 1 + (entropy % Shift!MAX_TEST_PAGES) \in 1..63
      BY <2>1, ShiftNextIs
    <2> DEFINE random == 1 + (entropy % Shift!MAX_TEST_PAGES)
    <2> HIDE DEF random
    <2>3. Shift!MeetsEveryNumber(random)
      BY <2>2, ShiftMeetsEveryNumber DEF random
    <2> QED BY <2>3 DEF FramesInFullPeriod, random, entropy
  <1> QED BY <1>1, OperandsAreWords, PTL

-----------------------------------------------------------------------------
(* atol *)

\* Digits d[1..n] read from the first on, as the loop does
Reads(f, n, d) ==
    /\ f \in [0..n -> Int] /\ f[0] = 0
    /\ \A k \in 1..n : f[k] = f[k - 1] * 10 + d[k]

\* The powers of ten, and the digits from the last on, each with its weight
Weighs(w, n) == w \in [0..n -> Int] /\ w[0] = 1 /\ \A k \in 1..n : w[k] = 10 * w[k - 1]
Counts(v, n, d, w) ==
    /\ v \in [0..n -> Int] /\ v[0] = 0
    /\ \A k \in 1..n : v[k] = v[k - 1] + d[n - k + 1] * w[k - 1]

\* Both ways come to the same number: what is read before the last k digits,
\* moved up by k places, and what these count for, is what is read in all.
LEMMA ReadsIsCounts ==
    ASSUME NEW n \in Nat, NEW d \in [1..n -> Int], NEW f, NEW w, NEW v,
           Reads(f, n, d), Weighs(w, n), Counts(v, n, d, w)
    PROVE  f[n] = v[n]
  <1> DEFINE S == {k \in 0..n : f[n - k] * w[k] + v[k] = f[n]}
  <1>1. f[n] \in Int /\ f[0] = 0 /\ w[0] = 1 /\ v[0] = 0
    BY DEF Reads, Weighs, Counts
  <1>2. 0 \in S
    <2>1. \A x \in Int : x * 1 + 0 = x
      OBVIOUS
    <2>2. n - 0 = n /\ 0 \in 0..n
      OBVIOUS
    <2> QED BY <1>1, <2>1, <2>2
  <1>3. ASSUME NEW k \in 0..(n - 1), k \in S PROVE k + 1 \in S
    <2> DEFINE l == k + 1
               m == n - k
    <2>1. /\ l \in 1..n /\ l \in 0..n /\ l - 1 = k /\ n - l = m - 1 /\ n - l + 1 = m
          /\ m \in 1..n /\ m - 1 \in 0..n /\ k \in 0..n
      OBVIOUS
    <2>2. f[m] * w[k] + v[k] = f[n]
      BY <1>3
    <2> HIDE DEF l, m
    <2>3. f[m] = f[m - 1] * 10 + d[m] /\ f[m - 1] \in Int
      BY <2>1 DEF Reads
    <2>4. w[l] = 10 * w[k] /\ w[k] \in Int
      BY <2>1 DEF Weighs
    <2>5. v[l] = v[k] + d[m] * w[k] /\ v[k] \in Int
      BY <2>1 DEF Counts
    <2>6. d[m] \in Int
      BY <2>1
    <2>7. \A x \in Int, y \in Int, z \in Int, u \in Int :
             x * (10 * z) + (u + y * z) = (x * 10 + y) * z + u
      OBVIOUS
    <2> DEFINE x == f[m - 1]
               y == d[m]
               z == w[k]
               u == v[k]
    <2>8. x * (10 * z) + (u + y * z) = (x * 10 + y) * z + u
      <3>1. x \in Int /\ y \in Int /\ z \in Int /\ u \in Int
        BY <2>3, <2>4, <2>5, <2>6
      <3> HIDE DEF x, y, z, u
      <3> QED BY <2>7, <3>1
    <2>9. f[n - l] * w[l] + v[l] = f[n]
      BY <2>1, <2>2, <2>3, <2>4, <2>5, <2>8
    <2>10. l \in S
      BY <2>1, <2>9
    <2> QED BY <2>10 DEF l
  <1>4. n \in S
    <2>1. \A k \in 0..n : k \in S
      <3> HIDE DEF S
      <3> QED BY <1>2, <1>3, UpTo
    <2>2. n \in 0..n
      OBVIOUS
    <2> HIDE DEF S
    <2> QED BY <2>1, <2>2
  <1>5. f[0] * w[n] + v[n] = f[n] /\ w[n] \in Int /\ v[n] \in Int
    <2>1. n - n = 0 /\ n \in 0..n
      OBVIOUS
    <2> QED BY <1>4, <2>1 DEF Weighs, Counts
  <1>6. \A x \in Int, y \in Int : 0 * x + y = y
    OBVIOUS
  <1> QED BY <1>1, <1>5, <1>6

WeightBody(f, n) == [k \in 0..n |-> IF k = 0 THEN 1 ELSE 10 * f[k - 1]]

LEMMA WeightsWeigh ==
    ASSUME NEW n \in Nat, NEW w, w = CHOOSE f : f = WeightBody(f, n)
    PROVE  Weighs(w, n)
  <1> DEFINE next == [p \in Int \X (1..n) |-> 10 * p[1]]
  <1>1. RecursionSteps(n, Int, next) /\ 1 \in Int
    BY DEF RecursionSteps
  <1>2. /\ \A k \in 0..n : k # 0 => k \in 1..n /\ k - 1 \in 0..n
        /\ 0 \in 0..n /\ \A k \in 1..n : k \in 0..n /\ k # 0
    OBVIOUS
  <1>3. \A x \in Int, k \in 1..n : next[<<x, k>>] = 10 * x
    OBVIOUS
  <1>4. PICK f \in [0..n -> Int] : RecursionSolves(f, n, 1, next)
    <2> HIDE DEF next
    <2>1. RecursionHas(n, Int, 1, next)
      BY <1>1, RecursionExists
    <2> QED BY <2>1 DEF RecursionHas
  <1> HIDE DEF next
  <1>5. f = WeightBody(f, n)
    <2>1. \A k \in 0..n : f[k] = IF k = 0 THEN 1 ELSE 10 * f[k - 1]
      BY <1>2, <1>3, <1>4 DEF RecursionSolves
    <2>2. f = [k \in 0..n |-> f[k]]
      BY <1>4
    <2> QED BY <2>1, <2>2 DEF WeightBody
  <1>6. w = WeightBody(w, n)
    BY <1>5, Zenon
  <1>7. w = [k \in 0..n |-> w[k]] /\ \A k \in 0..n : w[k] = IF k = 0 THEN 1 ELSE 10 * w[k - 1]
    <2> DEFINE c == WeightBody(w, n)
    <2>1. c = [k \in 0..n |-> c[k]] /\ \A k \in 0..n : c[k] = IF k = 0 THEN 1 ELSE 10 * w[k - 1]
      BY DEF WeightBody
    <2> HIDE DEF c
    <2> QED BY <1>6, <2>1 DEF c
  <1>8. w[0] = 1 /\ \A k \in 1..n : w[k] = 10 * w[k - 1]
    BY <1>2, <1>7
  <1>9. w \in [0..n -> Int]
    <2>1. \A k \in 1..n : w[k - 1] \in Int => w[k] = next[<<w[k - 1], k>>]
      BY <1>3, <1>8
    <2>2. w = [k \in 0..n |-> w[k]]
      BY <1>7
    <2>3. RecursionFollows(w, n, Int, 1, next)
      BY <1>8, <2>1, <2>2 DEF RecursionFollows
    <2> QED BY <1>1, <2>3, RecursionTyped
  <1> QED BY <1>8, <1>9 DEF Weighs

ValueBody(f, n, d, w) ==
    [k \in 0..n |-> IF k = 0 THEN 0 ELSE f[k - 1] + d[n - k + 1] * w[k - 1]]

LEMMA ValuesCount ==
    ASSUME NEW n \in Nat, NEW d \in [1..n -> Int], NEW w, Weighs(w, n),
           NEW v, v = CHOOSE f : f = ValueBody(f, n, d, w)
    PROVE  Counts(v, n, d, w)
  <1> DEFINE next == [p \in Int \X (1..n) |-> p[1] + d[n - p[2] + 1] * w[p[2] - 1]]
  <1>1. \A k \in 1..n : d[n - k + 1] * w[k - 1] \in Int
    <2> TAKE k \in 1..n
    <2>1. d[n - k + 1] \in Int /\ w[k - 1] \in Int
      BY DEF Weighs
    <2>2. \A x \in Int, y \in Int : x * y \in Int
      OBVIOUS
    <2> QED BY <2>1, <2>2
  <1> DEFINE t == [k \in 1..n |-> d[n - k + 1] * w[k - 1]]
  <1>2. t \in [1..n -> Int] /\ \A k \in 1..n : t[k] = d[n - k + 1] * w[k - 1]
    BY <1>1
  <1> HIDE DEF t
  <1>3. \A x \in Int, k \in 1..n : next[<<x, k>>] = x + t[k]
    BY <1>2
  <1>4. RecursionSteps(n, Int, next) /\ 0 \in Int
    <2>1. next = [p \in Int \X (1..n) |-> p[1] + t[p[2]]]
      BY <1>2
    <2> HIDE DEF next
    <2> QED BY <1>2, <2>1 DEF RecursionSteps
  <1> HIDE DEF next
  <1>5. /\ \A k \in 0..n : k # 0 => k \in 1..n /\ k - 1 \in 0..n
        /\ 0 \in 0..n /\ \A k \in 1..n : k \in 0..n /\ k # 0
    OBVIOUS
  <1>6. PICK f \in [0..n -> Int] : RecursionSolves(f, n, 0, next)
    <2>1. RecursionHas(n, Int, 0, next)
      BY <1>4, RecursionExists
    <2> QED BY <2>1 DEF RecursionHas
  <1>7. f = ValueBody(f, n, d, w)
    <2>1. f[0] = 0 /\ \A k \in 1..n : f[k - 1] \in Int /\ f[k] = f[k - 1] + t[k]
      BY <1>3, <1>5, <1>6 DEF RecursionSolves
    <2>2. \A k \in 0..n : f[k] = IF k = 0 THEN 0 ELSE f[k - 1] + d[n - k + 1] * w[k - 1]
      <3> TAKE k \in 0..n
      <3>1. k # 0 => f[k] = f[k - 1] + t[k] /\ t[k] = d[n - k + 1] * w[k - 1]
        BY <1>2, <1>5, <2>1
      <3> QED BY <2>1, <3>1
    <2>3. f = [k \in 0..n |-> f[k]]
      BY <1>6
    <2> QED BY <2>2, <2>3 DEF ValueBody
  <1>8. v = ValueBody(v, n, d, w)
    BY <1>7, Zenon
  <1>9. /\ v = [k \in 0..n |-> v[k]]
        /\ \A k \in 0..n : v[k] = IF k = 0 THEN 0 ELSE v[k - 1] + d[n - k + 1] * w[k - 1]
    <2> DEFINE c == ValueBody(v, n, d, w)
    <2>1. /\ c = [k \in 0..n |-> c[k]]
          /\ \A k \in 0..n : c[k] = IF k = 0 THEN 0 ELSE v[k - 1] + d[n - k + 1] * w[k - 1]
      BY DEF ValueBody
    <2> HIDE DEF c
    <2> QED BY <1>8, <2>1 DEF c
  <1>10. v[0] = 0 /\ \A k \in 1..n : v[k] = v[k - 1] + d[n - k + 1] * w[k - 1]
    <2>1. v[0] = 0
      BY <1>5, <1>9
    <2>2. ASSUME NEW k \in 1..n PROVE v[k] = v[k - 1] + d[n - k + 1] * w[k - 1]
      <3>1. k \in 0..n /\ k # 0
        BY <1>5
      <3> QED BY <1>9, <3>1, Zenon
    <2> QED BY <2>1, <2>2
  <1>11. v \in [0..n -> Int]
    <2>1. ASSUME NEW k \in 1..n, v[k - 1] \in Int PROVE v[k] = next[<<v[k - 1], k>>]
      <3>1. next[<<v[k - 1], k>>] = v[k - 1] + t[k]
        BY <1>3, <2>1
      <3>2. t[k] = d[n - k + 1] * w[k - 1] /\ v[k] = v[k - 1] + d[n - k + 1] * w[k - 1]
        BY <1>2, <1>10
      <3> QED BY <3>1, <3>2, Zenon
    <2>2. v = [k \in 0..n |-> v[k]]
      BY <1>9
    <2>3. RecursionFollows(v, n, Int, 0, next)
      BY <1>10, <2>1, <2>2, Zenon DEF RecursionFollows
    <2> QED BY <1>4, <2>3, RecursionTyped
  <1> QED BY <1>10, <1>11 DEF Counts

\* A text, or the digits of one
IsText(s) == Len(s) \in Nat /\ \A i \in 1..Len(s) : s[i] \in Int

\* The n digits of a text behind its first q characters
DigitsFrom(s, q, n) == [i \in 1..n |-> s[q + i] - Zero]

LEMMA DecimalCounts ==
    ASSUME NEW digits, IsText(digits)
    PROVE  \E w, v : /\ Weighs(w, Len(digits))
                     /\ Counts(v, Len(digits), DigitsFrom(digits, 0, Len(digits)), w)
                     /\ Decimal(digits) = v[Len(digits)]
  <1> DEFINE n == Len(digits)
             d == DigitsFrom(digits, 0, n)
             weights(f) == [k \in 0..n |-> IF k = 0 THEN 1 ELSE 10 * f[k - 1]]
             w == CHOOSE f : f = weights(f)
             values(f) == [k \in 0..n |-> IF k = 0 THEN 0
                                          ELSE f[k - 1] + (digits[n - k + 1] - Zero) * w[k - 1]]
             v == CHOOSE f : f = values(f)
  <1>1. Decimal(digits) = v[n]
    BY Zenon DEF Decimal
  <1>2. n \in Nat /\ \A i \in 1..n : digits[i] \in Int
    BY DEF IsText
  <1> HIDE DEF n
  <1>3. d \in [1..n -> Int] /\ \A i \in 1..n : d[i] = digits[i] - Zero
    <2>1. \A i \in 1..n : 0 + i = i
      OBVIOUS
    <2>2. d = [i \in 1..n |-> digits[i] - Zero]
      BY <2>1 DEF DigitsFrom
    <2> HIDE DEF d
    <2> QED BY <1>2, <2>2 DEF Zero
  <1> HIDE DEF d
  <1>4. w = CHOOSE f : f = WeightBody(f, n)
    <2>1. \A f : weights(f) = WeightBody(f, n)
      BY DEF WeightBody
    <2> HIDE DEF weights
    <2> QED BY <2>1
  <1> HIDE DEF w
  <1>5. v = CHOOSE f : f = ValueBody(f, n, d, w)
    <2>1. \A k \in 0..n : k # 0 => d[n - k + 1] = digits[n - k + 1] - Zero
      <3>1. \A k \in 0..n : k # 0 => n - k + 1 \in 1..n
        BY <1>2
      <3> QED BY <1>3, <3>1
    <2>2. \A f : values(f) = ValueBody(f, n, d, w)
      BY <2>1 DEF ValueBody
    <2> HIDE DEF values
    <2> QED BY <2>2
  <1> HIDE DEF v
  <1>6. Weighs(w, n)
    BY <1>2, <1>4, WeightsWeigh
  <1>7. Counts(v, n, d, w)
    BY <1>2, <1>3, <1>5, <1>6, ValuesCount
  <1> QED BY <1>1, <1>6, <1>7 DEF n, d

\* The loop of atol over the characters after the first q
AtolFrom(str, q, last) ==
    LET res[i \in q..last] == IF i = q THEN 0 ELSE Digits(res[i - 1], str[i] - Zero)
    IN  res[last]

LEMMA AtolReads ==
    ASSUME NEW str, IsText(str), NEW q \in 0..Len(str)
    PROVE  \E f : /\ Reads(f, Len(str) - q, DigitsFrom(str, q, Len(str) - q))
                  /\ AtolFrom(str, q, Len(str)) = f[Len(str) - q]
  <1> DEFINE last == Len(str)
             n == last - q
             d == DigitsFrom(str, q, n)
             body(f) == [i \in q..last |-> IF i = q THEN 0 ELSE Digits(f[i - 1], str[i] - Zero)]
             res == CHOOSE f : f = body(f)
             next == [p \in Int \X (1..n) |-> p[1] * 10 + d[p[2]]]
             r == [k \in 0..n |-> res[q + k]]
  <1>1. AtolFrom(str, q, last) = res[last]
    BY Zenon DEF AtolFrom
  <1>2. last \in Nat /\ q \in 0..last /\ \A i \in 1..last : str[i] \in Int
    BY DEF IsText
  <1> HIDE DEF last
  <1>3. n \in Nat /\ q + n = last /\ q \in Nat
    BY <1>2
  <1>4. d \in [1..n -> Int] /\ \A k \in 1..n : d[k] = str[q + k] - Zero
    <2>1. \A k \in 1..n : q + k \in 1..last
      BY <1>2
    <2> QED BY <1>2, <2>1 DEF DigitsFrom, Zero
  <1>5. \A i \in q..last : i # q => i - q \in 1..n /\ q + (i - q) = i /\ i - 1 - q = (i - q) - 1
    BY <1>2, <1>3
  <1> HIDE DEF d, n
  <1>6. \A x \in Int, k \in 1..n : next[<<x, k>>] = x * 10 + d[k]
    OBVIOUS
  <1>7. RecursionSteps(n, Int, next) /\ 0 \in Int
    BY <1>4 DEF RecursionSteps
  <1> HIDE DEF next
  <1>8. PICK f \in [0..n -> Int] : RecursionSolves(f, n, 0, next)
    <2> HIDE DEF res, r, body
    <2>1. RecursionHas(n, Int, 0, next)
      BY <1>3, <1>7, RecursionExists
    <2> QED BY <2>1 DEF RecursionHas
  <1> DEFINE g == [i \in q..last |-> f[i - q]]
  <1>9. g = body(g)
    <2>1. f[0] = 0 /\ \A k \in 1..n : f[k] = f[k - 1] * 10 + d[k]
      <3>1. \A k \in 1..n : f[k - 1] \in Int
        BY <1>3, <1>8
      <3> QED BY <1>6, <1>8, <3>1 DEF RecursionSolves
    <2>2. \A i \in q..last : g[i] = IF i = q THEN 0 ELSE Digits(g[i - 1], str[i] - Zero)
      <3> TAKE i \in q..last
      <3>1. CASE i = q
        <4>1. q - q = 0
          BY <1>3
        <4> QED BY <2>1, <3>1, <4>1
      <3>2. CASE i # q
        <4> DEFINE k == i - q
        <4>1. k \in 1..n /\ q + k = i /\ i - 1 - q = k - 1 /\ i - 1 \in q..last
          <5>1. k \in 1..n /\ q + k = i /\ i - 1 - q = k - 1
            BY <1>5, <3>2
          <5>2. i - 1 \in q..last
            BY <1>2, <1>3, <3>2
          <5> QED BY <5>1, <5>2
        <4>2. g[i] = f[k] /\ g[i - 1] = f[k - 1]
          BY <4>1
        <4> HIDE DEF g, k
        <4>3. f[k] = f[k - 1] * 10 + d[k] /\ d[k] = str[i] - Zero
          BY <1>4, <2>1, <4>1
        <4> QED BY <3>2, <4>2, <4>3 DEF Digits
      <3> QED BY <3>1, <3>2
    <2>3. g = [i \in q..last |-> g[i]]
      OBVIOUS
    <2> HIDE DEF g
    <2> QED BY <2>2, <2>3
  <1>10. res = body(res)
    <2> HIDE DEF body, g
    <2> QED BY <1>9, Zenon
  <1> HIDE DEF res
  <1>11. \A i \in q..last : res[i] = IF i = q THEN 0 ELSE Digits(res[i - 1], str[i] - Zero)
    <2> DEFINE c == body(res)
    <2>1. \A i \in q..last : c[i] = IF i = q THEN 0 ELSE Digits(res[i - 1], str[i] - Zero)
      OBVIOUS
    <2> HIDE DEF c
    <2> QED BY <1>10, <2>1 DEF c
  <1> HIDE DEF body, g
  <1>12. r[0] = 0
    <2>1. q + 0 = q /\ q \in q..last /\ 0 \in 0..n
      BY <1>2, <1>3
    <2> QED BY <1>11, <2>1
  <1>13. ASSUME NEW k \in 1..n PROVE r[k] = r[k - 1] * 10 + d[k]
    <2>1. /\ q + k \in q..last /\ q + k # q /\ q + k - 1 = q + (k - 1)
          /\ k \in 0..n /\ k - 1 \in 0..n
      BY <1>3
    <2>2. res[q + k] = Digits(res[q + (k - 1)], str[q + k] - Zero)
      BY <1>11, <2>1
    <2> QED BY <1>4, <2>1, <2>2 DEF Digits
  <1>14. RecursionFollows(r, n, Int, 0, next)
    <2>1. r = [k \in 0..n |-> r[k]]
      OBVIOUS
    <2> HIDE DEF r
    <2>2. \A k \in 1..n : r[k - 1] \in Int => r[k] = next[<<r[k - 1], k>>]
      BY <1>6, <1>13
    <2> QED BY <1>12, <2>1, <2>2, Zenon DEF RecursionFollows
  <1>15. AtolFrom(str, q, last) = r[n]
    <2>1. n \in 0..n
      BY <1>3
    <2> QED BY <1>1, <1>3, <2>1
  <1> HIDE DEF r
  <1>16. r \in [0..n -> Int]
    BY <1>3, <1>7, <1>14, RecursionTyped
  <1>17. Reads(r, n, d)
    BY <1>12, <1>13, <1>16 DEF Reads
  <1> QED BY <1>15, <1>17 DEF last, n, d

\* What the loop computes is the number that the characters stand for.
LEMMA AtolNumber ==
    ASSUME NEW str \in Seq(Int), NEW q \in 0..Len(str)
    PROVE  AtolFrom(str, q, Len(str)) = Decimal(SubSeq(str, q + 1, Len(str)))
  <1> DEFINE digits == SubSeq(str, q + 1, Len(str))
             n == Len(str) - q
             d == DigitsFrom(str, q, n)
  <1>1. Len(str) \in Nat /\ \A i \in 1..Len(str) : str[i] \in Int
    BY LenProperties, ElementOfSeq
  <1>2. /\ digits \in Seq(Int) /\ Len(digits) = n /\ n \in Nat
        /\ \A i \in 1..n : digits[i] = str[q + i]
    <2> DEFINE m == q + 1
               l == Len(str)
    <2>1. m \in Int /\ l \in Int /\ \A i \in m..l : str[i] \in Int
      BY <1>1
    <2>2. /\ digits = SubSeq(str, m, l)
          /\ (IF m <= l THEN l - m + 1 ELSE 0) = n /\ l - m + 1 = n /\ n \in Nat
          /\ \A i \in 1..n : m + i - 1 = q + i
      BY <1>1
    <2> HIDE DEF m, l, digits, n, d
    <2>3. /\ SubSeq(str, m, l) \in Seq(Int)
          /\ Len(SubSeq(str, m, l)) = IF m <= l THEN l - m + 1 ELSE 0
          /\ \A i \in 1..(l - m + 1) : SubSeq(str, m, l)[i] = str[m + i - 1]
      BY <2>1, SubSeqProperties
    <2>4. \A i \in 1..n : digits[i] = str[q + i]
      BY <2>2, <2>3
    <2> QED BY <2>2, <2>3, <2>4
  <1>3. \A i \in 1..n : q + i \in 1..Len(str) /\ 0 + i = i
    BY <1>1
  <1> HIDE DEF n, digits
  <1>4. IsText(str) /\ IsText(digits)
    BY <1>1, <1>2, <1>3 DEF IsText
  <1>5. DigitsFrom(digits, 0, n) = d
    BY <1>2, <1>3 DEF DigitsFrom
  <1>6. d \in [1..n -> Int]
    BY <1>1, <1>3 DEF DigitsFrom, Zero
  <1> HIDE DEF d
  <1>7. PICK w, v : Weighs(w, n) /\ Counts(v, n, d, w) /\ Decimal(digits) = v[n]
    <2>1. \E w, v : /\ Weighs(w, Len(digits))
                    /\ Counts(v, Len(digits), DigitsFrom(digits, 0, Len(digits)), w)
                    /\ Decimal(digits) = v[Len(digits)]
      BY <1>4, DecimalCounts, Zenon
    <2> QED BY <1>2, <1>5, <2>1
  <1>8. PICK f : Reads(f, n, d) /\ AtolFrom(str, q, Len(str)) = f[n]
    <2>1. \E f : /\ Reads(f, Len(str) - q, DigitsFrom(str, q, Len(str) - q))
                 /\ AtolFrom(str, q, Len(str)) = f[Len(str) - q]
      BY <1>4, AtolReads, Zenon
    <2>2. Len(str) - q = n /\ DigitsFrom(str, q, Len(str) - q) = d
      BY DEF n, d
    <2> QED BY <2>1, <2>2
  <1>9. f[n] = v[n]
    <2>1. n \in Nat /\ Reads(f, n, d) /\ Weighs(w, n) /\ Counts(v, n, d, w)
      BY <1>2, <1>7, <1>8, Zenon
    <2> QED BY <1>6, <2>1, ReadsIsCounts, Zenon
  <1> QED BY <1>7, <1>8, <1>9 DEF digits

\* The sign is the first character that is not blank, if it is a sign.
LEMMA AtolStarts ==
    ASSUME NEW str \in Seq(Int), NEW start \in 1..Len(str), str[start] # Space,
           \A i \in 1..(start - 1) : str[i] = Space
    PROVE  /\ str[start] \notin {Plus, Minus} =>
                 atol(str) = Decimal(SubSeq(str, start, Len(str)))
           /\ str[start] = Plus => atol(str) = Decimal(SubSeq(str, start + 1, Len(str)))
           /\ str[start] = Minus => atol(str) = -Decimal(SubSeq(str, start + 1, Len(str)))
  <1> DEFINE last == Len(str)
             blank == {i \in 0..last : \A j \in 1..i : str[j] = Space}
             first == 1 + (CHOOSE i \in blank : i + 1 \notin blank)
             signed == first <= last /\ str[first] \in {Plus, Minus}
             from == IF signed THEN first + 1 ELSE first
             value == AtolFrom(str, from - 1, last)
  <1>1. atol(str) = IF signed /\ str[first] = Minus THEN -value ELSE value
    BY Zenon DEF atol, AtolFrom
  <1>2. last \in Nat
    BY LenProperties
  <1>3. first = start
    <2> HIDE DEF last
    <2>1. start - 1 \in blank /\ (start - 1) + 1 \notin blank
      <3>1. start - 1 \in 0..last /\ (start - 1) + 1 = start /\ start \in 1..start
        BY <1>2 DEF last
      <3>2. start \notin blank
        BY <3>1
      <3> QED BY <3>1, <3>2
    <2>2. ASSUME NEW i \in blank, i + 1 \notin blank PROVE i = start - 1
      <3>1. i \in 0..last /\ ~(start <= i)
        <4>1. i \in 0..last /\ \A j \in 1..i : str[j] = Space
          OBVIOUS
        <4>2. start <= i => start \in 1..i
          BY <1>2, <4>1 DEF last
        <4> QED BY <4>1, <4>2
      <3>2. ~(i < start - 1)
        <4>1. i < start - 1 => i + 1 \in 0..last /\ \A j \in 1..(i + 1) : j \in 1..(start - 1)
          BY <1>2, <3>1 DEF last
        <4>2. i < start - 1 => i + 1 \in blank
          BY <4>1
        <4> HIDE DEF blank
        <4> QED BY <2>2, <4>2
      <3> QED BY <3>1, <3>2
    <2> DEFINE c == CHOOSE i \in blank : i + 1 \notin blank
    <2>3. first = 1 + c
      OBVIOUS
    <2>4. c \in blank /\ c + 1 \notin blank
      <3> HIDE DEF blank
      <3> QED BY <2>1
    <2> HIDE DEF blank, c, first
    <2>5. c = start - 1
      BY <2>2, <2>4
    <2> QED BY <2>3, <2>5
  <1> HIDE DEF first, last
  <1>4. signed <=> str[start] \in {Plus, Minus}
    BY <1>2, <1>3 DEF last
  <1>5. /\ ~signed => from - 1 = start - 1
        /\ signed => from - 1 = start
    BY <1>3
  <1>6. /\ AtolFrom(str, start - 1, last) = Decimal(SubSeq(str, start, last))
        /\ AtolFrom(str, start, last) = Decimal(SubSeq(str, start + 1, last))
    <2>1. start - 1 \in 0..Len(str) /\ start \in 0..Len(str) /\ (start - 1) + 1 = start
      BY <1>2 DEF last
    <2>2. AtolFrom(str, start - 1, Len(str)) = Decimal(SubSeq(str, (start - 1) + 1, Len(str)))
      BY <2>1, AtolNumber, Zenon
    <2>3. AtolFrom(str, start, Len(str)) = Decimal(SubSeq(str, start + 1, Len(str)))
      BY <2>1, AtolNumber, Zenon
    <2> QED BY <2>1, <2>2, <2>3 DEF last
  <1> HIDE DEF signed, from
  <1>7. Plus # Minus
    BY DEF Plus, Minus
  <1>8. CASE str[start] \notin {Plus, Minus}
    BY <1>1, <1>3, <1>4, <1>5, <1>6, <1>7, <1>8 DEF last
  <1>9. CASE str[start] = Plus
    <2>1. value = Decimal(SubSeq(str, start + 1, last))
      BY <1>4, <1>5, <1>6, <1>9
    <2> HIDE DEF value
    <2> QED BY <1>1, <1>3, <1>7, <1>9, <2>1 DEF last
  <1>10. CASE str[start] = Minus
    <2>1. value = Decimal(SubSeq(str, start + 1, last)) /\ signed
      BY <1>4, <1>5, <1>6, <1>10
    <2> HIDE DEF value
    <2> QED BY <1>1, <1>3, <1>7, <1>10, <2>1 DEF last
  <1> QED BY <1>8, <1>9, <1>10

\* The text is one of characters.
TextInv == text \in Seq(Int)

LEMMA TextInvariant == Spec => []TextInv
  <1>1. Init => TextInv
    BY EmptySeq DEF Init, TextInv
  <1>2. TextInv /\ [Next]_vars => TextInv'
    <2> SUFFICES ASSUME TextInv, [Next]_vars PROVE TextInv'
      OBVIOUS
    <2>1. CASE Write
      <3>1. PICK char \in Chars : text' = Append(text, char)
        BY <2>1 DEF Write
      <3>2. char \in Int
        BY DEF Chars, Space, Plus, Minus, Zero
      <3> QED BY <3>1, <3>2, AppendProperties DEF TextInv
    <2>2. CASE Erase
      BY <2>2, EmptySeq DEF Erase, TextInv
    <2>3. CASE FlipA \/ FlipB \/ Poke \/ UNCHANGED vars
      <3>1. text' = text
        BY <2>3 DEF FlipA, FlipB, Poke, OnWords, OnMemory, vars
      <3> QED BY <3>1 DEF TextInv
    <2> QED BY <2>1, <2>2, <2>3 DEF Next
  <1> QED BY <1>1, <1>2, PTL DEF Spec

\* What atol reads, for one place at which the number starts.
LEMMA AtolAt ==
    ASSUME TextInv, NEW start \in 1..Len(text),
           \A i \in 1..(start - 1) : SubSeq(text, 1, start - 1)[i] = Space
    PROVE  /\ Numeral(SubSeq(text, start, Len(text)))
                 => atol(text) = Decimal(SubSeq(text, start, Len(text)))
           /\ text[start] = Plus => atol(text) = Decimal(SubSeq(text, start + 1, Len(text)))
           /\ text[start] = Minus => atol(text) = -Decimal(SubSeq(text, start + 1, Len(text)))
  <1> DEFINE l == Len(text)
             before == start - 1
  <1>1. text \in Seq(Int) /\ l \in Nat /\ \A i \in 1..l : text[i] \in Int
    BY LenProperties, ElementOfSeq DEF TextInv
  <1>2. start \in Int /\ l \in Int /\ before \in Int /\ 1 \in Int
    BY <1>1
  <1>3. \A i \in 1..before : text[i] = Space
    <2>1. \A i \in 1..before : text[i] \in Int
      BY <1>1
    <2>2. \A i \in 1..before : before - 1 + 1 = before /\ 1 + i - 1 = i
      BY <1>2
    <2> HIDE DEF before, l
    <2>3. \A i \in 1..(before - 1 + 1) : SubSeq(text, 1, before)[i] = text[1 + i - 1]
      BY <1>2, <2>1, SubSeqProperties
    <2>4. \A i \in 1..before : SubSeq(text, 1, before)[i] = text[i]
      BY <1>2, <2>2, <2>3
    <2> QED BY <2>4 DEF before
  <1>4. Numeral(SubSeq(text, start, l)) => text[start] >= Zero
    <2>1. \A i \in start..l : text[i] \in Int
      BY <1>1
    <2>2. /\ start + 1 - 1 = start /\ start <= l /\ l - start + 1 \in Nat
          /\ 1 \in 1..(l - start + 1)
      BY <1>1
    <2> HIDE DEF l
    <2>3. /\ Len(SubSeq(text, start, l)) = IF start <= l THEN l - start + 1 ELSE 0
          /\ \A i \in 1..(l - start + 1) : SubSeq(text, start, l)[i] = text[start + i - 1]
      BY <1>2, <2>1, SubSeqProperties
    <2>4. Len(SubSeq(text, start, l)) = l - start + 1 /\ SubSeq(text, start, l)[1] = text[start]
      BY <2>2, <2>3
    <2> QED BY <2>2, <2>4 DEF Numeral
  <1>5. text[start] \in Int
    BY <1>1
  <1>6. /\ text[start] >= Zero => text[start] \notin {Space, Plus, Minus}
        /\ Plus # Space /\ Minus # Space
    BY <1>5 DEF Space, Plus, Minus, Zero
  <1>7. text[start] # Space =>
            /\ text[start] \notin {Plus, Minus} => atol(text) = Decimal(SubSeq(text, start, l))
            /\ text[start] = Plus => atol(text) = Decimal(SubSeq(text, start + 1, l))
            /\ text[start] = Minus => atol(text) = -Decimal(SubSeq(text, start + 1, l))
    BY <1>1, <1>3, AtolStarts, Zenon
  <1> QED BY <1>4, <1>6, <1>7, Zenon

\* atol reads a decimal number with its sign and the blanks before it, each
\* digit with its weight, in every text whose number a long holds
\* (string.c:95-114).
THEOREM AtolCorrect == Spec => []AtolDecimal
  <1>1. TextInv => AtolDecimal
    <2> SUFFICES ASSUME TextInv, NEW start \in 1..Len(text),
                        \A i \in 1..(start - 1) : SubSeq(text, 1, start - 1)[i] = Space
                 PROVE  /\ Numeral(SubSeq(text, start, Len(text)))
                              => atol(text) = Decimal(SubSeq(text, start, Len(text)))
                        /\ text[start] = Plus =>
                              atol(text) = Decimal(SubSeq(text, start + 1, Len(text)))
                        /\ text[start] = Minus =>
                              atol(text) = -Decimal(SubSeq(text, start + 1, Len(text)))
      BY Zenon DEF AtolDecimal
    <2> QED BY AtolAt, Zenon
  <1> QED BY <1>1, TextInvariant, PTL
=============================================================================
