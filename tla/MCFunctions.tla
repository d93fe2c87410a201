---------------------------- MODULE MCFunctions ----------------------------
(***************************************************************************)
(* The functions without a state: the results of execute() and of the      *)
(* reference model against integer arithmetic, for every pair of operands  *)
(* of a small width, and the C library of the virtual-memory environment   *)
(* against what its functions are to return, on small memories and texts.  *)
(* The machine walks through the inputs: it flips a bit of an operand,     *)
(* stores a byte, or writes a character.                                   *)
(***************************************************************************)
EXTENDS Alu, RefAlu, StringLib

Shift == INSTANCE Lfsr WITH LFSR_BITS <- 6

Bytes    == {1, 200}    \* beside 0; as signed chars their order is another
Cell     == 0..11       \* three words
MaxCells == 3           \* bound: bytes that are not 0
Chars    == {Space, Plus, Minus, Zero, Zero + 7}
MaxChars == 4           \* bound: length of a text

VARIABLES a, b, mem, text

vars == <<a, b, mem, text>>

Blank == [c \in Cell |-> 0]

Init == a = {} /\ b = {} /\ mem = Blank /\ text = << >>

OnWords  == mem = Blank /\ text = << >> /\ UNCHANGED <<mem, text>>
OnMemory == a = {} /\ b = {} /\ text = << >> /\ UNCHANGED <<a, b, text>>
OnText   == a = {} /\ b = {} /\ mem = Blank /\ UNCHANGED <<a, b, mem>>

FlipA == OnWords /\ \E i \in Bit : a' = SymDiff(a, {i}) /\ b' = b
FlipB == OnWords /\ \E i \in Bit : b' = SymDiff(b, {i}) /\ a' = a

\* The last cell stays 0, so that every string has an end
Poke ==
    /\ OnMemory
    /\ \E c \in Cell \ {11}, byte \in Bytes \cup {0} : mem' = [mem EXCEPT ![c] = byte]
    /\ Cardinality({c \in Cell : mem'[c] # 0}) <= MaxCells

Write == OnText /\ Len(text) < MaxChars /\ \E char \in Chars : text' = Append(text, char)
Erase == OnText /\ text # << >> /\ text' = << >>

Next == FlipA \/ FlipB \/ Poke \/ Write \/ Erase
Spec == Init /\ [][Next]_vars

-----------------------------------------------------------------------------
Modulus == 2^XLEN
Signed(w) == IF Sign \in w THEN Value(w) - Modulus ELSE Value(w)

Ra(op) == Value(RResult(op, a, b))
Truth(p) == IF p THEN 1 ELSE 0

\* The ten register operations (execute/mod.rs:12-23) are those of integers:
\* sums modulo 2^XLEN, the two orders, shifts as multiplication and as
\* division rounded towards minus infinity, and the bitwise operations by
\* the identities that tie them to sums.
ResultsAreIntegers ==
    /\ Ra("Add") = (Value(a) + Value(b)) % Modulus
    /\ Ra("Sub") = (Value(a) - Value(b)) % Modulus
    /\ Ra("Slt") = Truth(Signed(a) < Signed(b))
    /\ Ra("Sltu") = Truth(Value(a) < Value(b))
    /\ Ra("Or") + Ra("And") = Value(a) + Value(b)
    /\ Ra("Xor") = Ra("Or") - Ra("And")
    /\ \A i \in Bit : Ra("And") % 2^(i + 1) <= Value(b) % 2^(i + 1)
    /\ Value(b) < XLEN =>
          /\ Ra("Sll") = (Value(a) * 2^Value(b)) % Modulus
          /\ Ra("Srl") = Value(a) \div 2^Value(b)
          /\ Signed(RResult("Sra", a, b)) = Signed(a) \div 2^Value(b)

\* An immediate operation computes what the register operation of its name
\* does with the sign-extended immediate in the second register, sltiu
\* included (execute/mod.rs:31-38, 46-50).
ImmediateForms ==
    /\ IResult("Addi", a, b) = RResult("Add", a, b)
    /\ IResult("Slti", a, b) = RResult("Slt", a, b)
    /\ IResult("Sltiu", a, b) = RResult("Sltu", a, b)
    /\ IResult("Xori", a, b) = RResult("Xor", a, b)
    /\ IResult("Ori", a, b) = RResult("Or", a, b)
    /\ IResult("Andi", a, b) = RResult("And", a, b)
    /\ ShiftResult("Slli", a, b \cap 0..4) = RResult("Sll", a, b)
    /\ ShiftResult("Srli", a, b \cap 0..4) = RResult("Srl", a, b)
    /\ ShiftResult("Srai", a, b \cap 0..4) = RResult("Sra", a, b)

\* Branches compare integers, signed or unsigned by their name, and equal
\* operands are on the right side of each (execute/mod.rs:92-99).
BranchesOrder ==
    /\ Taken("Beq", a, b) <=> Value(a) = Value(b)
    /\ Taken("Bne", a, b) <=> Value(a) # Value(b)
    /\ Taken("Blt", a, b) <=> Signed(a) < Signed(b)
    /\ Taken("Bge", a, b) <=> Signed(a) >= Signed(b)
    /\ Taken("Bltu", a, b) <=> Value(a) < Value(b)
    /\ Taken("Bgeu", a, b) <=> Value(a) >= Value(b)

\* lb and lh keep the value of the byte or halfword read as a signed one
\* (execute/mod.rs:59-60), here for every width below that of a word.
SignExtends ==
    \A n \in 1..XLEN :
        Signed(SignExtend(a, n)) =
            IF n - 1 \in a THEN (Value(a) % 2^n) - 2^n ELSE Value(a) % 2^n

-----------------------------------------------------------------------------
(* The reference model *)

\* The bits of a raw word the two arithmetic cases look at
Ir(funct3, bits) == {i + 12 : i \in {k \in 0..2 : (funct3 \div 2^k) % 2 = 1}} \cup bits

OpReg == {5}
Alt   == {30}

\* The reference model computes for each register and immediate operation
\* what the emulator does (mini-rv32ima.h:320-330 against
\* execute/mod.rs:12-23 and 31-50); an immediate whose bit 10 is set is no
\* subtraction.
AluAgrees ==
    /\ \A op \in {<<"Add", 0>>, <<"Sll", 1>>, <<"Slt", 2>>, <<"Sltu", 3>>, <<"Xor", 4>>,
                  <<"Srl", 5>>, <<"Or", 6>>, <<"And", 7>>} :
          RResult(op[1], a, b) = Alu(Ir(op[2], OpReg), a, b)
    /\ \A op \in {<<"Sub", 0>>, <<"Sra", 5>>} :
          RResult(op[1], a, b) = Alu(Ir(op[2], OpReg \cup Alt), a, b)
    /\ \A op \in {<<"Addi", 0>>, <<"Slti", 2>>, <<"Sltiu", 3>>, <<"Xori", 4>>, <<"Ori", 6>>,
                  <<"Andi", 7>>}, bits \in {{}, Alt} :
          IResult(op[1], a, b) = Alu(Ir(op[2], bits), a, b)
    /\ ShiftResult("Slli", a, b \cap 0..4) = Alu(Ir(1, {}), a, b)
    /\ ShiftResult("Srli", a, b \cap 0..4) = Alu(Ir(5, {}), a, b)
    /\ ShiftResult("Srai", a, b \cap 0..4) = Alu(Ir(5, Alt), a, b)

Magnitude(n) == IF n < 0 THEN -n ELSE n

M(funct3) == MulDiv(Ir(funct3, OpReg), a, b)

\* RV32M in the reference model (mini-rv32ima.h:300-317): the halves of the
\* three products, and quotient and remainder that recombine to the dividend,
\* with a remainder smaller than the divisor and of the dividend's sign;
\* division by zero and the signed overflow have the results of the ISA.
MulDivIntegers ==
    /\ Value(M(0)) = (Value(a) * Value(b)) % Modulus
    /\ Signed(M(1)) = (Signed(a) * Signed(b)) \div Modulus
    /\ Signed(M(2)) = (Signed(a) * Value(b)) \div Modulus
    /\ Value(M(3)) = (Value(a) * Value(b)) \div Modulus
    /\ IF b = {}
       THEN M(4) = Bit /\ M(5) = Bit /\ M(6) = a /\ M(7) = a
       ELSE /\ Value(M(5)) * Value(b) + Value(M(7)) = Value(a)
            /\ Value(M(7)) < Value(b)
            /\ (Signed(M(4)) * Signed(b) + Signed(M(6)) - Signed(a)) % Modulus = 0
            /\ Magnitude(Signed(M(6))) < Magnitude(Signed(b))
            /\ Signed(M(6)) # 0 => (Signed(M(6)) < 0 <=> Signed(a) < 0)

-----------------------------------------------------------------------------
(* The C library *)

Pointers == {0, 1, 4, 6, 8}
Lengths  == {0, 1, 3, 4, 6, 8}

Region(p, len) == p..(p + len - 1)

Copied(dest, src, len) ==
    [c \in Cell |-> IF c \in Region(dest, len) THEN mem[src + c - dest] ELSE mem[c]]

\* memcpy, memset and strcpy change the bytes they name to what they should
\* be and no other, by words or by bytes as pointers and length allow
\* (string.c:5-38, 87-93).
CopiesAndFills ==
    \A dest \in Pointers :
        /\ \A len \in Lengths, byte \in {0, 1, -1, 300} : Region(dest, len) \subseteq Cell =>
              memset(mem, dest, byte, len) =
                  [c \in Cell |-> IF c \in Region(dest, len) THEN byte % 256 ELSE mem[c]]
        /\ \A src \in Pointers, len \in Lengths :
              /\ Region(dest, len) \cup Region(src, len) \subseteq Cell
              /\ Region(dest, len) \cap Region(src, len) = {}
              => memcpy(mem, dest, src, len) = Copied(dest, src, len)
        /\ \A src \in Pointers :
              LET len == strlen(mem, src) + 1
              IN  /\ Region(dest, len) \subseteq Cell
                  /\ Region(dest, len) \cap Region(src, len) = {}
                  => strcpy(mem, dest, src) = Copied(dest, src, len)

\* What a comparison is to return, given the places at which it may stop
FirstOf(places, s1, s2) ==
    IF places = {} THEN 0
    ELSE LET i == CHOOSE i \in places : \A j \in places : i <= j
         IN  mem[s1 + i] - mem[s2 + i]

\* memcmp and strcmp order by the first bytes that differ, read unsigned,
\* wherever in a word they are, and find equal what has none (string.c:48-85);
\* evict rests on it to know a dirty page.
ComparesUnsigned ==
    \A s1, s2 \in Pointers :
        /\ \A n \in Lengths : Region(s1, n) \cup Region(s2, n) \subseteq Cell =>
              memcmp(mem, s1, s2, n) =
                  FirstOf({i \in 0..(n - 1) : mem[s1 + i] # mem[s2 + i]}, s1, s2)
        /\ LET longest == 11 - (IF s1 > s2 THEN s1 ELSE s2)
               stops == {i \in 0..longest : mem[s1 + i] # mem[s2 + i] \/ mem[s1 + i] = 0}
           IN  stops # {} => strcmp(mem, s1, s2) = FirstOf(stops, s1, s2)

Numeral(digits) == digits # << >> /\ \A i \in 1..Len(digits) : digits[i] >= Zero

\* The number a sequence of digits stands for, by the weight of each, from
\* the last digit on
Decimal(digits) ==
    LET last == Len(digits)
        weight[k \in 0..last] == IF k = 0 THEN 1 ELSE 10 * weight[k - 1]
        value[k \in 0..last] ==
            IF k = 0 THEN 0 ELSE value[k - 1] + (digits[last - k + 1] - Zero) * weight[k - 1]
    IN  value[last]

\* atol reads a decimal number with its sign and the blanks before it
\* (string.c:95-114).
AtolDecimal ==
    \A start \in 1..Len(text) :
        LET blanks == SubSeq(text, 1, start - 1)
            digits == SubSeq(text, start, Len(text))
            signed == SubSeq(text, start + 1, Len(text))
        IN  (\A i \in 1..(start - 1) : blanks[i] = Space) =>
                /\ Numeral(digits) => atol(text) = Decimal(digits)
                /\ text[start] = Plus /\ Numeral(signed) => atol(text) = Decimal(signed)
                /\ text[start] = Minus /\ Numeral(signed) => atol(text) = -Decimal(signed)

\* From whatever number vm_boot starts, its shift register has the period
\* that MAX_TEST_PAGES says it has, for the LFSR_BITS of the repository
\* (riscv_test.h:66-71).
FramesInFullPeriod ==
    LET entropy == Value(a) + Modulus * Value(b)
    IN  Shift!MeetsEveryNumber(1 + (entropy % Shift!MAX_TEST_PAGES))
=============================================================================
