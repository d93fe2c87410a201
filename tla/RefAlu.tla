------------------------------- MODULE RefAlu -------------------------------
(***************************************************************************)
(* The arithmetic of the reference model (src/c_src/mini-rv32ima.h): the   *)
(* shared case of immediate and register operations, and RV32M, which the  *)
(* emulator does not have.  "ir" is the raw instruction word; 64-bit       *)
(* intermediate results are words of twice the width.                      *)
(***************************************************************************)
EXTENDS RefImmediates

Wide == INSTANCE Words WITH XLEN <- 2 * XLEN

f3(ir)     == Value(Field(ir, 12, 3))
is_reg(ir) == 5 \in ir

-----------------------------------------------------------------------------
(* RV32I *)

\* Mutant: bit 30 selects subtraction for immediates too
AluAddiSub(ir, v1, v2) ==
    IF 30 \in ir THEN wrapping_sub(v1, v2) ELSE wrapping_add(v1, v2)

AluAdd(ir, v1, v2) ==
    IF is_reg(ir) /\ 30 \in ir THEN wrapping_sub(v1, v2) ELSE wrapping_add(v1, v2)

Alu(ir, v1, v2) ==
    LET shamt == Value(v2 \cap 0..4)
    IN  CASE f3(ir) = 0 -> AluAdd(ir, v1, v2)
          [] f3(ir) = 1 -> Shl(v1, shamt)
          [] f3(ir) = 2 -> BoolWord(LtI32(v1, v2))
          [] f3(ir) = 3 -> BoolWord(LtU32(v1, v2))
          [] f3(ir) = 4 -> SymDiff(v1, v2)
          [] f3(ir) = 5 -> IF 30 \in ir THEN Sar(v1, shamt) ELSE Shr(v1, shamt)
          [] f3(ir) = 6 -> v1 \cup v2
          [] f3(ir) = 7 -> v1 \cap v2

-----------------------------------------------------------------------------
(* RV32M *)

AllOnes == Bit
IntMin  == {Sign}

Extended(w) == Wide!SignExtend(w, XLEN)          \* (int64_t)(int32_t)w
High(p)     == {i \in Bit : i + XLEN \in p}      \* p >> 32

\* The product modulo 2^64: the sum of a shifted to each one bit of b
Product(a, b) ==
    LET sum[k \in 0..(2 * XLEN)] ==
            IF k = 0 THEN {}
            ELSE IF k - 1 \in b THEN Wide!wrapping_add(sum[k - 1], Wide!Shl(a, k - 1))
            ELSE sum[k - 1]
    IN  sum[2 * XLEN]

\* One bit of quotient and remainder.  A remainder is below b, so the
\* difference has XLEN bits whatever was shifted out of r.
Digit(a, b, acc, i) ==
    LET r == {j + 1 : j \in acc.r} \cup (IF i \in a THEN {0} ELSE {})
    IN  IF LtU32(r, b) THEN [acc EXCEPT !.r = r]
        ELSE [q |-> acc.q \cup {i}, r |-> wrapping_sub(r \cap Bit, b)]

\* Unsigned quotient and remainder, bit by bit from the top
LongDivision(a, b) ==
    LET after[k \in 0..XLEN] ==
            IF k = 0 THEN [q |-> {}, r |-> {}] ELSE Digit(a, b, after[k - 1], XLEN - k)
    IN  after[XLEN]

Neg(w)         == wrapping_sub({}, w)
Abs(w)         == IF Sign \in w THEN Neg(w) ELSE w
NegIf(cond, w) == IF cond THEN Neg(w) ELSE w

\* C division truncates: the remainder has the sign of the dividend
SignedQuotient(a, b)  == NegIf((Sign \in a) # (Sign \in b), LongDivision(Abs(a), Abs(b)).q)

\* Mutant: the remainder takes the sign of the divisor, as a modulus would
SignedRemainderFloor(a, b) == NegIf(Sign \in b, LongDivision(Abs(a), Abs(b)).r)

SignedRemainder(a, b) == NegIf(Sign \in a, LongDivision(Abs(a), Abs(b)).r)

\* Division by zero and the quotient that has no int32_t are cases of their own
MulDiv(ir, a, b) ==
    LET overflow == a = IntMin /\ b = AllOnes
    IN  CASE f3(ir) = 0 -> Product(a, b) \cap Bit
          [] f3(ir) = 1 -> High(Product(Extended(a), Extended(b)))
          [] f3(ir) = 2 -> High(Product(Extended(a), b))
          [] f3(ir) = 3 -> High(Product(a, b))
          [] f3(ir) = 4 -> IF b = {} THEN AllOnes ELSE IF overflow THEN a ELSE SignedQuotient(a, b)
          [] f3(ir) = 5 -> IF b = {} THEN AllOnes ELSE LongDivision(a, b).q
          [] f3(ir) = 6 -> IF b = {} THEN a ELSE IF overflow THEN {} ELSE SignedRemainder(a, b)
          [] f3(ir) = 7 -> IF b = {} THEN a ELSE LongDivision(a, b).r
=============================================================================
