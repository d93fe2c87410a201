------------------------------- MODULE Words -------------------------------
(***************************************************************************)
(* Machine words of XLEN bits and the Rust primitives on them that the     *)
(* emulator uses.  A word is the set of the positions of its one bits, so  *)
(* a 32-bit word is exact in TLC (whose integers are signed 32-bit) and    *)
(* first-order for the provers.  An i32 is the same word read with bit     *)
(* XLEN-1 as its sign; "as u32" and "as i32" change no bit and so have no  *)
(* counterpart here.                                                       *)
(***************************************************************************)
EXTENDS Integers, FiniteSetsExt

CONSTANT XLEN   \* the width of a word; 32 in the emulator

ASSUME XLENAssumption == XLEN \in Nat \ {0}

Bit  == 0..(XLEN - 1)
Word == SUBSET Bit
Sign == XLEN - 1

-----------------------------------------------------------------------------
(* Literals and small numbers.  The bound 31 keeps 2^i inside TLC's        *)
(* integers; no literal of the source above 2^31 is written through it.    *)

BitsOf(n) == {i \in Bit : i < 31 /\ (n \div 2^i) % 2 = 1}

Value(w) == SumSet({2^i : i \in w})

-----------------------------------------------------------------------------
(* Fields and shifts: w >> n, w << n, (w as i32) >> n, and (w >> lo) & mask *)

Shl(w, n) == {i \in Bit : i - n \in w}
Shr(w, n) == {i \in Bit : i + n \in w}
Sar(w, n) == {i \in Bit : i + n \in w \/ (i + n > Sign /\ Sign \in w)}

Field(w, lo, width) == {i \in 0..(width - 1) : i + lo \in w}

\* Mutant: the sign is taken from bit n
SignExtendLate(w, n) == {i \in Bit : (i < n /\ i \in w) \/ (i >= n /\ n \in w)}

\* val as i8 (i16) as i32 as u32: the upper bits repeat bit n-1
SignExtend(w, n) == {i \in Bit : (i < n /\ i \in w) \/ (i >= n /\ n - 1 \in w)}

-----------------------------------------------------------------------------
(* wrapping_add and wrapping_sub: position i receives a carry (borrow)     *)
(* when some lower position generates one and every position between them  *)
(* propagates it.  The carry out of the top is dropped: addition wraps.    *)

Carries(a, b) ==
    LET generate == a \cap b
        propagate == a \cup b
    IN  {i \in Bit : \E j \in generate : j < i /\ (j + 1)..(i - 1) \subseteq propagate}

Borrows(a, b) ==
    LET generate == b \ a
        stop == a \ b
    IN  {i \in Bit : \E j \in generate : j < i /\ stop \cap (j + 1)..(i - 1) = {}}

Xor3(a, b, c) == {i \in a \cup b \cup c : (i \in a) = ((i \in b) = (i \in c))}

wrapping_add(a, b) == LET c == Carries(a, b) IN Xor3(a, b, c)
wrapping_sub(a, b) == LET c == Borrows(a, b) IN Xor3(a, b, c)

\* a < b on u32: the highest position in which they differ is a one of b
LtU32(a, b) == \E j \in b \ a : \A k \in a \ b : k < j

\* a < b on i32: signs first
LtI32(a, b) == IF (Sign \in a) = (Sign \in b) THEN LtU32(a, b) ELSE Sign \in a

\* (cond) as u32
BoolWord(p) == IF p THEN {0} ELSE {}
=============================================================================
