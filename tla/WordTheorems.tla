--------------------------- MODULE WordTheorems ---------------------------
(***************************************************************************)
(* Facts about the word primitives, for every width XLEN: what they do at  *)
(* each position, and what they are as operations on the numbers that      *)
(* words stand for.                                                        *)
(***************************************************************************)
EXTENDS Words, NatTheorems

\* Every primitive yields a word: nothing is carried or shifted out of it.
LEMMA WordClosed ==
    ASSUME NEW a \in Word, NEW b \in Word, NEW n
    PROVE  /\ wrapping_add(a, b) \in Word
           /\ wrapping_sub(a, b) \in Word
           /\ SymDiff(a, b) \in Word
           /\ Shl(a, n) \in Word /\ Shr(a, n) \in Word /\ Sar(a, n) \in Word
           /\ SignExtend(a, n) \in Word
           /\ BitsOf(n) \in Word
  <1>1. Carries(a, b) \subseteq Bit /\ Borrows(a, b) \subseteq Bit
    BY DEF Carries, Borrows
  <1>2. wrapping_add(a, b) \in Word /\ wrapping_sub(a, b) \in Word
    BY <1>1 DEF wrapping_add, wrapping_sub, Xor3, Word
  <1>3. SymDiff(a, b) \in Word
    BY DEF SymDiff, Word
  <1>4. Shl(a, n) \in Word /\ Shr(a, n) \in Word /\ Sar(a, n) \in Word
    BY DEF Shl, Shr, Sar, Word
  <1>5. SignExtend(a, n) \in Word /\ BitsOf(n) \in Word
    BY DEF SignExtend, BitsOf, Word
  <1> QED BY <1>2, <1>3, <1>4, <1>5

\* The truth value of a comparison is a word.
LEMMA BoolWordClosed ==
    ASSUME NEW p \in BOOLEAN
    PROVE  BoolWord(p) \in Word
  BY XLENAssumption DEF BoolWord, Word, Bit

\* Parity: the sum of two even words is even, as bit 0 receives no carry.
LEMMA EvenSum ==
    ASSUME NEW a \in Word, NEW b \in Word, 0 \notin a, 0 \notin b
    PROVE  0 \notin wrapping_add(a, b)
  <1>1. 0 \notin Carries(a, b)
    BY DEF Carries, Word, Bit
  <1> QED BY <1>1 DEF wrapping_add, Xor3

-----------------------------------------------------------------------------
(* Addition, position by position *)

\* What wrapping_add and wrapping_sub hand on to position i, which may be the
\* one after the last
CarryInto(a, b, i)  == \E j \in a \cap b : j < i /\ (j + 1)..(i - 1) \subseteq a \cup b
BorrowInto(a, b, i) == \E j \in b \ a : j < i /\ (a \ b) \cap (j + 1)..(i - 1) = {}

\* A position receives a carry from the one below it, and the lowest none.
LEMMA CarryIntoStep ==
    ASSUME NEW a \in Word, NEW b \in Word, NEW i \in Nat
    PROVE  /\ ~CarryInto(a, b, 0)
           /\ CarryInto(a, b, i + 1)
                <=> (i \in a /\ i \in b) \/ ((i \in a \/ i \in b) /\ CarryInto(a, b, i))
  <1>1. a \subseteq Nat /\ b \subseteq Nat
    BY XLENAssumption DEF Word, Bit
  <1>2. ~CarryInto(a, b, 0)
    BY <1>1 DEF CarryInto
  <1>3. ASSUME CarryInto(a, b, i + 1)
        PROVE  (i \in a /\ i \in b) \/ ((i \in a \/ i \in b) /\ CarryInto(a, b, i))
    <2>1. PICK j \in a \cap b : j < i + 1 /\ (j + 1)..((i + 1) - 1) \subseteq a \cup b
      BY <1>3 DEF CarryInto
    <2>2. CASE j # i
      <3>1. j < i /\ i \in (j + 1)..((i + 1) - 1) /\ (j + 1)..(i - 1) \subseteq a \cup b
        BY <1>1, <2>1, <2>2
      <3> QED BY <2>1, <3>1 DEF CarryInto
    <2> QED BY <2>1, <2>2
  <1>4. ASSUME (i \in a /\ i \in b) \/ ((i \in a \/ i \in b) /\ CarryInto(a, b, i))
        PROVE  CarryInto(a, b, i + 1)
    <2>1. CASE i \in a /\ i \in b
      <3>1. i \in a \cap b /\ i < i + 1 /\ (i + 1)..((i + 1) - 1) \subseteq a \cup b
        BY <2>1
      <3> QED BY <3>1 DEF CarryInto
    <2>2. CASE (i \in a \/ i \in b) /\ CarryInto(a, b, i)
      <3>1. PICK j \in a \cap b : j < i /\ (j + 1)..(i - 1) \subseteq a \cup b
        BY <2>2 DEF CarryInto
      <3>2. j < i + 1 /\ (j + 1)..((i + 1) - 1) \subseteq a \cup b
        BY <1>1, <2>2, <3>1
      <3> QED BY <3>1, <3>2 DEF CarryInto
    <2> QED BY <1>4, <2>1, <2>2
  <1> QED BY <1>2, <1>3, <1>4

\* A position lends to the one below it, and the lowest receives nothing.
LEMMA BorrowIntoStep ==
    ASSUME NEW a \in Word, NEW b \in Word, NEW i \in Nat
    PROVE  /\ ~BorrowInto(a, b, 0)
           /\ BorrowInto(a, b, i + 1)
                <=> (i \notin a /\ i \in b) \/ (~(i \in a /\ i \notin b) /\ BorrowInto(a, b, i))
  <1>1. a \subseteq Nat /\ b \subseteq Nat
    BY XLENAssumption DEF Word, Bit
  <1>2. ~BorrowInto(a, b, 0)
    BY <1>1 DEF BorrowInto
  <1>3. ASSUME BorrowInto(a, b, i + 1)
        PROVE  (i \notin a /\ i \in b) \/ (~(i \in a /\ i \notin b) /\ BorrowInto(a, b, i))
    <2>1. PICK j \in b \ a : j < i + 1 /\ (a \ b) \cap (j + 1)..((i + 1) - 1) = {}
      BY <1>3 DEF BorrowInto
    <2>2. CASE j # i
      <3>1. j < i /\ i \in (j + 1)..((i + 1) - 1) /\ (a \ b) \cap (j + 1)..(i - 1) = {}
        BY <1>1, <2>1, <2>2
      <3> QED BY <2>1, <3>1 DEF BorrowInto
    <2> QED BY <2>1, <2>2
  <1>4. ASSUME (i \notin a /\ i \in b) \/ (~(i \in a /\ i \notin b) /\ BorrowInto(a, b, i))
        PROVE  BorrowInto(a, b, i + 1)
    <2>1. CASE i \notin a /\ i \in b
      <3>1. i \in b \ a /\ i < i + 1 /\ (a \ b) \cap (i + 1)..((i + 1) - 1) = {}
        BY <2>1
      <3> QED BY <3>1 DEF BorrowInto
    <2>2. CASE ~(i \in a /\ i \notin b) /\ BorrowInto(a, b, i)
      <3>1. PICK j \in b \ a : j < i /\ (a \ b) \cap (j + 1)..(i - 1) = {}
        BY <2>2 DEF BorrowInto
      <3>2. j < i + 1 /\ (a \ b) \cap (j + 1)..((i + 1) - 1) = {}
        BY <1>1, <2>2, <3>1
      <3> QED BY <3>1, <3>2 DEF BorrowInto
    <2> QED BY <1>4, <2>1, <2>2
  <1> QED BY <1>2, <1>3, <1>4

LEMMA CarryStep ==
    ASSUME NEW a \in Word, NEW b \in Word
    PROVE  /\ 0 \notin Carries(a, b)
           /\ \A i \in Bit : i + 1 \in Bit =>
                (i + 1 \in Carries(a, b) <=>
                    (i \in a /\ i \in b) \/ ((i \in a \/ i \in b) /\ i \in Carries(a, b)))
  <1>1. 0 \in Nat /\ Bit \subseteq Nat
    BY XLENAssumption DEF Bit
  <1>2. \A i \in Bit : i \in Carries(a, b) <=> CarryInto(a, b, i)
    BY DEF Carries, CarryInto
  <1>3. 0 \in Carries(a, b) => CarryInto(a, b, 0)
    BY DEF Carries, CarryInto
  <1> QED BY <1>1, <1>2, <1>3, CarryIntoStep

LEMMA BorrowStep ==
    ASSUME NEW a \in Word, NEW b \in Word
    PROVE  /\ 0 \notin Borrows(a, b)
           /\ \A i \in Bit : i + 1 \in Bit =>
                (i + 1 \in Borrows(a, b) <=>
                    (i \notin a /\ i \in b) \/ (~(i \in a /\ i \notin b) /\ i \in Borrows(a, b)))
  <1>1. 0 \in Nat /\ Bit \subseteq Nat
    BY XLENAssumption DEF Bit
  <1>2. \A i \in Bit : i \in Borrows(a, b) <=> BorrowInto(a, b, i)
    BY DEF Borrows, BorrowInto
  <1>3. 0 \in Borrows(a, b) => BorrowInto(a, b, 0)
    BY DEF Borrows, BorrowInto
  <1> QED BY <1>1, <1>2, <1>3, BorrowIntoStep

\* What a position of a sum and of a difference is.
LEMMA AddBit ==
    ASSUME NEW a \in Word, NEW b \in Word, NEW i \in Bit
    PROVE  i \in wrapping_add(a, b)
             <=> ((i \in a) <=> ((i \in b) <=> (i \in Carries(a, b))))
  BY DEF wrapping_add, Xor3

LEMMA SubBit ==
    ASSUME NEW a \in Word, NEW b \in Word, NEW i \in Bit
    PROVE  i \in wrapping_sub(a, b)
             <=> ((i \in a) <=> ((i \in b) <=> (i \in Borrows(a, b))))
  BY DEF wrapping_sub, Xor3

\* A property of position 0 that passes from each position to the next holds
\* of them all.
LEMMA BitInduction ==
    ASSUME NEW S, 0 \in S, \A i \in Bit : i + 1 \in Bit /\ i \in S => i + 1 \in S
    PROVE  Bit \subseteq S
  <1>1. \A i \in 0..((XLEN - 1) - 1) : i \in Bit /\ i + 1 \in Bit
    BY XLENAssumption DEF Bit
  <1>2. \A i \in 0..((XLEN - 1) - 1) : i \in S => i + 1 \in S
    BY <1>1
  <1>3. 0..(XLEN - 1) \subseteq S
    BY <1>2, XLENAssumption, IntervalInduction
  <1> QED BY <1>3 DEF Bit

LEMMA SameBits ==
    ASSUME NEW a \in Word, NEW b \in Word, \A i \in Bit : i \in a <=> i \in b
    PROVE  a = b
  BY DEF Word

\* Subtraction undoes addition: what was carried is borrowed back.
LEMMA SubAdd ==
    ASSUME NEW a \in Word, NEW b \in Word
    PROVE  wrapping_sub(wrapping_add(a, b), a) = b
  <1> DEFINE s == wrapping_add(a, b)
             S == {i \in Bit : i \in Carries(a, b) <=> i \in Borrows(s, a)}
  <1>1. s \in Word /\ wrapping_sub(s, a) \in Word
    BY WordClosed
  <1>2. \A i \in Bit : i \in s <=> ((i \in a) <=> ((i \in b) <=> (i \in Carries(a, b))))
    BY AddBit
  <1> HIDE DEF s
  <1>3. 0 \in S
    BY <1>1, CarryStep, BorrowStep, XLENAssumption DEF Bit
  <1>4. ASSUME NEW i \in Bit, i + 1 \in Bit, i \in S PROVE i + 1 \in S
    BY <1>1, <1>2, <1>4, CarryStep, BorrowStep
  <1>5. Bit \subseteq S
    <2> HIDE DEF S
    <2> QED BY <1>3, <1>4, BitInduction
  <1>6. \A i \in Bit : i \in wrapping_sub(s, a) <=> i \in b
    BY <1>1, <1>2, <1>5, SubBit
  <1>7. wrapping_sub(s, a) = b
    BY <1>1, <1>6, SameBits
  <1> QED BY <1>7 DEF s

\* Addition undoes subtraction.
LEMMA AddSub ==
    ASSUME NEW a \in Word, NEW b \in Word
    PROVE  wrapping_add(b, wrapping_sub(a, b)) = a
  <1> DEFINE d == wrapping_sub(a, b)
             S == {i \in Bit : i \in Borrows(a, b) <=> i \in Carries(b, d)}
  <1>1. d \in Word /\ wrapping_add(b, d) \in Word
    BY WordClosed
  <1>2. \A i \in Bit : i \in d <=> ((i \in a) <=> ((i \in b) <=> (i \in Borrows(a, b))))
    BY SubBit
  <1> HIDE DEF d
  <1>3. 0 \in S
    BY <1>1, CarryStep, BorrowStep, XLENAssumption DEF Bit
  <1>4. ASSUME NEW i \in Bit, i + 1 \in Bit, i \in S PROVE i + 1 \in S
    BY <1>1, <1>2, <1>4, CarryStep, BorrowStep
  <1>5. Bit \subseteq S
    <2> HIDE DEF S
    <2> QED BY <1>3, <1>4, BitInduction
  <1>6. \A i \in Bit : i \in wrapping_add(b, d) <=> i \in a
    BY <1>1, <1>2, <1>5, AddBit
  <1>7. wrapping_add(b, d) = a
    BY <1>1, <1>6, SameBits
  <1> QED BY <1>7 DEF d

LEMMA AddZero ==
    ASSUME NEW a \in Word
    PROVE  wrapping_add(a, {}) = a
  <1>1. Carries(a, {}) = {}
    BY DEF Carries
  <1> QED BY <1>1 DEF wrapping_add, Xor3

\* Addition is associative: at every position the two carries of one order
\* are as many as those of the other.
LEMMA AddAssoc ==
    ASSUME NEW a \in Word, NEW b \in Word, NEW c \in Word
    PROVE  wrapping_add(wrapping_add(a, b), c) = wrapping_add(a, wrapping_add(b, c))
  <1> DEFINE s == wrapping_add(a, b)
             t == wrapping_add(b, c)
             c1 == Carries(a, b)
             c2 == Carries(s, c)
             d1 == Carries(b, c)
             d2 == Carries(a, t)
             Two == {i \in Bit : i \in c1 /\ i \in c2 <=> i \in d1 /\ i \in d2}
             Some == {i \in Bit : i \in c1 \/ i \in c2 <=> i \in d1 \/ i \in d2}
             S == Two \cap Some
  <1>1. s \in Word /\ t \in Word /\ wrapping_add(s, c) \in Word /\ wrapping_add(a, t) \in Word
    BY WordClosed
  <1>2. \A i \in Bit : /\ i \in s <=> ((i \in a) <=> ((i \in b) <=> (i \in c1)))
                       /\ i \in t <=> ((i \in b) <=> ((i \in c) <=> (i \in d1)))
    BY AddBit
  <1>3. /\ 0 \notin c1 /\ 0 \notin c2 /\ 0 \notin d1 /\ 0 \notin d2
        /\ \A i \in Bit : i + 1 \in Bit =>
              /\ i + 1 \in c1 <=> (i \in a /\ i \in b) \/ ((i \in a \/ i \in b) /\ i \in c1)
              /\ i + 1 \in c2 <=> (i \in s /\ i \in c) \/ ((i \in s \/ i \in c) /\ i \in c2)
              /\ i + 1 \in d1 <=> (i \in b /\ i \in c) \/ ((i \in b \/ i \in c) /\ i \in d1)
              /\ i + 1 \in d2 <=> (i \in a /\ i \in t) \/ ((i \in a \/ i \in t) /\ i \in d2)
    BY <1>1, CarryStep
  <1>4. \A i \in Bit : /\ i \in wrapping_add(s, c) <=> ((i \in s) <=> ((i \in c) <=> (i \in c2)))
                       /\ i \in wrapping_add(a, t) <=> ((i \in a) <=> ((i \in t) <=> (i \in d2)))
    BY <1>1, AddBit
  <1> HIDE DEF s, t, c1, c2, d1, d2
  <1>5. 0 \in S
    BY <1>3, XLENAssumption DEF Bit
  <1>6. ASSUME NEW i \in Bit, i + 1 \in Bit, i \in S PROVE i + 1 \in S
    <2>1. /\ i \in s <=> ((i \in a) <=> ((i \in b) <=> (i \in c1)))
          /\ i \in t <=> ((i \in b) <=> ((i \in c) <=> (i \in d1)))
      BY <1>2
    <2>2. /\ (i \in c1 /\ i \in c2) <=> (i \in d1 /\ i \in d2)
          /\ (i \in c1 \/ i \in c2) <=> (i \in d1 \/ i \in d2)
      BY <1>6
    <2>3. /\ i + 1 \in c1 <=> (i \in a /\ i \in b) \/ ((i \in a \/ i \in b) /\ i \in c1)
          /\ i + 1 \in c2 <=> (i \in s /\ i \in c) \/ ((i \in s \/ i \in c) /\ i \in c2)
          /\ i + 1 \in d1 <=> (i \in b /\ i \in c) \/ ((i \in b \/ i \in c) /\ i \in d1)
          /\ i + 1 \in d2 <=> (i \in a /\ i \in t) \/ ((i \in a \/ i \in t) /\ i \in d2)
      BY <1>3, <1>6
    <2>4. /\ (i + 1 \in c1 /\ i + 1 \in c2) <=> (i + 1 \in d1 /\ i + 1 \in d2)
          /\ (i + 1 \in c1 \/ i + 1 \in c2) <=> (i + 1 \in d1 \/ i + 1 \in d2)
      BY <2>1, <2>2, <2>3
    <2> QED BY <1>6, <2>4
  <1>7. Bit \subseteq S
    <2> HIDE DEF S
    <2> QED BY <1>5, <1>6, BitInduction
  <1>8. \A i \in Bit : i \in wrapping_add(s, c) <=> i \in wrapping_add(a, t)
    BY <1>2, <1>4, <1>7
  <1>9. wrapping_add(s, c) = wrapping_add(a, t)
    BY <1>1, <1>8, SameBits
  <1> QED BY <1>9 DEF s, t

-----------------------------------------------------------------------------
(* Numbers and words *)

\* The numbers that BitsOf has all the bits of, with one to spare
Number == 0..(2^30 - 1)

LEMMA NumberBound == \A n \in Number : n \in Nat /\ n \div 2^30 = 0
  BY SMT DEF Number

LEMMA HalfOfQuotient ==
    \A n \in Nat, d \in Nat \ {0} : n \div (2 * d) = (n \div d) \div 2 /\ n \div d \in Nat
  OBVIOUS

\* Bit i of a number is the last of its quotient by 2^i, and the next
\* quotient is half of that.
LEMMA Quotients ==
    ASSUME NEW n \in Nat
    PROVE  /\ n \div 2^0 = n
           /\ \A i \in 0..30 : /\ n \div 2^i \in Nat
                               /\ n \div 2^(i + 1) = (n \div 2^i) \div 2
           /\ \A i \in Bit : i \in BitsOf(n) <=> i \in 0..30 /\ (n \div 2^i) % 2 = 1
  <1>1. n \div 2^0 = n
    OBVIOUS
  <1>2. ASSUME NEW i \in 0..30
        PROVE  n \div 2^i \in Nat /\ n \div 2^(i + 1) = (n \div 2^i) \div 2
    <2>1. 2^i \in Nat \ {0} /\ 2^(i + 1) = 2 * 2^i
      BY PowerStep
    <2> DEFINE d == 2^i
    <2>2. d \in Nat \ {0} /\ 2^(i + 1) = 2 * d
      BY <2>1
    <2> HIDE DEF d
    <2>3. n \div d \in Nat /\ n \div (2 * d) = (n \div d) \div 2
      BY <2>2, HalfOfQuotient
    <2>4. n \div 2^(i + 1) = (n \div d) \div 2
      BY <2>2, <2>3
    <2> QED BY <2>3, <2>4 DEF d
  <1>3. ASSUME NEW i \in Bit
        PROVE  i \in BitsOf(n) <=> i \in 0..30 /\ (n \div 2^i) % 2 = 1
    <2>1. i \in 0..30 <=> i < 31
      BY XLENAssumption DEF Bit
    <2> QED BY <2>1 DEF BitsOf
  <1> QED BY <1>1, <1>2, <1>3

LEMMA BitsOfZero == BitsOf(0) = {}
  <1>1. \A d \in Nat \ {0} : 0 \div d = 0
    OBVIOUS
  <1>2. \A i \in 0..30 : (0 \div 2^i) % 2 # 1
    <2> TAKE i \in 0..30
    <2>1. 2^i \in Nat \ {0}
      BY PowerStep
    <2> DEFINE q == 0 \div 2^i
    <2>2. q = 0
      BY <1>1, <2>1, Zenon
    <2> HIDE DEF q
    <2>3. q % 2 # 1
      BY <2>2
    <2> QED BY <2>3 DEF q
  <1>3. \A i \in Bit : i \notin BitsOf(0)
    BY <1>2, Quotients
  <1> QED BY <1>3 DEF BitsOf

\* Adding one to a number adds one to its word.
LEMMA BitsOfNext ==
    ASSUME NEW n \in Number
    PROVE  BitsOf(n + 1) = wrapping_add(BitsOf(n), {0})
  <1> DEFINE c == Carries(BitsOf(n), {0})
             D(i) == n \div 2^i
             U(i) == (n + 1) \div 2^i
             Sum == {i \in 1..30 : U(i) = D(i) + 1 /\ i \in c}
             Same == {i \in 1..30 : U(i) = D(i) /\ i \notin c}
             S == {0} \cup Sum \cup Same \cup {i \in Bit : i > 30 /\ i \notin c}
  <1>1. /\ {0} \in Word /\ BitsOf(n) \in Word /\ BitsOf(n + 1) \in Word
        /\ wrapping_add(BitsOf(n), {0}) \in Word
    <2>1. {0} \in Word
      BY XLENAssumption DEF Word, Bit
    <2> QED BY <2>1, WordClosed
  <1>2. /\ D(0) = n /\ U(0) = n + 1
        /\ \A i \in 0..30 : /\ D(i) \in Nat /\ U(i) \in Nat
                            /\ D(i + 1) = D(i) \div 2 /\ U(i + 1) = U(i) \div 2
    <2>1. n \in Nat /\ n + 1 \in Nat
      BY NumberBound
    <2>2. D(0) = n /\ \A i \in 0..30 : D(i) \in Nat /\ D(i + 1) = D(i) \div 2
      BY <2>1, Quotients
    <2>3. U(0) = n + 1 /\ \A i \in 0..30 : U(i) \in Nat /\ U(i + 1) = U(i) \div 2
      BY <2>1, Quotients
    <2> QED BY <2>2, <2>3
  <1>3. /\ \A i \in Bit : i \in BitsOf(n) <=> i \in 0..30 /\ D(i) % 2 = 1
        /\ \A i \in Bit : i \in BitsOf(n + 1) <=> i \in 0..30 /\ U(i) % 2 = 1
    BY NumberBound, Quotients
  <1>4. D(30) = 0 /\ n \in Nat
    BY NumberBound
  <1> HIDE DEF D, U
  <1>5. 0 \notin c /\ \A i \in Bit : i + 1 \in Bit =>
           (i + 1 \in c <=> (i = 0 /\ i \in BitsOf(n)) \/ ((i \in BitsOf(n) \/ i = 0) /\ i \in c))
    BY <1>1, CarryStep
  <1> HIDE DEF c
  <1>6. ASSUME NEW i \in Bit, i + 1 \in Bit, i \in S PROVE i + 1 \in S
    <2>1. i \in Nat
      BY XLENAssumption DEF Bit
    <2>2. CASE i = 0
      <3>1. 1 \in c <=> n % 2 = 1
        BY <1>2, <1>3, <1>5, <1>6, <2>2
      <3>2. D(1) = n \div 2 /\ U(1) = (n + 1) \div 2
        BY <1>2
      <3>3. U(1) = IF n % 2 = 1 THEN D(1) + 1 ELSE D(1)
        BY <1>4, <3>2
      <3> QED BY <2>2, <3>1, <3>3
    <2>3. CASE i \in 1..29
      <3>1. i + 1 \in c <=> D(i) % 2 = 1 /\ i \in c
        BY <1>3, <1>5, <1>6, <2>3
      <3>2. /\ D(i) \in Nat /\ U(i) \in Nat
            /\ D(i + 1) = D(i) \div 2 /\ U(i + 1) = U(i) \div 2
        BY <1>2, <2>3
      <3>3. U(i) = IF i \in c THEN D(i) + 1 ELSE D(i)
        BY <1>6, <2>3
      <3>4. U(i + 1) = IF i + 1 \in c THEN D(i + 1) + 1 ELSE D(i + 1)
        BY <3>1, <3>2, <3>3
      <3> QED BY <2>3, <3>4
    <2>4. CASE i > 29
      <3>1. i \notin BitsOf(n)
        BY <1>3, <1>4, <2>1, <2>4
      <3>2. i + 1 \notin c
        BY <1>5, <1>6, <2>4, <3>1
      <3> QED BY <1>6, <2>1, <2>4, <3>2
    <2> QED BY <2>1, <2>2, <2>3, <2>4
  <1>7. Bit \subseteq S
    <2>1. 0 \in S
      OBVIOUS
    <2> HIDE DEF S
    <2> QED BY <1>6, <2>1, BitInduction
  <1>8. ASSUME NEW i \in Bit
        PROVE  i \in BitsOf(n + 1) <=> i \in wrapping_add(BitsOf(n), {0})
    <2>1. i \in wrapping_add(BitsOf(n), {0}) <=> ((i \in BitsOf(n)) <=> ((i = 0) <=> (i \in c)))
      BY <1>1, AddBit DEF c
    <2>2. CASE i = 0
      <3>1. (0 \in BitsOf(n) <=> n % 2 = 1) /\ (0 \in BitsOf(n + 1) <=> (n + 1) % 2 = 1)
        BY <1>2, <1>3, <2>2
      <3>2. (n + 1) % 2 = 1 <=> ~(n % 2 = 1)
        BY <1>4
      <3> QED BY <1>5, <2>1, <2>2, <3>1, <3>2
    <2>3. CASE i \in 1..30
      <3>1. D(i) \in Nat /\ U(i) = IF i \in c THEN D(i) + 1 ELSE D(i)
        BY <1>2, <1>7, <2>3
      <3>2. U(i) % 2 = 1 <=> ((D(i) % 2 = 1) <=> i \notin c)
        BY <3>1
      <3>3. (i \in BitsOf(n) <=> D(i) % 2 = 1) /\ (i \in BitsOf(n + 1) <=> U(i) % 2 = 1)
        BY <1>3, <2>3
      <3> QED BY <2>1, <2>3, <3>2, <3>3
    <2>4. CASE i > 30
      <3>1. i \notin c /\ i # 0 /\ i \notin 0..30
        BY <1>7, <2>4
      <3> QED BY <1>3, <2>1, <3>1
    <2>5. i \in Nat
      BY XLENAssumption DEF Bit
    <2> QED BY <2>2, <2>3, <2>4, <2>5
  <1> QED BY <1>1, <1>8, SameBits

\* Numbers that the width has room for have words of their own.
LEMMA BitsOfInjective ==
    ASSUME XLEN >= 30, NEW m \in Number, NEW n \in Number, BitsOf(m) = BitsOf(n)
    PROVE  m = n
  <1> DEFINE S == {j \in 0..30 : m \div 2^(30 - j) = n \div 2^(30 - j)}
  <1>0. m \in Nat /\ n \in Nat
    BY NumberBound
  <1>1. 0 \in S
    <2>1. m \div 2^30 = 0 /\ n \div 2^30 = 0
      BY NumberBound
    <2> QED BY <2>1, SMT
  <1>2. ASSUME NEW j \in 0..29, j \in S PROVE j + 1 \in S
    <2> DEFINE i == 29 - j
    <2>1. i \in 0..29 /\ 30 - (j + 1) = i /\ 30 - j = i + 1 /\ i \in Bit
      BY XLENAssumption DEF Bit
    <2> HIDE DEF i
    <2>2. i \in 0..30
      BY <2>1
    <2>3. m \div 2^(i + 1) = n \div 2^(i + 1)
      BY <1>2, <2>1
    <2>4. /\ m \div 2^i \in Nat /\ n \div 2^i \in Nat
          /\ (m \div 2^i) \div 2 = (n \div 2^i) \div 2
      <3>1. m \div 2^i \in Nat /\ m \div 2^(i + 1) = (m \div 2^i) \div 2
        BY <1>0, <2>2, Quotients, Zenon
      <3>2. n \div 2^i \in Nat /\ n \div 2^(i + 1) = (n \div 2^i) \div 2
        BY <1>0, <2>2, Quotients, Zenon
      <3> QED BY <2>3, <3>1, <3>2
    <2>5. ((m \div 2^i) % 2 = 1) <=> ((n \div 2^i) % 2 = 1)
      BY <1>0, <2>1, Quotients
    <2>6. \A q \in Nat, r \in Nat : q \div 2 = r \div 2 /\ (q % 2 = 1 <=> r % 2 = 1) => q = r
      OBVIOUS
    <2>7. m \div 2^i = n \div 2^i
      BY <2>4, <2>5, <2>6
    <2> QED BY <2>1, <2>7
  <1>3. 30 \in S
    <2>1. \A j \in 0..(30 - 1) : j \in 0..29
      OBVIOUS
    <2>2. 0..30 \subseteq S
      <3> HIDE DEF S
      <3> QED BY <1>1, <1>2, <2>1, IntervalInduction
    <2> QED BY <2>2
  <1>4. m \div 2^0 = n \div 2^0
    BY <1>3
  <1> QED BY <1>0, <1>4, Quotients

-----------------------------------------------------------------------------
(* Sums of sets of numbers *)

\* A sum for the subsets of T, in whatever order the numbers are added
Sums(f, T) ==
    /\ f \in [SUBSET T -> Nat] /\ f[{}] = 0
    /\ \A s \in SUBSET T : \A x \in s : f[s] = x + f[s \ {x}]

LEMMA SumsExist ==
    ASSUME NEW T \in SUBSET Nat, IsFiniteSet(T)
    PROVE  \E f : Sums(f, T)
  <1> DEFINE K == {t \in SUBSET T : \E f : Sums(f, t)}
  <1>1. {} \in K
    <2> DEFINE f == [s \in SUBSET {} |-> 0]
    <2>1. Sums(f, {})
      BY DEF Sums
    <2> QED BY <2>1
  <1>2. ASSUME NEW t \in SUBSET T, NEW x \in T, t \in K PROVE t \cup {x} \in K
    <2>1. CASE x \in t
      <3>1. t \cup {x} = t
        BY <2>1
      <3> QED BY <1>2, <3>1
    <2>2. CASE x \notin t
      <3>1. PICK f : Sums(f, t)
        BY <1>2
      <3> DEFINE g == [s \in SUBSET (t \cup {x}) |->
                         IF x \in s THEN x + f[s \ {x}] ELSE f[s]]
      <3>2. \A s \in SUBSET (t \cup {x}) : s \ {x} \in SUBSET t /\ (x \notin s => s \in SUBSET t)
        OBVIOUS
      <3>3. f \in [SUBSET t -> Nat] /\ f[{}] = 0
            /\ \A s \in SUBSET t : \A y \in s : f[s] = y + f[s \ {y}]
        BY <3>1 DEF Sums
      <3>4. g \in [SUBSET (t \cup {x}) -> Nat] /\ g[{}] = 0
        BY <3>2, <3>3
      <3>5. ASSUME NEW s \in SUBSET (t \cup {x}), NEW y \in s PROVE g[s] = y + g[s \ {y}]
        <4>0. s \ {y} \in SUBSET (t \cup {x}) /\ x \in Nat /\ y \in Nat
          OBVIOUS
        <4>1. CASE x \notin s
          BY <3>2, <3>3, <4>1
        <4>2. CASE y = x
          <5>1. g[s] = x + f[s \ {x}] /\ g[s \ {y}] = f[s \ {x}]
            BY <4>2
          <5> QED BY <4>2, <5>1
        <4>3. CASE x \in s /\ y # x
          <5>1. g[s] = x + f[s \ {x}] /\ g[s \ {y}] = x + f[(s \ {y}) \ {x}]
            BY <4>3
          <5>2. (s \ {y}) \ {x} = (s \ {x}) \ {y} /\ y \in s \ {x} /\ s \ {x} \in SUBSET t
            BY <3>2, <4>3
          <5>3. f[s \ {x}] = y + f[(s \ {x}) \ {y}] /\ f[(s \ {x}) \ {y}] \in Nat
            BY <3>3, <5>2
          <5> HIDE DEF g
          <5> QED BY <4>0, <5>1, <5>2, <5>3
        <4> QED BY <4>1, <4>2, <4>3
      <3>6. Sums(g, t \cup {x})
        <4> HIDE DEF g
        <4> QED BY <3>4, <3>5 DEF Sums
      <3> QED BY <3>6
    <2> QED BY <2>1, <2>2
  <1>3. T \in K
    <2> HIDE DEF K
    <2> QED BY <1>1, <1>2, SubsetInduction
  <1> QED BY <1>3

\* SumSet takes the numbers in an order of its own; by the smallest set on
\* which the two would differ, it computes every such sum.
LEMMA SumSetIs ==
    ASSUME NEW S \in SUBSET Nat, IsFiniteSet(S), NEW f, Sums(f, S)
    PROVE  SumSet(S) = f[S]
  <1> DEFINE first(s) == CHOOSE x \in s : TRUE
             body(g) == [s \in SUBSET S |-> IF s = {} THEN 0
                                            ELSE first(s) + g[s \ {first(s)}]]
             iter == CHOOSE g : g = body(g)
  <1>1. SumSet(S) = iter[S]
    BY Zenon DEF SumSet, FoldSet, MapThenFoldSet
  <1>2. \A s \in SUBSET S : s # {} => first(s) \in s
    OBVIOUS
  <1> HIDE DEF first
  <1>3. /\ f \in [SUBSET S -> Nat] /\ f[{}] = 0
        /\ \A s \in SUBSET S : s # {} => s \ {first(s)} \in SUBSET S
                                         /\ f[s] = first(s) + f[s \ {first(s)}]
    BY <1>2 DEF Sums
  <1>4. f = body(f)
    BY <1>3
  <1>5. iter = body(iter)
    BY <1>4, Zenon
  <1> HIDE DEF iter
  <1>6. iter[{}] = 0 /\ \A s \in SUBSET S : s # {} => iter[s] = first(s) + iter[s \ {first(s)}]
    <2> DEFINE b == body(iter)
    <2>1. b[{}] = 0 /\ \A s \in SUBSET S : s # {} => b[s] = first(s) + iter[s \ {first(s)}]
      OBVIOUS
    <2> HIDE DEF b
    <2>2. iter = b
      BY <1>5 DEF b
    <2> QED BY <2>1, <2>2
  <1>7. \A s \in SUBSET S : IsFiniteSet(s) /\ Cardinality(s) \in Nat
    BY FS_Subset, FS_CardinalityType
  <1> DEFINE Wrong == {s \in SUBSET S : iter[s] # f[s]}
  <1>8. ASSUME Wrong # {} PROVE FALSE
    <2> DEFINE sizes == {Cardinality(s) : s \in Wrong}
    <2>1. PICK n \in sizes : \A k \in sizes : n <= k
      <3>1. sizes \in SUBSET Nat
        BY <1>7
      <3>2. sizes # {}
        BY <1>8
      <3> HIDE DEF sizes
      <3> QED BY <3>1, <3>2, LeastMember
    <2>2. PICK s \in Wrong : Cardinality(s) = n
      BY <2>1
    <2>3. s # {}
      BY <1>3, <1>6
    <2>4. /\ s \ {first(s)} \in SUBSET S
          /\ Cardinality(s \ {first(s)}) = Cardinality(s) - 1
      BY <1>2, <1>7, <2>3, FS_RemoveElement
    <2>5. s \ {first(s)} \notin Wrong
      BY <1>7, <2>1, <2>2, <2>4
    <2> QED BY <1>3, <1>6, <2>2, <2>3, <2>4, <2>5
  <1> QED BY <1>1, <1>8

LEMMA SumSetAdd ==
    ASSUME NEW S \in SUBSET Nat, IsFiniteSet(S), NEW x \in Nat, x \notin S
    PROVE  /\ SumSet({}) = 0
           /\ SumSet(S) \in Nat
           /\ SumSet(S \cup {x}) = SumSet(S) + x
  <1> DEFINE T == S \cup {x}
  <1>1. T \in SUBSET Nat /\ IsFiniteSet(T) /\ x \in T /\ T \ {x} = S /\ S \in SUBSET T
    BY FS_AddElement
  <1> HIDE DEF T
  <1>2. PICK f : Sums(f, T)
    BY <1>1, SumsExist
  <1>3. ASSUME NEW U \in SUBSET T PROVE SumSet(U) = f[U] /\ f[U] \in Nat
    <2> DEFINE h == [s \in SUBSET U |-> f[s]]
    <2>1. U \in SUBSET Nat /\ IsFiniteSet(U)
      BY <1>1, FS_Subset
    <2>2. Sums(h, U)
      <3>1. h \in [SUBSET U -> Nat] /\ h[{}] = 0
        BY <1>2 DEF Sums
      <3>2. \A s \in SUBSET U : \A y \in s : h[s] = y + h[s \ {y}]
        BY <1>2 DEF Sums
      <3> HIDE DEF h
      <3> QED BY <3>1, <3>2 DEF Sums
    <2>3. SumSet(U) = h[U]
      <3> HIDE DEF h
      <3> QED BY <2>1, <2>2, SumSetIs
    <2> QED BY <1>2, <2>3 DEF Sums
  <1>4. f[{}] = 0 /\ f[T] = x + f[S]
    BY <1>1, <1>2 DEF Sums
  <1>5. SumSet({}) = 0 /\ SumSet(S) \in Nat /\ SumSet(T) = SumSet(S) + x
    BY <1>1, <1>3, <1>4
  <1> QED BY <1>5 DEF T

-----------------------------------------------------------------------------
(* The number a word stands for *)

Weight(w, i, n) == IF i \in w THEN n ELSE 0

\* The positions of w below k
Low(w, k) == w \cap 0..(k - 1)

\* Powers of two are distinct.
LEMMA PowerOrder ==
    ASSUME NEW i \in Nat, NEW j \in Nat, i < j
    PROVE  2^i < 2^j
  <1> DEFINE m == i + 1
             d == j - m
             p == 2^m
             q == 2^d
  <1>1. m \in Nat /\ d \in Nat /\ j = m + d
    OBVIOUS
  <1>2. 2^j = p * q
    <2> HIDE DEF m, d
    <2> QED BY <1>1, PowerSum
  <1>3. 2^i \in Nat \ {0} /\ p = 2 * 2^i
    BY PowerStep
  <1>4. q \in Nat \ {0}
    <2> HIDE DEF d
    <2> QED BY <1>1, PowerStep
  <1>5. 2^i < p * q
    <2> DEFINE r == 2^i
    <2>1. r \in Nat \ {0} /\ p = 2 * r
      BY <1>3
    <2> HIDE DEF p, q, r
    <2>2. p \in Nat \ {0} /\ p > r
      BY <2>1
    <2>3. p * q >= p
      BY <1>4, <2>2
    <2>4. p * q \in Nat
      BY <1>4, <2>2
    <2>5. r < p * q
      BY <2>1, <2>2, <2>3, <2>4
    <2> QED BY <2>5 DEF r
  <1> HIDE DEF p, q
  <1> QED BY <1>2, <1>5

LEMMA ValueAdd ==
    ASSUME NEW w \in SUBSET Nat, IsFiniteSet(w), NEW i \in Nat, i \notin w
    PROVE  /\ Value({}) = 0
           /\ Value(w) \in Nat
           /\ Value(w \cup {i}) = Value(w) + 2^i
  <1> DEFINE p(j) == 2^j
             S(v) == {p(j) : j \in v}
  <1>1. \A v : Value(v) = SumSet(S(v))
    BY DEF Value
  <1>2. \A j \in Nat : p(j) \in Nat
    BY PowerStep
  <1>3. \A j \in Nat, k \in Nat : p(j) = p(k) => j = k
    <2> TAKE j \in Nat, k \in Nat
    <2>1. j < k => p(j) < p(k)
      BY PowerOrder
    <2>2. k < j => p(k) < p(j)
      BY PowerOrder
    <2> HIDE DEF p
    <2> QED BY <1>2, <2>1, <2>2
  <1>4. p(i) = 2^i
    OBVIOUS
  <1> HIDE DEF p
  <1>5. S(w) \in SUBSET Nat /\ p(i) \in Nat /\ p(i) \notin S(w)
    BY <1>2, <1>3
  <1>6. IsFiniteSet(S(w))
    <2> DEFINE f == [j \in w |-> p(j)]
    <2>1. f \in Surjection(w, S(w))
      BY DEF Surjection
    <2> HIDE DEF f, S
    <2> QED BY <2>1, FS_Surjection
  <1>7. S({}) = {} /\ S(w \cup {i}) = S(w) \cup {p(i)}
    OBVIOUS
  <1> HIDE DEF S
  <1>8. SumSet(S({})) = 0 /\ SumSet(S(w)) \in Nat /\ SumSet(S(w \cup {i})) = SumSet(S(w)) + p(i)
    BY <1>5, <1>6, <1>7, SumSetAdd
  <1> QED BY <1>1, <1>4, <1>8

\* The value of a word, position by position from the lowest.
LEMMA LowStep ==
    ASSUME NEW w \in SUBSET Nat, NEW k \in Nat
    PROVE  /\ Value(Low(w, 0)) = 0
           /\ Value(Low(w, k)) \in Nat
           /\ Value(Low(w, k + 1)) = Value(Low(w, k)) + Weight(w, k, 2^k)
  <1>1. Low(w, 0) = {} /\ Low(w, k) \in SUBSET Nat /\ k \notin Low(w, k)
    BY DEF Low
  <1>2. IsFiniteSet(Low(w, k))
    <2>1. Low(w, k) \subseteq 0..k
      BY DEF Low
    <2>2. IsFiniteSet(0..k)
      BY FS_Interval
    <2> QED BY <2>1, <2>2, FS_Subset
  <1>3. Value({}) = 0 /\ Value(Low(w, k)) \in Nat
        /\ Value(Low(w, k) \cup {k}) = Value(Low(w, k)) + 2^k
    BY <1>1, <1>2, ValueAdd
  <1>4. CASE k \in w
    <2>1. Low(w, k + 1) = Low(w, k) \cup {k}
      BY <1>4 DEF Low
    <2> QED BY <1>1, <1>3, <1>4, <2>1 DEF Weight
  <1>5. CASE k \notin w
    <2>1. Low(w, k + 1) = Low(w, k)
      BY <1>5 DEF Low
    <2>2. Weight(w, k, 2^k) = 0
      BY <1>5 DEF Weight
    <2>3. \A v \in Nat : v = v + 0
      OBVIOUS
    <2> QED BY <1>1, <1>3, <2>1, <2>2, <2>3, Zenon
  <1> QED BY <1>4, <1>5

LEMMA LowAll ==
    ASSUME NEW w \in Word
    PROVE  Low(w, XLEN) = w /\ w \in SUBSET Nat
  <1>1. w \in SUBSET Nat /\ w \subseteq 0..(XLEN - 1)
    BY XLENAssumption DEF Word, Bit
  <1> QED BY <1>1 DEF Low

\* What k positions can stand for.
LEMMA LowBound ==
    ASSUME NEW w \in SUBSET Nat, NEW n \in Nat
    PROVE  Value(Low(w, n)) \in Nat /\ Value(Low(w, n)) < 2^n
  <1> DEFINE v(k) == Value(Low(w, k))
             p(k) == 2^k
             S == {k \in 0..n : v(k) < p(k)}
  <1>1. v(0) = 0 /\ \A k \in Nat : v(k) \in Nat /\ v(k + 1) = v(k) + Weight(w, k, p(k))
    BY LowStep
  <1>2. p(0) = 1 /\ \A k \in Nat : p(k) \in Nat /\ p(k + 1) = 2 * p(k)
    BY PowerStep
  <1> HIDE DEF v, p
  <1>3. 0 \in S
    BY <1>1, <1>2
  <1>4. ASSUME NEW k \in 0..(n - 1), k \in S PROVE k + 1 \in S
    <2>1. v(k) \in Nat /\ p(k) \in Nat /\ v(k) < p(k)
      BY <1>1, <1>2, <1>4
    <2>2. v(k + 1) = v(k) + Weight(w, k, p(k)) /\ p(k + 1) = 2 * p(k)
      BY <1>1, <1>2
    <2>3. v(k + 1) < p(k + 1)
      BY <2>1, <2>2 DEF Weight
    <2> QED BY <2>3
  <1>5. 0..n \subseteq S
    <2> HIDE DEF S
    <2> QED BY <1>3, <1>4, IntervalInduction
  <1>6. v(n) \in Nat /\ v(n) < p(n)
    BY <1>1, <1>5
  <1> QED BY <1>6 DEF v, p

\* The number a small field stands for.
LEMMA ValueIs ==
    ASSUME NEW w \in SUBSET (0..6)
    PROVE  Value(w) = Weight(w, 0, 1) + Weight(w, 1, 2) + Weight(w, 2, 4) + Weight(w, 3, 8)
                      + Weight(w, 4, 16) + Weight(w, 5, 32) + Weight(w, 6, 64)
  <1> DEFINE v(k) == Value(Low(w, k))
             p(k) == 2^k
  <1>1. v(0) = 0 /\ \A k \in Nat : v(k) \in Nat /\ v(k + 1) = v(k) + Weight(w, k, p(k))
    BY LowStep
  <1>2. /\ p(0) = 1 /\ p(1) = 2 /\ p(2) = 4 /\ p(3) = 8 /\ p(4) = 16 /\ p(5) = 32 /\ p(6) = 64
    OBVIOUS
  <1>3. v(7) = Value(w)
    <2>1. Low(w, 7) = w
      <3>1. w \subseteq 0..(7 - 1)
        OBVIOUS
      <3> QED BY <3>1 DEF Low
    <2> QED BY <2>1
  <1> HIDE DEF v, p
  <1>4. /\ v(1) = v(0) + Weight(w, 0, p(0)) /\ v(2) = v(1) + Weight(w, 1, p(1))
        /\ v(3) = v(2) + Weight(w, 2, p(2)) /\ v(4) = v(3) + Weight(w, 3, p(3))
        /\ v(5) = v(4) + Weight(w, 4, p(4)) /\ v(6) = v(5) + Weight(w, 5, p(5))
        /\ v(7) = v(6) + Weight(w, 6, p(6))
    BY <1>1
  <1> QED BY <1>1, <1>2, <1>3, <1>4 DEF Weight

-----------------------------------------------------------------------------
(* Arithmetic and order of the numbers that words stand for *)

LEMMA ValueBound ==
    ASSUME NEW w \in Word
    PROVE  Value(w) \in Nat /\ Value(w) < 2^XLEN
  BY LowAll, LowBound, XLENAssumption

\* A sum is that of the numbers, less the carry out of the top.
LEMMA AddValue ==
    ASSUME NEW a \in Word, NEW b \in Word
    PROVE  Value(a) + Value(b)
             = Value(wrapping_add(a, b)) + (IF CarryInto(a, b, XLEN) THEN 2^XLEN ELSE 0)
  <1> DEFINE s == wrapping_add(a, b)
             v(w, k) == Value(Low(w, k))
             p(k) == 2^k
             c(k) == IF CarryInto(a, b, k) THEN p(k) ELSE 0
             S == {k \in 0..XLEN : v(a, k) + v(b, k) = v(s, k) + c(k)}
  <1>1. s \in Word
    BY WordClosed
  <1>2. \A w \in Word : v(w, XLEN) = Value(w) /\ v(w, 0) = 0
    BY LowAll, LowStep, 0 \in Nat
  <1>3. \A w \in Word, k \in Nat : v(w, k) \in Nat /\ v(w, k + 1) = v(w, k) + Weight(w, k, p(k))
    BY LowAll, LowStep
  <1>4. \A k \in Nat : p(k) \in Nat /\ p(k + 1) = 2 * p(k)
    BY PowerStep
  <1>5. \A k \in Bit : k \in s <=> ((k \in a) <=> ((k \in b) <=> CarryInto(a, b, k)))
    BY AddBit DEF Carries, CarryInto
  <1>6. c(XLEN) = IF CarryInto(a, b, XLEN) THEN 2^XLEN ELSE 0
    OBVIOUS
  <1> HIDE DEF s, v, p
  <1>7. 0 \in S
    <2>1. ~CarryInto(a, b, 0)
      BY CarryIntoStep, 0 \in Nat
    <2> QED BY <1>1, <1>2, <2>1, XLENAssumption
  <1>8. ASSUME NEW k \in 0..(XLEN - 1), k \in S PROVE k + 1 \in S
    <2>1. k \in Nat /\ k \in Bit /\ k + 1 \in 0..XLEN
      BY XLENAssumption DEF Bit
    <2>2. CarryInto(a, b, k + 1)
            <=> (k \in a /\ k \in b) \/ ((k \in a \/ k \in b) /\ CarryInto(a, b, k))
      BY <2>1, CarryIntoStep
    <2> DEFINE q == p(k)
               xa == Weight(a, k, q)
               xb == Weight(b, k, q)
               xs == Weight(s, k, q)
    <2>3. q \in Nat /\ p(k + 1) = 2 * q
      BY <1>4, <2>1
    <2>4. xa + xb + c(k) = xs + c(k + 1)
      BY <1>5, <2>1, <2>2, <2>3 DEF Weight
    <2>5. /\ v(a, k) \in Nat /\ v(b, k) \in Nat /\ v(s, k) \in Nat
          /\ v(a, k + 1) = v(a, k) + xa /\ v(b, k + 1) = v(b, k) + xb
          /\ v(s, k + 1) = v(s, k) + xs
      BY <1>1, <1>3, <2>1
    <2>6. v(a, k) + v(b, k) = v(s, k) + c(k)
      BY <1>8
    <2>7. xa \in Nat /\ xb \in Nat /\ xs \in Nat /\ c(k) \in Nat /\ c(k + 1) \in Nat
      BY <2>3 DEF Weight
    <2> HIDE DEF xa, xb, xs, c, q
    <2>8. v(a, k + 1) + v(b, k + 1) = v(s, k + 1) + c(k + 1)
      BY <2>4, <2>5, <2>6, <2>7
    <2> QED BY <2>1, <2>8
  <1>9. 0..XLEN \subseteq S
    <2> HIDE DEF S
    <2> QED BY <1>7, <1>8, IntervalInduction, XLENAssumption
  <1>10. v(a, XLEN) + v(b, XLEN) = v(s, XLEN) + c(XLEN)
    BY <1>9, XLENAssumption
  <1>11. Value(a) + Value(b) = Value(s) + c(XLEN)
    BY <1>1, <1>2, <1>10
  <1> HIDE DEF c
  <1> QED BY <1>6, <1>11 DEF s

\* A word is below another when their difference borrows from beyond the top.
LEMMA LtIsBorrow ==
    ASSUME NEW a \in Word, NEW b \in Word
    PROVE  LtU32(a, b) <=> BorrowInto(a, b, XLEN)
  <1>1. \A k \in a \cup b : k \in Nat /\ k <= XLEN - 1
    BY XLENAssumption DEF Word, Bit
  <1>2. ASSUME NEW j \in b \ a
        PROVE  (\A k \in a \ b : k < j) <=> (a \ b) \cap (j + 1)..(XLEN - 1) = {}
    <2>1. \A k \in a \ b : k # j /\ (k \in (j + 1)..(XLEN - 1) <=> ~(k < j))
      BY <1>1, XLENAssumption
    <2> QED BY <2>1
  <1>3. \A j \in b \ a : j < XLEN
    BY <1>1, XLENAssumption
  <1> QED BY <1>2, <1>3 DEF LtU32, BorrowInto

\* A difference is that of the numbers, with a borrow when it is negative.
LEMMA SubValue ==
    ASSUME NEW a \in Word, NEW b \in Word
    PROVE  Value(a) - Value(b)
             = Value(wrapping_sub(a, b)) - (IF LtU32(a, b) THEN 2^XLEN ELSE 0)
  <1> DEFINE s == wrapping_sub(a, b)
             v(w, k) == Value(Low(w, k))
             p(k) == 2^k
             c(k) == IF BorrowInto(a, b, k) THEN p(k) ELSE 0
             S == {k \in 0..XLEN : v(a, k) - v(b, k) = v(s, k) - c(k)}
  <1>1. s \in Word
    BY WordClosed
  <1>2. \A w \in Word : v(w, XLEN) = Value(w) /\ v(w, 0) = 0
    BY LowAll, LowStep, 0 \in Nat
  <1>3. \A w \in Word, k \in Nat : v(w, k) \in Nat /\ v(w, k + 1) = v(w, k) + Weight(w, k, p(k))
    BY LowAll, LowStep
  <1>4. \A k \in Nat : p(k) \in Nat /\ p(k + 1) = 2 * p(k)
    BY PowerStep
  <1>5. \A k \in Bit : k \in s <=> ((k \in a) <=> ((k \in b) <=> BorrowInto(a, b, k)))
    BY SubBit DEF Borrows, BorrowInto
  <1>6. c(XLEN) = IF LtU32(a, b) THEN 2^XLEN ELSE 0
    BY LtIsBorrow
  <1> HIDE DEF s, v, p
  <1>7. 0 \in S
    <2>1. ~BorrowInto(a, b, 0)
      BY BorrowIntoStep, 0 \in Nat
    <2> QED BY <1>1, <1>2, <2>1, XLENAssumption
  <1>8. ASSUME NEW k \in 0..(XLEN - 1), k \in S PROVE k + 1 \in S
    <2>1. k \in Nat /\ k \in Bit /\ k + 1 \in 0..XLEN
      BY XLENAssumption DEF Bit
    <2>2. BorrowInto(a, b, k + 1)
            <=> (k \notin a /\ k \in b) \/ (~(k \in a /\ k \notin b) /\ BorrowInto(a, b, k))
      BY <2>1, BorrowIntoStep
    <2> DEFINE q == p(k)
               xa == Weight(a, k, q)
               xb == Weight(b, k, q)
               xs == Weight(s, k, q)
    <2>3. q \in Nat /\ p(k + 1) = 2 * q
      BY <1>4, <2>1
    <2>4. (xa - xb) - c(k) = xs - c(k + 1)
      BY <1>5, <2>1, <2>2, <2>3 DEF Weight
    <2>5. /\ v(a, k) \in Nat /\ v(b, k) \in Nat /\ v(s, k) \in Nat
          /\ v(a, k + 1) = v(a, k) + xa /\ v(b, k + 1) = v(b, k) + xb
          /\ v(s, k + 1) = v(s, k) + xs
      BY <1>1, <1>3, <2>1
    <2>6. v(a, k) - v(b, k) = v(s, k) - c(k)
      BY <1>8
    <2>7. xa \in Nat /\ xb \in Nat /\ xs \in Nat /\ c(k) \in Nat /\ c(k + 1) \in Nat
      BY <2>3 DEF Weight
    <2> HIDE DEF xa, xb, xs, c, q
    <2>8. v(a, k + 1) - v(b, k + 1) = v(s, k + 1) - c(k + 1)
      BY <2>4, <2>5, <2>6, <2>7
    <2> QED BY <2>1, <2>8
  <1>9. 0..XLEN \subseteq S
    <2> HIDE DEF S
    <2> QED BY <1>7, <1>8, IntervalInduction, XLENAssumption
  <1>10. v(a, XLEN) - v(b, XLEN) = v(s, XLEN) - c(XLEN)
    BY <1>9, XLENAssumption
  <1>11. Value(a) - Value(b) = Value(s) - c(XLEN)
    BY <1>1, <1>2, <1>10
  <1> HIDE DEF c
  <1> QED BY <1>6, <1>11 DEF s

\* The unsigned order of words is that of their numbers, and words with the
\* same number are the same.
LEMMA ValueOrder ==
    ASSUME NEW a \in Word, NEW b \in Word
    PROVE  /\ LtU32(a, b) <=> Value(a) < Value(b)
           /\ a = b <=> Value(a) = Value(b)
  <1> DEFINE d == Value(wrapping_sub(a, b))
             m == 2^XLEN
  <1>1. /\ Value(a) \in Nat /\ Value(b) \in Nat /\ d \in Nat /\ d < m
        /\ Value(a) < m /\ Value(b) < m
    BY WordClosed, ValueBound
  <1>2. m \in Nat
    BY PowerStep, XLENAssumption
  <1>3. Value(a) - Value(b) = d - (IF LtU32(a, b) THEN m ELSE 0)
    BY SubValue
  <1> HIDE DEF d, m
  <1>4. LtU32(a, b) <=> Value(a) < Value(b)
    BY <1>1, <1>2, <1>3
  <1>5. a = b \/ LtU32(a, b) \/ LtU32(b, a)
    <2> SUFFICES ASSUME a # b PROVE LtU32(a, b) \/ LtU32(b, a)
      OBVIOUS
    <2> DEFINE D == (a \ b) \cup (b \ a)
    <2>1. PICK j \in D : \A k \in D : k <= j
      <3> DEFINE T == {XLEN - j : j \in D}
      <3>1. T \in SUBSET Nat /\ T # {} /\ D \subseteq Nat
        <4>1. \A j \in D : j \in Nat /\ XLEN - j \in Nat
          BY XLENAssumption DEF Word, Bit
        <4>2. D # {}
          OBVIOUS
        <4> QED BY <4>1, <4>2
      <3>2. PICK n \in T : \A k \in T : n <= k
        <4> HIDE DEF T
        <4> QED BY <3>1, LeastMember
      <3>3. PICK j \in D : n = XLEN - j
        BY <3>2
      <3>4. \A k \in D : k <= j
        <4> TAKE k \in D
        <4>1. XLEN - j <= XLEN - k
          BY <3>2, <3>3
        <4> QED BY <3>1, <4>1, XLENAssumption
      <3> QED BY <3>4
    <2>2. \A k \in D : k \in Nat
      BY XLENAssumption DEF Word, Bit
    <2> QED BY <2>1, <2>2 DEF LtU32
  <1>6. LtU32(b, a) => Value(a) # Value(b)
    <2> DEFINE e == Value(wrapping_sub(b, a))
    <2>1. e \in Nat /\ e < m
      BY WordClosed, ValueBound DEF m
    <2>2. Value(b) - Value(a) = e - (IF LtU32(b, a) THEN m ELSE 0)
      BY SubValue DEF m
    <2> HIDE DEF e
    <2> QED BY <1>1, <1>2, <2>1, <2>2
  <1> QED BY <1>1, <1>4, <1>5, <1>6

\* Half of a word: the last position, and the others one lower.
LEMMA ValueHalves ==
    ASSUME NEW w \in Word
    PROVE  Value(w) = Weight(w, 0, 1) + 2 * Value(Shr(w, 1))
  <1> DEFINE h == Shr(w, 1)
             v(u, k) == Value(Low(u, k))
             p(k) == 2^k
             S == {k \in 0..XLEN : v(w, k + 1) = Weight(w, 0, 1) + 2 * v(h, k)}
  <1>1. h \in Word
    BY WordClosed
  <1>2. \A u \in Word : v(u, XLEN) = Value(u) /\ v(u, 0) = 0
    BY LowAll, LowStep, 0 \in Nat
  <1>3. \A u \in Word, k \in Nat : v(u, k) \in Nat /\ v(u, k + 1) = v(u, k) + Weight(u, k, p(k))
    BY LowAll, LowStep
  <1>4. p(0) = 1 /\ \A k \in Nat : p(k) \in Nat /\ p(k + 1) = 2 * p(k)
    BY PowerStep
  <1>5. \A k \in 0..(XLEN - 1) : k \in h <=> k + 1 \in w
    BY DEF Shr, Bit
  <1>6. XLEN \notin w
    BY XLENAssumption DEF Word, Bit
  <1> HIDE DEF h, v, p
  <1>7. 0 \in S
    <2>1. v(w, 0 + 1) = 0 + Weight(w, 0, 1) /\ v(h, 0) = 0
      BY <1>1, <1>2, <1>3, <1>4
    <2>2. Weight(w, 0, 1) \in Nat
      BY DEF Weight
    <2> QED BY <2>1, <2>2, XLENAssumption
  <1>8. ASSUME NEW k \in 0..(XLEN - 1), k \in S PROVE k + 1 \in S
    <2> DEFINE l == k + 1
               x == Weight(h, k, p(k))
               y == Weight(w, l, p(l))
    <2>1. k \in Nat /\ l \in Nat /\ l \in 0..XLEN
      BY XLENAssumption
    <2>2. y = 2 * x /\ x \in Nat
      BY <1>4, <1>5, <2>1 DEF Weight
    <2>3. /\ v(w, l) \in Nat /\ v(h, k) \in Nat
          /\ v(w, l + 1) = v(w, l) + y /\ v(h, l) = v(h, k) + x
      BY <1>1, <1>3, <2>1
    <2>4. v(w, l) = Weight(w, 0, 1) + 2 * v(h, k) /\ Weight(w, 0, 1) \in Nat
      BY <1>8 DEF Weight
    <2> HIDE DEF x, y
    <2>5. v(w, l + 1) = Weight(w, 0, 1) + 2 * v(h, l)
      BY <2>2, <2>3, <2>4
    <2> QED BY <2>1, <2>5
  <1>9. 0..XLEN \subseteq S
    <2> HIDE DEF S
    <2> QED BY <1>7, <1>8, IntervalInduction, XLENAssumption
  <1>10. v(w, XLEN + 1) = Weight(w, 0, 1) + 2 * Value(h)
    BY <1>1, <1>2, <1>9, XLENAssumption
  <1>11. v(w, XLEN + 1) = Value(w) + Weight(w, XLEN, p(XLEN)) /\ Value(w) \in Nat
    BY <1>2, <1>3, XLENAssumption, ValueBound
  <1>12. Weight(w, XLEN, p(XLEN)) = 0
    BY <1>6 DEF Weight
  <1>13. Value(w) = Weight(w, 0, 1) + 2 * Value(h)
    BY <1>10, <1>11, <1>12
  <1> QED BY <1>13 DEF h

LEMMA Distributes == \A p \in Nat, x \in Nat, y \in Nat : p * (x + 2 * y) = p * x + (2 * p) * y
  OBVIOUS

\* A word shifted right is the quotient, and what is shifted out the
\* remainder.
LEMMA ShrValue ==
    ASSUME NEW w \in Word, NEW n \in 0..XLEN
    PROVE  /\ Value(w) = Value(Low(w, n)) + 2^n * Value(Shr(w, n))
           /\ Value(Shr(w, n)) = Value(w) \div 2^n
           /\ Value(Low(w, n)) = Value(w) % 2^n
  <1> DEFINE v(k) == Value(Low(w, k))
             p(k) == 2^k
             h(k) == Value(Shr(w, k))
             S == {k \in 0..XLEN : Value(w) = v(k) + p(k) * h(k)}
  <1>1. v(0) = 0 /\ \A k \in Nat : v(k) \in Nat /\ v(k + 1) = v(k) + Weight(w, k, p(k))
    BY LowAll, LowStep
  <1>2. p(0) = 1 /\ \A k \in Nat : p(k) \in Nat \ {0} /\ p(k + 1) = 2 * p(k)
    BY PowerStep
  <1>3. Value(w) \in Nat /\ \A k : h(k) \in Nat
    BY WordClosed, ValueBound
  <1>4. h(0) = Value(w)
    <2>1. Shr(w, 0) = w
      <3>1. \A i \in Bit : i + 0 = i
        BY DEF Bit
      <3> QED BY <3>1 DEF Shr, Word
    <2> QED BY <2>1
  <1>5. \A k \in Nat : h(k) = Weight(w, k, 1) + 2 * h(k + 1)
    <2> TAKE k \in Nat
    <2>1. Shr(w, k) \in Word
      BY WordClosed
    <2>2. Shr(Shr(w, k), 1) = Shr(w, k + 1)
      <3>1. \A i \in Bit : i + 1 + k = i + (k + 1) /\ (i + 1) + k = i + (k + 1)
        BY DEF Bit
      <3>2. \A i \in Bit : i + (k + 1) \in w => i + 1 \in Bit
        BY XLENAssumption DEF Word, Bit
      <3> QED BY <3>1, <3>2 DEF Shr
    <2>3. 0 \in Shr(w, k) <=> k \in w
      BY XLENAssumption DEF Shr, Bit
    <2> QED BY <2>1, <2>2, <2>3, ValueHalves DEF Weight
  <1>6. \A k \in Nat : v(k) < p(k)
    BY LowAll, LowBound
  <1> HIDE DEF v, p, h
  <1>7. 0 \in S
    BY <1>1, <1>2, <1>3, <1>4, XLENAssumption
  <1>8. ASSUME NEW k \in 0..(XLEN - 1), k \in S PROVE k + 1 \in S
    <2> DEFINE x == Weight(w, k, 1)
               q == p(k)
               y == h(k + 1)
    <2>1. k \in Nat /\ k + 1 \in 0..XLEN
      BY XLENAssumption
    <2>2. x \in {0, 1} /\ Weight(w, k, q) = q * x /\ q \in Nat
      <3>1. q \in Nat /\ q * 0 = 0 /\ q * 1 = q
        BY <1>2, <2>1
      <3> QED BY <3>1 DEF Weight
    <2>3. /\ v(k) \in Nat /\ v(k + 1) = v(k) + q * x /\ y \in Nat
          /\ Value(w) = v(k) + q * (x + 2 * y)
      BY <1>1, <1>3, <1>5, <1>8, <2>1, <2>2
    <2>4. p(k + 1) = 2 * q
      BY <1>2, <2>1
    <2> HIDE DEF x, y, q
    <2>5. q * (x + 2 * y) = q * x + (2 * q) * y /\ q * x \in Nat /\ (2 * q) * y \in Nat
      BY <2>2, <2>3, Distributes
    <2>6. Value(w) = v(k + 1) + (2 * q) * y
      BY <2>3, <2>5
    <2>7. Value(w) = v(k + 1) + p(k + 1) * h(k + 1)
      BY <2>4, <2>6 DEF y
    <2> QED BY <2>1, <2>7
  <1>9. 0..XLEN \subseteq S
    <2> HIDE DEF S
    <2> QED BY <1>7, <1>8, IntervalInduction, XLENAssumption
  <1>10. n \in Nat /\ Value(w) = v(n) + p(n) * h(n)
    BY <1>9, XLENAssumption
  <1>11. \A r \in Nat, d \in Nat \ {0}, q \in Nat, x \in Nat :
           r < d /\ x = r + d * q => q = x \div d /\ r = x % d
    OBVIOUS
  <1>12. h(n) = Value(w) \div p(n) /\ v(n) = Value(w) % p(n)
    <2>1. v(n) \in Nat /\ p(n) \in Nat \ {0} /\ h(n) \in Nat /\ v(n) < p(n) /\ Value(w) \in Nat
      BY <1>1, <1>2, <1>3, <1>6, <1>10
    <2> QED BY <1>10, <1>11, <2>1, Zenon
  <1> QED BY <1>10, <1>12 DEF v, p, h

LEMMA ValueEmpty == {} \in Word /\ Value({}) = 0
  <1>1. {} \in SUBSET Nat /\ IsFiniteSet({}) /\ 0 \in Nat /\ 0 \notin {}
    BY FS_EmptySet
  <1>2. Value({}) = 0
    BY <1>1, ValueAdd
  <1> QED BY <1>2 DEF Word

\* A word shifted left is the product, less what is shifted out.
LEMMA ShlValue ==
    ASSUME NEW w \in Word, NEW n \in 0..XLEN
    PROVE  Value(Shl(w, n)) = (Value(w) * 2^n) % 2^XLEN
  <1> DEFINE k == XLEN - n
             u == Shl(w, n)
             P == 2^n
             K == 2^k
             M == 2^XLEN
             L == Value(Low(w, k))
             Q == Value(Shr(w, k))
  <1>1. n \in Nat /\ k \in 0..XLEN /\ XLEN = k + n /\ k \in Nat
    BY XLENAssumption
  <1>2. u \in Word /\ Shr(w, k) \in Word
    BY WordClosed
  <1>3. Low(u, n) = {} /\ Shr(u, n) = Low(w, k)
    <2>1. \A i \in u : i >= n
      BY <1>1, XLENAssumption DEF Shl, Bit, Word
    <2>2. ASSUME NEW i \in Bit PROVE i \in Shr(u, n) <=> i \in Low(w, k)
      <3>1. i \in Nat /\ (i + n) - n = i /\ (i + n \in Bit <=> i \in 0..(k - 1))
        BY <1>1, XLENAssumption DEF Bit
      <3> QED BY <3>1 DEF Shr, Shl, Low
    <2>3. Shr(u, n) \subseteq Bit /\ Low(w, k) \subseteq Bit
      BY DEF Shr, Low, Word
    <2>4. Low(u, n) = {}
      BY <1>1, <2>1 DEF Low
    <2> QED BY <2>2, <2>3, <2>4
  <1>4. Value(u) = P * L /\ Value(u) < M
    <2>1. Value(u) = Value(Low(u, n)) + P * Value(Shr(u, n))
      BY <1>2, ShrValue
    <2>2. P * L \in Nat
      <3>1. P \in Nat /\ L \in Nat
        <4>1. w \in SUBSET Nat
          BY LowAll
        <4> HIDE DEF k
        <4> QED BY <1>1, <4>1, LowBound, PowerStep
      <3> HIDE DEF P, L
      <3> QED BY <3>1
    <2> HIDE DEF P, L, u, k
    <2> QED BY <1>2, <1>3, <2>1, <2>2, ValueBound, ValueEmpty DEF L, M
  <1>5. Value(w) = L + K * Q
    <2> HIDE DEF k
    <2> QED BY <1>1, ShrValue
  <1>6. M = K * P
    <2> HIDE DEF k
    <2> QED BY <1>1, PowerSum
  <1>7. L \in Nat /\ Q \in Nat /\ P \in Nat /\ K \in Nat \ {0} /\ M \in Nat \ {0}
    <2>1. w \in SUBSET Nat
      BY LowAll
    <2> HIDE DEF k
    <2> QED BY <1>1, <1>2, <2>1, LowBound, ValueBound, PowerStep, XLENAssumption
  <1> HIDE DEF P, K, M, L, Q, u
  <1>8. Value(w) * P = P * L + M * Q
    <2>1. (L + K * Q) * P = P * L + (K * P) * Q
      BY <1>7
    <2> QED BY <1>5, <1>6, <2>1
  <1>9. \A r \in Nat, d \in Nat \ {0}, q \in Nat : r < d => (r + d * q) % d = r
    OBVIOUS
  <1>10. P * L \in Nat /\ P * L < M
    BY <1>4, <1>7
  <1>11. (Value(w) * P) % M = P * L
    BY <1>7, <1>8, <1>9, <1>10, Zenon
  <1> QED BY <1>4, <1>11 DEF P, M, u

\* A word whose positions from n up are all ones falls short of 2^XLEN by as
\* much as its lower part falls short of 2^n.
LEMMA HighOnes ==
    ASSUME NEW w \in Word, NEW n \in 0..XLEN, n..(XLEN - 1) \subseteq w
    PROVE  Value(w) = (Value(Low(w, n)) + 2^XLEN) - 2^n
  <1> DEFINE v(k) == Value(Low(w, k))
             p(k) == 2^k
             S == {k \in n..XLEN : v(k) + p(n) = v(n) + p(k)}
  <1>1. \A k \in Nat : v(k) \in Nat /\ v(k + 1) = v(k) + Weight(w, k, p(k))
    BY LowAll, LowStep
  <1>2. \A k \in Nat : p(k) \in Nat \ {0} /\ p(k + 1) = 2 * p(k)
    BY PowerStep
  <1>3. v(XLEN) = Value(w)
    BY LowAll
  <1> HIDE DEF v, p
  <1>4. n \in S
    BY XLENAssumption
  <1>5. ASSUME NEW k \in n..(XLEN - 1), k \in S PROVE k + 1 \in S
    <2>1. k \in Nat /\ k \in w /\ k + 1 \in n..XLEN /\ n \in Nat
      BY XLENAssumption
    <2>2. v(k + 1) = v(k) + p(k) /\ p(k + 1) = 2 * p(k)
      BY <1>1, <1>2, <2>1 DEF Weight
    <2>3. v(k) + p(n) = v(n) + p(k)
      BY <1>5
    <2>4. v(k) \in Nat /\ v(n) \in Nat /\ p(k) \in Nat /\ p(n) \in Nat
      BY <1>1, <1>2, <2>1
    <2>5. v(k + 1) + p(n) = v(n) + p(k + 1)
      BY <2>2, <2>3, <2>4
    <2> QED BY <2>1, <2>5
  <1>6. n..XLEN \subseteq S
    <2> HIDE DEF S
    <2> QED BY <1>4, <1>5, IntervalInduction, XLENAssumption
  <1>7. v(XLEN) + p(n) = v(n) + p(XLEN)
    BY <1>6, XLENAssumption
  <1>8. v(XLEN) \in Nat /\ p(n) \in Nat /\ v(n) \in Nat /\ p(XLEN) \in Nat
    BY <1>1, <1>2, XLENAssumption
  <1>9. v(XLEN) = (v(n) + p(XLEN)) - p(n)
    BY <1>7, <1>8
  <1> QED BY <1>3, <1>9 DEF v, p

\* The bitwise operations by the identities that tie them to sums.
LEMMA LogicValue ==
    ASSUME NEW a \in Word, NEW b \in Word
    PROVE  /\ Value(a \cup b) + Value(a \cap b) = Value(a) + Value(b)
           /\ Value(SymDiff(a, b)) = Value(a \cup b) - Value(a \cap b)
  <1> DEFINE c == a \cup b
             d == a \cap b
             e == SymDiff(a, b)
             v(w, k) == Value(Low(w, k))
             p(k) == 2^k
             S == {k \in 0..XLEN : /\ v(c, k) + v(d, k) = v(a, k) + v(b, k)
                                   /\ v(e, k) = v(c, k) - v(d, k)}
  <1>1. c \in Word /\ d \in Word /\ e \in Word
    BY WordClosed DEF Word
  <1>2. \A w \in Word : v(w, XLEN) = Value(w) /\ v(w, 0) = 0
    BY LowAll, LowStep, 0 \in Nat
  <1>3. \A w \in Word, k \in Nat : v(w, k) \in Nat /\ v(w, k + 1) = v(w, k) + Weight(w, k, p(k))
    BY LowAll, LowStep
  <1>4. \A k \in Nat : p(k) \in Nat
    BY PowerStep
  <1>5. \A k : /\ k \in c <=> k \in a \/ k \in b
               /\ k \in d <=> k \in a /\ k \in b
               /\ k \in e <=> ~(k \in a <=> k \in b)
    BY DEF SymDiff
  <1> HIDE DEF c, d, e, v, p
  <1>6. 0 \in S
    BY <1>1, <1>2, XLENAssumption
  <1>7. ASSUME NEW k \in 0..(XLEN - 1), k \in S PROVE k + 1 \in S
    <2> DEFINE q == p(k)
               xa == Weight(a, k, q)
               xb == Weight(b, k, q)
               xc == Weight(c, k, q)
               xd == Weight(d, k, q)
               xe == Weight(e, k, q)
    <2>1. k \in Nat /\ k + 1 \in 0..XLEN /\ q \in Nat
      BY <1>4, XLENAssumption
    <2>2. xc + xd = xa + xb /\ xe = xc - xd
      BY <1>5, <2>1 DEF Weight
    <2>3. xa \in Nat /\ xb \in Nat /\ xc \in Nat /\ xd \in Nat /\ xe \in Nat
      BY <2>1 DEF Weight
    <2>4. /\ v(a, k) \in Nat /\ v(b, k) \in Nat /\ v(c, k) \in Nat /\ v(d, k) \in Nat
          /\ v(e, k) \in Nat
          /\ v(a, k + 1) = v(a, k) + xa /\ v(b, k + 1) = v(b, k) + xb
          /\ v(c, k + 1) = v(c, k) + xc /\ v(d, k + 1) = v(d, k) + xd
          /\ v(e, k + 1) = v(e, k) + xe
      BY <1>1, <1>3, <2>1
    <2>5. v(c, k) + v(d, k) = v(a, k) + v(b, k) /\ v(e, k) = v(c, k) - v(d, k)
      BY <1>7
    <2> HIDE DEF xa, xb, xc, xd, xe
    <2>6. /\ v(c, k + 1) + v(d, k + 1) = v(a, k + 1) + v(b, k + 1)
          /\ v(e, k + 1) = v(c, k + 1) - v(d, k + 1)
      BY <2>2, <2>3, <2>4, <2>5
    <2> QED BY <2>1, <2>6
  <1>8. 0..XLEN \subseteq S
    <2> HIDE DEF S
    <2> QED BY <1>6, <1>7, IntervalInduction, XLENAssumption
  <1>9. /\ v(c, XLEN) + v(d, XLEN) = v(a, XLEN) + v(b, XLEN)
        /\ v(e, XLEN) = v(c, XLEN) - v(d, XLEN)
    BY <1>8, XLENAssumption
  <1>10. Value(c) + Value(d) = Value(a) + Value(b) /\ Value(e) = Value(c) - Value(d)
    BY <1>1, <1>2, <1>9
  <1> QED BY <1>10 DEF c, d, e

LEMMA ValueMonotone ==
    ASSUME NEW u \in Word, NEW w \in Word, u \subseteq w
    PROVE  Value(u) <= Value(w)
  <1> DEFINE r == w \ u
  <1>1. r \in Word /\ u \cup r = w /\ u \cap r = {}
    BY DEF Word
  <1> HIDE DEF r
  <1>2. Value(w) + Value({}) = Value(u) + Value(r)
    BY <1>1, LogicValue
  <1> QED BY <1>1, <1>2, ValueEmpty, ValueBound

\* The top position is half of all that a word can stand for.
LEMMA SignValue ==
    ASSUME NEW w \in Word
    PROVE  /\ 2^XLEN = 2 * 2^Sign /\ 2^Sign \in Nat \ {0}
           /\ Sign \in w <=> Value(w) >= 2^Sign
  <1> DEFINE s == Sign
             p == 2^s
             l == Value(Low(w, s))
  <1>1. s \in Nat /\ s + 1 = XLEN
    BY XLENAssumption DEF Sign
  <1>2. p \in Nat \ {0} /\ 2^(s + 1) = 2 * p
    <2> HIDE DEF s
    <2> QED BY <1>1, PowerStep
  <1>3. l \in Nat /\ l < p /\ Value(Low(w, s + 1)) = l + Weight(w, s, p)
    <2> HIDE DEF s
    <2> QED BY <1>1, LowAll, LowStep, LowBound
  <1>4. Value(w) = l + Weight(w, s, p)
    BY <1>1, <1>3, LowAll
  <1> HIDE DEF s, p, l
  <1>5. s \in w <=> Value(w) >= p
    BY <1>2, <1>3, <1>4 DEF Weight
  <1> QED BY <1>1, <1>2, <1>5 DEF s, p
=============================================================================
