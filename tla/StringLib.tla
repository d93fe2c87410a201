----------------------------- MODULE StringLib -----------------------------
(***************************************************************************)
(* src/riscv-tests/env/v/string.c, the C library of the virtual-memory     *)
(* test environment: it copies the pages and compares them.  A memory is a *)
(* function from addresses to bytes; a function that stores returns the    *)
(* memory it leaves.  Every loop is a function of its iterations.          *)
(***************************************************************************)
EXTENDS Integers, Sequences

CONSTANT PTR   \* sizeof(uintptr_t)

ASSUME StringAssumption == PTR \in {4, 8}

W == INSTANCE Words WITH XLEN <- 8 * PTR

\* ((a | b | ...) & (sizeof(uintptr_t) - 1)) == 0
Aligned(numbers) == \A n \in numbers : n % PTR = 0

\* Mutant: the length is not looked at, and the last word goes too far
MemcpyUnit_NoLen(dest, src, len) == IF Aligned({dest, src}) THEN PTR ELSE 1

MemcpyUnit(dest, src, len) == IF Aligned({dest, src, len}) THEN PTR ELSE 1

\* Iterations of while (d < dest + len), d a pointer to unit bytes
Iterations(len, unit) == (len + unit - 1) \div unit

memcpy(mem, dest, src, len) ==
    LET unit == MemcpyUnit(dest, src, len)
        after[k \in 0..Iterations(len, unit)] ==
            IF k = 0 THEN mem
            ELSE LET d == dest + (k - 1) * unit
                     s == src + (k - 1) * unit
                 IN  [a \in DOMAIN mem |-> IF a \in d..(d + unit - 1) THEN after[k - 1][s + a - d]
                                           ELSE after[k - 1][a]]
    IN  after[Iterations(len, unit)]

-----------------------------------------------------------------------------
\* Mutant: the step by 16 is missing
Replicated_Half(byte) ==
    LET byte0 == W!BitsOf(byte % 256)
    IN  byte0 \cup W!Shl(byte0, 8)

\* word |= word << 8, << 16, << 16 << 16; the last is 0 in 32 bits
Replicated(byte) ==
    LET byte0 == W!BitsOf(byte % 256)
        half  == byte0 \cup W!Shl(byte0, 8)
        word  == half \cup W!Shl(half, 16)
    IN  word \cup W!Shl(W!Shl(word, 16), 16)

ByteOf(word, k) == W!Value(W!Field(word, 8 * k, 8))

memset(mem, dest, byte, len) ==
    LET words == Aligned({dest, len})
    IN  [a \in DOMAIN mem |->
            IF a \notin dest..(dest + len - 1) THEN mem[a]
            ELSE IF words THEN ByteOf(Replicated(byte), (a - dest) % PTR)
            ELSE byte % 256]

-----------------------------------------------------------------------------
strlen(mem, s) ==
    LET end[p \in DOMAIN mem] == IF mem[p] = 0 THEN p ELSE end[p + 1]
    IN  end[s] - s

strcmp(mem, s1, s2) ==
    LET from[i \in {j \in DOMAIN mem : {s1 + j, s2 + j} \subseteq DOMAIN mem}] ==
            LET c1 == mem[s1 + i]
                c2 == mem[s2 + i]
            IN  IF c1 # 0 /\ c1 = c2 THEN from[i + 1] ELSE c1 - c2
    IN  from[0]

strcpy(mem, dest, src) ==
    LET after[i \in {j \in DOMAIN mem : {dest + j, src + j} \subseteq DOMAIN mem}] ==
            LET before == IF i = 0 THEN mem ELSE after[i - 1]
            IN  [before EXCEPT ![dest + i] = before[src + i]]
        last == CHOOSE i \in DOMAIN after :
                    after[i][dest + i] = 0 /\ \A j \in 0..(i - 1) : after[j][dest + j] # 0
    IN  after[last]

WordsEqual(mem, a, b) == \A k \in 0..(PTR - 1) : mem[a + k] = mem[b + k]

\* Mutant: a difference found in the words is the end of the comparison
SkipWords_Past(mem, s1, s2, n) ==
    LET skip[i \in 0..(n \div PTR)] ==
            IF i < n \div PTR THEN skip[i + 1] ELSE i * PTR
    IN  skip[0]

\* The bytes both have in equal leading words, where both are aligned
SkipWords(mem, s1, s2, n) ==
    LET skip[i \in 0..(n \div PTR)] ==
            IF i < n \div PTR /\ WordsEqual(mem, s1 + i * PTR, s2 + i * PTR)
            THEN skip[i + 1] ELSE i * PTR
    IN  skip[0]

memcmp(mem, s1, s2, n) ==
    LET first == IF Aligned({s1, s2}) THEN SkipWords(mem, s1, s2, n) ELSE 0
        from[i \in first..n] ==
            IF i = n THEN 0
            ELSE IF mem[s1 + i] # mem[s2 + i] THEN mem[s1 + i] - mem[s2 + i]
            ELSE from[i + 1]
    IN  from[first]

-----------------------------------------------------------------------------
(* atol, on the character codes of a string without its final 0 *)

Space == 32
Plus  == 43
Minus == 45
Zero  == 48

\* Mutant: the digit is added before the product
Digits_Early(res, digit) == (res + digit) * 10

Digits(res, digit) == res * 10 + digit

atol(str) ==
    LET last == Len(str)
        blank == {i \in 0..last : \A j \in 1..i : str[j] = Space}
        first == 1 + (CHOOSE i \in blank : i + 1 \notin blank)
        signed == first <= last /\ str[first] \in {Plus, Minus}
        start == IF signed THEN first + 1 ELSE first
        res[i \in (start - 1)..last] ==
            IF i = start - 1 THEN 0 ELSE Digits(res[i - 1], str[i] - Zero)
    IN  IF signed /\ str[first] = Minus THEN -res[last] ELSE res[last]
=============================================================================
