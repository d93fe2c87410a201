---------------------------- MODULE NatTheorems ----------------------------
(***************************************************************************)
(* Induction over numbers and finite sets with a set in the place of a     *)
(* predicate: the set of what the predicate holds of.  It follows from the *)
(* well-founded order of the finite sets, with 0..(n-1) standing for n.    *)
(* What is known of powers of two follows from counting subsets.           *)
(***************************************************************************)
EXTENDS Integers, FiniteSetTheorems, WellFoundedInduction, TLAPS

\* A set of naturals that is not empty has a least member.
LEMMA LeastMember ==
    ASSUME NEW T \in SUBSET Nat, T # {}
    PROVE  \E n \in T : \A m \in T : n <= m
  <1> DEFINE Below == {0..(n - 1) : n \in T}
             Order == StrictSubsetOrdering(Nat)
  <1>1. IsWellFoundedOn(Order, FiniteSubsetsOf(Nat))
    BY FS_StrictSubsetOrderingWellFounded, Zenon
  <1>2. Below \subseteq FiniteSubsetsOf(Nat) /\ Below # {}
    <2>1. ASSUME NEW n \in T PROVE 0..(n - 1) \in FiniteSubsetsOf(Nat)
      BY FS_Interval DEF FiniteSubsetsOf
    <2> QED BY <2>1
  <1>3. \E x \in Below : \A y \in Below : <<y, x>> \notin Order
    <2> HIDE DEF Below, Order
    <2> QED BY <1>1, <1>2, WFMin, Zenon
  <1>4. PICK n \in T : \A y \in Below : <<y, 0..(n - 1)>> \notin Order
    BY <1>3
  <1>5. ASSUME NEW m \in T PROVE n <= m
    <2>1. <<0..(m - 1), 0..(n - 1)>> \notin Order
      BY <1>4
    <2>2. m < n => 0..(m - 1) \subseteq 0..(n - 1) /\ m \in 0..(n - 1) /\ m \notin 0..(m - 1)
      OBVIOUS
    <2> QED BY <2>1, <2>2 DEF StrictSubsetOrdering
  <1> QED BY <1>5

\* A set that has the first number of an interval, and with each number the
\* next, has them all.
LEMMA IntervalInduction ==
    ASSUME NEW S, NEW a \in Int, NEW b \in Int, a \in S,
           \A i \in a..(b - 1) : i \in S => i + 1 \in S
    PROVE  a..b \subseteq S
  <1> DEFINE Missing == {d \in Nat : a + d \in (a..b) \ S}
  <1> SUFFICES ASSUME (a..b) \ S # {} PROVE FALSE
    OBVIOUS
  <1>1. Missing # {}
    <2>1. PICK i \in (a..b) \ S : TRUE
      OBVIOUS
    <2>2. i - a \in Nat /\ a + (i - a) = i
      BY <2>1
    <2> QED BY <2>1, <2>2
  <1>2. PICK d \in Missing : \A e \in Missing : d <= e
    <2> HIDE DEF Missing
    <2>1. Missing \in SUBSET Nat
      BY DEF Missing
    <2> QED BY <1>1, <2>1, LeastMember
  <1>3. d # 0
    BY <1>2
  <1>4. d - 1 \notin Missing
    BY <1>2
  <1>5. a + (d - 1) \in a..(b - 1) /\ a + (d - 1) \in S
    BY <1>2, <1>3, <1>4
  <1> QED BY <1>2, <1>5

\* A family of subsets of a finite set that has the empty one, and with each
\* subset those with one member more, has the whole set.
LEMMA SubsetInduction ==
    ASSUME NEW T, IsFiniteSet(T), NEW K, {} \in K,
           \A s \in SUBSET T, x \in T : s \in K => s \cup {x} \in K
    PROVE  T \in K
  <1> DEFINE missing == {Cardinality(T \ s) : s \in K \cap SUBSET T}
  <1>1. \A s \in SUBSET T : IsFiniteSet(T \ s) /\ Cardinality(T \ s) \in Nat
    BY FS_Difference, FS_CardinalityType
  <1>2. PICK n \in missing : \A m \in missing : n <= m
    <2>1. missing \in SUBSET Nat /\ missing # {}
      BY <1>1
    <2> HIDE DEF missing
    <2> QED BY <2>1, LeastMember
  <1>3. PICK s \in K \cap SUBSET T : n = Cardinality(T \ s)
    BY <1>2
  <1>4. ASSUME NEW x \in T \ s PROVE FALSE
    <2>1. s \cup {x} \in K \cap SUBSET T
      BY <1>3
    <2>2. T \ (s \cup {x}) = (T \ s) \ {x}
      OBVIOUS
    <2>3. Cardinality((T \ s) \ {x}) = Cardinality(T \ s) - 1
      BY <1>1, <1>4, FS_RemoveElement
    <2>4. n <= Cardinality(T \ (s \cup {x}))
      BY <1>2, <2>1
    <2> DEFINE c == Cardinality(T \ s)
    <2>5. c \in Nat /\ n = c /\ n <= c - 1
      BY <1>1, <1>3, <2>2, <2>3, <2>4
    <2> HIDE DEF c
    <2> QED BY <2>5
  <1>5. s = T
    BY <1>4
  <1> QED BY <1>5

-----------------------------------------------------------------------------
(* Powers of two *)

\* Each power of two is twice the one before: a set with one member more has
\* twice as many subsets.
LEMMA PowerStep ==
    ASSUME NEW n \in Nat
    PROVE  2^n \in Nat \ {0} /\ 2^(n + 1) = 2 * 2^n
  <1> DEFINE old == 1..n
             all == 1..(n + 1)
             without == SUBSET old
             with == {s \cup {n + 1} : s \in without}
             add == [s \in without |-> s \cup {n + 1}]
  <1>1. /\ IsFiniteSet(old) /\ Cardinality(old) = n
        /\ IsFiniteSet(all) /\ Cardinality(all) = n + 1
    BY FS_Interval
  <1>2. IsFiniteSet(without) /\ Cardinality(without) = 2^n
    BY <1>1, FS_SUBSET
  <1>3. Cardinality(SUBSET all) = 2^(n + 1)
    BY <1>1, FS_SUBSET
  <1>4. all = old \cup {n + 1} /\ n + 1 \notin old
    OBVIOUS
  <1> HIDE DEF old, all
  <1>5. IsFiniteSet(with) /\ Cardinality(with) = Cardinality(without)
    <2>1. add \in [without -> with]
      OBVIOUS
    <2>2. \A s, t \in without : add[s] = add[t] => s = t
      <3> TAKE s, t \in without
      <3>1. n + 1 \notin s /\ n + 1 \notin t
        BY <1>4
      <3> QED BY <3>1
    <2>3. \A t \in with : \E s \in without : add[s] = t
      OBVIOUS
    <2> HIDE DEF add, with, without
    <2>4. add \in Bijection(without, with)
      BY <2>1, <2>2, <2>3 DEF Bijection, Injection, Surjection, IsInjective
    <2> QED BY <1>2, <2>4, FS_Bijection DEF ExistsBijection
  <1>6. SUBSET all = without \cup with /\ without \cap with = {}
    <2>1. ASSUME NEW t \in SUBSET all PROVE t \in without \cup with
      <3>1. CASE n + 1 \in t
        <4>1. t \ {n + 1} \in without /\ t = (t \ {n + 1}) \cup {n + 1}
          BY <1>4, <3>1
        <4> QED BY <4>1
      <3>2. CASE n + 1 \notin t
        BY <1>4, <3>2
      <3> QED BY <3>1, <3>2
    <2>2. without \subseteq SUBSET all /\ with \subseteq SUBSET all
      BY <1>4
    <2>3. without \cap with = {}
      BY <1>4
    <2> QED BY <2>1, <2>2, <2>3
  <1>7. {} \in without
    OBVIOUS
  <1> HIDE DEF with, without
  <1>8. Cardinality(SUBSET all) = Cardinality(without) + Cardinality(with) - 0
    <2>1. Cardinality(without \cup with)
            = Cardinality(without) + Cardinality(with) - Cardinality(without \cap with)
      BY <1>2, <1>5, FS_Union, Zenon
    <2> QED BY <1>6, <2>1, FS_EmptySet
  <1>9. Cardinality(without) \in Nat \ {0}
    BY <1>2, <1>7, FS_EmptySet, FS_CardinalityType
  <1> DEFINE p == 2^n
             q == 2^(n + 1)
  <1>10. p \in Nat \ {0} /\ q = p + p
    BY <1>2, <1>3, <1>5, <1>8, <1>9
  <1> HIDE DEF p, q
  <1>11. q = 2 * p
    BY <1>10
  <1> QED BY <1>10, <1>11 DEF p, q

\* Powers of two multiply as their exponents add.
LEMMA PowerSum ==
    ASSUME NEW m \in Nat, NEW n \in Nat
    PROVE  2^(m + n) = 2^m * 2^n
  <1> DEFINE S == {k \in 0..n : 2^(m + k) = 2^m * 2^k}
  <1>1. 2^m \in Nat
    BY PowerStep
  <1>2. 0 \in S
    <2>1. 2^m * 2^0 = 2^m
      <3> DEFINE p == 2^m
      <3>1. p \in Nat
        BY <1>1
      <3> HIDE DEF p
      <3>2. p * 2^0 = p
        BY <3>1
      <3> QED BY <3>2 DEF p
    <2>2. m + 0 = m
      OBVIOUS
    <2> QED BY <2>1, <2>2
  <1>3. ASSUME NEW k \in 0..(n - 1), k \in S PROVE k + 1 \in S
    <2> DEFINE l == m + k
    <2>1. l \in Nat /\ m + (k + 1) = l + 1 /\ k \in Nat
      OBVIOUS
    <2>2. 2^l = 2^m * 2^k
      BY <1>3
    <2> HIDE DEF l
    <2>3. 2^(l + 1) = 2 * 2^l /\ 2^(k + 1) = 2 * 2^k /\ 2^k \in Nat
      BY <2>1, PowerStep
    <2> DEFINE p == 2^m
               q == 2^k
    <2>4. 2 * (p * q) = p * (2 * q)
      <3>1. p \in Nat /\ q \in Nat
        BY <1>1, <2>3
      <3> HIDE DEF p, q
      <3> QED BY <3>1
    <2>5. 2^(l + 1) = 2^m * 2^(k + 1)
      BY <2>2, <2>3, <2>4, Zenon
    <2> QED BY <1>3, <2>1, <2>5
  <1>4. 0..n \subseteq S
    <2> HIDE DEF S
    <2> QED BY <1>2, <1>3, IntervalInduction
  <1> QED BY <1>4

-----------------------------------------------------------------------------
(* A recursion over the numbers to n whose steps keep to D has a solution. *)

RecursionSteps(n, D, next) == next \in [D \X (1..n) -> D]
RecursionSolves(f, n, base, next) ==
    f[0] = base /\ \A k \in 1..n : f[k] = next[<<f[k - 1], k>>]
RecursionHas(n, D, base, next) == \E f \in [0..n -> D] : RecursionSolves(f, n, base, next)

LEMMA RecursionExists ==
    ASSUME NEW n, NEW D, NEW base, NEW next, n \in Nat, base \in D, RecursionSteps(n, D, next)
    PROVE  RecursionHas(n, D, base, next)
  <1> USE DEF RecursionSteps, RecursionSolves
  <1> DEFINE Solves(f, m) == RecursionSolves(f, m, base, next)
             S == {m \in 0..n : \E f \in [0..m -> D] : Solves(f, m)}
  <1>1. 0 \in S
    <2> DEFINE f == [k \in 0..0 |-> base]
    <2>1. f \in [0..0 -> D] /\ f[0] = base
      OBVIOUS
    <2>2. 1..0 = {}
      OBVIOUS
    <2> HIDE DEF f
    <2>3. Solves(f, 0)
      BY <2>1, <2>2
    <2> HIDE DEF Solves
    <2> QED BY <2>1, <2>3
  <1>2. ASSUME NEW m \in 0..(n - 1), m \in S PROVE m + 1 \in S
    <2>1. PICK f \in [0..m -> D] : Solves(f, m)
      BY <1>2
    <2> DEFINE l == m + 1
               g == [k \in 0..l |-> IF k = l THEN next[<<f[m], l>>] ELSE f[k]]
    <2>2. /\ l \in 1..n /\ l \in 0..n /\ l # 0 /\ m \in 0..m /\ m \in 0..l /\ m # l /\ l - 1 = m
          /\ 0 \in 0..l
          /\ \A k \in 0..l : k # l => k \in 0..m
          /\ \A k \in 1..l : k \in 0..l /\ k - 1 \in 0..l /\ k - 1 # l
          /\ \A k \in 1..l : k # l => k \in 1..m
      OBVIOUS
    <2> HIDE DEF l
    <2>3. f[m] \in D /\ next[<<f[m], l>>] \in D
      BY <2>1, <2>2
    <2>4. g \in [0..l -> D]
      BY <2>1, <2>2, <2>3
    <2>5. \A k \in 0..l : g[k] = IF k = l THEN next[<<f[m], l>>] ELSE f[k]
      OBVIOUS
    <2> HIDE DEF g
    <2>6. g[0] = base
      BY <2>1, <2>2, <2>5
    <2>7. ASSUME NEW k \in 1..l PROVE g[k] = next[<<g[k - 1], k>>]
      <3>1. g[k - 1] = f[k - 1]
        BY <2>2, <2>5
      <3> QED BY <2>1, <2>2, <2>5, <3>1
    <2>8. Solves(g, l)
      BY <2>6, <2>7
    <2>9. l \in S
      <3> HIDE DEF Solves
      <3> QED BY <2>2, <2>4, <2>8
    <2> QED BY <2>9 DEF l
  <1>3. 0..n \subseteq S
    <2> HIDE DEF S
    <2> QED BY <1>1, <1>2, IntervalInduction
  <1>4. n \in S
    BY <1>3
  <1> QED BY <1>4 DEF RecursionHas

\* A set that has 0, and with each number below n the next, has n.
LEMMA UpTo ==
    ASSUME NEW S, NEW n \in Nat, 0 \in S, \A k \in 0..(n - 1) : k \in S => k + 1 \in S
    PROVE  \A k \in 0..n : k \in S
  <1>1. 0..n \subseteq S
    BY IntervalInduction
  <1> QED BY <1>1

\* A set that has n, and with each number above m the one before, has all of m..n.
LEMMA DownTo ==
    ASSUME NEW S, NEW m \in Int, NEW n \in Int, n \in S,
           \A i \in m..(n - 1) : i + 1 \in S => i \in S
    PROVE  \A i \in m..n : i \in S
  <1> DEFINE T == {k \in 0..(n - m) : n - k \in S}
  <1> SUFFICES ASSUME NEW i \in m..n PROVE i \in S
    OBVIOUS
  <1>1. 0 \in T
    BY n - 0 = n
  <1>2. ASSUME NEW k \in 0..((n - m) - 1), k \in T PROVE k + 1 \in T
    <2> DEFINE j == n - (k + 1)
    <2>1. j \in m..(n - 1) /\ j + 1 = n - k /\ k + 1 \in 0..(n - m)
      OBVIOUS
    <2>2. j \in S
      BY <1>2, <2>1
    <2> QED BY <2>1, <2>2
  <1>3. 0..(n - m) \subseteq T
    <2> HIDE DEF T
    <2>1. 0 \in Int /\ n - m \in Int
      OBVIOUS
    <2> QED BY <1>1, <1>2, <2>1, IntervalInduction
  <1>4. n - i \in 0..(n - m) /\ n - (n - i) = i
    OBVIOUS
  <1> QED BY <1>3, <1>4

-----------------------------------------------------------------------------
(* A loop that goes on from i to i + 1 while i is in "go", and ends with   *)
(* val[i]: it ends with the value of the first number not in "go".         *)

SearchBody(f, m, n, go, val) == [i \in m..n |-> IF i \in go THEN f[i + 1] ELSE val[i]]
Search(m, n, go, val) == CHOOSE f : f = SearchBody(f, m, n, go, val)

StopsAt(i, j, go) == j \notin go /\ i..(j - 1) \subseteq go

LEMMA StopsSomewhere ==
    ASSUME NEW n \in Int, NEW go, n \notin go, NEW i \in Int, i <= n
    PROVE  \E j \in i..n : StopsAt(i, j, go)
  <1> DEFINE T == {d \in Nat : i + d \in (i..n) \ go}
  <1>1. n - i \in T
    <2>1. n - i \in Nat /\ i + (n - i) = n /\ n \in i..n
      OBVIOUS
    <2> QED BY <2>1
  <1>2. PICK d \in T : \A e \in T : d <= e
    <2>1. T \in SUBSET Nat /\ T # {}
      BY <1>1
    <2> HIDE DEF T
    <2> QED BY <2>1, LeastMember
  <1>3. i + d \in i..n /\ i + d \notin go
    BY <1>2
  <1>4. ASSUME NEW k \in i..((i + d) - 1) PROVE k \in go
    <2>1. k - i \in Nat /\ i + (k - i) = k /\ k - i < d /\ k \in i..n
      BY <1>2, <1>3
    <2>2. k - i \notin T
      BY <1>2, <2>1
    <2> QED BY <2>1, <2>2
  <1> QED BY <1>3, <1>4 DEF StopsAt

LEMMA StopsOnce ==
    ASSUME NEW go, NEW i \in Int, NEW j \in Int, NEW k \in Int, i <= j, i <= k,
           StopsAt(i, j, go), StopsAt(i, k, go)
    PROVE  j = k
  <1>1. ~(j < k)
    <2>1. j < k => j \in i..(k - 1)
      OBVIOUS
    <2> QED BY <2>1 DEF StopsAt
  <1>2. ~(k < j)
    <2>1. k < j => k \in i..(j - 1)
      OBVIOUS
    <2> QED BY <2>1 DEF StopsAt
  <1> QED BY <1>1, <1>2

LEMMA SearchFinds ==
    ASSUME NEW m \in Int, NEW n \in Int, NEW go, n \notin go, NEW val, NEW s \in m..n
    PROVE  \E j \in s..n : StopsAt(s, j, go) /\ Search(m, n, go, val)[s] = val[j]
  <1> SUFFICES \A i \in m..n :
                  \E j \in i..n : StopsAt(i, j, go) /\ Search(m, n, go, val)[i] = val[j]
    OBVIOUS
  <1> DEFINE first(i) == CHOOSE j \in i..n : StopsAt(i, j, go)
             g == [i \in m..n |-> val[first(i)]]
             f == Search(m, n, go, val)
  <1>1. ASSUME NEW i \in m..n
        PROVE  first(i) \in i..n /\ StopsAt(i, first(i), go)
    <2>1. \E j \in i..n : StopsAt(i, j, go)
      BY StopsSomewhere
    <2> QED BY <2>1
  <1>2. ASSUME NEW i \in m..n
        PROVE  /\ i \notin go => first(i) = i
               /\ i \in go => i + 1 \in m..n /\ first(i) = first(i + 1)
    <2>1. first(i) \in i..n /\ StopsAt(i, first(i), go)
      BY <1>1
    <2> HIDE DEF first
    <2>2. CASE i \notin go
      <3>1. StopsAt(i, i, go)
        <4>1. i..(i - 1) = {}
          OBVIOUS
        <4> QED BY <2>2, <4>1 DEF StopsAt
      <3> QED BY <2>1, <2>2, <3>1, StopsOnce
    <2>3. CASE i \in go
      <3> DEFINE l == i + 1
      <3>1. l \in m..n /\ l \in Int
        BY <2>3
      <3>2. first(l) \in l..n /\ StopsAt(l, first(l), go)
        <4> HIDE DEF l
        <4> QED BY <1>1, <3>1
      <3> DEFINE j == first(l)
      <3>3. j \in i..n /\ \A k \in i..(j - 1) : k = i \/ k \in l..(j - 1)
        BY <3>2
      <3>4. StopsAt(i, j, go)
        BY <2>3, <3>2, <3>3 DEF StopsAt
      <3>5. first(i) = j
        <4> HIDE DEF j
        <4> QED BY <2>1, <3>3, <3>4, StopsOnce
      <3> QED BY <2>3, <3>1, <3>5
    <2> QED BY <2>2, <2>3
  <1> HIDE DEF first
  <1>3. g = SearchBody(g, m, n, go, val)
    <2>1. \A i \in m..n : g[i] = IF i \in go THEN g[i + 1] ELSE val[i]
      BY <1>2
    <2>2. g = [i \in m..n |-> g[i]]
      OBVIOUS
    <2> HIDE DEF g
    <2> QED BY <2>1, <2>2 DEF SearchBody
  <1>4. f = SearchBody(f, m, n, go, val)
    BY <1>3, Zenon DEF Search
  <1> HIDE DEF f, g
  <1>5. \A i \in m..n : f[i] = IF i \in go THEN f[i + 1] ELSE val[i]
    <2> DEFINE c == SearchBody(f, m, n, go, val)
    <2>1. \A i \in m..n : c[i] = IF i \in go THEN f[i + 1] ELSE val[i]
      BY DEF SearchBody
    <2> HIDE DEF c
    <2> QED BY <1>4, <2>1 DEF c
  <1> DEFINE S == {i \in m..n : f[i] = val[first(i)]}
  <1>6. CASE m <= n
    <2>1. n \in S
      <3>1. n \in m..n
        BY <1>6
      <3> QED BY <1>2, <1>5, <3>1
    <2>2. ASSUME NEW i \in m..(n - 1), i + 1 \in S PROVE i \in S
      <3>1. i \in m..n /\ f[i + 1] = val[first(i + 1)]
        BY <2>2
      <3> QED BY <1>2, <1>5, <3>1
    <2>3. \A i \in m..n : i \in S
      <3> HIDE DEF S
      <3> QED BY <2>1, <2>2, DownTo
    <2> QED BY <1>1, <2>3 DEF f
  <1>7. CASE ~(m <= n)
    <2>1. m..n = {}
      BY <1>7
    <2> QED BY <2>1
  <1> QED BY <1>6, <1>7

\* What a loop of typed steps computes is typed.
RecursionFollows(c, n, D, base, next) ==
    /\ c = [k \in 0..n |-> c[k]] /\ c[0] = base
    /\ \A k \in 1..n : c[k - 1] \in D => c[k] = next[<<c[k - 1], k>>]

LEMMA RecursionTyped ==
    ASSUME NEW n \in Nat, NEW D, NEW base \in D, NEW next, RecursionSteps(n, D, next),
           NEW c, RecursionFollows(c, n, D, base, next)
    PROVE  c \in [0..n -> D] /\ RecursionSolves(c, n, base, next)
  <1> DEFINE S == {k \in 0..n : c[k] \in D}
  <1>0. /\ c = [k \in 0..n |-> c[k]] /\ c[0] = base
        /\ \A k \in 1..n : c[k - 1] \in D => c[k] = next[<<c[k - 1], k>>]
    BY DEF RecursionFollows
  <1>1. 0 \in S
    BY <1>0
  <1>2. ASSUME NEW k \in 0..(n - 1), k \in S PROVE k + 1 \in S
    <2> DEFINE l == k + 1
    <2>1. l \in 1..n /\ l \in 0..n /\ l - 1 = k
      OBVIOUS
    <2> HIDE DEF l
    <2>2. c[l] = next[<<c[k], l>>] /\ c[k] \in D
      BY <1>0, <1>2, <2>1
    <2>3. c[l] \in D
      BY <2>1, <2>2 DEF RecursionSteps
    <2>4. l \in S
      BY <2>1, <2>3
    <2> QED BY <2>4 DEF l
  <1>3. \A k \in 0..n : c[k] \in D
    <2>1. \A k \in 0..n : k \in S
      <3> HIDE DEF S
      <3> QED BY <1>1, <1>2, UpTo
    <2> QED BY <2>1
  <1>4. c \in [0..n -> D]
    BY <1>0, <1>3
  <1>5. \A k \in 1..n : k - 1 \in 0..n
    OBVIOUS
  <1> QED BY <1>0, <1>3, <1>4, <1>5 DEF RecursionSolves
=============================================================================
