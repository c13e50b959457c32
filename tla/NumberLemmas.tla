---------------------------- MODULE NumberLemmas -----------------------------
(***************************************************************************)
(* What the proofs need of numbers: the least-number principle, induction  *)
(* and recursion from it, and how a list of n pages is cut into chunks of  *)
(* m (transcribe.py:232, translate.py:213).                                *)
(***************************************************************************)
EXTENDS Integers, FiniteSets, FiniteSetTheorems, WellFoundedInduction, TLAPS

(* A nonempty set of natural numbers has a least element: what the choices  *)
(* of the models (the first chunk, the first page, the first document by    *)
(* name) rest on.                                                           *)
LEMMA LeastExists ==
  ASSUME NEW S \in SUBSET Nat, S # {}
  PROVE  \E m \in S : \A k \in S : m <= k
<1> DEFINE R == {ss \in Nat \X Nat : ss[1] < ss[2]}
<1>1. IsWellFoundedOn(R, Nat)
  BY NatLessThanWellFounded DEF OpToRel
<1>2. PICK m \in S : \A k \in S : ~ (<<k, m>> \in R)
  BY <1>1, WFMin, Zenon
<1>3. ASSUME NEW k \in S PROVE m <= k
  <2>1. <<k, m>> \in Nat \X Nat
    OBVIOUS
  <2>2. ~ (k < m)
    BY <1>2, <2>1
  <2> QED BY <2>2
<1> QED BY <1>3

LEMMA GreatestExists ==
  ASSUME NEW N \in Nat, NEW S \in SUBSET (0..N), S # {}
  PROVE  \E m \in S : \A k \in S : k <= m
<1> DEFINE D == {N - k : k \in S}
<1>1. D \in SUBSET Nat /\ D # {}
  <2>1. \A k \in S : k \in 0..N
    OBVIOUS
  <2>2. \A k \in S : N - k \in Nat
    BY <2>1
  <2> QED BY <2>2
<1> HIDE DEF D
<1>2. PICK d \in D : \A e \in D : d <= e
  BY <1>1, LeastExists
<1>3. PICK m \in S : d = N - m
  BY DEF D
<1>4. \A k \in S : N - k \in D /\ k \in 0..N
  BY DEF D
<1>5. ASSUME NEW k \in S PROVE k <= m
  <2>1. N - m <= N - k /\ k \in Int /\ m \in Int
    BY <1>2, <1>3, <1>4
  <2> QED BY <2>1
<1> QED BY <1>5

(* Induction, for the set of the numbers that are all right: the induction  *)
(* theorems of the library take a predicate, which no prover here can give. *)
LEMMA EachInTurn ==
  ASSUME NEW N \in Nat, NEW G, 0 \in G, \A n \in 1..N : n - 1 \in G => n \in G
  PROVE  0..N \subseteq G
<1> DEFINE Bad == {n \in 0..N : n \notin G}
<1> SUFFICES ASSUME Bad # {} PROVE FALSE
  OBVIOUS
<1>1. PICK m \in Bad : \A k \in Bad : m <= k
  <2>1. Bad \in SUBSET Nat
    OBVIOUS
  <2> HIDE DEF Bad
  <2> QED BY <2>1, LeastExists
<1>2. m \in 1..N /\ m - 1 \in 0..N /\ m - 1 \notin Bad
  BY <1>1
<1> QED BY <1>1, <1>2

(* Recursion, for a step that is a function: a loop that makes N steps from *)
(* one element of S to another goes through a definite sequence of them.    *)
Loops(S, base, N, step) ==
  {f \in [0..N -> S] : f[0] = base /\ \A n \in 1..N : f[n] = step[<<n, f[n - 1]>>]}

LEMMA LoopExists ==
  ASSUME NEW S, NEW base \in S, NEW N \in Nat, NEW step \in [(1..N) \X S -> S]
  PROVE  Loops(S, base, N, step) # {}
<1> DEFINE Runs(m) == Loops(S, base, m, step)
           G == {m \in 0..N : Runs(m) # {}}
<1> USE DEF Loops
<1>1. 0 \in G
  <2>1. [n \in 0..0 |-> base] \in Runs(0)
    OBVIOUS
  <2> QED BY <2>1
<1>2. ASSUME NEW m \in 1..N, m - 1 \in G PROVE m \in G
  <2>1. PICK g \in Runs(m - 1) : TRUE
    BY <1>2
  <2>2. g \in [0..(m - 1) -> S] /\ g[m - 1] \in S
    BY <2>1
  <2> DEFINE h == [n \in 0..m |-> IF n = m THEN step[<<m, g[m - 1]>>] ELSE g[n]]
  <2>3. step[<<m, g[m - 1]>>] \in S
    BY <2>2
  <2>4. h \in [0..m -> S] /\ h[0] = base
    BY <2>1, <2>2, <2>3
  <2>5. ASSUME NEW n \in 1..m PROVE h[n] = step[<<n, h[n - 1]>>]
    <3>1. CASE n = m
      <4>1. n \in 0..m /\ n - 1 \in 0..m /\ n - 1 # m
        OBVIOUS
      <4>2. h[n] = step[<<m, g[m - 1]>>] /\ h[n - 1] = g[n - 1]
        BY <3>1, <4>1
      <4> QED BY <3>1, <4>2
    <3>2. CASE n # m
      <4>1. n \in 1..(m - 1) /\ n - 1 # m /\ n \in 0..m /\ n - 1 \in 0..m
        BY <3>2
      <4>2. h[n] = g[n] /\ h[n - 1] = g[n - 1] /\ g[n] = step[<<n, g[n - 1]>>]
        BY <2>1, <3>2, <4>1
      <4> QED BY <4>2
    <3> QED BY <3>1, <3>2
  <2> HIDE DEF h
  <2>6. h \in Runs(m)
    BY <2>4, <2>5
  <2> QED BY <2>6
<1>3. N \in G
  <2> HIDE DEF G
  <2>1. 0..N \subseteq G
    BY <1>1, <1>2, EachInTurn
  <2> QED BY <2>1
<1> QED BY <1>3
------------------------------------------------------------------------------
(* Multiples of a chunk size. *)
LEMMA Multiple ==
  ASSUME NEW m \in Nat \ {0}, NEW a \in Nat, a % m = 0
  PROVE  a = m * (a \div m) /\ a \div m \in Nat
  OBVIOUS

LEMMA NextMultiple ==
  ASSUME NEW m \in Nat \ {0}, NEW p \in Nat, NEW q \in Nat, m * p < m * q
  PROVE  m * p + m <= m * q
<1>1. p < q
  <2>1. CASE q <= p
    <3>1. m * q <= m * p
      BY <2>1, Z3
    <3> QED BY <3>1
  <2> QED BY <2>1
<1>2. p + 1 <= q
  BY <1>1
<1>3. m * (p + 1) <= m * q
  BY <1>2, Z3
<1> QED BY <1>3

(* A multiple of m that is at most b is one of the first b \div m.          *)
LEMMA FewMultiples ==
  ASSUME NEW m \in Nat \ {0}, NEW k \in Nat, NEW b \in Nat, m * k <= b
  PROVE  k <= b \div m
<1> DEFINE q == b \div m
<1>1. q \in Nat /\ b < m * q + m
  BY Z3
<1> HIDE DEF q
<1>2. CASE q < k
  <2>1. m * q < m * k
    <3>1. m * (q + 1) <= m * k
      BY <1>1, <1>2, Z3
    <3> QED BY <1>1, <3>1
  <2>2. m * q + m <= m * k
    BY <1>1, <2>1, NextMultiple
  <2> QED BY <1>1, <2>2
<1> QED BY <1>1, <1>2 DEF q

------------------------------------------------------------------------------
(* The first and last position of every chunk. *)
Blocks(n, m) ==
  {<<i, IF i + m <= n THEN i + m - 1 ELSE n - 1>> :
      i \in {k \in 0..(n - 1) : k % m = 0}}

LEMMA BlockType ==
  ASSUME NEW n \in Nat, NEW m \in Nat \ {0}, NEW c \in Blocks(n, m)
  PROVE  /\ c[1] \in Nat /\ c[2] \in Nat
         /\ c = <<c[1], c[2]>>
         /\ c[1] <= c[2] /\ c[2] < n
         /\ c[1] % m = 0
         /\ c[2] < c[1] + m
  BY DEF Blocks

(* Chunks of one size do not overlap, and come in the order they begin.     *)
LEMMA BlocksInOrder ==
  ASSUME NEW n \in Nat, NEW m \in Nat \ {0},
         NEW c \in Blocks(n, m), NEW d \in Blocks(n, m), c[1] < d[1]
  PROVE  c[2] < d[1]
<1>1. c[1] + m <= d[1]
  BY BlockType, Multiple, NextMultiple
<1> QED BY <1>1, BlockType

LEMMA BlocksApart ==
  ASSUME NEW n \in Nat, NEW m \in Nat \ {0},
         NEW c \in Blocks(n, m), NEW d \in Blocks(n, m), c # d
  PROVE  (c[1]..c[2]) \cap (d[1]..d[2]) = {}
<1>1. ASSUME c[1] = d[1] PROVE FALSE
  BY <1>1 DEF Blocks
<1>2. c[1] < d[1] \/ d[1] < c[1]
  BY <1>1, BlockType
<1>3. c[2] < d[1] \/ d[2] < c[1]
  BY <1>2, BlocksInOrder
<1> QED BY <1>3, BlockType

(* The chunk a page is in. *)
LEMMA BlocksCover ==
  ASSUME NEW n \in Nat, NEW m \in Nat \ {0}, NEW i \in 0..(n - 1)
  PROVE  \E c \in Blocks(n, m) : i \in c[1]..c[2]
<1> DEFINE s == m * (i \div m)
           c == <<s, IF s + m <= n THEN s + m - 1 ELSE n - 1>>
<1>1. s \in Nat /\ s <= i /\ i < s + m
  BY Z3
<1>2. s % m = 0
  <2>1. ASSUME NEW q \in Nat PROVE (m * q) % m = 0
    BY Z3
  <2>2. i \div m \in Nat
    BY Z3
  <2> QED BY <2>1, <2>2
<1> HIDE DEF s
<1>3. c \in Blocks(n, m) /\ i \in c[1]..c[2]
  BY <1>1, <1>2 DEF Blocks
<1> QED BY <1>3

(* The chunks one after the other: as many as pages by chunk size, rounded  *)
(* up.                                                                      *)
Row(n, m) == [k \in 1..((n + m - 1) \div m) |->
                <<m * (k - 1),
                  IF m * (k - 1) + m <= n THEN m * (k - 1) + m - 1 ELSE n - 1>>]

LEMMA RowIsBlocks ==
  ASSUME NEW n \in Nat, NEW m \in Nat \ {0}
  PROVE  /\ Row(n, m) \in Bijection(1..((n + m - 1) \div m), Blocks(n, m))
         /\ \A k, l \in DOMAIN Row(n, m) : k < l => Row(n, m)[k][1] < Row(n, m)[l][1]
<1> DEFINE N == (n + m - 1) \div m
           row == Row(n, m)
<1>1. N \in Nat /\ m * N <= n + m - 1
  BY Z3
<1> HIDE DEF N
<1>2. row = [k \in 1..N |-> <<m * (k - 1),
               IF m * (k - 1) + m <= n THEN m * (k - 1) + m - 1 ELSE n - 1>>]
  BY DEF Row, N
<1> HIDE DEF row
<1>3. ASSUME NEW k \in 1..N PROVE row[k] \in Blocks(n, m)
  <2>1. m * k <= m * N
    BY <1>1, Z3
  <2>2. m * (k - 1) = m * k - m /\ m * (k - 1) \in Nat
    BY <1>1, Z3
  <2>3. m * (k - 1) \in 0..(n - 1)
    BY <1>1, <2>1, <2>2
  <2>4. ASSUME NEW q \in Nat PROVE (m * q) % m = 0
    BY Z3
  <2>5. (m * (k - 1)) % m = 0
    BY <1>1, <2>4
  <2> QED BY <1>2, <2>3, <2>5 DEF Blocks
<1>4. ASSUME NEW k \in 1..N, NEW l \in 1..N, k < l PROVE row[k][1] < row[l][1]
  <2>1. ASSUME NEW a \in Nat, NEW b \in Nat, a < b PROVE m * a < m * b
    <3>1. m * (a + 1) <= m * b
      BY <2>1, Z3
    <3> QED BY <3>1, Z3
  <2>2. k - 1 \in Nat /\ l - 1 \in Nat /\ k - 1 < l - 1
    BY <1>1, <1>4
  <2>3. m * (k - 1) < m * (l - 1)
    BY <2>1, <2>2
  <2> QED BY <1>2, <2>3
<1>5. row \in Injection(1..N, Blocks(n, m))
  <2>1. row \in [1..N -> Blocks(n, m)]
    BY <1>2, <1>3
  <2>2. ASSUME NEW k \in 1..N, NEW l \in 1..N, row[k] = row[l] PROVE k = l
    <3>1. row[k][1] \in Nat /\ row[l][1] = row[k][1]
      BY <1>3, <2>2, BlockType
    <3> QED BY <1>1, <1>4, <3>1
  <2> QED BY <2>1, <2>2 DEF Injection, IsInjective
<1>6. ASSUME NEW c \in Blocks(n, m) PROVE \E k \in 1..N : row[k] = c
  <2> DEFINE q == c[1] \div m
  <2>1. q \in Nat /\ c[1] = m * q /\ c[1] <= n - 1
    BY BlockType, Multiple
  <2> HIDE DEF q
  <2>2. m * (q + 1) <= n + m - 1
    BY <2>1
  <2>3. q + 1 <= N
    BY <2>1, <2>2, FewMultiples DEF N
  <2>4. q + 1 \in 1..N /\ (q + 1) - 1 = q
    BY <1>1, <2>1, <2>3
  <2>5. row[q + 1] = <<m * q, IF m * q + m <= n THEN m * q + m - 1 ELSE n - 1>>
    BY <1>2, <2>4
  <2>6. row[q + 1] = c
    BY <2>1, <2>5 DEF Blocks
  <2> QED BY <2>4, <2>6
<1>7. row \in Bijection(1..N, Blocks(n, m))
  <2>1. row \in [1..N -> Blocks(n, m)]
    BY <1>2, <1>3
  <2> QED BY <1>5, <1>6, <2>1 DEF Bijection, Surjection
<1>8. DOMAIN row = 1..N
  BY <1>2
<1> QED BY <1>4, <1>7, <1>8 DEF N, row

LEMMA BlocksCount ==
  ASSUME NEW n \in Nat, NEW m \in Nat \ {0}
  PROVE  /\ IsFiniteSet(Blocks(n, m))
         /\ Cardinality(Blocks(n, m)) = (n + m - 1) \div m
<1> DEFINE N == (n + m - 1) \div m
<1>1. N \in Nat
  BY Z3
<1>2. ExistsBijection(1..N, Blocks(n, m))
  BY RowIsBlocks DEF ExistsBijection
<1> HIDE DEF N
<1>3. IsFiniteSet(1..N) /\ Cardinality(1..N) = N
  BY <1>1, FS_Interval
<1> QED BY <1>2, <1>3, FS_Bijection DEF N
==============================================================================
