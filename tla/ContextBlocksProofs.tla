------------------------- MODULE ContextBlocksProofs -------------------------
(***************************************************************************)
(* What the operators of ContextBlocks return for every sequence and every *)
(* pair of limits: trimming keeps the longest run of the newest blocks     *)
(* that is within the limits, and trimming after every append keeps what   *)
(* trimming the whole history once would.  The sum of the tokens is a      *)
(* recursive function; what it computes is shown by induction over sets of *)
(* numbers, from the theorem that every set of them has a least element.   *)
(***************************************************************************)
EXTENDS ContextBlocks, FiniteSetTheorems, SequenceTheorems, WellFoundedInduction, TLAPS

-----------------------------------------------------------------------------
(* Taking the newest blocks of a sequence.                                 *)

(* Newest(q, n) has n elements, and they are the last n of q.              *)
LEMMA NewestElements ==
    ASSUME NEW S, NEW q \in Seq(S), NEW n \in 0..Len(q)
    PROVE  /\ Newest(q, n) \in Seq(S)
           /\ Len(Newest(q, n)) = n
           /\ \A i \in 1..n : Newest(q, n)[i] = q[Len(q) - n + i]
<1>1. Len(q) \in Nat
  BY LenProperties
<1>2. Newest(q, n) = [i \in 1..n |-> q[Len(q) - n + i]]
  BY <1>1 DEF Newest
<1>3. \A i \in 1..n : q[Len(q) - n + i] \in S
  BY <1>1, ElementOfSeq
<1>4. Newest(q, n) \in [1..n -> S]
  BY <1>2, <1>3
<1> QED
  BY <1>1, <1>2, <1>4, LenProperties

(* The newest of the newest are the newest.                                *)
LEMMA NewestOfNewest ==
    ASSUME NEW S, NEW q \in Seq(S), NEW n \in 0..Len(q), NEW m \in 0..n
    PROVE  Newest(Newest(q, n), m) = Newest(q, m)
<1>1. Len(q) \in Nat
  BY LenProperties
<1>2. PICK p : p = Newest(q, n)
  OBVIOUS
<1>3. p \in Seq(S) /\ Len(p) = n /\ \A i \in 1..n : p[i] = q[Len(q) - n + i]
  BY <1>2, NewestElements
<1>4. m \in 0..Len(p) /\ m \in 0..Len(q)
  BY <1>1, <1>3
<1>5. /\ Newest(p, m) \in Seq(S) /\ Len(Newest(p, m)) = m
      /\ \A i \in 1..m : Newest(p, m)[i] = p[n - m + i]
  BY <1>3, <1>4, NewestElements
<1>6. /\ Newest(q, m) \in Seq(S) /\ Len(Newest(q, m)) = m
      /\ \A i \in 1..m : Newest(q, m)[i] = q[Len(q) - m + i]
  BY <1>4, NewestElements
<1>7. ASSUME NEW i \in 1..m
      PROVE  Newest(p, m)[i] = Newest(q, m)[i]
  <2>1. n - m + i \in 1..n /\ Len(q) - n + (n - m + i) = Len(q) - m + i
    BY <1>1
  <2>2. p[n - m + i] = q[Len(q) - n + (n - m + i)]
    BY <1>3, <2>1
  <2> QED
    BY <1>5, <1>6, <2>1, <2>2
<1> QED
  BY <1>2, <1>5, <1>6, <1>7, SeqEqual

(* A block appended to the newest n is one of the newest n + 1.            *)
LEMMA AppendToNewest ==
    ASSUME NEW S, NEW q \in Seq(S), NEW b \in S, NEW n \in 0..Len(q)
    PROVE  Append(Newest(q, n), b) = Newest(Append(q, b), n + 1)
<1>1. Len(q) \in Nat
  BY LenProperties
<1>2. PICK p : p = Newest(q, n)
  OBVIOUS
<1>3. PICK r : r = Append(q, b)
  OBVIOUS
<1>4. p \in Seq(S) /\ Len(p) = n /\ \A i \in 1..n : p[i] = q[Len(q) - n + i]
  BY <1>2, NewestElements
<1>5. /\ Append(p, b) \in Seq(S) /\ Len(Append(p, b)) = n + 1
      /\ \A i \in 1..n : Append(p, b)[i] = p[i]
      /\ Append(p, b)[n + 1] = b
  BY <1>4, AppendProperties
<1>6. /\ r \in Seq(S) /\ Len(r) = Len(q) + 1
      /\ \A i \in 1..Len(q) : r[i] = q[i]
      /\ r[Len(q) + 1] = b
  BY <1>3, AppendProperties
<1>7. n + 1 \in 0..Len(r)
  BY <1>1, <1>6
<1>8. /\ Newest(r, n + 1) \in Seq(S) /\ Len(Newest(r, n + 1)) = n + 1
      /\ \A i \in 1..n + 1 : Newest(r, n + 1)[i] = r[Len(r) - (n + 1) + i]
  BY <1>6, <1>7, NewestElements
<1>9. ASSUME NEW i \in 1..n + 1
      PROVE  Append(p, b)[i] = Newest(r, n + 1)[i]
  <2>1. Newest(r, n + 1)[i] = r[Len(q) - n + i]
    BY <1>1, <1>6, <1>8
  <2>2. CASE i \in 1..n
    <3>1. Append(p, b)[i] = q[Len(q) - n + i]
      BY <1>4, <1>5, <2>2
    <3>2. Len(q) - n + i \in 1..Len(q)
      BY <1>1, <2>2
    <3> QED
      BY <1>6, <2>1, <3>1, <3>2
  <2>3. CASE i = n + 1
    BY <1>1, <1>5, <1>6, <2>1, <2>3
  <2>4. i \in 1..n \/ i = n + 1
    BY <1>1
  <2> QED
    BY <2>2, <2>3, <2>4
<1> QED
  BY <1>2, <1>3, <1>5, <1>8, <1>9, SeqEqual
-----------------------------------------------------------------------------
(* What one trimming keeps.                                                *)

(* Trimming by count keeps at most what there is, and never more than a    *)
(* positive limit.                                                         *)
LEMMA CountKeptRange ==
    ASSUME NEW S, NEW q \in Seq(S)
    PROVE  /\ CountKept(q) \in 0..Len(q)
           /\ MaxBlocks \notin {NoLimit, 0} => CountKept(q) <= MaxBlocks
BY LimitsAssumption, LenProperties DEF CountKept, NoLimit

(* The token scan keeps at most what there is.                             *)
LEMMA TokensKeptRange ==
    ASSUME NEW S, NEW q \in Seq(S)
    PROVE  TokensKept(q) \in 0..Len(q)
<1>1. Len(q) \in Nat
  BY LenProperties
<1>2. CASE MaxTokens = NoLimit
  BY <1>1, <1>2 DEF TokensKept
<1>3. CASE MaxTokens # NoLimit
  <2>1. PICK K : K = {n \in 1..Len(q) :
                         \A m \in 1..n : Tokens(Newest(q, m)) <= MaxTokens}
    OBVIOUS
  <2>2. TokensKept(q) = Cardinality(K)
    BY <1>3, <2>1 DEF TokensKept
  <2>3. IsFiniteSet(1..Len(q)) /\ Cardinality(1..Len(q)) = Len(q)
    BY <1>1, FS_Interval
  <2>4. K \in SUBSET (1..Len(q))
    BY <2>1
  <2>5. IsFiniteSet(K) /\ Cardinality(K) <= Len(q)
    BY <2>3, <2>4, FS_Subset
  <2>6. Cardinality(K) \in Nat
    BY <2>5, FS_CardinalityType
  <2> QED
    BY <1>1, <2>2, <2>5, <2>6
<1> QED
  BY <1>2, <1>3

(* Both trimmings together leave the newest blocks, however many.          *)
LEMMA TrimKeepsNewest ==
    ASSUME NEW S, NEW q \in Seq(S)
    PROVE  \E k \in 0..Len(q) :
              /\ Trim(q) = Newest(q, k)
              /\ MaxBlocks \notin {NoLimit, 0} => k <= MaxBlocks
<1>1. Len(q) \in Nat
  BY LenProperties
<1>2. PICK n : n = CountKept(q)
  OBVIOUS
<1>3. n \in 0..Len(q) /\ (MaxBlocks \notin {NoLimit, 0} => n <= MaxBlocks)
  BY <1>2, CountKeptRange
<1>4. PICK p : p = Newest(q, n)
  OBVIOUS
<1>5. p \in Seq(S) /\ Len(p) = n
  BY <1>3, <1>4, NewestElements
<1>6. PICK k : k = TokensKept(p)
  OBVIOUS
<1>7. k \in 0..n
  BY <1>5, <1>6, TokensKeptRange
<1>8. Trim(q) = Newest(q, k)
  <2>1. Trim(q) = Newest(p, k)
    BY <1>2, <1>4, <1>6 DEF Trim
  <2> QED
    BY <1>3, <1>4, <1>7, <2>1, NewestOfNewest
<1>9. k \in 0..Len(q) /\ (MaxBlocks \notin {NoLimit, 0} => k <= MaxBlocks)
  BY <1>1, <1>3, <1>7, LimitsAssumption DEF NoLimit
<1> QED
  BY <1>8, <1>9
-----------------------------------------------------------------------------
(* Windows: what is kept of the blocks that ever arrived.                  *)

(* Trimming after every append leaves what taking the newest blocks of the *)
(* whole log would: the run stays gapless although earlier trimmings have  *)
(* already dropped the older blocks.                                       *)
LEMMA AppendKeepsWindow ==
    ASSUME NEW S, NEW w \in Seq(S), NEW l \in Seq(S), NEW b \in S,
           Len(w) <= Len(l), w = Newest(l, Len(w))
    PROVE  /\ Len(Trim(Append(w, b))) <= Len(Append(l, b))
           /\ Trim(Append(w, b)) = Newest(Append(l, b), Len(Trim(Append(w, b))))
           /\ MaxBlocks \notin {NoLimit, 0} => Len(Trim(Append(w, b))) <= MaxBlocks
<1>1. Len(w) \in Nat /\ Len(l) \in Nat
  BY LenProperties
<1>2. PICK q : q = Append(w, b)
  OBVIOUS
<1>3. PICK r : r = Append(l, b)
  OBVIOUS
<1>4. q \in Seq(S) /\ Len(q) = Len(w) + 1
  BY <1>2, AppendProperties
<1>5. r \in Seq(S) /\ Len(r) = Len(l) + 1
  BY <1>3, AppendProperties
<1>6. q = Newest(r, Len(w) + 1)
  <2>1. Len(w) \in 0..Len(l)
    BY <1>1
  <2> QED
    BY <1>2, <1>3, <2>1, AppendToNewest
<1>7. PICK k \in 0..Len(q) : /\ Trim(q) = Newest(q, k)
                             /\ MaxBlocks \notin {NoLimit, 0} => k <= MaxBlocks
  BY <1>4, TrimKeepsNewest
<1>8. Len(Trim(q)) = k
  BY <1>4, <1>7, NewestElements
<1>9. Trim(q) = Newest(r, k)
  <2>1. Len(w) + 1 \in 0..Len(r) /\ k \in 0..(Len(w) + 1)
    BY <1>1, <1>4, <1>5, <1>7
  <2> QED
    BY <1>5, <1>6, <1>7, <2>1, NewestOfNewest
<1>10. k <= Len(r)
  BY <1>1, <1>4, <1>5, <1>7
<1> QED
  BY <1>2, <1>3, <1>7, <1>8, <1>9, <1>10

(* An empty window is a run of no blocks.                                  *)
LEMMA EmptyWindow ==
    ASSUME NEW S, NEW l \in Seq(S)
    PROVE  Newest(l, 0) = <<>> /\ Len(<<>>) = 0 /\ 0 <= Len(l)
<1>1. Len(l) \in Nat
  BY LenProperties
<1>2. Newest(l, 0) \in Seq(S) /\ Len(Newest(l, 0)) = 0
  BY <1>1, NewestElements
<1> QED
  BY <1>1, <1>2, EmptySeq
-----------------------------------------------------------------------------
(* Induction over the numbers.                                             *)

(* A set of numbers that is not empty has a least element.                 *)
LEMMA LeastElement ==
    ASSUME NEW T \in SUBSET Nat, T # {}
    PROVE  \E n \in T : \A m \in T : n <= m
<1>1. PICK R : R = {pair \in Nat \X Nat : pair[1] < pair[2]}
  OBVIOUS
<1>2. IsWellFoundedOn(R, Nat)
  BY <1>1, NatLessThanWellFounded DEF OpToRel
<1>3. PICK n \in T : \A m \in T : ~ (<<m, n>> \in R)
  BY <1>2, WFMin
<1>4. ASSUME NEW m \in T
      PROVE  n <= m
  <2>1. n \in Nat /\ m \in Nat
    OBVIOUS
  <2>2. m < n => <<m, n>> \in R
    BY <1>1, <2>1
  <2> QED
    BY <1>3, <2>1, <2>2
<1> QED
  BY <1>4

(* A set with 0, and with the successor of each of its members, is Nat.    *)
LEMMA Induction ==
    ASSUME NEW T \in SUBSET Nat, 0 \in T, \A n \in T : n + 1 \in T
    PROVE  T = Nat
<1> SUFFICES ASSUME Nat \ T # {} PROVE FALSE
  OBVIOUS
<1>1. PICK n \in Nat \ T : \A m \in Nat \ T : n <= m
  BY LeastElement
<1>2. n - 1 \in Nat /\ ~(n <= n - 1) /\ n = (n - 1) + 1
  BY <1>1
<1> QED
  BY <1>1, <1>2

(* The smallest number without a property: all below it have it.           *)
LEMMA RunFromOne ==
    ASSUME NEW N \in Nat, NEW K \in SUBSET (1..N),
           \A n \in K : \A m \in 1..n : m \in K
    PROVE  \E k \in 0..N : K = 1..k /\ Cardinality(K) = k
<1>1. \E k \in 0..N : K = 1..k
  <2>1. CASE K = 1..N
    BY <2>1
  <2>2. CASE K # 1..N
    <3>1. (1..N) \ K # {} /\ (1..N) \ K \in SUBSET Nat
      <4>1. ASSUME (1..N) \ K = {} PROVE K = 1..N
        <5>1. \A x : x \in 1..N => x \in K
          BY <4>1
        <5>2. \A x : x \in K => x \in 1..N
          OBVIOUS
        <5> QED
          BY <5>1, <5>2
      <4> QED
        BY <2>2, <4>1
    <3>2. PICK n \in (1..N) \ K : \A m \in (1..N) \ K : n <= m
      BY <3>1, LeastElement
    <3>3. ASSUME NEW m \in 1..N
          PROVE  m \in K <=> m <= n - 1
      <4>1. m \in K => ~(n <= m)
        BY <3>2, <3>3
      <4>2. m \notin K => n <= m
        BY <3>2, <3>3
      <4> QED
        BY <3>2, <4>1, <4>2
    <3>4. n \in 1..N /\ n - 1 \in 0..N
      BY <3>2
    <3>5. \A m : m \in K <=> m \in 1..(n - 1)
      <4>1. ASSUME NEW m \in K PROVE m \in 1..(n - 1)
        <5>1. m \in 1..N
          OBVIOUS
        <5>2. m <= n - 1
          BY <3>3, <5>1
        <5> QED
          BY <3>4, <5>1, <5>2
      <4>2. ASSUME NEW m \in 1..(n - 1) PROVE m \in K
        <5>1. m \in 1..N /\ m <= n - 1
          BY <3>4
        <5> QED
          BY <3>3, <5>1
      <4> QED
        BY <4>1, <4>2
    <3>6. K = 1..(n - 1)
      BY <3>5
    <3> QED
      BY <3>4, <3>6
  <2> QED
    BY <2>1, <2>2
<1>2. PICK k \in 0..N : K = 1..k
  BY <1>1
<1>3. Cardinality(1..k) = k
  BY FS_Interval
<1> QED
  BY <1>2, <1>3
-----------------------------------------------------------------------------
(* The sum of the tokens.                                                  *)

\* f[n] is the sum of the first n elements of q.
IsSum(f, q, n) == f = [i \in 0..n |-> IF i = 0 THEN 0 ELSE f[i - 1] + q[i].tok]

(* There is such a function, whatever the length.                          *)
LEMMA SumExists ==
    ASSUME NEW q, NEW n \in Nat
    PROVE  \E f : IsSum(f, q, n)
<1>1. PICK T : T = {m \in Nat : \E f : IsSum(f, q, m)}
  OBVIOUS
<1>2. 0 \in T
  <2>1. IsSum([i \in 0..0 |-> 0], q, 0)
    BY DEF IsSum
  <2> QED
    BY <1>1, <2>1
<1>3. ASSUME NEW m \in T
      PROVE  m + 1 \in T
  <2>1. PICK f : IsSum(f, q, m) /\ m \in Nat
    BY <1>1, <1>3
  <2>2. PICK g : g = [i \in 0..m + 1 |-> IF i = m + 1 THEN f[m] + q[i].tok ELSE f[i]]
    OBVIOUS
  <2>3. ASSUME NEW i \in 0..m + 1
        PROVE  g[i] = IF i = 0 THEN 0 ELSE g[i - 1] + q[i].tok
    <3>1. CASE i = m + 1
      BY <2>1, <2>2, <3>1 DEF IsSum
    <3>2. CASE i \in 0..m
      BY <2>1, <2>2, <3>2 DEF IsSum
    <3> QED
      BY <2>1, <3>1, <3>2
  <2>4. g = [i \in 0..m + 1 |-> IF i = 0 THEN 0 ELSE g[i - 1] + q[i].tok]
    BY <2>2, <2>3
  <2>5. IsSum(g, q, m + 1)
    BY <2>4 DEF IsSum
  <2> QED
    BY <1>1, <2>1, <2>5
<1> QED
  BY <1>1, <1>2, <1>3, Induction

(* Tokens is the last value of such a function.                            *)
LEMMA TokensIsSum ==
    ASSUME NEW q, Len(q) \in Nat
    PROVE  \E f : IsSum(f, q, Len(q)) /\ Tokens(q) = f[Len(q)]
<1>1. PICK f : f = CHOOSE g : IsSum(g, q, Len(q))
  OBVIOUS
<1>2. IsSum(f, q, Len(q))
  BY <1>1, SumExists
<1>3. f = CHOOSE sum : sum = [n \in 0..Len(q) |-> IF n = 0 THEN 0 ELSE sum[n - 1] + q[n].tok]
  BY <1>1 DEF IsSum
<1>4. Tokens(q) = f[Len(q)]
  BY <1>3 DEF Tokens
<1> QED
  BY <1>2, <1>4

(* The sums of a prefix are numbers and do not decrease.                   *)
LEMMA SumsGrow ==
    ASSUME NEW q, NEW N \in Nat, \A i \in 1..N : q[i].tok \in Nat, NEW f, IsSum(f, q, N)
    PROVE  /\ f \in [0..N -> Nat] /\ f[0] = 0
           /\ \A i \in 1..N : f[i] = f[i - 1] + q[i].tok
           /\ \A i, j \in 0..N : i <= j => f[i] <= f[j]
<1>1. /\ f[0] = 0 /\ DOMAIN f = 0..N /\ f = [i \in 0..N |-> f[i]]
      /\ \A i \in 1..N : f[i] = f[i - 1] + q[i].tok
  BY DEF IsSum
<1>2. PICK T : T = {n \in Nat : n \in 0..N => f[n] \in Nat}
  OBVIOUS
<1>3. 0 \in T
  BY <1>1, <1>2
<1>4. ASSUME NEW n \in T
      PROVE  n + 1 \in T
  <2>1. CASE n + 1 \in 0..N
    <3>1. n \in 0..N /\ n + 1 \in 1..N /\ (n + 1) - 1 = n
      BY <1>2, <1>4, <2>1
    <3>2. f[n] \in Nat /\ q[n + 1].tok \in Nat /\ f[n + 1] = f[n] + q[n + 1].tok
      BY <1>1, <1>2, <1>4, <3>1
    <3> QED
      BY <1>2, <1>4, <3>2
  <2>2. CASE n + 1 \notin 0..N
    BY <1>2, <1>4, <2>2
  <2> QED
    BY <2>1, <2>2
<1>5. T = Nat
  BY <1>2, <1>3, <1>4, Induction
<1>6. f \in [0..N -> Nat]
  BY <1>1, <1>2, <1>5
<1>7. ASSUME NEW i \in 0..N, NEW j \in 0..N, i <= j
      PROVE  f[i] <= f[j]
  <2>1. PICK U : U = {d \in Nat : i + d \in 0..N => f[i] <= f[i + d]}
    OBVIOUS
  <2>2. 0 \in U
    BY <1>6, <2>1
  <2>3. ASSUME NEW d \in U
        PROVE  d + 1 \in U
    <3>1. CASE i + (d + 1) \in 0..N
      <4>1. i + d \in 0..N /\ i + (d + 1) \in 1..N /\ (i + (d + 1)) - 1 = i + d
        BY <2>1, <2>3, <3>1
      <4>2. f[i + (d + 1)] = f[i + d] + q[i + (d + 1)].tok /\ q[i + (d + 1)].tok \in Nat
        BY <1>1, <4>1
      <4>3. f[i] <= f[i + d] /\ f[i] \in Nat /\ f[i + d] \in Nat
        BY <1>6, <2>1, <2>3, <4>1
      <4>4. f[i] <= f[i + (d + 1)]
        BY <4>2, <4>3
      <4> QED
        BY <2>1, <2>3, <4>4
    <3>2. CASE i + (d + 1) \notin 0..N
      BY <2>1, <2>3, <3>2
    <3> QED
      BY <3>1, <3>2
  <2>4. U = Nat
    BY <2>1, <2>2, <2>3, Induction
  <2>5. j - i \in Nat /\ i + (j - i) = j
    BY <1>7
  <2>6. j - i \in U
    BY <2>4, <2>5
  <2> QED
    BY <2>1, <2>5, <2>6
<1> QED
  BY <1>1, <1>6, <1>7

(* The tokens of the newest n elements are the difference of two sums.     *)
LEMMA NewestTokens ==
    ASSUME NEW S, \A b \in S : b.tok \in Nat, NEW q \in Seq(S),
           NEW f, IsSum(f, q, Len(q)), NEW n \in 0..Len(q)
    PROVE  Tokens(Newest(q, n)) = f[Len(q)] - f[Len(q) - n]
<1>1. PICK L \in Nat : L = Len(q) /\ n \in 0..L /\ L - n \in 0..L
  BY LenProperties
<1>2. \A i \in 1..L : q[i].tok \in Nat
  BY <1>1, ElementOfSeq
<1>3. /\ f \in [0..L -> Nat]
      /\ \A i \in 1..L : f[i] = f[i - 1] + q[i].tok
  BY <1>1, <1>2, SumsGrow
<1>4. PICK w : w = Newest(q, n)
  OBVIOUS
<1>5. Len(w) = n /\ n \in Nat /\ \A i \in 1..n : w[i] = q[L - n + i]
  BY <1>1, <1>4, NewestElements
<1>6. PICK g : IsSum(g, w, n) /\ Tokens(w) = g[n]
  BY <1>5, TokensIsSum
<1>7. \A i \in 1..n : w[i].tok \in Nat
  <2>1. \A i \in 1..n : L - n + i \in 1..L
    BY <1>1
  <2> QED
    BY <1>2, <1>5, <2>1
<1>8. /\ g \in [0..n -> Nat] /\ g[0] = 0
      /\ \A i \in 1..n : g[i] = g[i - 1] + w[i].tok
  BY <1>5, <1>6, <1>7, SumsGrow
<1>9. PICK T : T = {i \in Nat : i \in 0..n => g[i] = f[L - n + i] - f[L - n]}
  OBVIOUS
<1>10. f[L - n + 0] - f[L - n] = 0
  <2>1. PICK k \in 0..L : k = L - n
    BY <1>1
  <2>2. k \in Int /\ k + 0 = k /\ f[k] \in Nat
    BY <1>3, <2>1
  <2>3. f[k + 0] - f[k] = 0
    BY <2>2
  <2> QED
    BY <2>1, <2>3
<1>11. 0 \in T
  BY <1>5, <1>8, <1>9, <1>10
<1>12. ASSUME NEW i \in T
       PROVE  i + 1 \in T
  <2>1. CASE i + 1 \in 0..n
    <3>1. /\ i \in 0..n /\ i + 1 \in 1..n /\ (i + 1) - 1 = i
          /\ L - n + (i + 1) \in 1..L /\ (L - n + (i + 1)) - 1 = L - n + i
          /\ L - n + i \in 0..L
      BY <1>1, <1>9, <1>12, <2>1
    <3>2. g[i + 1] = g[i] + w[i + 1].tok /\ w[i + 1] = q[L - n + (i + 1)]
      BY <1>5, <1>8, <3>1
    <3>3. f[L - n + (i + 1)] = f[L - n + i] + q[L - n + (i + 1)].tok
      BY <1>3, <3>1
    <3>4. g[i] = f[L - n + i] - f[L - n]
      BY <1>9, <1>12, <3>1
    <3>5. /\ f[L - n + i] \in Nat /\ f[L - n] \in Nat /\ q[L - n + (i + 1)].tok \in Nat
      BY <1>1, <1>2, <1>3, <3>1
    <3>6. g[i + 1] = f[L - n + (i + 1)] - f[L - n]
      BY <3>2, <3>3, <3>4, <3>5
    <3> QED
      BY <1>9, <1>12, <3>6
  <2>2. CASE i + 1 \notin 0..n
    BY <1>9, <1>12, <2>2
  <2> QED
    BY <2>1, <2>2
<1>13. T = Nat
  BY <1>9, <1>11, <1>12, Induction
<1>14. g[n] = f[L - n + n] - f[L - n] /\ L - n + n = L
  BY <1>1, <1>5, <1>9, <1>13
<1> QED
  BY <1>1, <1>4, <1>6, <1>14

(* A longer run of the newest has at least the tokens of a shorter one.    *)
LEMMA TokensGrow ==
    ASSUME NEW S, \A b \in S : b.tok \in Nat, NEW q \in Seq(S),
           NEW n \in 0..Len(q), NEW m \in 0..n
    PROVE  /\ Tokens(Newest(q, m)) \in Nat /\ Tokens(Newest(q, n)) \in Nat
           /\ Tokens(Newest(q, m)) <= Tokens(Newest(q, n))
<1>1. PICK L \in Nat : L = Len(q)
  BY LenProperties
<1>2. PICK f : IsSum(f, q, L)
  BY SumExists
<1>3. \A i \in 1..L : q[i].tok \in Nat
  BY <1>1, ElementOfSeq
<1>4. /\ f \in [0..L -> Nat]
      /\ \A i, j \in 0..L : i <= j => f[i] <= f[j]
  BY <1>2, <1>3, SumsGrow
<1>5. /\ m \in 0..L /\ n \in 0..L /\ L - m \in 0..L /\ L - n \in 0..L
      /\ L - n <= L - m /\ L - m <= L /\ L - n <= L /\ L \in 0..L
  BY <1>1
<1>6. Tokens(Newest(q, m)) = f[L] - f[L - m] /\ Tokens(Newest(q, n)) = f[L] - f[L - n]
  BY <1>1, <1>2, <1>5, NewestTokens
<1>7. f[L - n] <= f[L - m] /\ f[L - m] <= f[L] /\ f[L - n] <= f[L]
  BY <1>4, <1>5
<1>8. f[L - n] \in Nat /\ f[L - m] \in Nat /\ f[L] \in Nat
  BY <1>4, <1>5
<1> QED
  BY <1>6, <1>7, <1>8

(* The newest element adds its tokens.                                     *)
LEMMA TokensOfAppend ==
    ASSUME NEW S, \A b \in S : b.tok \in Nat, NEW l \in Seq(S), NEW b \in S,
           NEW n \in 0..Len(l)
    PROVE  Tokens(Newest(Append(l, b), n + 1)) = Tokens(Newest(l, n)) + b.tok
<1>1. PICK L \in Nat : L = Len(l) /\ n \in 0..L
  BY LenProperties
<1>2. PICK r : r = Append(l, b)
  OBVIOUS
<1>3. r \in Seq(S) /\ Len(r) = L + 1 /\ r[L + 1] = b /\ \A i \in 1..L : r[i] = l[i]
  BY <1>1, <1>2, AppendProperties
<1>4. PICK f : IsSum(f, r, L + 1)
  <2>1. L + 1 \in Nat
    BY <1>1
  <2> QED
    BY <2>1, SumExists
<1>5. \A i \in 1..L + 1 : r[i].tok \in Nat
  BY <1>3, ElementOfSeq
<1>6. f \in [0..L + 1 -> Nat] /\ f[L + 1] = f[L] + b.tok
  <2>1. /\ f \in [0..L + 1 -> Nat] /\ L + 1 \in 1..L + 1 /\ (L + 1) - 1 = L
        /\ \A i \in 1..L + 1 : f[i] = f[i - 1] + r[i].tok
    BY <1>1, <1>4, <1>5, SumsGrow
  <2> QED
    BY <1>3, <2>1
<1>7. PICK g : g = [i \in 0..L |-> f[i]]
  OBVIOUS
<1>8. IsSum(g, l, L)
  <2>1. ASSUME NEW i \in 0..L
        PROVE  f[i] = IF i = 0 THEN 0 ELSE g[i - 1] + l[i].tok
    <3>1. f[i] = IF i = 0 THEN 0 ELSE f[i - 1] + r[i].tok
      <4>1. i \in 0..L + 1
        BY <1>1
      <4> QED
        BY <1>4, <4>1 DEF IsSum
    <3>2. CASE i = 0
      BY <3>1, <3>2
    <3>3. CASE i # 0
      <4>1. i - 1 \in 0..L /\ i \in 1..L
        BY <1>1, <3>3
      <4> QED
        BY <1>3, <1>7, <3>1, <3>3, <4>1
    <3> QED
      BY <3>2, <3>3
  <2>2. g = [i \in 0..L |-> IF i = 0 THEN 0 ELSE g[i - 1] + l[i].tok]
    BY <1>7, <2>1
  <2> QED
    BY <2>2 DEF IsSum
<1>9. Tokens(Newest(l, n)) = g[L] - g[L - n]
  BY <1>1, <1>8, NewestTokens
<1>10. n + 1 \in 0..L + 1 /\ (L + 1) - (n + 1) = L - n /\ L - n \in 0..L /\ L \in 0..L
  BY <1>1
<1>11. Tokens(Newest(r, n + 1)) = f[L + 1] - f[L - n]
  <2>1. IsSum(f, r, Len(r)) /\ n + 1 \in 0..Len(r)
    BY <1>3, <1>4, <1>10
  <2>2. Tokens(Newest(r, n + 1)) = f[Len(r)] - f[Len(r) - (n + 1)]
    BY <1>3, <2>1, NewestTokens
  <2> QED
    BY <1>3, <1>10, <2>2
<1>12. g[L] = f[L] /\ g[L - n] = f[L - n]
  BY <1>7, <1>10
<1>13. f[L] \in Nat /\ f[L - n] \in Nat /\ b.tok \in Nat
  BY <1>6, <1>10
<1> QED
  BY <1>2, <1>6, <1>9, <1>11, <1>12, <1>13
-----------------------------------------------------------------------------
(* Trimming keeps the longest run of the newest that fits.                 *)

(* What the token scan keeps are the runs that are within the token limit. *)
LEMMA TokensKeptFit ==
    ASSUME NEW S, \A b \in S : b.tok \in Nat, NEW q \in Seq(S), NEW n \in 0..Len(q)
    PROVE  (MaxTokens # NoLimit => Tokens(Newest(q, n)) <= MaxTokens) <=> n <= TokensKept(q)
<1>1. PICK L \in Nat : L = Len(q) /\ n \in 0..L
  BY LenProperties
<1>2. CASE MaxTokens = NoLimit
  BY <1>1, <1>2 DEF TokensKept
<1>3. CASE MaxTokens # NoLimit
  <2>1. MaxTokens \in Nat
    BY <1>3, LimitsAssumption
  <2>2. PICK K : K = {i \in 1..L : \A m \in 1..i : Tokens(Newest(q, m)) <= MaxTokens}
    OBVIOUS
  <2>3. TokensKept(q) = Cardinality(K)
    BY <1>1, <1>3, <2>2 DEF TokensKept
  <2>4. K \in SUBSET (1..L) /\ \A i \in K : \A m \in 1..i : m \in K
    BY <1>1, <2>2
  <2>5. PICK k \in 0..L : K = 1..k /\ Cardinality(K) = k
    BY <2>2, <2>4, RunFromOne
  <2>6. \A i \in 0..L : Tokens(Newest(q, i)) \in Nat
        /\ \A m \in 0..i : Tokens(Newest(q, m)) <= Tokens(Newest(q, i))
    BY <1>1, TokensGrow
  <2>7. Tokens(Newest(q, 0)) = 0
    <3>1. PICK f : IsSum(f, q, L)
      BY SumExists
    <3>2. \A i \in 1..L : q[i].tok \in Nat
      BY <1>1, ElementOfSeq
    <3>3. f \in [0..L -> Nat]
      BY <3>1, <3>2, SumsGrow
    <3>4. L - 0 = L /\ f[L] \in Nat /\ 0 \in 0..Len(q)
      BY <1>1, <3>3
    <3>5. Tokens(Newest(q, 0)) = f[L] - f[L - 0]
      BY <1>1, <3>1, <3>4, NewestTokens
    <3> QED
      BY <3>4, <3>5
  <2>8. ASSUME Tokens(Newest(q, n)) <= MaxTokens
        PROVE  n <= k
    <3>1. CASE n = 0
      BY <3>1, <2>5
    <3>2. CASE n # 0
      <4>1. ASSUME NEW m \in 1..n
            PROVE  Tokens(Newest(q, m)) <= MaxTokens
        <5>1. m \in 0..n /\ m \in 0..L
          BY <1>1
        <5>2. Tokens(Newest(q, m)) <= Tokens(Newest(q, n))
              /\ Tokens(Newest(q, m)) \in Nat /\ Tokens(Newest(q, n)) \in Nat
          BY <1>1, <2>6, <5>1
        <5> QED
          BY <2>1, <2>8, <5>2
      <4>2. n \in K
        BY <1>1, <2>2, <3>2, <4>1
      <4> QED
        BY <2>5, <4>2
    <3> QED
      BY <3>1, <3>2
  <2>9. ASSUME n <= k
        PROVE  Tokens(Newest(q, n)) <= MaxTokens
    <3>1. CASE n = 0
      BY <2>1, <2>7, <3>1
    <3>2. CASE n # 0
      <4>1. n \in K /\ n \in 1..n
        BY <1>1, <2>5, <2>9, <3>2
      <4> QED
        BY <2>2, <4>1
    <3> QED
      BY <3>1, <3>2
  <2> QED
    BY <1>3, <2>3, <2>5, <2>8, <2>9
<1> QED
  BY <1>2, <1>3

(* Every run of the newest that is no longer than a fitting one fits.      *)
LEMMA ShorterFits ==
    ASSUME NEW S, \A b \in S : b.tok \in Nat, NEW q \in Seq(S), NEW n \in 0..Len(q),
           NEW m \in 0..n, Fits(Newest(q, n))
    PROVE  Fits(Newest(q, m))
<1>1. Len(q) \in Nat /\ n \in 0..Len(q) /\ m \in 0..Len(q) /\ m <= n
  BY LenProperties
<1>2. Len(Newest(q, n)) = n /\ Len(Newest(q, m)) = m
  BY <1>1, NewestElements
<1>3. Tokens(Newest(q, m)) \in Nat /\ Tokens(Newest(q, n)) \in Nat
      /\ Tokens(Newest(q, m)) <= Tokens(Newest(q, n))
  BY <1>1, TokensGrow
<1>4. MaxBlocks # NoLimit => MaxBlocks \in Nat /\ m <= MaxBlocks
  BY <1>1, <1>2, LimitsAssumption DEF Fits
<1>5. MaxTokens # NoLimit => Tokens(Newest(q, m)) <= MaxTokens
  BY <1>3, LimitsAssumption DEF Fits
<1> QED
  BY <1>2, <1>4, <1>5 DEF Fits

(* A limit of no blocks is the exception: a slice from -0 keeps them all.  *)
LEMMA TrimIsLongest ==
    ASSUME MaxBlocks # 0, NEW S, \A b \in S : b.tok \in Nat, NEW q \in Seq(S)
    PROVE  \E k \in 0..Len(q) :
              /\ Trim(q) = Newest(q, k)
              /\ \A n \in 0..Len(q) : Fits(Newest(q, n)) <=> n <= k
<1>1. PICK L \in Nat : L = Len(q)
  BY LenProperties
<1>2. PICK c \in 0..L : c = CountKept(q)
  BY <1>1, CountKeptRange
<1>3. \A n \in 0..L : (MaxBlocks # NoLimit => n <= MaxBlocks) <=> n <= c
  BY <1>1, <1>2, LimitsAssumption DEF CountKept
<1>4. PICK p : p = Newest(q, c)
  OBVIOUS
<1>5. p \in Seq(S) /\ Len(p) = c
  BY <1>1, <1>4, NewestElements
<1>6. PICK k \in 0..c : k = TokensKept(p)
  BY <1>5, TokensKeptRange
<1>7. \A n \in 0..c : Newest(p, n) = Newest(q, n)
  BY <1>1, <1>4, NewestOfNewest
<1>8. Trim(q) = Newest(q, k)
  BY <1>2, <1>4, <1>6, <1>7 DEF Trim
<1>9. ASSUME NEW n \in 0..L
      PROVE  Fits(Newest(q, n)) <=> n <= k
  <2>1. Len(Newest(q, n)) = n
    BY <1>1, NewestElements
  <2>2. CASE n <= c
    <3>1. n \in 0..c
      BY <1>9, <2>2
    <3>2. (MaxTokens # NoLimit => Tokens(Newest(p, n)) <= MaxTokens) <=> n <= k
      BY <1>5, <1>6, <3>1, TokensKeptFit
    <3>3. Newest(p, n) = Newest(q, n)
      BY <1>7, <3>1
    <3>4. MaxBlocks # NoLimit => n <= MaxBlocks
      BY <1>3, <2>2
    <3> QED
      BY <2>1, <3>2, <3>3, <3>4 DEF Fits
  <2>3. CASE ~(n <= c)
    <3>1. ~(n <= k)
      BY <1>2, <1>6, <1>9, <2>3
    <3>2. ~(MaxBlocks # NoLimit => n <= MaxBlocks)
      BY <1>3, <1>9, <2>3
    <3> QED
      BY <2>1, <3>1, <3>2 DEF Fits
  <2> QED
    BY <2>2, <2>3
<1>10. k \in 0..Len(q)
  BY <1>1, <1>2, <1>6
<1> QED
  BY <1>1, <1>8, <1>9, <1>10

(* The longest suffix that fits is the longest run of the newest that does. *)
LEMMA LongestFittingIs ==
    ASSUME NEW S, NEW q \in Seq(S), NEW k \in 0..Len(q),
           \A n \in 0..Len(q) : Fits(Newest(q, n)) <=> n <= k
    PROVE  LongestFitting(q) = Newest(q, k)
<1>1. PICK L \in Nat : L = Len(q) /\ k \in 0..L
  BY LenProperties
<1>2. ASSUME NEW n \in 0..L
      PROVE  Newest(q, n) \in Suffixes(q) /\ Len(Newest(q, n)) = n
  <2>1. Len(Newest(q, n)) = n
    BY <1>1, NewestElements
  <2>2. CASE n = 0
    BY <1>1, <2>2, EmptyWindow DEF Suffixes
  <2>3. CASE n # 0
    <3>1. L - n + 1 \in 1..L /\ Newest(q, n) = SubSeq(q, L - n + 1, L)
      BY <1>1, <1>2, <2>3 DEF Newest
    <3> QED
      BY <1>1, <2>1, <3>1 DEF Suffixes
  <2> QED
    BY <2>1, <2>2, <2>3
<1>3. ASSUME NEW w \in Suffixes(q)
      PROVE  \E n \in 0..L : w = Newest(q, n)
  <2>1. CASE w = <<>>
    BY <1>1, <2>1, EmptyWindow
  <2>2. CASE w # <<>>
    <3>1. PICK l \in 1..L : w = SubSeq(q, l, L)
      BY <1>1, <2>2 DEF Suffixes
    <3>2. L - l + 1 \in 0..L /\ L - (L - l + 1) + 1 = l
      BY <1>1, <3>1
    <3>3. w = Newest(q, L - l + 1)
      BY <1>1, <3>1, <3>2 DEF Newest
    <3> QED
      BY <3>2, <3>3
  <2> QED
    BY <2>1, <2>2
<1>4. ASSUME NEW v \in Suffixes(q), Fits(v)
      PROVE  Len(v) <= k
  <2>1. PICK n \in 0..L : v = Newest(q, n)
    BY <1>3
  <2> QED
    BY <1>1, <1>2, <1>4, <2>1
<1>5. PICK w : w = Newest(q, k)
  OBVIOUS
<1>6. w \in Suffixes(q) /\ Len(w) = k /\ Fits(w)
  BY <1>1, <1>2, <1>5
<1>7. ASSUME NEW u \in Suffixes(q), Fits(u),
             \A v \in Suffixes(q) : Fits(v) => Len(v) <= Len(u)
      PROVE  u = w
  <2>1. PICK n \in 0..L : u = Newest(q, n)
    BY <1>3
  <2>2. Len(u) = n /\ n <= k /\ k <= n
    BY <1>1, <1>2, <1>4, <1>6, <1>7, <2>1
  <2> QED
    BY <1>1, <1>5, <2>1, <2>2
<1>8. \A v \in Suffixes(q) : Fits(v) => Len(v) <= Len(w)
  BY <1>4, <1>6
<1>9. LongestFitting(q) = w
  BY <1>6, <1>7, <1>8 DEF LongestFitting
<1> QED
  BY <1>5, <1>9

(* Trimming once, whatever is trimmed.                                     *)
LEMMA TrimIsLongestFitting ==
    ASSUME MaxBlocks # 0, NEW S, \A b \in S : b.tok \in Nat, NEW q \in Seq(S)
    PROVE  Trim(q) = LongestFitting(q)
<1>1. PICK k \in 0..Len(q) : /\ Trim(q) = Newest(q, k)
                             /\ \A n \in 0..Len(q) : Fits(Newest(q, n)) <=> n <= k
  BY TrimIsLongest
<1> QED
  BY <1>1, LongestFittingIs

(* Trimming after an append, whatever longer run of the newest was left by *)
(* the trimmings before: nothing older than that run can fit any more.     *)
LEMMA AppendKeepsLongest ==
    ASSUME MaxBlocks # 0, NEW S, \A b \in S : b.tok \in Nat, NEW l \in Seq(S), NEW b \in S,
           NEW n \in 0..Len(l), Len(LongestFitting(l)) <= n
    PROVE  Trim(Append(Newest(l, n), b)) = LongestFitting(Append(l, b))
<1>1. PICK L \in Nat : L = Len(l) /\ n \in 0..L
  BY LenProperties
<1>2. PICK w : w = Newest(l, n)
  OBVIOUS
<1>3. PICK q : q = Append(w, b)
  OBVIOUS
<1>4. PICK r : r = Append(l, b)
  OBVIOUS
<1>5. w \in Seq(S) /\ Len(w) = n
  BY <1>2, NewestElements
<1>6. q \in Seq(S) /\ Len(q) = n + 1
  BY <1>3, <1>5, AppendProperties
<1>7. r \in Seq(S) /\ Len(r) = L + 1
  BY <1>1, <1>4, AppendProperties
<1>8. q = Newest(r, n + 1) /\ n + 1 \in 0..L + 1
  BY <1>1, <1>2, <1>3, <1>4, AppendToNewest
<1>9. PICK kl \in 0..L : \A m \in 0..L : Fits(Newest(l, m)) <=> m <= kl
  BY <1>1, TrimIsLongest
<1>10. PICK kq \in 0..n + 1 : /\ Trim(q) = Newest(q, kq)
                              /\ \A m \in 0..n + 1 : Fits(Newest(q, m)) <=> m <= kq
  BY <1>6, TrimIsLongest
<1>11. PICK kr \in 0..L + 1 : \A m \in 0..L + 1 : Fits(Newest(r, m)) <=> m <= kr
  BY <1>7, TrimIsLongest
<1>12. kl <= n
  <2>1. LongestFitting(l) = Newest(l, kl)
    BY <1>1, <1>9, LongestFittingIs
  <2> QED
    BY <1>1, <2>1, NewestElements
<1>13. kr <= n + 1
  <2> SUFFICES ASSUME ~(kr <= n + 1) PROVE FALSE
    OBVIOUS
  <2>1. PICK m : m = kr - 1
    OBVIOUS
  <2>2. m \in 0..L /\ kr = m + 1 /\ ~(m <= n)
    BY <1>1, <1>11, <2>1
  <2>3. Fits(Newest(r, m + 1))
    BY <1>11, <2>2
  <2>4. /\ Tokens(Newest(r, m + 1)) = Tokens(Newest(l, m)) + b.tok
        /\ Tokens(Newest(l, m)) \in Nat /\ b.tok \in Nat
    BY <1>1, <1>4, <2>2, TokensOfAppend, TokensGrow
  <2>5. Len(Newest(r, m + 1)) = m + 1 /\ Len(Newest(l, m)) = m
    <3>1. m + 1 \in 0..L + 1
      BY <1>1, <2>2
    <3> QED
      BY <1>1, <1>7, <2>2, <3>1, NewestElements
  <2>6. MaxBlocks # NoLimit => m <= MaxBlocks
    BY <2>2, <2>3, <2>5, LimitsAssumption DEF Fits
  <2>7. MaxTokens # NoLimit => Tokens(Newest(l, m)) <= MaxTokens
    BY <2>3, <2>4, LimitsAssumption DEF Fits
  <2>8. Fits(Newest(l, m))
    BY <2>5, <2>6, <2>7 DEF Fits
  <2>9. m <= kl
    BY <1>9, <2>2, <2>8
  <2> QED
    BY <1>1, <1>9, <1>12, <2>2, <2>9
<1>14. \A m \in 0..n + 1 : Newest(q, m) = Newest(r, m)
  BY <1>7, <1>8, NewestOfNewest
<1>15. kq = kr
  <2>1. kq \in 0..L + 1 /\ kq \in 0..n + 1 /\ kr \in 0..n + 1 /\ kq <= kq /\ kr <= kr
    BY <1>1, <1>10, <1>11, <1>13
  <2>2. kq <= kr
    BY <1>10, <1>11, <1>14, <2>1
  <2>3. kr <= kq
    BY <1>10, <1>11, <1>14, <2>1
  <2> QED
    BY <2>1, <2>2, <2>3
<1>16. Trim(q) = Newest(r, kr)
  BY <1>10, <1>14, <1>15
<1>17. LongestFitting(r) = Newest(r, kr)
  BY <1>7, <1>11, LongestFittingIs
<1> QED
  BY <1>2, <1>3, <1>4, <1>16, <1>17
=============================================================================
