--------------------------- MODULE SequenceLemmas ---------------------------
(***************************************************************************)
(* What the sequence operators the models are built from do, stated once   *)
(* for the proofs about the components.                                    *)
(***************************************************************************)
EXTENDS Integers, Sequences, FiniteSets, SequencesExt, SequenceTheorems,
        FiniteSetTheorems, TLAPS

\* RemoveAt takes one element out and moves the later ones up.
LEMMA RemoveAtProperties ==
  ASSUME NEW S, NEW s \in Seq(S), NEW i \in DOMAIN s
  PROVE  /\ RemoveAt(s, i) \in Seq(S)
         /\ Len(RemoveAt(s, i)) = Len(s) - 1
         /\ \A j \in 1..(Len(s) - 1) : RemoveAt(s, i)[j] = IF j < i THEN s[j] ELSE s[j + 1]
<1> DEFINE a == SubSeq(s, 1, i - 1)
           b == SubSeq(s, i + 1, Len(s))
           n == Len(s)
<1>1. /\ i \in 1..n /\ n \in Nat /\ \A j \in 1..n : s[j] \in S
  BY LenProperties
<1>2. /\ a \in Seq(S) /\ Len(a) = i - 1
      /\ \A j \in 1..(i - 1) : a[j] = s[j]
  BY <1>1
<1>3. /\ b \in Seq(S) /\ Len(b) = n - i
      /\ \A j \in 1..(n - i) : b[j] = s[j + i]
  BY <1>1
<1>4. RemoveAt(s, i) = a \o b
  BY DEF RemoveAt
<1>5. i \in Nat /\ 1 <= i /\ i <= n /\ n \in Nat
  BY <1>1
<1> HIDE DEF a, b, n
<1>6. /\ a \o b \in Seq(S) /\ Len(a \o b) = Len(a) + Len(b)
      /\ \A j \in 1..(Len(a) + Len(b)) :
           (a \o b)[j] = IF j <= Len(a) THEN a[j] ELSE b[j - Len(a)]
  BY <1>2, <1>3, ConcatProperties
<1>7. Len(a) = i - 1 /\ Len(b) = n - i /\ Len(a) + Len(b) = n - 1
  BY <1>2, <1>3, <1>5
<1>8. ASSUME NEW j \in 1..(n - 1)
      PROVE  (a \o b)[j] = IF j < i THEN s[j] ELSE s[j + 1]
  <2>1. (a \o b)[j] = IF j <= i - 1 THEN a[j] ELSE b[j - (i - 1)]
    BY <1>6, <1>7
  <2>2. j \in Nat /\ 1 <= j /\ j <= n - 1
    BY <1>5
  <2>3. CASE j < i
    <3>1. j \in 1..(i - 1) /\ j <= i - 1
      BY <1>5, <2>2, <2>3
    <3>2. QED
      BY <1>2, <2>1, <2>3, <3>1
  <2>4. CASE ~(j < i)
    <3>1. /\ j - (i - 1) \in 1..(n - i) /\ (j - (i - 1)) + i = j + 1
          /\ ~(j <= i - 1)
      BY <1>5, <2>2, <2>4
    <3>2. b[j - (i - 1)] = s[(j - (i - 1)) + i]
      BY <1>3, <3>1
    <3>3. QED
      BY <2>1, <2>4, <3>1, <3>2
  <2>5. QED
    BY <2>3, <2>4
<1>9. QED
  BY <1>4, <1>6, <1>7, <1>8 DEF n

\* Every element of what is left was an element before, and every element but
\* the one taken out is left.
LEMMA RemoveAtElements ==
  ASSUME NEW S, NEW s \in Seq(S), NEW i \in DOMAIN s
  PROVE  /\ \A j \in DOMAIN RemoveAt(s, i) :
              \E k \in DOMAIN s : k # i /\ RemoveAt(s, i)[j] = s[k]
         /\ \A k \in DOMAIN s : k # i =>
              \E j \in DOMAIN RemoveAt(s, i) : RemoveAt(s, i)[j] = s[k]
<1> DEFINE t == RemoveAt(s, i)
<1>1. /\ t \in Seq(S) /\ Len(t) = Len(s) - 1 /\ DOMAIN t = 1..(Len(s) - 1)
      /\ \A j \in 1..(Len(s) - 1) : t[j] = IF j < i THEN s[j] ELSE s[j + 1]
      /\ i \in 1..Len(s) /\ Len(s) \in Nat /\ DOMAIN s = 1..Len(s)
  BY RemoveAtProperties, LenProperties
<1> HIDE DEF t
<1>2. ASSUME NEW j \in DOMAIN t PROVE \E k \in DOMAIN s : k # i /\ t[j] = s[k]
  <2>1. CASE j < i
    BY <1>1, <2>1
  <2>2. CASE ~(j < i)
    <3>1. j + 1 \in DOMAIN s /\ j + 1 # i /\ t[j] = s[j + 1]
      BY <1>1, <2>2
    <3>2. QED
      BY <3>1
  <2>3. QED
    BY <2>1, <2>2
<1>3. ASSUME NEW k \in DOMAIN s, k # i PROVE \E j \in DOMAIN t : t[j] = s[k]
  <2>1. CASE k < i
    BY <1>1, <2>1
  <2>2. CASE ~(k < i)
    <3>1. k - 1 \in DOMAIN t /\ ~(k - 1 < i) /\ (k - 1) + 1 = k
      BY <1>1, <1>3, <2>2
    <3>2. t[k - 1] = s[k]
      BY <1>1, <3>1
    <3>3. QED
      BY <3>1, <3>2
  <2>3. QED
    BY <2>1, <2>2
<1>4. QED
  BY <1>2, <1>3 DEF t

\* SetToSeq lists the elements of a finite set, each of them once.
LEMMA SetToSeqProperties ==
  ASSUME NEW S, IsFiniteSet(S)
  PROVE  /\ SetToSeq(S) \in Seq(S)
         /\ Len(SetToSeq(S)) = Cardinality(S)
         /\ \A x \in S : \E i \in DOMAIN SetToSeq(S) : SetToSeq(S)[i] = x
<1> DEFINE D == 1..Cardinality(S)
           f == SetToSeq(S)
<1>1. Cardinality(S) \in Nat /\ ExistsBijection(D, S)
  BY FS_CardinalityType
<1>2. \E g \in [D -> S] : IsInjective(g)
  BY <1>1 DEF ExistsBijection, Bijection, Injection
<1>3. f \in [D -> S] /\ IsInjective(f)
  BY <1>2 DEF SetToSeq
<1>4. f \in Injection(D, S)
  BY <1>3 DEF Injection
<1>5. IsFiniteSet(D) /\ Cardinality(D) = Cardinality(S)
  BY <1>1, FS_Interval
<1> HIDE DEF f
<1>6. f \in Surjection(D, S)
  BY <1>4, <1>5, FS_Injection
<1>7. \A x \in S : \E i \in D : f[i] = x
  BY <1>6 DEF Surjection
<1>8. f \in Seq(S) /\ Len(f) = Cardinality(S) /\ DOMAIN f = D
  BY <1>1, <1>3
<1>9. QED
  BY <1>7, <1>8 DEF f

\* ... and no element is listed twice.
LEMMA SetToSeqOnce ==
  ASSUME NEW S, IsFiniteSet(S)
  PROVE  \A i, j \in DOMAIN SetToSeq(S) : SetToSeq(S)[i] = SetToSeq(S)[j] => i = j
<1> DEFINE D == 1..Cardinality(S)
           f == SetToSeq(S)
<1>1. Cardinality(S) \in Nat /\ ExistsBijection(D, S)
  BY FS_CardinalityType
<1>2. \E g \in [D -> S] : IsInjective(g)
  BY <1>1 DEF ExistsBijection, Bijection, Injection
<1>3. f \in [D -> S] /\ IsInjective(f)
  BY <1>2 DEF SetToSeq
<1>4. QED
  BY <1>3 DEF IsInjective

\* t is s less some of its elements, in the same order or not: every element of t
\* has a place of its own in s, and none the place i, if i is a place at all.
Less(t, s, i) ==
  \E g \in [DOMAIN t -> DOMAIN s] :
    /\ \A j, k \in DOMAIN t : g[j] = g[k] => j = k
    /\ \A j \in DOMAIN t : t[j] = s[g[j]] /\ g[j] # i

\* RemoveAt and Tail leave the other elements.
LEMMA RemoveAtLess ==
  ASSUME NEW S, NEW s \in Seq(S), NEW i \in DOMAIN s
  PROVE  Less(RemoveAt(s, i), s, i) /\ RemoveAt(s, i) \in Seq(S)
<1> DEFINE t == RemoveAt(s, i)
           g == [j \in DOMAIN t |-> IF j < i THEN j ELSE j + 1]
<1>1. /\ t \in Seq(S) /\ Len(t) = Len(s) - 1 /\ DOMAIN t = 1..(Len(s) - 1)
      /\ \A j \in 1..(Len(s) - 1) : t[j] = IF j < i THEN s[j] ELSE s[j + 1]
  BY RemoveAtProperties
<1>2. Len(s) \in Nat /\ i \in 1..Len(s) /\ DOMAIN s = 1..Len(s)
  OBVIOUS
<1> HIDE DEF t
<1>3. g \in [DOMAIN t -> DOMAIN s]
  BY <1>1, <1>2
<1>4. \A j, k \in DOMAIN t : g[j] = g[k] => j = k
  BY <1>1, <1>2
<1>5. \A j \in DOMAIN t : t[j] = s[g[j]] /\ g[j] # i
  BY <1>1, <1>2
<1> HIDE DEF g
<1>6. Less(t, s, i)
  BY <1>3, <1>4, <1>5 DEF Less
<1>7. QED
  BY <1>1, <1>6 DEF t

\* The tail of a sequence is the sequence without its first element.
LEMMA TailLess ==
  ASSUME NEW S, NEW s \in Seq(S), s # <<>>
  PROVE  Less(Tail(s), s, 1) /\ Tail(s) \in Seq(S)
<1> DEFINE t == Tail(s)
           g == [j \in DOMAIN t |-> j + 1]
<1>1. /\ t \in Seq(S) /\ Len(s) \in Nat /\ Len(s) >= 1 /\ DOMAIN t = 1..(Len(s) - 1)
      /\ DOMAIN s = 1..Len(s)
      /\ \A j \in 1..(Len(s) - 1) : t[j] = s[j + 1]
  OBVIOUS
<1> HIDE DEF t
<1>2. g \in [DOMAIN t -> DOMAIN s]
  BY <1>1
<1>3. \A j, k \in DOMAIN t : g[j] = g[k] => j = k
  BY <1>1
<1>4. \A j \in DOMAIN t : t[j] = s[g[j]] /\ g[j] # 1
  BY <1>1
<1> HIDE DEF g
<1>5. Less(t, s, 1)
  BY <1>2, <1>3, <1>4 DEF Less
<1>6. QED
  BY <1>1, <1>5 DEF t

\* The later of two numbers of a finite set has more of the set below it.
Below(S, q) == {x \in S : x < q}

\* The number of smaller elements grows with the element: it is a rank.
LEMMA RankGrows ==
  ASSUME NEW S \in SUBSET Nat, IsFiniteSet(S)
  PROVE  /\ \A q \in S : /\ Cardinality(Below(S, q)) \in Nat
                         /\ Cardinality(Below(S, q)) < Cardinality(S)
         /\ \A p, q \in S : p < q => Cardinality(Below(S, p)) < Cardinality(Below(S, q))
         /\ \A p, q \in S : Cardinality(Below(S, p)) = Cardinality(Below(S, q)) => p = q
<1>1. ASSUME NEW q \in S
      PROVE  /\ IsFiniteSet(Below(S, q)) /\ Cardinality(Below(S, q)) \in Nat
             /\ Cardinality(Below(S, q)) < Cardinality(S)
  <2>1. Below(S, q) \subseteq S /\ Below(S, q) # S
    BY DEF Below
  <2>2. QED
    BY <2>1, FS_Subset, FS_CardinalityType
<1>2. ASSUME NEW p \in S, NEW q \in S, p < q
      PROVE  Cardinality(Below(S, p)) < Cardinality(Below(S, q))
  <2>1. p \in Nat /\ q \in Nat /\ \A x \in S : x \in Nat /\ (x < p => x < q)
    BY <1>2
  <2>2. Below(S, p) \subseteq Below(S, q)
    BY <2>1 DEF Below
  <2>3. p \in Below(S, q) /\ p \notin Below(S, p)
    BY <1>2, <2>1 DEF Below
  <2>4. IsFiniteSet(Below(S, q))
    BY <1>1
  <2>5. Cardinality(Below(S, p)) <= Cardinality(Below(S, q))
        /\ (Cardinality(Below(S, p)) = Cardinality(Below(S, q)) => Below(S, p) = Below(S, q))
    BY <2>2, <2>4, FS_Subset
  <2>6. Cardinality(Below(S, p)) # Cardinality(Below(S, q))
    BY <2>3, <2>5
  <2>7. QED
    BY <1>1, <2>5, <2>6
<1>3. ASSUME NEW p \in S, NEW q \in S, Cardinality(Below(S, p)) = Cardinality(Below(S, q))
      PROVE  p = q
  <2>1. p \in Nat /\ q \in Nat
    OBVIOUS
  <2>2. ~(p < q) /\ ~(q < p)
    BY <1>1, <1>2, <1>3
  <2>3. QED
    BY <2>1, <2>2
<1>4. QED
  BY <1>1, <1>2, <1>3

\* At most k of them have fewer than k below them.
LEMMA FewBelow ==
  ASSUME NEW S \in SUBSET Nat, IsFiniteSet(S), NEW k \in Nat,
         NEW T \in SUBSET S, \A q \in T : Cardinality(Below(S, q)) < k
  PROVE  IsFiniteSet(T) /\ Cardinality(T) <= k
<1> DEFINE rank == [q \in T |-> Cardinality(Below(S, q))]
<1>1. IsFiniteSet(T)
  BY FS_Subset
<1>2. \A q \in T : Cardinality(Below(S, q)) \in 0..(k - 1)
  BY RankGrows
<1>3. rank \in [T -> 0..(k - 1)]
  BY <1>2
<1>4. ASSUME NEW p \in T, NEW q \in T, rank[p] = rank[q] PROVE p = q
  BY <1>4, RankGrows
<1>5. rank \in Injection(T, 0..(k - 1))
  BY <1>3, <1>4 DEF Injection, IsInjective
<1> HIDE DEF rank
<1>6. IsFiniteSet(0..(k - 1)) /\ Cardinality(0..(k - 1)) = k
  BY FS_Interval
<1>7. Cardinality(T) <= Cardinality(0..(k - 1))
  BY <1>1, <1>5, <1>6, FS_Injection
<1>8. QED
  BY <1>1, <1>6, <1>7

\* A set of numbers up to n that is not empty has a greatest element: ranking
\* its elements is one-to-one, so one of them has the highest rank.
LEMMA MaxProperties ==
  ASSUME NEW n \in Nat, NEW S \in SUBSET (1..n), S # {}
  PROVE  Max(S) \in S /\ \A x \in S : x <= Max(S)
<1> DEFINE rank == [q \in S |-> Cardinality(Below(S, q))]
           k == Cardinality(S)
<1>1. IsFiniteSet(1..n)
  BY FS_Interval
<1>2. IsFiniteSet(S) /\ k \in Nat /\ k # 0
  BY <1>1, FS_Subset, FS_CardinalityType, FS_EmptySet
<1>3. S \subseteq Nat
  OBVIOUS
<1>4. \A q \in S : Cardinality(Below(S, q)) \in Nat /\ Cardinality(Below(S, q)) < k
  BY <1>2, <1>3, RankGrows
<1>5. \A p, q \in S : p < q => Cardinality(Below(S, p)) < Cardinality(Below(S, q))
  BY <1>2, <1>3, RankGrows
<1>6. rank \in [S -> 0..(k - 1)]
  BY <1>2, <1>4
<1>7. ASSUME NEW p \in S, NEW q \in S, rank[p] = rank[q] PROVE p = q
  BY <1>2, <1>3, <1>7, RankGrows
<1>8. rank \in Injection(S, 0..(k - 1))
  BY <1>6, <1>7 DEF Injection, IsInjective
<1>9. IsFiniteSet(0..(k - 1)) /\ Cardinality(0..(k - 1)) = k
  BY <1>2, FS_Interval
<1>10. rank \in Surjection(S, 0..(k - 1))
  BY <1>2, <1>8, <1>9, FS_Injection
<1>11. k - 1 \in 0..(k - 1)
  BY <1>2
<1>12. PICK m \in S : rank[m] = k - 1
  BY <1>10, <1>11 DEF Surjection
<1>13. ASSUME NEW x \in S PROVE x <= m
  <2>1. Cardinality(Below(S, m)) = k - 1
    BY <1>12
  <2>2. ~(m < x)
    BY <1>2, <1>4, <1>5, <2>1
  <2>3. QED
    BY <1>3, <2>2
<1>14. \E z \in S : \A x \in S : z >= x
  BY <1>13, <1>3
<1>15. QED
  BY <1>14, <1>3 DEF Max

-----------------------------------------------------------------------------
(***************************************************************************)
(* What Has and Once become when a sequence changes.                       *)
(***************************************************************************)
\* Has s an element in K, and one at most?
Has(s, K) == \E i \in DOMAIN s : s[i] \in K
Once(s, K) == \A i, j \in DOMAIN s : s[i] \in K /\ s[j] \in K => i = j

\* Taking elements out takes no other one away and brings none.
LEMMA LessHas ==
  ASSUME NEW s, NEW t, NEW i, NEW K, Less(t, s, i)
  PROVE  /\ Has(t, K) => Has(s, K)
         /\ Once(s, K) => Once(t, K)
         /\ Once(s, K) /\ i \in DOMAIN s /\ s[i] \in K => ~Has(t, K)
<1>1. PICK g \in [DOMAIN t -> DOMAIN s] :
        /\ \A j, k \in DOMAIN t : g[j] = g[k] => j = k
        /\ \A j \in DOMAIN t : t[j] = s[g[j]] /\ g[j] # i
  BY DEF Less
<1>2. Has(t, K) => Has(s, K)
  BY <1>1 DEF Has
<1>3. ASSUME Once(s, K) PROVE Once(t, K)
  <2>1. ASSUME NEW j \in DOMAIN t, NEW k \in DOMAIN t, t[j] \in K, t[k] \in K
        PROVE  j = k
    BY <1>1, <1>3, <2>1 DEF Once
  <2>2. QED
    BY <2>1 DEF Once
<1>4. ASSUME Once(s, K), i \in DOMAIN s, s[i] \in K PROVE ~Has(t, K)
  BY <1>1, <1>4 DEF Once, Has
<1>5. QED
  BY <1>2, <1>3, <1>4

\* An element added last is there, and alone if there was none of its kind.
LEMMA AppendHas ==
  ASSUME NEW S, NEW s \in Seq(S), NEW x \in S, NEW K
  PROVE  /\ Append(s, x) \in Seq(S)
         /\ Has(Append(s, x), K) <=> Has(s, K) \/ x \in K
         /\ Once(s, K) /\ (x \notin K \/ ~Has(s, K)) => Once(Append(s, x), K)
<1> DEFINE t == Append(s, x)
           n == Len(s)
<1>1. /\ t \in Seq(S) /\ n \in Nat /\ DOMAIN s = 1..n /\ DOMAIN t = 1..(n + 1)
      /\ t[n + 1] = x /\ \A i \in 1..n : t[i] = s[i]
  OBVIOUS
<1>2. /\ n + 1 \in 1..(n + 1) /\ 1..n \subseteq 1..(n + 1)
      /\ \A i \in 1..(n + 1) : i \in 1..n \/ i = n + 1
  BY <1>1
<1> HIDE DEF t, n
<1>3. Has(t, K) <=> Has(s, K) \/ x \in K
  BY <1>1, <1>2 DEF Has
<1>4. ASSUME Once(s, K), x \notin K \/ ~Has(s, K) PROVE Once(t, K)
  BY <1>1, <1>2, <1>4 DEF Once, Has
<1>5. QED
  BY <1>1, <1>3, <1>4 DEF t

\* A sequence with one element of its kind more is a sequence of that kind.
LEMMA AppendTyped ==
  ASSUME NEW S, NEW s \in Seq(S), NEW x \in S
  PROVE  Append(s, x) \in Seq(S)
OBVIOUS

\* The same of two sequences put together.
LEMMA ConcatHas ==
  ASSUME NEW S, NEW s \in Seq(S), NEW u \in Seq(S), NEW K
  PROVE  /\ s \o u \in Seq(S)
         /\ Has(s \o u, K) <=> Has(s, K) \/ Has(u, K)
         /\ Once(s, K) /\ Once(u, K) /\ ~(Has(s, K) /\ Has(u, K)) => Once(s \o u, K)
<1> DEFINE t == s \o u
           n == Len(s)
           k == Len(u)
<1>1. /\ t \in Seq(S) /\ n \in Nat /\ k \in Nat /\ DOMAIN s = 1..n /\ DOMAIN u = 1..k
      /\ Len(t) = n + k /\ DOMAIN t = 1..(n + k)
      /\ \A i \in 1..(n + k) : t[i] = IF i <= n THEN s[i] ELSE u[i - n]
  BY ConcatProperties, LenProperties
<1> HIDE DEF t, n, k
<1>2. \A i \in 1..n : i \in 1..(n + k) /\ t[i] = s[i]
  BY <1>1
<1>3. \A i \in 1..k : n + i \in 1..(n + k) /\ t[n + i] = u[i]
  <2>1. ASSUME NEW i \in 1..k PROVE n + i \in 1..(n + k) /\ ~(n + i <= n) /\ (n + i) - n = i
    BY <1>1
  <2>2. QED
    BY <1>1, <2>1
<1>4. \A i \in 1..(n + k) : i \in 1..n \/ \E j \in 1..k : i = n + j
  <2>1. ASSUME NEW i \in 1..(n + k), i \notin 1..n PROVE i - n \in 1..k /\ i = n + (i - n)
    BY <1>1, <2>1
  <2>2. QED
    BY <2>1
<1>5. Has(t, K) <=> Has(s, K) \/ Has(u, K)
  <2>1. ASSUME NEW i \in 1..(n + k), t[i] \in K PROVE Has(s, K) \/ Has(u, K)
    <3>1. CASE i \in 1..n
      BY <1>1, <1>2, <2>1, <3>1 DEF Has
    <3>2. CASE i \notin 1..n
      <4>1. PICK j \in 1..k : i = n + j
        BY <1>4, <3>2
      <4>2. u[j] \in K
        BY <1>3, <2>1, <4>1
      <4>3. QED
        BY <1>1, <4>2 DEF Has
    <3>3. QED
      BY <3>1, <3>2
  <2>2. Has(t, K) => Has(s, K) \/ Has(u, K)
    BY <1>1, <2>1 DEF Has
  <2>3. Has(s, K) => Has(t, K)
    BY <1>1, <1>2 DEF Has
  <2>4. Has(u, K) => Has(t, K)
    BY <1>1, <1>3 DEF Has
  <2>5. QED
    BY <2>2, <2>3, <2>4
<1>6. ASSUME Once(s, K), Once(u, K), ~(Has(s, K) /\ Has(u, K)) PROVE Once(t, K)
  <2>1. ASSUME NEW i \in 1..(n + k), NEW j \in 1..(n + k), t[i] \in K, t[j] \in K
        PROVE  i = j
    <3>1. CASE i \in 1..n /\ j \in 1..n
      BY <1>1, <1>2, <1>6, <2>1, <3>1 DEF Once
    <3>2. CASE i \in 1..n /\ j \notin 1..n
      BY <1>1, <1>2, <1>3, <1>4, <1>6, <2>1, <3>2 DEF Has
    <3>3. CASE i \notin 1..n /\ j \in 1..n
      BY <1>1, <1>2, <1>3, <1>4, <1>6, <2>1, <3>3 DEF Has
    <3>4. CASE i \notin 1..n /\ j \notin 1..n
      <4>1. PICK a \in 1..k : i = n + a
        BY <1>4, <3>4
      <4>2. PICK b \in 1..k : j = n + b
        BY <1>4, <3>4
      <4>3. u[a] \in K /\ u[b] \in K
        BY <1>3, <2>1, <4>1, <4>2
      <4>4. a = b
        BY <1>1, <1>6, <4>3 DEF Once
      <4>5. QED
        BY <4>1, <4>2, <4>4
    <3>5. QED
      BY <3>1, <3>2, <3>3, <3>4
  <2>2. QED
    BY <1>1, <2>1 DEF Once
<1>7. QED
  BY <1>1, <1>5, <1>6 DEF t

\* Elements that change and stay of their kind.
LEMMA SameHas ==
  ASSUME NEW s, NEW t, NEW K, NEW L, DOMAIN t = DOMAIN s,
         \A i \in DOMAIN s : t[i] \in L <=> s[i] \in K
  PROVE  (Has(t, L) <=> Has(s, K)) /\ (Once(s, K) => Once(t, L))
BY DEF Has, Once

\* One element of a sequence replaced by another of its type.
LEMMA Replaced ==
  ASSUME NEW S, NEW s \in Seq(S), NEW i \in DOMAIN s, NEW x \in S
  PROVE  /\ [s EXCEPT ![i] = x] \in Seq(S)
         /\ Len([s EXCEPT ![i] = x]) = Len(s)
         /\ DOMAIN [s EXCEPT ![i] = x] = DOMAIN s
         /\ \A j \in DOMAIN s : [s EXCEPT ![i] = x][j] = IF j = i THEN x ELSE s[j]
<1> DEFINE t == [s EXCEPT ![i] = x]
           n == Len(s)
<1>1. n \in Nat /\ DOMAIN s = 1..n /\ s \in [1..n -> S]
  BY LenProperties
<1>2. t \in [1..n -> S] /\ \A j \in 1..n : t[j] = IF j = i THEN x ELSE s[j]
  BY <1>1
<1> HIDE DEF t, n
<1>3. t \in Seq(S) /\ Len(t) = n
  BY <1>1, <1>2
<1>4. QED
  BY <1>1, <1>2, <1>3 DEF t, n

\* Every element of t is one of s, or in X.
From(t, s, X) == \A j \in DOMAIN t : t[j] \in X \/ \E i \in DOMAIN s : t[j] = s[i]

\* Where sequences made by appending, joining and taking away come from.
LEMMA FromFacts ==
  ASSUME NEW S, NEW s \in Seq(S)
  PROVE  /\ From(s, s, {}) /\ From(<<>>, s, {})
         /\ \A x : From(Append(s, x), s, {x})
         /\ \A u \in Seq(S) : \A X : (\A j \in DOMAIN u : u[j] \in X) => From(s \o u, s, X)
         /\ \A t, i : Less(t, s, i) => From(t, s, {})
<1>1. From(s, s, {}) /\ From(<<>>, s, {})
  BY DEF From
<1>2. ASSUME NEW x PROVE From(Append(s, x), s, {x})
  <2>1. PICK t : t = Append(s, x)
    OBVIOUS
  <2>2. /\ Len(s) \in Nat /\ DOMAIN s = 1..Len(s) /\ DOMAIN t = 1..(Len(s) + 1)
        /\ t[Len(s) + 1] = x /\ \A i \in 1..Len(s) : t[i] = s[i]
        /\ \A i \in 1..(Len(s) + 1) : i \in 1..Len(s) \/ i = Len(s) + 1
    BY <2>1
  <2>3. From(t, s, {x})
    BY <2>2 DEF From
  <2>4. QED
    BY <2>1, <2>3
<1>3. ASSUME NEW u \in Seq(S), NEW X, \A j \in DOMAIN u : u[j] \in X
      PROVE  From(s \o u, s, X)
  <2>1. PICK t : t = s \o u
    OBVIOUS
  <2>2. PICK n \in Nat, k \in Nat : n = Len(s) /\ k = Len(u)
    OBVIOUS
  <2>3. /\ DOMAIN s = 1..n /\ DOMAIN u = 1..k /\ DOMAIN t = 1..(n + k)
        /\ \A i \in 1..(n + k) : t[i] = IF i <= n THEN s[i] ELSE u[i - n]
    BY <2>1, <2>2, ConcatProperties, LenProperties
  <2>4. ASSUME NEW i \in 1..(n + k) PROVE IF i <= n THEN i \in 1..n ELSE i - n \in 1..k
    BY <2>4
  <2>5. From(t, s, X)
    <3>1. ASSUME NEW i \in DOMAIN t PROVE t[i] \in X \/ \E h \in DOMAIN s : t[i] = s[h]
      <4>1. CASE i <= n
        BY <2>3, <2>4, <3>1, <4>1
      <4>2. CASE ~(i <= n)
        BY <1>3, <2>3, <2>4, <3>1, <4>2
      <4>3. QED
        BY <4>1, <4>2
    <3>2. QED
      BY <3>1 DEF From
  <2>6. QED
    BY <2>1, <2>5
<1>4. ASSUME NEW t, NEW i, Less(t, s, i) PROVE From(t, s, {})
  BY <1>4 DEF Less, From
<1>5. QED
  BY <1>1, <1>2, <1>3, <1>4

\* What comes from a sequence that comes from a third comes from the third.
LEMMA FromMore ==
  ASSUME NEW t, NEW u, NEW s, NEW X, From(t, u, X), From(u, s, {})
  PROVE  From(t, s, X)
BY DEF From

-----------------------------------------------------------------------------
(***************************************************************************)
(* How many elements of a sequence are of a kind.                          *)
(***************************************************************************)
Spots(s, K) == {i \in DOMAIN s : s[i] \in K}
Number(s, K) == Cardinality(Spots(s, K))

\* The places of a kind in a sequence are finitely many.
LEMMA NumberTyped ==
  ASSUME NEW S, NEW s \in Seq(S), NEW K
  PROVE  IsFiniteSet(Spots(s, K)) /\ Number(s, K) \in Nat
<1>1. Len(s) \in Nat /\ DOMAIN s = 1..Len(s)
  OBVIOUS
<1>2. IsFiniteSet(1..Len(s)) /\ Spots(s, K) \subseteq 1..Len(s)
  BY <1>1, FS_Interval DEF Spots
<1>3. IsFiniteSet(Spots(s, K))
  BY <1>2, FS_Subset
<1>4. QED
  BY <1>3, FS_CardinalityType DEF Number

\* One more at the end.
LEMMA NumberAppend ==
  ASSUME NEW S, NEW s \in Seq(S), NEW x \in S, NEW K
  PROVE  Number(Append(s, x), K) = IF x \in K THEN Number(s, K) + 1 ELSE Number(s, K)
<1>1. PICK t : t = Append(s, x)
  OBVIOUS
<1>2. PICK n \in Nat : n = Len(s)
  OBVIOUS
<1>3. /\ DOMAIN s = 1..n /\ DOMAIN t = 1..(n + 1) /\ t[n + 1] = x /\ n + 1 \notin 1..n
      /\ \A i \in 1..n : i \in 1..(n + 1) /\ t[i] = s[i]
      /\ \A i \in 1..(n + 1) : i \in 1..n \/ i = n + 1
      /\ n + 1 \in 1..(n + 1)
  BY <1>1, <1>2
<1>4. CASE x \in K
  <2>1. Spots(t, K) = Spots(s, K) \cup {n + 1} /\ n + 1 \notin Spots(s, K)
    BY <1>3, <1>4 DEF Spots
  <2>2. Number(t, K) = Number(s, K) + 1
    BY <2>1, NumberTyped, FS_AddElement DEF Number
  <2>3. QED
    BY <1>1, <1>4, <2>2
<1>5. CASE x \notin K
  <2>1. Spots(t, K) = Spots(s, K)
    BY <1>3, <1>5 DEF Spots
  <2>2. QED
    BY <1>1, <1>5, <2>1 DEF Number
<1>6. QED
  BY <1>4, <1>5

\* The head is gone.
LEMMA NumberTail ==
  ASSUME NEW S, NEW s \in Seq(S), s # <<>>, NEW K
  PROVE  Number(s, K) = IF s[1] \in K THEN Number(Tail(s), K) + 1 ELSE Number(Tail(s), K)
<1>1. PICK t : t = Tail(s)
  OBVIOUS
<1>2. PICK n \in Nat : n = Len(s) - 1
  OBVIOUS
<1>3. /\ DOMAIN s = 1..(n + 1) /\ DOMAIN t = 1..n /\ t \in Seq(S)
      /\ \A i \in 1..n : i + 1 \in 1..(n + 1) /\ i + 1 # 1 /\ t[i] = s[i + 1]
      /\ \A i \in 1..(n + 1) : i = 1 \/ (i - 1 \in 1..n /\ (i - 1) + 1 = i)
      /\ 1 \in 1..(n + 1)
  BY <1>1, <1>2
<1> DEFINE T == Spots(t, K)
           U == Spots(s, K) \ {1}
           f == [i \in T |-> i + 1]
<1>4. \A i \in T : i \in 1..n /\ t[i] \in K
  BY <1>3 DEF Spots
<1>5. f \in Bijection(T, U)
  <2>1. \A i \in T : i + 1 \in U
    BY <1>3, <1>4 DEF Spots
  <2>2. \A i, j \in T : i + 1 = j + 1 => i = j
    BY <1>4
  <2>3. ASSUME NEW u \in U PROVE \E i \in T : i + 1 = u
    <3>1. u \in 1..(n + 1) /\ u # 1 /\ s[u] \in K
      BY <1>3 DEF Spots
    <3>2. u - 1 \in 1..n /\ (u - 1) + 1 = u
      BY <1>3, <3>1
    <3>3. t[u - 1] = s[u]
      BY <1>3, <3>2
    <3>4. QED
      BY <1>3, <3>1, <3>2, <3>3 DEF Spots
  <2> HIDE DEF T, U
  <2>4. f \in Injection(T, U)
    BY <2>1, <2>2 DEF Injection, IsInjective
  <2>5. f \in Surjection(T, U)
    BY <2>1, <2>3 DEF Surjection
  <2>6. QED
    BY <2>4, <2>5 DEF Bijection
<1>6. IsFiniteSet(T) /\ IsFiniteSet(Spots(s, K))
  BY <1>3, NumberTyped
<1> HIDE DEF f
<1> HIDE DEF T
<1>7. Cardinality(T) = Cardinality(U) /\ IsFiniteSet(U)
  <2>1. IsFiniteSet(U)
    BY <1>6, FS_Subset
  <2> HIDE DEF U
  <2>2. Cardinality(T) = Cardinality(U)
    BY <1>5, <1>6, <2>1, FS_Bijection DEF ExistsBijection
  <2>3. QED
    BY <2>1, <2>2
<1>8. CASE s[1] \in K
  <2>1. 1 \notin U /\ Spots(s, K) = U \cup {1}
    BY <1>3, <1>8 DEF Spots
  <2>2. Cardinality(Spots(s, K)) = Cardinality(U) + 1
    BY <1>7, <2>1, FS_AddElement
  <2>3. QED
    BY <1>1, <1>7, <1>8, <2>2 DEF Number, T
<1>9. CASE s[1] \notin K
  <2>1. Spots(s, K) = U
    BY <1>3, <1>9 DEF Spots
  <2>2. QED
    BY <1>1, <1>7, <1>9, <2>1 DEF Number, T
<1>10. QED
  BY <1>8, <1>9

\* Elements that change and stay of their kind, or not.
LEMMA NumberSame ==
  ASSUME NEW s, NEW t, NEW K, NEW L, DOMAIN t = DOMAIN s,
         \A i \in DOMAIN s : t[i] \in L <=> s[i] \in K
  PROVE  Number(t, L) = Number(s, K)
<1>1. Spots(t, L) = Spots(s, K)
  BY DEF Spots
<1>2. QED
  BY <1>1 DEF Number

\* No element of the kind, none counted.
LEMMA NumberNone ==
  ASSUME NEW s, NEW K, ~Has(s, K)
  PROVE  Number(s, K) = 0
<1>1. Spots(s, K) = {}
  BY DEF Spots, Has
<1>2. QED
  BY <1>1, FS_EmptySet DEF Number

-----------------------------------------------------------------------------
(***************************************************************************)
(* One kind ahead of another.                                              *)
(***************************************************************************)
\* Before every element in L is one in K.
Before(s, K, L) == \A i \in DOMAIN s : s[i] \in L => \E j \in DOMAIN s : j < i /\ s[j] \in K

\* Adding an element keeps the order, unless it is in L and nothing is in K.
LEMMA BeforeAppend ==
  ASSUME NEW S, NEW s \in Seq(S), NEW x \in S, NEW K, NEW L,
         Before(s, K, L), x \notin L \/ Has(s, K)
  PROVE  Before(Append(s, x), K, L)
<1>1. PICK t : t = Append(s, x)
  OBVIOUS
<1>2. PICK n \in Nat : n = Len(s)
  OBVIOUS
<1>3. /\ DOMAIN s = 1..n /\ DOMAIN t = 1..(n + 1) /\ t[n + 1] = x
      /\ \A i \in 1..n : i \in 1..(n + 1) /\ t[i] = s[i] /\ i < n + 1
      /\ \A i \in 1..(n + 1) : i \in 1..n \/ i = n + 1
  BY <1>1, <1>2
<1>4. ASSUME NEW i \in DOMAIN t, t[i] \in L
      PROVE  \E j \in DOMAIN t : j < i /\ t[j] \in K
  <2>1. CASE i \in 1..n
    BY <1>3, <1>4, <2>1 DEF Before
  <2>2. CASE i = n + 1
    BY <1>3, <1>4, <2>2 DEF Has
  <2>3. QED
    BY <1>3, <1>4, <2>1, <2>2
<1>5. QED
  BY <1>1, <1>4 DEF Before

\* Nothing in L comes first, and taking the first leaves the order if it is not
\* in K.
LEMMA BeforeTail ==
  ASSUME NEW S, NEW s \in Seq(S), s # <<>>, NEW K, NEW L, Before(s, K, L)
  PROVE  s[1] \notin L /\ (s[1] \notin K => Before(Tail(s), K, L))
<1>1. PICK t : t = Tail(s)
  OBVIOUS
<1>2. PICK n \in Nat : n = Len(s) - 1
  OBVIOUS
<1>3. /\ DOMAIN s = 1..(n + 1) /\ DOMAIN t = 1..n
      /\ \A i \in 1..n : i + 1 \in 1..(n + 1) /\ t[i] = s[i + 1]
      /\ 1 \in 1..(n + 1)
  BY <1>1, <1>2
<1>4. s[1] \notin L
  <2>1. \A j \in 1..(n + 1) : ~(j < 1)
    OBVIOUS
  <2>2. QED
    BY <1>3, <2>1 DEF Before
<1>5. ASSUME s[1] \notin K, NEW i \in DOMAIN t, t[i] \in L
      PROVE  \E j \in DOMAIN t : j < i /\ t[j] \in K
  <2>1. i \in 1..n /\ s[i + 1] \in L
    BY <1>3, <1>5
  <2>2. PICK j \in 1..(n + 1) : j < i + 1 /\ s[j] \in K
    BY <1>3, <2>1 DEF Before
  <2>3. j # 1
    BY <1>5, <2>2
  <2>4. j - 1 \in 1..n /\ (j - 1) + 1 = j /\ j - 1 < i
    BY <2>1, <2>2, <2>3
  <2>5. t[j - 1] = s[j]
    BY <1>3, <2>4
  <2>6. QED
    BY <1>3, <2>2, <2>4, <2>5
<1>6. QED
  BY <1>1, <1>4, <1>5 DEF Before

\* Nothing in L, nothing to be ahead of.
LEMMA BeforeNone ==
  ASSUME NEW s, NEW K, NEW L, ~Has(s, L)
  PROVE  Before(s, K, L)
BY DEF Before, Has

-----------------------------------------------------------------------------
(***************************************************************************)
(* Sets and types.                                                         *)
(***************************************************************************)
\* A set of numbers up to n that is not empty has a least element: counted from
\* n down it is the greatest.
LEMMA MinProperties ==
  ASSUME NEW n \in Nat, NEW S \in SUBSET (1..n), S # {}
  PROVE  Min(S) \in S /\ \A x \in S : Min(S) <= x
<1> DEFINE T == {y \in 1..n : n + 1 - y \in S}
<1>1. \A x \in S : n + 1 - x \in 1..n /\ n + 1 - (n + 1 - x) = x
  OBVIOUS
<1>2. T \in SUBSET (1..n) /\ T # {}
  BY <1>1
<1>3. Max(T) \in T /\ \A y \in T : y <= Max(T)
  <2> HIDE DEF T
  <2>1. QED
    BY <1>2, MaxProperties
<1>4. PICK z \in T : \A y \in T : y <= z
  BY <1>3
<1>5. ASSUME NEW x \in S PROVE n + 1 - z <= x
  <2>1. n + 1 - x \in T
    BY <1>1
  <2>2. n + 1 - x <= z
    BY <1>4, <2>1
  <2>3. QED
    BY <1>1, <2>2
<1>6. \E x \in S : \A y \in S : x <= y
  BY <1>4, <1>5
<1>7. QED
  BY <1>6 DEF Min

\* A sequence that SetToSeqs lists the elements of a finite set with has each of
\* them, once.
LEMMA SetToSeqsProperties ==
  ASSUME NEW S, IsFiniteSet(S), NEW f \in SetToSeqs(S)
  PROVE  /\ f \in Seq(S) /\ (\A x \in S : \E i \in DOMAIN f : f[i] = x)
         /\ \A i, j \in DOMAIN f : f[i] = f[j] => i = j
<1> DEFINE D == 1..Cardinality(S)
<1>1. Cardinality(S) \in Nat
  BY FS_CardinalityType
<1>2. f \in [D -> S] /\ \A i, j \in D : i # j => f[i] # f[j]
  BY DEF SetToSeqs
<1>3. f \in Injection(D, S)
  BY <1>2 DEF Injection, IsInjective
<1>4. IsFiniteSet(D) /\ Cardinality(D) = Cardinality(S)
  BY <1>1, FS_Interval
<1>5. f \in Surjection(D, S)
  BY <1>3, <1>4, FS_Injection
<1>6. \A x \in S : \E i \in D : f[i] = x
  BY <1>5 DEF Surjection
<1>7. f \in Seq(S) /\ DOMAIN f = D
  BY <1>1, <1>2
<1>8. QED
  BY <1>2, <1>6, <1>7

\* The elements of a sequence are finitely many, and those after the first p of
\* them are the elements at the places after p.
LEMMA RangeFacts ==
  ASSUME NEW S, NEW s \in Seq(S)
  PROVE  IsFiniteSet(Range(s)) /\ Range(s) \subseteq S
         /\ \A x : x \in Range(s) <=> \E i \in DOMAIN s : s[i] = x
<1>1. \A x : x \in Range(s) <=> \E i \in DOMAIN s : s[i] = x
  BY DEF Range
<1>2. DOMAIN s = 1..Len(s) /\ Len(s) \in Nat
  OBVIOUS
<1>3. IsFiniteSet(DOMAIN s)
  BY <1>2, FS_Interval
<1>4. s \in Surjection(DOMAIN s, Range(s))
  BY <1>1, <1>2 DEF Surjection
<1>5. IsFiniteSet(Range(s))
  BY <1>3, <1>4, FS_Surjection
<1>6. QED
  BY <1>1, <1>2, <1>5

\* What is in the rest of a sequence are the elements behind the place it is cut at.
LEMMA SuffixFacts ==
  ASSUME NEW S, NEW s \in Seq(S), NEW p \in 0..Len(s)
  PROVE  /\ SubSeq(s, p + 1, Len(s)) \in Seq(S)
         /\ \A x : x \in Range(SubSeq(s, p + 1, Len(s)))
                     <=> \E q \in DOMAIN s : p < q /\ s[q] = x
<1>1. PICK t : t = SubSeq(s, p + 1, Len(s))
  OBVIOUS
<1>2. PICK n \in Nat : n = Len(s)
  OBVIOUS
<1>3. /\ t \in Seq(S) /\ DOMAIN t = 1..(n - p) /\ DOMAIN s = 1..n
      /\ \A j \in 1..(n - p) : t[j] = s[j + p]
  BY <1>1, <1>2
<1>4. \A j \in 1..(n - p) : j + p \in 1..n /\ p < j + p
  BY <1>2
<1>5. \A q \in 1..n : p < q => q - p \in 1..(n - p) /\ (q - p) + p = q
  BY <1>2
<1>6. ASSUME NEW x PROVE x \in Range(t) <=> \E q \in DOMAIN s : p < q /\ s[q] = x
  <2>1. x \in Range(t) <=> \E j \in 1..(n - p) : t[j] = x
    BY <1>3 DEF Range
  <2>2. ASSUME NEW j \in 1..(n - p), t[j] = x
        PROVE  \E q \in DOMAIN s : p < q /\ s[q] = x
    BY <1>3, <1>4, <2>2
  <2>3. ASSUME NEW q \in 1..n, p < q, s[q] = x PROVE \E j \in 1..(n - p) : t[j] = x
    <3>1. t[q - p] = s[(q - p) + p]
      BY <1>3, <1>5, <2>3
    <3>2. QED
      BY <1>5, <2>3, <3>1
  <2>4. QED
    BY <1>3, <2>1, <2>2, <2>3
<1>7. QED
  BY <1>1, <1>3, <1>6

\* A wider type of the elements, a wider type of the sequences.
LEMMA SeqWider ==
  ASSUME NEW S, NEW T, S \subseteq T
  PROVE  Seq(S) \subseteq Seq(T)
<1>1. ASSUME NEW s \in Seq(S) PROVE s \in Seq(T)
  <2>1. s \in [1..Len(s) -> S] /\ Len(s) \in Nat
    BY LenProperties
  <2>2. s \in [1..Len(s) -> T]
    BY <2>1
  <2>3. QED
    BY <2>1, <2>2
<1>2. QED
  BY <1>1

\* The first element of a sequence and the others, all different if they were.
LEMMA HeadTail ==
  ASSUME NEW S, NEW s \in Seq(S), s # <<>>
  PROVE  /\ Head(s) = s[1] /\ 1 \in DOMAIN s /\ Head(s) \in S /\ Tail(s) \in Seq(S)
         /\ \A x : x \in Range(s) <=> x = Head(s) \/ x \in Range(Tail(s))
         /\ (\A i, j \in DOMAIN s : s[i] = s[j] => i = j) =>
              /\ Head(s) \notin Range(Tail(s))
              /\ \A i, j \in DOMAIN Tail(s) : Tail(s)[i] = Tail(s)[j] => i = j
<1>1. PICK t : t = Tail(s)
  OBVIOUS
<1>2. PICK n \in Nat : n = Len(s) - 1
  OBVIOUS
<1>3. /\ DOMAIN s = 1..(n + 1) /\ DOMAIN t = 1..n /\ t \in Seq(S)
      /\ \A i \in 1..n : i + 1 \in 1..(n + 1) /\ i + 1 # 1 /\ t[i] = s[i + 1]
      /\ \A i \in 1..(n + 1) : i = 1 \/ (i - 1 \in 1..n /\ (i - 1) + 1 = i)
      /\ 1 \in 1..(n + 1) /\ Head(s) = s[1] /\ s[1] \in S
  BY <1>1, <1>2
<1>4. ASSUME NEW x PROVE x \in Range(s) <=> x = Head(s) \/ x \in Range(t)
  <2>1. x = Head(s) => x \in Range(s)
    BY <1>3 DEF Range
  <2>2. x \in Range(t) => x \in Range(s)
    BY <1>3 DEF Range
  <2>3. ASSUME NEW i \in 1..(n + 1), x = s[i] PROVE x = Head(s) \/ x \in Range(t)
    <3>1. CASE i = 1
      BY <1>3, <2>3, <3>1
    <3>2. CASE i # 1
      <4>1. i - 1 \in 1..n /\ t[i - 1] = s[(i - 1) + 1] /\ (i - 1) + 1 = i
        BY <1>3, <3>2
      <4>2. QED
        BY <1>3, <2>3, <4>1 DEF Range
    <3>3. QED
      BY <3>1, <3>2
  <2>4. x \in Range(s) => x = Head(s) \/ x \in Range(t)
    BY <1>3, <2>3 DEF Range
  <2>5. QED
    BY <2>1, <2>2, <2>4
<1>5. ASSUME \A i, j \in DOMAIN s : s[i] = s[j] => i = j
      PROVE  /\ Head(s) \notin Range(t)
             /\ \A i, j \in DOMAIN t : t[i] = t[j] => i = j
  <2>1. ASSUME NEW i \in 1..n, t[i] = Head(s) PROVE FALSE
    BY <1>3, <1>5, <2>1
  <2>2. ASSUME NEW i \in 1..n, NEW j \in 1..n, t[i] = t[j] PROVE i = j
    <3>1. i + 1 = j + 1
      BY <1>3, <1>5, <2>2
    <3>2. QED
      BY <3>1
  <2>3. QED
    BY <1>3, <2>1, <2>2 DEF Range
<1>6. QED
  BY <1>1, <1>3, <1>4, <1>5
=============================================================================
