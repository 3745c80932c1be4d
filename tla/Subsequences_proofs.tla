--------------------------- MODULE Subsequences_proofs --------------------------
(***************************************************************************)
(* Facts about Subsequence, for any sequence and any set of its indexes:   *)
(* it has one element for each index, in their order, and no other.        *)
(***************************************************************************)
EXTENDS Subsequences, Functions, FiniteSetTheorems, SequenceTheorems, TLAPS

\* f lists the indexes I in their order.
Lists(f, I) ==
  /\ f \in [1..Cardinality(I) -> I]
  /\ \A m, n \in 1..Cardinality(I) : m < n => f[m] < f[n]
  /\ \A i \in I : \E n \in 1..Cardinality(I) : f[n] = i

-------------------------------------------------------------------------------
(* Ranks. *)

LEMMA RankBounds ==
  ASSUME NEW I \in SUBSET Nat, IsFiniteSet(I), NEW i \in I
  PROVE  Rank(I, i) \in 1..Cardinality(I)
<1> DEFINE J == {j \in I : j <= i}
<1>1. IsFiniteSet(J) /\ Cardinality(J) <= Cardinality(I)
  BY FS_Subset
<1>2. Cardinality(J) \in Nat /\ Cardinality(I) \in Nat
  BY <1>1, FS_CardinalityType
<1>3. i \in J
  OBVIOUS
<1>4. Cardinality(J) # 0
  BY <1>1, <1>3, FS_EmptySet
<1> QED BY <1>1, <1>2, <1>4 DEF Rank

\* A later index has a greater rank: the earlier ones and itself.
LEMMA RankGrows ==
  ASSUME NEW I \in SUBSET Nat, IsFiniteSet(I), NEW i \in I, NEW k \in I, i < k
  PROVE  Rank(I, i) < Rank(I, k)
<1> DEFINE J == {j \in I : j <= i}
           K == {j \in I : j <= k}
<1>1. IsFiniteSet(K) /\ J \in SUBSET K
  <2>1. \A j \in I : j <= i => j <= k
    OBVIOUS
  <2> QED BY <2>1, FS_Subset
<1>2. IsFiniteSet(J) /\ Cardinality(J) <= Cardinality(K) /\ (Cardinality(J) = Cardinality(K) => J = K)
  BY <1>1, FS_Subset
<1>3. Cardinality(J) \in Nat /\ Cardinality(K) \in Nat
  BY <1>1, <1>2, FS_CardinalityType
<1>4. k \in K /\ k \notin J
  OBVIOUS
<1>5. Cardinality(J) # Cardinality(K)
  BY <1>2, <1>4
<1> QED BY <1>2, <1>3, <1>5 DEF Rank

\* Every place is taken: as many places as indexes, and no two share one.
LEMMA RankOnto ==
  ASSUME NEW I \in SUBSET Nat, IsFiniteSet(I), NEW n \in 1..Cardinality(I)
  PROVE  \E i \in I : Rank(I, i) = n
<1> DEFINE c == Cardinality(I)
           f == [i \in I |-> Rank(I, i)]
<1>1. c \in Nat
  BY FS_CardinalityType
<1>2. IsFiniteSet(1..c) /\ Cardinality(1..c) = c
  <2>1. 1 \in Int /\ c \in Int /\ (1 > c => c = 0)
    BY <1>1
  <2>2. IsFiniteSet(1..c) /\ Cardinality(1..c) = IF 1 > c THEN 0 ELSE c - 1 + 1
    BY <2>1, FS_Interval, Zenon
  <2> QED BY <1>1, <2>1, <2>2
<1>3. f \in [I -> 1..c]
  BY RankBounds
<1>4. ASSUME NEW i \in I, NEW k \in I, f[i] = f[k]
      PROVE  i = k
  <2>1. Rank(I, i) \in Nat /\ Rank(I, k) \in Nat /\ i \in Nat /\ k \in Nat
    BY <1>1, RankBounds
  <2>2. ~(i < k) /\ ~(k < i)
    BY <1>4, <2>1, RankGrows
  <2> QED BY <2>1, <2>2
<1> HIDE DEF f
<1>5. f \in Injection(I, 1..c)
  BY <1>3, <1>4 DEF Injection, IsInjective
<1>6. f \in Surjection(I, 1..c)
  BY <1>2, <1>5, FS_Injection
<1>7. \E i \in I : f[i] = n
  BY <1>6 DEF Surjection
<1> QED BY <1>7 DEF f

\* Nth lists the indexes in their order.
LEMMA NthLists ==
  ASSUME NEW I \in SUBSET Nat, IsFiniteSet(I)
  PROVE  Lists([n \in 1..Cardinality(I) |-> Nth(I, n)], I)
<1> DEFINE C == 1..Cardinality(I)
           f == [n \in C |-> Nth(I, n)]
<1>1. \A n \in C : Nth(I, n) \in I /\ Rank(I, Nth(I, n)) = n
  BY RankOnto DEF Nth
<1>2. Cardinality(I) \in Nat
  BY FS_CardinalityType
<1>3. ASSUME NEW m \in C, NEW n \in C, m < n
      PROVE  f[m] < f[n]
  <2>1. /\ f[m] \in I /\ f[n] \in I /\ f[m] \in Nat /\ f[n] \in Nat
        /\ Rank(I, f[m]) = m /\ Rank(I, f[n]) = n
    BY <1>1
  <2>2. f[m] # f[n] /\ ~(f[n] < f[m])
    BY <1>2, <1>3, <2>1, RankGrows
  <2> QED BY <2>1, <2>2
<1>4. ASSUME NEW i \in I
      PROVE  \E n \in C : f[n] = i
  <2> DEFINE n == Rank(I, i)
  <2>1. n \in C
    BY RankBounds
  <2>2. f[n] \in I /\ Rank(I, f[n]) = n /\ f[n] \in Nat /\ i \in Nat
    BY <1>1, <2>1
  <2>3. ~(f[n] < i) /\ ~(i < f[n])
    BY <1>2, <2>1, <2>2, RankGrows
  <2> QED BY <2>1, <2>2, <2>3
<1>5. f \in [C -> I]
  BY <1>1
<1> HIDE DEF f
<1> QED BY <1>3, <1>4, <1>5 DEF Lists, f

-------------------------------------------------------------------------------
(* Subsequences. *)

\* Indexes of a sequence are finitely many numbers.
LEMMA IndexesFinite ==
  ASSUME NEW S, NEW q \in Seq(S), NEW I \in SUBSET (DOMAIN q)
  PROVE  I \in SUBSET Nat /\ IsFiniteSet(I) /\ Cardinality(I) \in Nat /\ Cardinality(I) <= Len(q)
<1>1. Len(q) \in Nat /\ DOMAIN q = 1..Len(q)
  OBVIOUS
<1>2. IsFiniteSet(1..Len(q)) /\ Cardinality(1..Len(q)) = Len(q)
  <2>1. 1 \in Int /\ Len(q) \in Int /\ (1 > Len(q) => Len(q) = 0)
    BY <1>1
  <2>2. IsFiniteSet(1..Len(q)) /\ Cardinality(1..Len(q)) = IF 1 > Len(q) THEN 0 ELSE Len(q) - 1 + 1
    BY <2>1, FS_Interval, Zenon
  <2> QED BY <1>1, <2>1, <2>2
<1>3. IsFiniteSet(I) /\ Cardinality(I) <= Len(q)
  BY <1>1, <1>2, FS_Subset
<1>4. I \in SUBSET Nat
  BY <1>1
<1> QED BY <1>3, <1>4, FS_CardinalityType

\* A subsequence is the original read along an increasing list of all the
\* indexes it keeps: the order stays, no element is added, none comes twice.
LEMMA SubsequenceReads ==
  ASSUME NEW S, NEW q \in Seq(S), NEW I \in SUBSET (DOMAIN q)
  PROVE  /\ Subsequence(q, I) \in Seq(S)
         /\ Len(Subsequence(q, I)) = Cardinality(I)
         /\ \E f : /\ Lists(f, I)
                   /\ Subsequence(q, I) = [n \in 1..Cardinality(I) |-> q[f[n]]]
<1> DEFINE c == Cardinality(I)
           f == [n \in 1..c |-> Nth(I, n)]
<1>1. I \in SUBSET Nat /\ IsFiniteSet(I) /\ c \in Nat
  BY IndexesFinite
<1>2. Lists(f, I)
  BY <1>1, NthLists
<1>3. f \in [1..c -> I]
  BY <1>2 DEF Lists
<1>4. \A i \in I : q[i] \in S
  OBVIOUS
<1>5. Subsequence(q, I) = [n \in 1..c |-> q[f[n]]]
  BY DEF Subsequence
<1> HIDE DEF f, c
<1>6. Subsequence(q, I) \in [1..c -> S]
  BY <1>3, <1>4, <1>5
<1>7. Subsequence(q, I) \in Seq(S) /\ Len(Subsequence(q, I)) = c
  BY <1>1, <1>6
<1> QED BY <1>2, <1>5, <1>7 DEF c

\* Its elements are those at the indexes it keeps.
LEMMA SubsequenceRange ==
  ASSUME NEW S, NEW q \in Seq(S), NEW I \in SUBSET (DOMAIN q)
  PROVE  Range(Subsequence(q, I)) = {q[i] : i \in I}
<1>1. PICK f : /\ Lists(f, I)
               /\ Subsequence(q, I) = [n \in 1..Cardinality(I) |-> q[f[n]]]
  BY SubsequenceReads
<1> QED BY <1>1 DEF Lists, Range

\* Where the original has no element twice, neither has it.
LEMMA SubsequenceInjective ==
  ASSUME NEW S, NEW q \in Seq(S), NEW I \in SUBSET (DOMAIN q),
         \A i, j \in DOMAIN q : q[i] = q[j] => i = j
  PROVE  \A m, n \in DOMAIN Subsequence(q, I) :
           Subsequence(q, I)[m] = Subsequence(q, I)[n] => m = n
<1>1. PICK f : /\ Lists(f, I)
               /\ Subsequence(q, I) = [n \in 1..Cardinality(I) |-> q[f[n]]]
  BY SubsequenceReads
<1>2. ASSUME NEW m \in 1..Cardinality(I), NEW n \in 1..Cardinality(I), f[m] = f[n]
      PROVE  m = n
  <2>1. f[m] \in Nat /\ f[n] \in Nat /\ m \in Int /\ n \in Int
    BY <1>1, IndexesFinite DEF Lists
  <2>2. ~(m < n) /\ ~(n < m)
    BY <1>1, <1>2, <2>1 DEF Lists
  <2> QED BY <2>1, <2>2
<1> QED BY <1>1, <1>2 DEF Lists

\* How many elements of q are in A.
Num(q, A) == Cardinality({n \in DOMAIN q : q[n] \in A})

\* It has as many elements of a kind as the original has at its indexes.
LEMMA SubsequenceCounts ==
  ASSUME NEW S, NEW q \in Seq(S), NEW I \in SUBSET (DOMAIN q), NEW A
  PROVE  Num(Subsequence(q, I), A) = Cardinality({i \in I : q[i] \in A})
<1> DEFINE r == Subsequence(q, I)
           N == {n \in DOMAIN r : r[n] \in A}
           J == {i \in I : q[i] \in A}
<1>1. PICK f : Lists(f, I) /\ r = [n \in 1..Cardinality(I) |-> q[f[n]]]
  BY SubsequenceReads
<1>2. I \in SUBSET Nat /\ IsFiniteSet(I) /\ Cardinality(I) \in Nat
  BY IndexesFinite
<1>3. IsFiniteSet(J)
  BY <1>2, FS_Subset
<1>4. DOMAIN r = 1..Cardinality(I) /\ \A n \in 1..Cardinality(I) : r[n] = q[f[n]]
  BY <1>1
<1> HIDE DEF r
<1> DEFINE g == [n \in N |-> f[n]]
<1>5. g \in [N -> J]
  BY <1>1, <1>4 DEF Lists
<1>6. \A m, n \in N : g[m] = g[n] => m = n
  <2> SUFFICES ASSUME NEW m \in N, NEW n \in N, f[m] = f[n] PROVE m = n
    OBVIOUS
  <2>1. m \in 1..Cardinality(I) /\ n \in 1..Cardinality(I)
    BY <1>4
  <2>2. f[m] \in Nat /\ f[n] \in Nat /\ m \in Int /\ n \in Int
    BY <1>1, <1>2, <2>1 DEF Lists
  <2>3. ~(m < n) /\ ~(n < m)
    BY <1>1, <2>1, <2>2 DEF Lists
  <2> QED BY <2>2, <2>3
<1>7. \A j \in J : \E n \in N : g[n] = j
  BY <1>1, <1>4 DEF Lists
<1> HIDE DEF N, J, g
<1>8. g \in Injection(N, J) /\ g \in Surjection(N, J)
  BY <1>5, <1>6, <1>7 DEF Injection, IsInjective, Surjection
<1>9. Cardinality(N) = Cardinality(J)
  BY <1>3, <1>8, FS_Injection
<1> QED BY <1>9 DEF N, J, r, Num
===============================================================================
