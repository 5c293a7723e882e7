------------------------------ MODULE ListLemmas -------------------------------
(***************************************************************************)
(* Least elements, what Lists picks from a list, sums and remainders. The  *)
(* least element of a set takes the place of induction on a formula in     *)
(* these proofs: what is to hold of every number, or of every subset, is   *)
(* shown of the set of those it holds of.                                  *)
(***************************************************************************)
EXTENDS Lists, FiniteSetsExt, FiniteSetTheorems, SequenceTheorems, NaturalsInduction,
        WellFoundedInduction, TLAPS

\* Every non-empty set of naturals has a least element.
LEMMA LeastNatural ==
  ASSUME NEW T \in SUBSET Nat, T # {}
  PROVE  \E m \in T : \A k \in T : m <= k
  <1> DEFINE R == {ss \in Nat \X Nat : ss[1] < ss[2]}
  <1>1. IsWellFoundedOn(R, Nat)
    BY NatLessThanWellFounded DEF OpToRel
  <1>2. \A k, m \in Nat : k < m => <<k, m>> \in R
    OBVIOUS
  <1> HIDE DEF R
  <1>3. T \subseteq Nat /\ T # {}
    OBVIOUS
  <1>4. PICK m \in T : \A k \in T : ~ (<<k, m>> \in R)
    BY <1>1, <1>3, WFMin, Zenon
  <1>5. \A k \in T : ~ (k < m)
    BY <1>2, <1>4
  <1> QED BY <1>5

\* So has its Min.
LEMMA MinIsLeast ==
  ASSUME NEW T \in SUBSET Nat, T # {}
  PROVE  Min(T) \in T /\ \A k \in T : Min(T) <= k
  <1>1. \E m \in T : \A k \in T : m <= k
    BY LeastNatural
  <1> QED BY <1>1 DEF Min

-------------------------------------------------------------------------------
(* Lists: one given item by item, and one followed by one that grows.      *)

\* What is given at every place from 1 to n is a list of n items.
LEMMA ListOfItems ==
  ASSUME NEW S, NEW n \in Nat, NEW s,
         s = [i \in 1 .. n |-> s[i]], \A i \in 1 .. n : s[i] \in S
  PROVE  s \in Seq(S) /\ Len(s) = n
  <1>1. s \in [1 .. n -> S]
    OBVIOUS
  <1>2. s \in Seq(S)
    BY <1>1, SeqDef
  <1> QED BY <1>1, <1>2, LenProperties

\* To add at the end of the second of two lists is to add at the end of both.
LEMMA AppendAfter ==
  ASSUME NEW S, NEW p \in Seq(S), NEW q \in Seq(S), NEW x \in S
  PROVE  p \o Append(q, x) = Append(p \o q, x)
  <1>1. <<x>> \in Seq(S)
    OBVIOUS
  <1>2. Append(q, x) = q \o <<x>>
    BY AppendIsConcat
  <1>3. p \o q \in Seq(S)
    BY ConcatProperties
  <1>4. Append(p \o q, x) = (p \o q) \o <<x>>
    BY <1>3, AppendIsConcat
  <1>5. (p \o q) \o <<x>> = p \o (q \o <<x>>)
    BY <1>1, ConcatAssociative
  <1> QED BY <1>2, <1>4, <1>5

-------------------------------------------------------------------------------
(* Pick: the k-th position of a set of positions.                          *)

\* Counting the positions of K up to each of them numbers K from 1 to its size.
LEMMA NthType ==
  ASSUME NEW n \in Nat, NEW K \in SUBSET (1 .. n), NEW k \in 1 .. Cardinality(K)
  PROVE  /\ Nth(K, k) \in K
         /\ Cardinality({j \in K : j <= Nth(K, k)}) = k
  <1> DEFINE Below(i) == {j \in K : j <= i}
             rank == [i \in K |-> Cardinality(Below(i))]
             c == Cardinality(K)
  <1>1. IsFiniteSet(K) /\ c \in Nat
    <2>1. IsFiniteSet(1 .. n)
      BY FS_Interval
    <2>2. IsFiniteSet(K)
      BY <2>1, FS_Subset
    <2> QED BY <2>2, FS_CardinalityType
  <1>2. ASSUME NEW i \in K
        PROVE  /\ IsFiniteSet(Below(i))
               /\ Cardinality(Below(i)) \in 1 .. c
    <2>1. IsFiniteSet(Below(i)) /\ Cardinality(Below(i)) <= c
      BY <1>1, FS_Subset
    <2>2. Cardinality(Below(i)) \in Nat
      BY <2>1, FS_CardinalityType
    <2>3. i \in Below(i)
      OBVIOUS
    <2>4. Cardinality(Below(i)) # 0
      BY <2>1, <2>3, FS_EmptySet
    <2> QED BY <1>1, <2>1, <2>2, <2>4
  <1>3. ASSUME NEW i \in K, NEW j \in K, i < j
        PROVE  Cardinality(Below(i)) # Cardinality(Below(j))
    <2>1. \A k_ \in K : k_ <= i => k_ <= j
      BY <1>3
    <2>2. Below(i) \in SUBSET Below(j)
      BY <2>1
    <2>3. j <= j /\ ~ (j <= i)
      BY <1>3
    <2>4. Below(i) # Below(j)
      BY <2>3
    <2> QED BY <1>2, <2>2, <2>4, FS_Subset
  <1>4. rank \in Injection(K, 1 .. c)
    <2>1. rank \in [K -> 1 .. c]
      BY <1>2
    <2>2. \A i, j \in K : i < j \/ j < i \/ i = j
      OBVIOUS
    <2>3. \A i, j \in K : rank[i] = rank[j] => i = j
      BY <1>3, <2>2
    <2> QED BY <2>1, <2>3 DEF Injection, IsInjective
  <1>5. IsFiniteSet(1 .. c) /\ Cardinality(1 .. c) = c
    BY <1>1, FS_Interval
  <1>6. rank \in Surjection(K, 1 .. c)
    <2> DEFINE I == 1 .. c
    <2>1. rank \in Injection(K, I) /\ IsFiniteSet(I) /\ Cardinality(K) = Cardinality(I)
      BY <1>4, <1>5
    <2> HIDE DEF I, rank
    <2>2. rank \in Surjection(K, I)
      BY <2>1, FS_Injection
    <2> QED BY <2>2 DEF I
  <1>7. \E i \in K : rank[i] = k
    BY <1>6 DEF Surjection
  <1> QED BY <1>7 DEF Nth

\* They are numbered in their order, and none is left out.
LEMMA NthOrder ==
  ASSUME NEW n \in Nat, NEW K \in SUBSET (1 .. n)
  PROVE  /\ \A k, l \in 1 .. Cardinality(K) : k < l => Nth(K, k) < Nth(K, l)
         /\ \A i \in K : \E k \in 1 .. Cardinality(K) : Nth(K, k) = i
  <1> DEFINE Below(i) == {j \in K : j <= i}
             c == Cardinality(K)
  <1>1. IsFiniteSet(K) /\ c \in Nat /\ \A i \in K : i \in Nat
    <2>1. IsFiniteSet(1 .. n)
      BY FS_Interval
    <2>2. IsFiniteSet(K)
      BY <2>1, FS_Subset
    <2> QED BY <2>2, FS_CardinalityType
  <1>2. ASSUME NEW i, NEW j \in K, i \in Nat, j <= i
        PROVE  /\ IsFiniteSet(Below(i)) /\ Cardinality(Below(i)) \in 1 .. c
               /\ Cardinality(Below(j)) <= Cardinality(Below(i))
               /\ i \in K /\ i # j => Cardinality(Below(j)) # Cardinality(Below(i))
    <2>1. IsFiniteSet(Below(i)) /\ Cardinality(Below(i)) <= c
      BY <1>1, FS_Subset
    <2>2. Cardinality(Below(i)) \in Nat
      BY <2>1, FS_CardinalityType
    <2>3. j \in Below(i)
      BY <1>2
    <2>4. Cardinality(Below(i)) # 0
      BY <2>1, <2>3, FS_EmptySet
    <2>5. Below(j) \in SUBSET Below(i)
      <3>1. \A x \in K : x <= j => x <= i
        BY <1>1, <1>2
      <3> QED BY <3>1
    <2>6. Cardinality(Below(j)) <= Cardinality(Below(i))
      BY <2>1, <2>5, FS_Subset
    <2>7. ASSUME i \in K, i # j PROVE Below(j) # Below(i)
      <3>1. i \in Below(i) /\ ~ (i <= j)
        BY <1>1, <1>2, <2>7
      <3> QED BY <3>1
    <2> QED BY <2>1, <2>2, <2>4, <2>5, <2>6, <2>7, FS_Subset
  <1>3. \A k \in 1 .. c : Nth(K, k) \in K /\ Cardinality(Below(Nth(K, k))) = k
    BY NthType
  <1> HIDE DEF Below, c
  <1>4. ASSUME NEW k \in 1 .. c, NEW l \in 1 .. c, k < l
        PROVE  Nth(K, k) < Nth(K, l)
    <2>1. Nth(K, k) \in Nat /\ Nth(K, l) \in Nat
      BY <1>1, <1>3
    <2>2. ASSUME Nth(K, l) <= Nth(K, k) PROVE l <= k
      BY <1>2, <1>3, <2>1, <2>2
    <2> QED BY <1>1, <1>4, <2>1, <2>2
  <1>5. ASSUME NEW i \in K
        PROVE  \E k \in 1 .. c : Nth(K, k) = i
    <2> DEFINE k == Cardinality(Below(i))
    <2>1. k \in 1 .. c
      <3>1. i \in Nat /\ i <= i
        BY <1>1
      <3> QED BY <1>2, <3>1
    <2>2. Nth(K, k) \in K /\ Cardinality(Below(Nth(K, k))) = k
      BY <1>3, <2>1
    <2> HIDE DEF k
    <2>3. Nth(K, k) \in Nat /\ i \in Nat /\ (Nth(K, k) <= i \/ i <= Nth(K, k))
      <3>1. Nth(K, k) \in Nat /\ i \in Nat
        BY <1>1, <2>2
      <3> QED BY <3>1
    <2>4. Nth(K, k) = i
      BY <1>1, <1>2, <2>2, <2>3 DEF k
    <2> QED BY <2>1, <2>4
  <1> QED BY <1>4, <1>5 DEF c

\* Of a set P of positions, as many are left as K has of them.
LEMMA PickCount ==
  ASSUME NEW n \in Nat, NEW K \in SUBSET (1 .. n), NEW P \in SUBSET (1 .. n)
  PROVE  Cardinality({k \in 1 .. Cardinality(K) : Nth(K, k) \in P}) = Cardinality(P \cap K)
  <1> DEFINE Q == {k \in 1 .. Cardinality(K) : Nth(K, k) \in P}
             f == [k \in Q |-> Nth(K, k)]
  <1>1. IsFiniteSet(K) /\ Cardinality(K) \in Nat
    <2>1. IsFiniteSet(1 .. n)
      BY FS_Interval
    <2>2. IsFiniteSet(K)
      BY <2>1, FS_Subset
    <2> QED BY <2>2, FS_CardinalityType
  <1>2. \A k \in 1 .. Cardinality(K) : Nth(K, k) \in K
    BY NthType
  <1>3. \A k, l \in 1 .. Cardinality(K) : Nth(K, k) = Nth(K, l) => k = l
    <2> SUFFICES ASSUME NEW k \in 1 .. Cardinality(K), NEW l \in 1 .. Cardinality(K),
                        Nth(K, k) = Nth(K, l)
                 PROVE  k = l
      OBVIOUS
    <2>1. /\ Cardinality({j \in K : j <= Nth(K, k)}) = k
          /\ Cardinality({j \in K : j <= Nth(K, l)}) = l
      BY NthType
    <2> QED BY <2>1
  <1>4. f \in Bijection(Q, P \cap K)
    <2>1. f \in [Q -> P \cap K]
      BY <1>2
    <2>2. f \in Injection(Q, P \cap K)
      BY <1>3, <2>1 DEF Injection, IsInjective
    <2>3. \A i \in P \cap K : \E k \in Q : f[k] = i
      BY NthOrder
    <2>4. f \in Surjection(Q, P \cap K)
      BY <2>1, <2>3 DEF Surjection
    <2> QED BY <2>2, <2>4 DEF Bijection
  <1>5. IsFiniteSet(Q)
    <2>1. Q \in SUBSET (1 .. Cardinality(K)) /\ IsFiniteSet(1 .. Cardinality(K))
      BY <1>1, FS_Interval
    <2> HIDE DEF Q
    <2> QED BY <2>1, FS_Subset
  <1>6. ExistsBijection(Q, P \cap K)
    BY <1>4 DEF ExistsBijection
  <1> HIDE DEF Q
  <1>7. Cardinality(P \cap K) = Cardinality(Q)
    BY <1>5, <1>6, FS_Bijection
  <1> QED BY <1>7 DEF Q

\* Picking positions of a list keeps its type, and takes each position once.
LEMMA PickType ==
  ASSUME NEW S, NEW s \in Seq(S), NEW K \in SUBSET (1 .. Len(s))
  PROVE  /\ Pick(s, K) \in Seq(S)
         /\ \A k \in DOMAIN Pick(s, K) : Nth(K, k) \in K /\ Pick(s, K)[k] = s[Nth(K, k)]
         /\ \A k, l \in DOMAIN Pick(s, K) : Nth(K, k) = Nth(K, l) => k = l
  <1>1. Cardinality(K) \in Nat
    <2>1. Len(s) \in Nat
      OBVIOUS
    <2>2. IsFiniteSet(1 .. Len(s))
      BY <2>1, FS_Interval
    <2>3. IsFiniteSet(K)
      BY <2>2, FS_Subset
    <2> QED BY <2>3, FS_CardinalityType
  <1>2. ASSUME NEW k \in 1 .. Cardinality(K)
        PROVE  Nth(K, k) \in K /\ Cardinality({j \in K : j <= Nth(K, k)}) = k
    <2>1. Len(s) \in Nat
      OBVIOUS
    <2> QED BY <2>1, NthType
  <1>3. \A k \in 1 .. Cardinality(K) : s[Nth(K, k)] \in S
    <2>1. \A i \in 1 .. Len(s) : s[i] \in S
      OBVIOUS
    <2> QED BY <1>2, <2>1
  <1>4. Pick(s, K) \in Seq(S)
    BY <1>1, <1>3, IsASeq DEF Pick
  <1>5. DOMAIN Pick(s, K) = 1 .. Cardinality(K)
    BY DEF Pick
  <1>6. \A k \in DOMAIN Pick(s, K) : Nth(K, k) \in K /\ Pick(s, K)[k] = s[Nth(K, k)]
    BY <1>2, <1>5 DEF Pick
  <1>7. ASSUME NEW k \in DOMAIN Pick(s, K), NEW l \in DOMAIN Pick(s, K),
               Nth(K, k) = Nth(K, l)
        PROVE  k = l
    <2>1. /\ Cardinality({j \in K : j <= Nth(K, k)}) = k
          /\ Cardinality({j \in K : j <= Nth(K, l)}) = l
      BY <1>2, <1>5
    <2> QED BY <2>1, <1>7
  <1> QED BY <1>4, <1>6, <1>7

-------------------------------------------------------------------------------
(* Induction, on sets instead of formulas.                                 *)

\* A set of naturals with 0 and with the next number of each of its own is all of them.
LEMMA NatGrows ==
  ASSUME NEW G \in SUBSET Nat, 0 \in G, \A n \in G : n + 1 \in G
  PROVE  G = Nat
  <1> SUFFICES ASSUME Nat \ G # {} PROVE FALSE
    OBVIOUS
  <1>1. PICK m \in Nat \ G : \A k \in Nat \ G : m <= k
    BY LeastNatural
  <1>2. m # 0 /\ m - 1 \in Nat
    BY <1>1
  <1>3. m - 1 \in G
    BY <1>1, <1>2
  <1> QED BY <1>1, <1>2, <1>3

\* A set of subsets of S with {}, and with each set that becomes one of its own whichever
\* element it loses, has every subset.
LEMMA SetShrinks ==
  ASSUME NEW S, IsFiniteSet(S), NEW G \in SUBSET (SUBSET S), {} \in G,
         \A T \in SUBSET S : T # {} /\ (\A x \in T : T \ {x} \in G) => T \in G
  PROVE  G = SUBSET S
  <1> SUFFICES ASSUME (SUBSET S) \ G # {} PROVE FALSE
    OBVIOUS
  <1> DEFINE Sizes == {Cardinality(T) : T \in (SUBSET S) \ G}
  <1>1. \A T \in SUBSET S : IsFiniteSet(T) /\ Cardinality(T) \in Nat
    BY FS_Subset, FS_CardinalityType
  <1>2. Sizes \in SUBSET Nat /\ Sizes # {}
    BY <1>1
  <1>3. PICK m \in Sizes : \A k \in Sizes : m <= k
    BY <1>2, LeastNatural
  <1>4. PICK T \in (SUBSET S) \ G : m = Cardinality(T)
    BY <1>3
  <1>5. ASSUME NEW x \in T PROVE T \ {x} \in G
    <2>1. Cardinality(T \ {x}) = m - 1 /\ m \in Nat
      BY <1>1, <1>4, FS_RemoveElement
    <2>2. ~ (Cardinality(T \ {x}) \in Sizes)
      BY <1>3, <2>1
    <2> QED BY <2>2
  <1>6. T # {}
    OBVIOUS
  <1>7. T \in G
    BY <1>5, <1>6
  <1> QED BY <1>7

\* So does a set with each of its own after one more element.
LEMMA SetGrows ==
  ASSUME NEW S, IsFiniteSet(S), NEW G \in SUBSET (SUBSET S), {} \in G,
         \A T \in G : \A x \in S \ T : T \cup {x} \in G
  PROVE  G = SUBSET S
  <1>1. ASSUME NEW T \in SUBSET S, T # {}, \A x \in T : T \ {x} \in G
        PROVE  T \in G
    <2>1. PICK x \in T : TRUE
      BY <1>1
    <2>2. T \ {x} \in G /\ x \in S \ (T \ {x}) /\ (T \ {x}) \cup {x} = T
      BY <1>1, <2>1
    <2> QED BY <2>2
  <1> QED BY <1>1, SetShrinks

-------------------------------------------------------------------------------
(* Recursion: the functions that the definitions choose exist.             *)

\* The order in which a fold takes the elements of a set, and what it is.
Chooses(ch, S) == \A T \in SUBSET S : T # {} => ch[T] \in T

IsFold(g, S, base, step, ch) ==
  \A T \in SUBSET S : g[T] = IF T = {} THEN base ELSE step[<<ch[T], g[T \ {ch[T]}]>>]

\* A fold over a finite set exists.
LEMMA FoldExists ==
  ASSUME NEW S, IsFiniteSet(S), NEW V, NEW base \in V, NEW step \in [S \X V -> V],
         NEW ch, Chooses(ch, S)
  PROVE  \E g \in [SUBSET S -> V] : IsFold(g, S, base, step, ch)
  <1> USE DEF Chooses, IsFold
  <1> DEFINE Up(n) == {T \in SUBSET S : Cardinality(T) <= n}
             Good(g, n) == \A T \in Up(n) :
               g[T] = IF T = {} THEN base ELSE step[<<ch[T], g[T \ {ch[T]}]>>]
             Sizes == {n \in Nat : \E g \in [SUBSET S -> V] : Good(g, n)}
  <1>1. \A T \in SUBSET S : IsFiniteSet(T) /\ Cardinality(T) \in Nat
    BY FS_Subset, FS_CardinalityType
  <1>2. \A T \in SUBSET S : T # {} => Cardinality(T \ {ch[T]}) = Cardinality(T) - 1
    BY <1>1, FS_RemoveElement
  <1>3. 0 \in Sizes
    <2>1. [T \in SUBSET S |-> base] \in [SUBSET S -> V]
      OBVIOUS
    <2>2. \A T \in Up(0) : T = {}
      BY <1>1, FS_EmptySet
    <2> QED BY <2>1, <2>2
  <1>4. ASSUME NEW n \in Sizes PROVE n + 1 \in Sizes
    <2>1. PICK g \in [SUBSET S -> V] : Good(g, n)
      OBVIOUS
    <2> DEFINE h == [T \in SUBSET S |-> IF T = {} THEN base
                                        ELSE step[<<ch[T], g[T \ {ch[T]}]>>]]
    <2>2. h \in [SUBSET S -> V]
      <3> SUFFICES ASSUME NEW T \in SUBSET S, T # {}
                   PROVE  step[<<ch[T], g[T \ {ch[T]}]>>] \in V
        OBVIOUS
      <3>1. ch[T] \in S /\ T \ {ch[T]} \in SUBSET S
        OBVIOUS
      <3>2. g[T \ {ch[T]}] \in V
        BY <3>1
      <3> QED BY <3>1, <3>2
    <2>3. \A T \in Up(n) : h[T] = g[T]
      BY <2>1
    <2>4. Good(h, n + 1)
      <3> SUFFICES ASSUME NEW T \in SUBSET S, Cardinality(T) <= n + 1, T # {}
                   PROVE  h[T] = step[<<ch[T], h[T \ {ch[T]}]>>]
        OBVIOUS
      <3>1. T \ {ch[T]} \in Up(n)
        BY <1>1, <1>2
      <3>2. h[T \ {ch[T]}] = g[T \ {ch[T]}]
        BY <2>3, <3>1
      <3>3. h[T] = step[<<ch[T], g[T \ {ch[T]}]>>]
        OBVIOUS
      <3> HIDE DEF h
      <3> QED BY <3>2, <3>3
    <2> HIDE DEF h, Good
    <2> QED BY <2>2, <2>4
  <1>0. Sizes \in SUBSET Nat
    OBVIOUS
  <1> HIDE DEF Sizes
  <1>5. Sizes = Nat
    BY <1>0, <1>3, <1>4, NatGrows
  <1>6. PICK g \in [SUBSET S -> V] : Good(g, Cardinality(S))
    BY <1>1, <1>5 DEF Sizes
  <1>7. Up(Cardinality(S)) = SUBSET S
    BY FS_Subset, <1>1
  <1>8. \A T \in SUBSET S : g[T] = IF T = {} THEN base ELSE step[<<ch[T], g[T \ {ch[T]}]>>]
    BY <1>6, <1>7
  <1> QED BY <1>8

\* A function on the naturals whose values come from the one before them.
IsRecursion(g, base, step) ==
  \A n \in Nat : g[n] = IF n = 0 THEN base ELSE step[<<n, g[n - 1]>>]

\* It exists.
LEMMA RecursionExists ==
  ASSUME NEW V, NEW base \in V, NEW step \in [Nat \X V -> V]
  PROVE  \E g \in [Nat -> V] : IsRecursion(g, base, step)
  <1> USE DEF IsRecursion
  <1> DEFINE Good(g, n) == \A k \in 0 .. n :
               g[k] = IF k = 0 THEN base ELSE step[<<k, g[k - 1]>>]
             Sizes == {n \in Nat : \E g \in [Nat -> V] : Good(g, n)}
  <1>1. 0 \in Sizes
    <2>1. [k \in Nat |-> base] \in [Nat -> V] /\ Good([k \in Nat |-> base], 0)
      OBVIOUS
    <2> QED BY <2>1
  <1>2. ASSUME NEW n \in Sizes PROVE n + 1 \in Sizes
    <2>1. PICK g \in [Nat -> V] : Good(g, n)
      OBVIOUS
    <2> DEFINE h == [k \in Nat |-> IF k = 0 THEN base ELSE step[<<k, g[k - 1]>>]]
    <2>2. h \in [Nat -> V]
      OBVIOUS
    <2>3. \A k \in 0 .. n : h[k] = g[k]
      BY <2>1
    <2>4. \A k \in 0 .. n + 1 : h[k] = IF k = 0 THEN base ELSE step[<<k, g[k - 1]>>]
      OBVIOUS
    <2>5. Good(h, n + 1)
      <3> SUFFICES ASSUME NEW k \in 0 .. n + 1
                   PROVE  h[k] = IF k = 0 THEN base ELSE step[<<k, h[k - 1]>>]
        OBVIOUS
      <3>1. k # 0 => k - 1 \in 0 .. n
        OBVIOUS
      <3>2. k # 0 => h[k - 1] = g[k - 1]
        BY <2>3, <3>1
      <3> HIDE DEF h
      <3> QED BY <2>4, <3>2
    <2> HIDE DEF h, Good
    <2> QED BY <2>2, <2>5
  <1>0. Sizes \in SUBSET Nat
    OBVIOUS
  <1> HIDE DEF Sizes
  <1>3. Sizes = Nat
    BY <1>0, <1>1, <1>2, NatGrows
  <1>4. \A n \in Nat : \E g \in [Nat -> V] : Good(g, n)
    BY <1>3 DEF Sizes
  <1> DEFINE G == [n \in Nat |-> CHOOSE g \in [Nat -> V] : Good(g, n)]
  <1>5. \A n \in Nat : G[n] \in [Nat -> V] /\ Good(G[n], n)
    BY <1>4
  <1> DEFINE Same == {k \in Nat : \A m, n \in Nat : k <= m /\ k <= n => G[m][k] = G[n][k]}
  <1> HIDE DEF G
  <1>13. \A m \in Nat : G[m][0] = base
    <2> TAKE m \in Nat
    <2>1. 0 \in 0 .. m /\ Good(G[m], m)
      BY <1>5
    <2> QED BY <2>1
  <1>6. 0 \in Same
    BY <1>13
  <1>7. ASSUME NEW k \in Same PROVE k + 1 \in Same
    <2> SUFFICES ASSUME NEW m \in Nat, NEW n \in Nat, k + 1 <= m, k + 1 <= n
                 PROVE  G[m][k + 1] = G[n][k + 1]
      OBVIOUS
    <2>1. G[m][k + 1] = step[<<k + 1, G[m][k]>>] /\ G[n][k + 1] = step[<<k + 1, G[n][k]>>]
      BY <1>5
    <2>2. G[m][k] = G[n][k]
      OBVIOUS
    <2> QED BY <2>1, <2>2
  <1>12. Same \in SUBSET Nat
    OBVIOUS
  <1> HIDE DEF Same
  <1>8. Same = Nat
    BY <1>6, <1>7, <1>12, NatGrows
  <1> DEFINE H == [n \in Nat |-> G[n][n]]
             F == [n \in Nat |-> IF n = 0 THEN base ELSE step[<<n, H[n - 1]>>]]
  <1>9. H \in [Nat -> V]
    BY <1>5
  <1>10. ASSUME NEW n \in Nat PROVE H[n] = F[n]
    <2>1. CASE n = 0
      BY <1>13, <2>1
    <2>2. CASE n # 0
      <3>1. n - 1 \in Nat /\ G[n][n] = step[<<n, G[n][n - 1]>>]
        BY <1>5, <2>2
      <3>2. G[n][n - 1] = G[n - 1][n - 1]
        BY <1>8, <3>1 DEF Same
      <3> QED BY <2>2, <3>1, <3>2
    <2> QED BY <2>1, <2>2
  <1> HIDE DEF H
  <1> QED BY <1>9, <1>10

-------------------------------------------------------------------------------
(* Sums: SumFunctionOnSet of the community module Functions.               *)

\* The function that the definition of a sum chooses.
IsSum(g, S, f) ==
  /\ SumFunctionOnSet(f, S) = g[S]
  /\ \A T \in SUBSET S :
       g[T] = IF T = {} THEN 0 ELSE f[CHOOSE x \in T : TRUE] + g[T \ {CHOOSE x \in T : TRUE}]

\* The sum over a set is what is chosen from it and the sum over the rest, and the sum
\* over every subset is found on the way.
LEMMA SumDef ==
  ASSUME NEW S, IsFiniteSet(S), NEW f, \A x \in S : f[x] \in Int
  PROVE  \E g \in [SUBSET S -> Int] : IsSum(g, S, f)
  <1> DEFINE ch == [T \in SUBSET S |-> CHOOSE x \in T : TRUE]
             step == [p \in S \X Int |-> f[p[1]] + p[2]]
             Is(g) == g = [T \in SUBSET S |->
                             IF T = {} THEN 0
                             ELSE f[CHOOSE x \in T : TRUE] + g[T \ {CHOOSE x \in T : TRUE}]]
  <1>1. \A T \in SUBSET S : T # {} => ch[T] \in T
    OBVIOUS
  <1>2. step \in [S \X Int -> Int]
    OBVIOUS
  <1>3. SumFunctionOnSet(f, S) = (CHOOSE g : Is(g))[S]
    BY DEF SumFunctionOnSet, FoldFunctionOnSet, MapThenFoldSet
  <1>4. \A x \in S, v \in Int : step[<<x, v>>] = f[x] + v
    OBVIOUS
  <1>5. \A T \in SUBSET S : ch[T] = CHOOSE x \in T : TRUE
    OBVIOUS
  <1> HIDE DEF ch, step
  <1>6. PICK h \in [SUBSET S -> Int] :
          IsFold(h, S, 0, step, ch)
    <2>1. 0 \in Int
      OBVIOUS
    <2> QED BY <1>1, <1>2, <2>1, FoldExists, Zenon DEF Chooses
  <1>7. ASSUME NEW T \in SUBSET S
        PROVE  h[T] = IF T = {} THEN 0
                      ELSE f[CHOOSE x \in T : TRUE] + h[T \ {CHOOSE x \in T : TRUE}]
    <2>1. h[T] = IF T = {} THEN 0 ELSE step[<<ch[T], h[T \ {ch[T]}]>>]
      BY <1>6, Zenon DEF IsFold
    <2>2. T # {} => ch[T] \in S /\ h[T \ {ch[T]}] \in Int
      BY <1>1
    <2> QED BY <1>4, <1>5, <2>1, <2>2
  <1>8. Is(h)
    <2> DEFINE k == [T \in SUBSET S |-> IF T = {} THEN 0
                       ELSE f[CHOOSE x \in T : TRUE] + h[T \ {CHOOSE x \in T : TRUE}]]
    <2>1. \A T \in SUBSET S : k[T] = h[T]
      BY <1>7
    <2>2. k = [T \in SUBSET S |-> k[T]] /\ h = [T \in SUBSET S |-> h[T]]
      OBVIOUS
    <2> HIDE DEF k
    <2>3. h = k
      BY <2>1, <2>2
    <2> QED BY <2>3 DEF k
  <1> DEFINE g == CHOOSE g : Is(g)
  <1>9. Is(g)
    <2> HIDE DEF Is
    <2> QED BY <1>8
  <1>10. \A T \in SUBSET S :
           g[T] = IF T = {} THEN 0
                  ELSE f[CHOOSE x \in T : TRUE] + g[T \ {CHOOSE x \in T : TRUE}]
    <2> HIDE DEF g
    <2> QED BY <1>9
  <1>11. g \in [SUBSET S -> Int]
    <2> HIDE DEF g, Is
    <2> DEFINE G == {T \in SUBSET S : g[T] \in Int}
    <2>7. \A T \in SUBSET S : g[T] = IF T = {} THEN 0 ELSE f[ch[T]] + g[T \ {ch[T]}]
      BY <1>5, <1>10, Zenon
    <2>8. {} \in SUBSET S
      OBVIOUS
    <2>9. g[{}] = 0
      BY <2>7, <2>8, Zenon
    <2>1. {} \in G
      BY <2>8, <2>9
    <2>2. ASSUME NEW T \in SUBSET S, T # {}, \A x \in T : T \ {x} \in G
          PROVE  T \in G
      <3>1. ch[T] \in T /\ ch[T] \in S
        BY <1>1, <2>2
      <3>2. g[T \ {ch[T]}] \in Int
        BY <2>2, <3>1
      <3>3. g[T] = f[ch[T]] + g[T \ {ch[T]}]
        BY <2>2, <2>7, Zenon
      <3>4. g[T] \in Int
        BY <3>1, <3>2, <3>3
      <3> QED BY <3>4
    <2>3. G \in SUBSET (SUBSET S)
      OBVIOUS
    <2> HIDE DEF G
    <2>4. G = SUBSET S
      BY <2>1, <2>2, <2>3, SetShrinks
    <2>5. \A T \in SUBSET S : g[T] \in Int
      BY <2>4 DEF G
    <2>6. g = [T \in SUBSET S |-> g[T]]
      BY <1>9, Zenon DEF Is
    <2> QED BY <2>5, <2>6
  <1> HIDE DEF g, Is
  <1>12. SumFunctionOnSet(f, S) = g[S]
    BY <1>3 DEF g
  <1>13. IsSum(g, S, f)
    BY <1>10, <1>12, Zenon DEF IsSum
  <1> QED BY <1>11, <1>13

\* A sum of integers is an integer.
LEMMA SumType ==
  ASSUME NEW S, IsFiniteSet(S), NEW f, \A x \in S : f[x] \in Int
  PROVE  SumFunctionOnSet(f, S) \in Int
  <1>1. PICK g \in [SUBSET S -> Int] : IsSum(g, S, f)
    BY SumDef
  <1>2. g[S] \in Int /\ SumFunctionOnSet(f, S) = g[S]
    BY <1>1 DEF IsSum
  <1> QED BY <1>2

\* The sum of nothing is 0.
LEMMA SumEmpty ==
  ASSUME NEW f
  PROVE  SumFunctionOnSet(f, {}) = 0
  <1>1. IsFiniteSet({}) /\ \A x \in {} : f[x] \in Int
    BY FS_EmptySet
  <1>2. PICK g \in [SUBSET {} -> Int] : IsSum(g, {}, f)
    BY <1>1, SumDef
  <1>3. {} \in SUBSET {}
    OBVIOUS
  <1> QED BY <1>2, <1>3, Zenon DEF IsSum

\* The element that is chosen first may be taken off.
LEMMA SumChosen ==
  ASSUME NEW S, IsFiniteSet(S), S # {}, NEW f, \A x \in S : f[x] \in Int
  PROVE  LET c == CHOOSE x \in S : TRUE
         IN  SumFunctionOnSet(f, S) = f[c] + SumFunctionOnSet(f, S \ {c})
  <1> DEFINE c(T) == CHOOSE x \in T : TRUE
  <1>1. \A T : T # {} => c(T) \in T
    OBVIOUS
  <1> DEFINE R == S \ {c(S)}
  <1>2. IsFiniteSet(R) /\ R \in SUBSET S /\ \A x \in R : f[x] \in Int
    BY FS_Subset
  <1> DEFINE Rule(g, U) == \A T \in SUBSET U :
               g[T] = IF T = {} THEN 0 ELSE f[c(T)] + g[T \ {c(T)}]
  <1>3. PICK g \in [SUBSET S -> Int] : IsSum(g, S, f)
    BY SumDef
  <1>4. PICK h \in [SUBSET R -> Int] : IsSum(h, R, f)
    <2> HIDE DEF R
    <2> QED BY <1>2, SumDef
  <1>12. SumFunctionOnSet(f, S) = g[S] /\ Rule(g, S)
    BY <1>3, Zenon DEF IsSum
  <1>13. SumFunctionOnSet(f, R) = h[R] /\ Rule(h, R)
    <2> HIDE DEF R
    <2> QED BY <1>4, Zenon DEF IsSum
  <1> HIDE DEF c, R
  <1> DEFINE G == {T \in SUBSET R : g[T] = h[T]}
  <1>5. {} \in G
    <2>1. {} \in SUBSET R /\ {} \in SUBSET S
      OBVIOUS
    <2>2. g[{}] = 0 /\ h[{}] = 0
      BY <1>12, <1>13, <2>1, Zenon
    <2> QED BY <2>1, <2>2
  <1>6. ASSUME NEW T \in SUBSET R, T # {}, \A x \in T : T \ {x} \in G
        PROVE  T \in G
    <2>1. T \in SUBSET S
      BY <1>2
    <2>2. g[T] = f[c(T)] + g[T \ {c(T)}] /\ h[T] = f[c(T)] + h[T \ {c(T)}]
      BY <1>12, <1>13, <1>6, <2>1, Zenon
    <2>3. g[T \ {c(T)}] = h[T \ {c(T)}]
      <3>1. c(T) \in T
        BY <1>1, <1>6
      <3> QED BY <1>6, <3>1
    <2>4. g[T] = h[T]
      BY <2>2, <2>3
    <2> QED BY <2>4
  <1>7. G \in SUBSET (SUBSET R)
    OBVIOUS
  <1> HIDE DEF G, Rule
  <1>14. IsFiniteSet(R)
    BY <1>2
  <1>8. G = SUBSET R
    BY <1>5, <1>6, <1>7, <1>14, SetShrinks
  <1>9. g[R] = h[R]
    BY <1>8 DEF G
  <1>10. g[S] = f[c(S)] + g[R]
    <2>1. S \in SUBSET S
      OBVIOUS
    <2> QED BY <1>12, <2>1, Zenon DEF R, Rule
  <1>11. SumFunctionOnSet(f, S) = f[c(S)] + SumFunctionOnSet(f, R)
    BY <1>12, <1>13, <1>9, <1>10
  <1> QED BY <1>11 DEF c, R

\* So may every element, whichever the definition chooses.
LEMMA SumTake ==
  ASSUME NEW S, IsFiniteSet(S), NEW f, \A x \in S : f[x] \in Int, NEW x \in S
  PROVE  SumFunctionOnSet(f, S) = f[x] + SumFunctionOnSet(f, S \ {x})
  <1> DEFINE Total(T) == SumFunctionOnSet(f, T)
             c(T) == CHOOSE y \in T : TRUE
             G == {T \in SUBSET S : \A y \in T : Total(T) = f[y] + Total(T \ {y})}
  <1>1. \A T \in SUBSET S : IsFiniteSet(T) /\ Total(T) \in Int
    <2> TAKE T \in SUBSET S
    <2>1. IsFiniteSet(T) /\ \A y \in T : f[y] \in Int
      BY FS_Subset
    <2> QED BY <2>1, SumType
  <1>2. \A T \in SUBSET S : T # {} => c(T) \in T /\ Total(T) = f[c(T)] + Total(T \ {c(T)})
    <2> SUFFICES ASSUME NEW T \in SUBSET S, T # {}
                 PROVE  c(T) \in T /\ Total(T) = f[c(T)] + Total(T \ {c(T)})
      OBVIOUS
    <2>1. IsFiniteSet(T) /\ \A y \in T : f[y] \in Int
      BY FS_Subset
    <2>2. c(T) \in T
      OBVIOUS
    <2>3. Total(T) = f[c(T)] + Total(T \ {c(T)})
      BY <2>1, SumChosen
    <2> QED BY <2>2, <2>3
  <1> HIDE DEF Total, c
  <1>3. {} \in G
    OBVIOUS
  <1>4. ASSUME NEW T \in SUBSET S, T # {}, \A y \in T : T \ {y} \in G
        PROVE  T \in G
    <2> SUFFICES ASSUME NEW y \in T, y # c(T)
                 PROVE  Total(T) = f[y] + Total(T \ {y})
      BY <1>2, <1>4
    <2>1. c(T) \in T /\ Total(T) = f[c(T)] + Total(T \ {c(T)})
      BY <1>2, <1>4
    <2>2. Total(T \ {c(T)}) = f[y] + Total((T \ {c(T)}) \ {y})
      BY <1>4, <2>1
    <2>3. Total(T \ {y}) = f[c(T)] + Total((T \ {y}) \ {c(T)})
      BY <1>4, <2>1
    <2>4. (T \ {c(T)}) \ {y} = (T \ {y}) \ {c(T)}
      OBVIOUS
    <2> DEFINE rest == Total((T \ {y}) \ {c(T)})
    <2>5. f[y] \in Int /\ f[c(T)] \in Int /\ rest \in Int
      BY <1>1, <2>1
    <2>6. Total(T) = f[c(T)] + (f[y] + rest) /\ Total(T \ {y}) = f[c(T)] + rest
      BY <2>1, <2>2, <2>3, <2>4, Zenon
    <2> HIDE DEF rest
    <2> QED BY <2>5, <2>6
  <1>5. G \in SUBSET (SUBSET S)
    OBVIOUS
  <1> HIDE DEF G
  <1>6. G = SUBSET S
    BY <1>3, <1>4, <1>5, SetShrinks
  <1>7. S \in G
    BY <1>6
  <1> QED BY <1>7 DEF G, Total

\* An element that is put in adds what it is worth.
LEMMA SumAdd ==
  ASSUME NEW S, IsFiniteSet(S), NEW f, NEW x, x \notin S, \A y \in S \cup {x} : f[y] \in Int
  PROVE  SumFunctionOnSet(f, S \cup {x}) = f[x] + SumFunctionOnSet(f, S)
  <1> DEFINE U == S \cup {x}
  <1>1. IsFiniteSet(U) /\ x \in U /\ U \ {x} = S /\ \A y \in U : f[y] \in Int
    BY FS_AddElement
  <1> HIDE DEF U
  <1>2. SumFunctionOnSet(f, U) = f[x] + SumFunctionOnSet(f, U \ {x})
    BY <1>1, SumTake
  <1> QED BY <1>1, <1>2 DEF U

\* Sums of sets that have nothing in common add up.
LEMMA SumUnion ==
  ASSUME NEW S, IsFiniteSet(S), NEW T, IsFiniteSet(T), S \cap T = {}, NEW f,
         \A x \in S \cup T : f[x] \in Int
  PROVE  SumFunctionOnSet(f, S \cup T) = SumFunctionOnSet(f, S) + SumFunctionOnSet(f, T)
  <1> DEFINE Total(R) == SumFunctionOnSet(f, R)
             G == {R \in SUBSET T : Total(S \cup R) = Total(S) + Total(R)}
  <1>1. \A R \in SUBSET (S \cup T) : IsFiniteSet(R) /\ Total(R) \in Int
    <2>1. IsFiniteSet(S \cup T)
      BY FS_Union
    <2> TAKE R \in SUBSET (S \cup T)
    <2>2. IsFiniteSet(R) /\ \A y \in R : f[y] \in Int
      BY <2>1, FS_Subset
    <2> QED BY <2>2, SumType
  <1>2. Total({}) = 0
    BY SumEmpty
  <1>3. ASSUME NEW R \in SUBSET (S \cup T), NEW x \in (S \cup T) \ R
        PROVE  Total(R \cup {x}) = f[x] + Total(R) /\ f[x] \in Int /\ Total(R) \in Int
    <2>1. IsFiniteSet(R) /\ Total(R) \in Int /\ x \notin R /\ \A y \in R \cup {x} : f[y] \in Int
      BY <1>1
    <2> QED BY <2>1, SumAdd
  <1> HIDE DEF Total
  <1>4. {} \in G
    <2>1. S \cup {} = S /\ Total(S) \in Int
      BY <1>1
    <2> QED BY <1>2, <2>1
  <1>5. ASSUME NEW R \in G, NEW x \in T \ R PROVE R \cup {x} \in G
    <2>1. Total(R \cup {x}) = f[x] + Total(R) /\ f[x] \in Int /\ Total(R) \in Int
      BY <1>3
    <2>2. S \cup R \in SUBSET (S \cup T) /\ x \in (S \cup T) \ (S \cup R)
      OBVIOUS
    <2>3. Total((S \cup R) \cup {x}) = f[x] + Total(S \cup R)
      BY <1>3, <2>2
    <2>4. (S \cup R) \cup {x} = S \cup (R \cup {x}) /\ Total(S) \in Int
      BY <1>1
    <2>5. Total(S \cup R) = Total(S) + Total(R)
      OBVIOUS
    <2>6. Total(S \cup (R \cup {x})) = f[x] + (Total(S) + Total(R))
      BY <2>3, <2>4, <2>5, Zenon
    <2>7. Total(S \cup (R \cup {x})) = Total(S) + Total(R \cup {x})
      BY <2>1, <2>4, <2>6
    <2> QED BY <2>7
  <1>6. G \in SUBSET (SUBSET T)
    OBVIOUS
  <1> HIDE DEF G
  <1>7. G = SUBSET T
    BY <1>4, <1>5, <1>6, SetGrows
  <1> QED BY <1>7 DEF G, Total

\* A sum of naturals is one.
LEMMA SumNat ==
  ASSUME NEW S, IsFiniteSet(S), NEW f, \A x \in S : f[x] \in Nat
  PROVE  SumFunctionOnSet(f, S) \in Nat
  <1> DEFINE Total(T) == SumFunctionOnSet(f, T)
             G == {T \in SUBSET S : Total(T) \in Nat}
  <1>1. {} \in G
    BY SumEmpty
  <1>2. ASSUME NEW T \in G, NEW x \in S \ T PROVE T \cup {x} \in G
    <2>1. IsFiniteSet(T) /\ x \notin T /\ \A y \in T \cup {x} : f[y] \in Int
      BY FS_Subset
    <2>2. Total(T \cup {x}) = f[x] + Total(T)
      BY <2>1, SumAdd
    <2>3. f[x] \in Nat /\ Total(T) \in Nat
      OBVIOUS
    <2> HIDE DEF Total
    <2> QED BY <2>2, <2>3
  <1>3. G \in SUBSET (SUBSET S)
    OBVIOUS
  <1> HIDE DEF G
  <1>4. G = SUBSET S
    BY <1>1, <1>2, <1>3, SetGrows
  <1> QED BY <1>4 DEF G

-------------------------------------------------------------------------------
(* Remainders.                                                             *)

\* Division with a remainder.
LEMMA Divides ==
  ASSUME NEW M \in Nat \ {0}, NEW x \in Int
  PROVE  \E k \in Int : \E r \in 0 .. M - 1 : x = M * k + r
  <1> DEFINE G == {n \in Nat : \E k \in Int : \E r \in 0 .. M - 1 : n = M * k + r}
  <1>1. 0 \in G
    <2>1. 0 = M * 0 + 0 /\ 0 \in 0 .. M - 1
      OBVIOUS
    <2> QED BY <2>1
  <1>2. ASSUME NEW n \in G PROVE n + 1 \in G
    <2>1. PICK k \in Int : \E r \in 0 .. M - 1 : n = M * k + r
      OBVIOUS
    <2>2. PICK r \in 0 .. M - 1 : n = M * k + r
      BY <2>1
    <2>3. CASE r + 1 < M
      <3>1. n + 1 = M * k + (r + 1) /\ r + 1 \in 0 .. M - 1
        BY <2>2, <2>3
      <3>2. k \in Int /\ n + 1 \in Nat
        OBVIOUS
      <3> QED BY <3>1, <3>2, Zenon
    <2>4. CASE r + 1 = M
      <3>1. n + 1 = M * (k + 1) + 0 /\ 0 \in 0 .. M - 1 /\ k + 1 \in Int
        BY <2>2, <2>4
      <3> QED BY <3>1
    <2> QED BY <2>3, <2>4
  <1>3. G \in SUBSET Nat
    OBVIOUS
  <1> HIDE DEF G
  <1>4. G = Nat
    BY <1>1, <1>2, <1>3, NatGrows
  <1>5. CASE x \in Nat
    BY <1>4, <1>5 DEF G
  <1>6. CASE -x \in Nat
    <2>1. PICK k \in Int : \E r \in 0 .. M - 1 : -x = M * k + r
      BY <1>4, <1>6 DEF G
    <2>2. PICK r \in 0 .. M - 1 : -x = M * k + r
      BY <2>1
    <2>3. CASE r = 0
      <3>1. x = M * (-k) + 0 /\ 0 \in 0 .. M - 1 /\ -k \in Int
        <4>1. M * (-k) = -(M * k)
          OBVIOUS
        <4> QED BY <2>2, <2>3, <4>1
      <3> QED BY <3>1
    <2>4. CASE r # 0
      <3>1. x = M * (-k - 1) + (M - r) /\ M - r \in 0 .. M - 1 /\ -k - 1 \in Int
        <4>1. M * (-k - 1) = -(M * k) - M
          OBVIOUS
        <4> QED BY <2>2, <2>4, <4>1
      <3> QED BY <3>1
    <2> QED BY <2>3, <2>4
  <1> QED BY <1>5, <1>6

\* What % and \div yield.
LEMMA ModIs ==
  ASSUME NEW M \in Nat \ {0}, NEW x \in Int
  PROVE  /\ x % M \in 0 .. M - 1 /\ x \div M \in Int
         /\ x = M * (x \div M) + (x % M)
  <1>1. PICK k \in Int : \E r \in 0 .. M - 1 : x = M * k + r
    BY Divides
  <1>2. PICK r \in 0 .. M - 1 : x = M * k + r
    BY <1>1
  <1>3. x % M = r
    BY <1>2
  <1>4. x \div M = k
    BY <1>2
  <1>5. x = M * (x \div M) + (x % M)
    <2> DEFINE q == x \div M
               s == x % M
    <2>1. q = k /\ s = r
      BY <1>3, <1>4
    <2> HIDE DEF q, s
    <2>2. x = M * q + s
      BY <1>2, <2>1
    <2> QED BY <2>2, Zenon DEF q, s
  <1>6. x % M \in 0 .. M - 1 /\ x \div M \in Int
    BY <1>3, <1>4, Zenon
  <1> QED BY <1>5, <1>6

===============================================================================
