--------------------------- MODULE SharedQueueProofs ---------------------------
(***************************************************************************)
(* Theorems about SharedQueue, for every number of producers and consumers *)
(* and every bound on what they push: the ring and its two semaphores      *)
(* implement a FIFO.                                                       *)
(***************************************************************************)
EXTENDS SharedQueue, ListLemmas

Element == [ptr : Value, next : Cell]
Heap    == [Cell -> {NULL} \cup Element]

\* The place after the last is the first.
LEMMA NextPlace ==
  ASSUME NEW n \in Nat, NEW i \in 1 .. n
  PROVE  (IF i = n THEN 1 ELSE i + 1) \in 1 .. n
OBVIOUS

\* NULL is the address of no element.
LEMMA NullIsNoElement == NULL \notin Element /\ NULL \notin Cell
BY QueueAssumption DEF Element, Value

-------------------------------------------------------------------------------
(* There is only one way to read a ring.                                   *)

\* Two readings of a ring agree as far as the shorter goes: the least place where they do
\* not would follow one where they do.
LEMMA RingAgrees ==
  ASSUME NEW h \in Heap, NEW s, NEW R \in Seq(Cell), NEW S \in Seq(Cell),
         IsRing(h, s, R), IsRing(h, s, S)
  PROVE  Len(R) <= Len(S) /\ \A i \in 1 .. Len(R) : R[i] = S[i]
<1> DEFINE n == Len(R)
           m == Len(S)
           Bad == {i \in 1 .. n : ~ (i <= m /\ R[i] = S[i])}
<1>1. /\ n \in Nat /\ m \in Nat /\ DOMAIN R = 1 .. n /\ DOMAIN S = 1 .. m
      /\ (R = << >> <=> n = 0) /\ (S = << >> <=> m = 0)
      /\ \A i \in 1 .. n : R[i] \in Cell
  BY ElementOfSeq, EmptySeq
<1>2. /\ \A i, j \in 1 .. n : R[i] = R[j] => i = j
      /\ s = IF n = 0 THEN NULL ELSE R[n]
      /\ \A i \in 1 .. n : h[R[i]].next = R[IF i = n THEN 1 ELSE i + 1]
  <2>1. \A i, j \in 1 .. n : R[i] = R[j] => i = j
    BY <1>1 DEF IsRing
  <2>2. s = IF n = 0 THEN NULL ELSE R[n]
    BY <1>1 DEF IsRing
  <2>3. \A i \in 1 .. n : h[R[i]].next = R[IF i = n THEN 1 ELSE i + 1]
    BY <1>1 DEF IsRing
  <2> QED
    BY <2>1, <2>2, <2>3
<1>3. /\ s = IF m = 0 THEN NULL ELSE S[m]
      /\ \A i \in 1 .. m : h[S[i]].next = S[IF i = m THEN 1 ELSE i + 1]
  BY <1>1 DEF IsRing
<1> HIDE DEF n, m
<1>4. SUFFICES ASSUME Bad # {} PROVE FALSE
  <2>1. CASE n = 0
    BY <1>1, <2>1 DEF n, m
  <2>2. CASE n # 0
    <3>1. n \in 1 .. n
      BY <1>1, <2>2
    <3>2. \A i \in 1 .. n : i <= m /\ R[i] = S[i]
      BY <1>4
    <3> QED
      BY <3>1, <3>2 DEF n, m
  <2> QED
    BY <2>1, <2>2
<1>5. PICK k \in Bad : \A i \in Bad : k <= i
  <2>1. Bad \in SUBSET Nat
    BY <1>1
  <2> QED
    BY <1>4, <2>1, LeastNatural
<1>6. k \in 1 .. n /\ n # 0 /\ n \in 1 .. n
  BY <1>1, <1>5
<1>7. R[n] \in Cell /\ R[n] # NULL
  BY <1>1, <1>6, NullIsNoElement
<1>8. m # 0 /\ m \in 1 .. m /\ R[n] = S[m]
  BY <1>1, <1>2, <1>3, <1>6, <1>7
<1>9. k # 1
  <2>1. R[1] = S[1]
    BY <1>2, <1>3, <1>6, <1>8
  <2> QED
    BY <1>1, <1>5, <1>8, <2>1
<1>10. k - 1 \in 1 .. n /\ k - 1 <= m /\ R[k - 1] = S[k - 1]
  <2>1. k - 1 \in 1 .. n /\ ~ (k <= k - 1)
    BY <1>1, <1>6, <1>9
  <2>2. k - 1 \notin Bad
    BY <1>5, <2>1
  <2> QED
    BY <2>1, <2>2
<1>11. k - 1 # m
  <2>1. SUFFICES ASSUME k - 1 = m PROVE FALSE
    OBVIOUS
  <2>2. R[k - 1] = R[n]
    BY <1>8, <1>10, <2>1
  <2>3. k - 1 = n
    BY <1>2, <1>6, <1>10, <2>2
  <2> QED
    BY <1>1, <1>6, <2>3
<1>12. k - 1 \in 1 .. m /\ k <= m /\ k - 1 # n /\ (k - 1) + 1 = k
  BY <1>1, <1>6, <1>9, <1>10, <1>11
<1>13. R[k] = S[k]
  <2>1. h[R[k - 1]].next = R[k] /\ h[S[k - 1]].next = S[k]
    BY <1>2, <1>3, <1>10, <1>11, <1>12
  <2> QED
    BY <1>10, <2>1
<1> QED
  BY <1>5, <1>12, <1>13

\* So they are one.
LEMMA RingUnique ==
  ASSUME NEW h \in Heap, NEW s, NEW R \in Seq(Cell), NEW S \in Seq(Cell),
         IsRing(h, s, R), IsRing(h, s, S)
  PROVE  R = S
<1>1. Len(R) <= Len(S) /\ \A i \in 1 .. Len(R) : R[i] = S[i]
  BY RingAgrees
<1>2. Len(S) <= Len(R)
  BY RingAgrees
<1>3. Len(R) \in Nat /\ Len(S) \in Nat
  OBVIOUS
<1>4. Len(R) = Len(S)
  BY <1>1, <1>2, <1>3
<1> QED
  BY <1>1, <1>4, SeqEqual

\* What SharedQueue calls Ring is the ring.
LEMMA RingIs ==
  ASSUME heap \in Heap, NEW R \in Seq(Cell), IsRing(heap, queue, R)
  PROVE  Ring = R /\ Rings # {} /\ Cardinality(Allocated) = Len(R)
<1> DEFINE n == Len(R)
<1>1. n \in Nat /\ DOMAIN R = 1 .. n /\ R \in [1 .. n -> Cell]
  OBVIOUS
<1>2. /\ \A i, j \in 1 .. n : R[i] = R[j] => i = j
      /\ \A c \in Cell : heap[c] # NULL <=> \E i \in 1 .. n : R[i] = c
  BY <1>1 DEF IsRing
<1> HIDE DEF n
<1>3. R \in [1 .. n -> Allocated]
  BY <1>1, <1>2 DEF Allocated
<1>4. R \in Bijection(1 .. n, Allocated)
  <2>1. R \in Injection(1 .. n, Allocated)
    BY <1>2, <1>3 DEF Injection, IsInjective
  <2>2. \A t \in Allocated : \E i \in 1 .. n : R[i] = t
    BY <1>2 DEF Allocated
  <2>3. R \in Surjection(1 .. n, Allocated)
    BY <1>3, <2>2 DEF Surjection
  <2> QED
    BY <2>1, <2>3 DEF Bijection
<1>5. Cardinality(Allocated) = n
  <2>1. ExistsBijection(1 .. n, Allocated)
    BY <1>4 DEF ExistsBijection
  <2> QED
    BY <1>1, <2>1, FS_CountingElements
<1>6. R \in Rings
  BY <1>3, <1>5 DEF Rings
<1>7. \A S \in Rings : S \in Seq(Cell) /\ IsRing(heap, queue, S)
  <2> SUFFICES ASSUME NEW S \in Rings PROVE S \in Seq(Cell) /\ IsRing(heap, queue, S)
    OBVIOUS
  <2>1. S \in [1 .. n -> Allocated] /\ IsRing(heap, queue, S)
    BY <1>5 DEF Rings
  <2>2. S \in [1 .. n -> Cell]
    BY <2>1 DEF Allocated
  <2>3. S \in Seq(Cell)
    BY <1>1, <2>2
  <2> QED
    BY <2>1, <2>3
<1>8. Ring \in Rings
  BY <1>6 DEF Ring
<1>9. Ring = R
  BY <1>7, <1>8, RingUnique
<1> QED
  BY <1>5, <1>6, <1>9 DEF n

-------------------------------------------------------------------------------
(* queue_push and queue_pop.                                               *)

\* A value that is pushed is the last of the ring.
LEMMA PushKeepsRing ==
  ASSUME NEW h \in Heap, NEW s, NEW R \in Seq(Cell), IsRing(h, s, R),
         NEW q \in Cell, h[q] = NULL, NEW v \in Value,
         NEW new, new = QueuePush(h, s, q, v)
  PROVE  /\ new.heap \in Heap
         /\ IsRing(new.heap, new.queue, Append(R, q))
         /\ new.heap[q].ptr = v
         /\ \A i \in 1 .. Len(R) : new.heap[R[i]].ptr = h[R[i]].ptr
<1> DEFINE n == Len(R)
           g == new.heap
           A == Append(R, q)
<1>1. /\ n \in Nat /\ DOMAIN R = 1 .. n /\ (R = << >> <=> n = 0)
      /\ \A i \in 1 .. n : R[i] \in Cell
  BY ElementOfSeq, EmptySeq
<1>2. /\ \A i, j \in 1 .. n : R[i] = R[j] => i = j
      /\ \A c \in Cell : h[c] # NULL <=> \E i \in 1 .. n : R[i] = c
      /\ s = IF n = 0 THEN NULL ELSE R[n]
      /\ \A i \in 1 .. n : h[R[i]].next = R[IF i = n THEN 1 ELSE i + 1]
  <2>1. /\ \A i, j \in 1 .. n : R[i] = R[j] => i = j
        /\ \A c \in Cell : h[c] # NULL <=> \E i \in 1 .. n : R[i] = c
    BY <1>1 DEF IsRing
  <2>2. s = IF n = 0 THEN NULL ELSE R[n]
    BY <1>1 DEF IsRing
  <2>3. \A i \in 1 .. n : h[R[i]].next = R[IF i = n THEN 1 ELSE i + 1]
    BY <1>1 DEF IsRing
  <2> QED
    BY <2>1, <2>2, <2>3
<1>3. /\ A \in Seq(Cell) /\ A # << >> /\ Len(A) = n + 1 /\ DOMAIN A = 1 .. n + 1
      /\ \A i \in 1 .. n : A[i] = R[i]
      /\ A[n + 1] = q
  BY AppendProperties
<1>4. \A i \in 1 .. n : R[i] # q /\ h[R[i]] \in Element /\ h[R[i]] # NULL
  <2> SUFFICES ASSUME NEW i \in 1 .. n PROVE R[i] # q /\ h[R[i]] \in Element /\ h[R[i]] # NULL
    OBVIOUS
  <2>1. R[i] \in Cell /\ h[R[i]] # NULL
    BY <1>1, <1>2
  <2>2. h[R[i]] \in {NULL} \cup Element
    BY <2>1 DEF Heap
  <2> QED
    BY <2>1, <2>2
<1> HIDE DEF n, A
<1>5. new.queue = q /\ g = QueuePush(h, s, q, v).heap
  BY DEF QueuePush
<1>6. /\ g \in Heap
      /\ g[q] = [ptr |-> v, next |-> IF n = 0 THEN q ELSE R[1]]
      /\ n # 0 => g[R[n]] = [ptr |-> h[R[n]].ptr, next |-> q]
      /\ \A c \in Cell : c # q /\ (n = 0 \/ c # R[n]) => g[c] = h[c]
  <2>1. CASE n = 0
    <3>1. g = [h EXCEPT ![q] = [ptr |-> v, next |-> q]]
      BY <1>2, <1>5, <2>1 DEF QueuePush
    <3>2. [ptr |-> v, next |-> q] \in Element
      BY DEF Element
    <3> QED
      BY <2>1, <3>1, <3>2 DEF Heap
  <2>2. CASE n # 0
    <3>1. n \in 1 .. n /\ 1 \in 1 .. n
      BY <1>1, <2>2
    <3>2. s = R[n] /\ s \in Cell /\ s # NULL /\ s # q /\ h[s] \in Element /\ h[s].next = R[1]
      BY <1>1, <1>2, <1>4, <2>2, <3>1, NullIsNoElement
    <3>3. g = [h EXCEPT ![q] = [ptr |-> v, next |-> R[1]], ![s].next = q]
      BY <1>5, <3>2 DEF QueuePush
    <3>4. [ptr |-> v, next |-> R[1]] \in Element
      BY <1>1, <3>1 DEF Element
    <3>5. [h[s] EXCEPT !.next = q] = [ptr |-> h[s].ptr, next |-> q]
      BY <3>2 DEF Element
    <3>6. [ptr |-> h[s].ptr, next |-> q] \in Element
      BY <3>2 DEF Element
    <3>7. /\ g[q] = [ptr |-> v, next |-> R[1]]
          /\ g[s] = [h[s] EXCEPT !.next = q]
          /\ \A c \in Cell : c # q /\ c # s => g[c] = h[c]
          /\ DOMAIN g = Cell
      BY <3>2, <3>3 DEF Heap
    <3>8. \A c \in Cell : g[c] \in {NULL} \cup Element
      BY <3>4, <3>5, <3>6, <3>7 DEF Heap
    <3>9. g = [c \in Cell |-> g[c]]
      BY <3>3 DEF Heap
    <3>10. g \in Heap
      BY <3>8, <3>9 DEF Heap
    <3> QED
      BY <2>2, <3>2, <3>5, <3>7, <3>10
  <2> QED
    BY <2>1, <2>2
<1> HIDE DEF g
<1>7. \A i \in 1 .. n : g[R[i]].ptr = h[R[i]].ptr /\ g[R[i]] # NULL
  <2> SUFFICES ASSUME NEW i \in 1 .. n PROVE g[R[i]].ptr = h[R[i]].ptr /\ g[R[i]] # NULL
    OBVIOUS
  <2>1. CASE R[i] = R[n]
    <3>1. g[R[i]] = [ptr |-> h[R[i]].ptr, next |-> q] /\ h[R[i]] \in Element
      BY <1>1, <1>4, <1>6, <2>1
    <3>2. g[R[i]] \in Element
      BY <3>1 DEF Element
    <3> QED
      BY <3>1, <3>2, NullIsNoElement
  <2>2. CASE R[i] # R[n]
    BY <1>1, <1>4, <1>6, <2>2
  <2> QED
    BY <2>1, <2>2
<1>8. g[q].ptr = v /\ g[q] # NULL
  <2>1. g[q] \in Element
    BY <1>1, <1>6 DEF Element
  <2> QED
    BY <1>6, <2>1, NullIsNoElement
<1>9. IsRing(g, q, A)
  <2>1. \A i, j \in DOMAIN A : A[i] = A[j] => i = j
    <3>1. \A i \in 1 .. n + 1 : i \in 1 .. n \/ i = n + 1
      BY <1>1
    <3> QED
      BY <1>2, <1>3, <1>4, <3>1
  <2>2. \A c \in Cell : g[c] # NULL <=> \E i \in DOMAIN A : A[i] = c
    <3>1. \A i \in 1 .. n : i \in 1 .. n + 1
      BY <1>1
    <3>2. n + 1 \in 1 .. n + 1 /\ \A i \in 1 .. n + 1 : i \in 1 .. n \/ i = n + 1
      BY <1>1
    <3>3. \A c \in Cell : (\E i \in 1 .. n + 1 : A[i] = c) <=> c = q \/ \E i \in 1 .. n : R[i] = c
      BY <1>3, <3>1, <3>2
    <3>4. \A c \in Cell : g[c] # NULL <=> c = q \/ h[c] # NULL
      <4> SUFFICES ASSUME NEW c \in Cell PROVE g[c] # NULL <=> c = q \/ h[c] # NULL
        OBVIOUS
      <4>1. CASE c = q
        BY <1>8, <4>1
      <4>2. CASE c # q /\ n # 0 /\ c = R[n]
        <5>1. n \in 1 .. n
          BY <1>1, <4>2
        <5> QED
          BY <1>4, <1>7, <4>2, <5>1
      <4>3. CASE c # q /\ (n = 0 \/ c # R[n])
        BY <1>6, <4>3
      <4> QED
        BY <4>1, <4>2, <4>3
    <3> QED
      BY <1>2, <1>3, <3>3, <3>4
  <2>3. q = IF A = << >> THEN NULL ELSE A[Len(A)]
    BY <1>3
  <2>4. ASSUME NEW i \in DOMAIN A
        PROVE  g[A[i]].next = A[IF i = Len(A) THEN 1 ELSE i + 1]
    <3>1. CASE i = n + 1
      <4>1. A[1] = IF n = 0 THEN q ELSE R[1]
        <5>1. n # 0 => 1 \in 1 .. n
          BY <1>1
        <5>2. n = 0 => n + 1 = 1
          BY <1>1
        <5> QED
          BY <1>3, <5>1, <5>2
      <4>2. g[q].next = IF n = 0 THEN q ELSE R[1]
        BY <1>6
      <4> QED
        BY <1>3, <3>1, <4>1, <4>2
    <3>2. CASE i \in 1 .. n /\ i = n
      <4>1. n # 0 /\ i # n + 1
        BY <1>1, <3>2
      <4>2. g[R[n]].next = q
        BY <1>6, <4>1
      <4> QED
        BY <1>3, <3>2, <4>1, <4>2
    <3>3. CASE i \in 1 .. n /\ i # n
      <4>1. i + 1 \in 1 .. n /\ n \in 1 .. n /\ i # n + 1
        BY <1>1, <3>3
      <4>2. R[i] # R[n] /\ R[i] \in Cell /\ R[i] # q
        BY <1>1, <1>2, <1>4, <3>3, <4>1
      <4>3. g[R[i]] = h[R[i]]
        BY <1>6, <4>2
      <4>4. h[R[i]].next = R[i + 1]
        BY <1>2, <3>3
      <4> QED
        BY <1>3, <3>3, <4>1, <4>3, <4>4
    <3>4. i \in 1 .. n + 1
      BY <1>3
    <3>5. i = n + 1 \/ i \in 1 .. n
      BY <1>1, <3>4
    <3> QED
      BY <3>1, <3>2, <3>3, <3>5
  <2> QED
    BY <2>1, <2>2, <2>3, <2>4 DEF IsRing
<1> QED
  BY <1>5, <1>6, <1>7, <1>8, <1>9 DEF g, A, n

\* What is popped is the first of the ring, and is freed.
LEMMA PopKeepsRing ==
  ASSUME NEW h \in Heap, NEW s, NEW R \in Seq(Cell), IsRing(h, s, R), R # << >>,
         NEW left, left = QueuePop(h, s)
  PROVE  /\ left.heap \in Heap
         /\ IsRing(left.heap, left.queue, Tail(R))
         /\ h[s].next = R[1] /\ h[R[1]].ptr \in Value
         /\ \A i \in 1 .. Len(R) : i # 1 => left.heap[R[i]].ptr = h[R[i]].ptr
<1> DEFINE n == Len(R)
           g == left.heap
           T == Tail(R)
<1>1. /\ n \in Nat /\ DOMAIN R = 1 .. n /\ n # 0
      /\ \A i \in 1 .. n : R[i] \in Cell
  BY ElementOfSeq, EmptySeq
<1>2. /\ \A i, j \in 1 .. n : R[i] = R[j] => i = j
      /\ \A c \in Cell : h[c] # NULL <=> \E i \in 1 .. n : R[i] = c
      /\ s = R[n]
      /\ \A i \in 1 .. n : h[R[i]].next = R[IF i = n THEN 1 ELSE i + 1]
  BY <1>1 DEF IsRing
<1>3. /\ T \in Seq(Cell) /\ Len(T) = n - 1 /\ DOMAIN T = 1 .. n - 1
      /\ \A i \in 1 .. n - 1 : T[i] = R[i + 1]
  <2>1. /\ T \in Seq(Cell) /\ Len(T) = n - 1
        /\ \A i \in 1 .. Len(T) : T[i] = R[i + 1]
    BY HeadTailProperties
  <2> QED
    BY <2>1
<1>4. \A i \in 1 .. n : h[R[i]] \in Element
  BY <1>1, <1>2 DEF Heap
<1> HIDE DEF n, T
<1>5. n \in 1 .. n /\ 1 \in 1 .. n
  BY <1>1
<1> DEFINE old == R[1]
<1>6. old \in Cell /\ s \in Cell /\ h[s].next = old /\ h[s] \in Element /\ h[old] \in Element
  BY <1>1, <1>2, <1>4, <1>5
<1>7. old = s <=> n = 1
  BY <1>1, <1>2, <1>5
<1>8. h[old].next \in Cell /\ h[s].ptr \in Value /\ h[old].ptr \in Value
  BY <1>6 DEF Element
<1>9. /\ left.queue = (IF old = s THEN NULL ELSE s)
      /\ g = [[h EXCEPT ![s].next = h[old].next] EXCEPT ![old] = NULL]
  BY <1>6 DEF QueuePop
<1> HIDE DEF old
<1> DEFINE e == [ptr |-> h[s].ptr, next |-> h[old].next]
<1>10. /\ g \in Heap
       /\ g[old] = NULL
       /\ old # s => g[s] = e
       /\ \A c \in Cell : c # old /\ c # s => g[c] = h[c]
       /\ e \in Element
  <2>1. [h[s] EXCEPT !.next = h[old].next] = e
    BY <1>6 DEF Element
  <2>2. e \in Element
    BY <1>8 DEF Element
  <2> HIDE DEF e
  <2> DEFINE f == [h EXCEPT ![s].next = h[old].next]
  <2>3. /\ DOMAIN f = Cell /\ f = [c \in Cell |-> f[c]]
        /\ f[s] = e /\ \A c \in Cell : c # s => f[c] = h[c]
    BY <1>6, <2>1 DEF Heap
  <2> HIDE DEF f
  <2>4. f \in Heap
    <3>1. \A c \in Cell : f[c] \in {NULL} \cup Element
      BY <2>2, <2>3 DEF Heap
    <3> QED
      BY <2>3, <3>1 DEF Heap
  <2>5. g = [f EXCEPT ![old] = NULL]
    BY <1>9 DEF f
  <2> QED
    BY <1>6, <2>2, <2>3, <2>4, <2>5 DEF Heap
<1> HIDE DEF g
<1>11. \A i \in 1 .. n : i # 1 => R[i] # old
  BY <1>2, <1>5 DEF old
<1>12. \A i \in 1 .. n : i # 1 => g[R[i]].ptr = h[R[i]].ptr /\ g[R[i]] # NULL
  <2> SUFFICES ASSUME NEW i \in 1 .. n, i # 1 PROVE g[R[i]].ptr = h[R[i]].ptr /\ g[R[i]] # NULL
    OBVIOUS
  <2>1. CASE R[i] = s
    BY <1>10, <1>11, <2>1, NullIsNoElement
  <2>2. CASE R[i] # s
    BY <1>1, <1>4, <1>10, <1>11, <2>2, NullIsNoElement
  <2> QED
    BY <2>1, <2>2
<1> DEFINE z == IF old = s THEN NULL ELSE s
<1>13. IsRing(g, z, T)
  <2>1. \A i \in 1 .. n - 1 : i + 1 \in 1 .. n /\ i + 1 # 1
    BY <1>1
  <2>2. \A i \in 1 .. n : i # 1 => i - 1 \in 1 .. n - 1 /\ (i - 1) + 1 = i
    BY <1>1
  <2>3. \A i, j \in DOMAIN T : T[i] = T[j] => i = j
    <3> SUFFICES ASSUME NEW i \in 1 .. n - 1, NEW j \in 1 .. n - 1, T[i] = T[j] PROVE i = j
      BY <1>3
    <3>1. i + 1 = j + 1
      BY <1>2, <1>3, <2>1
    <3> QED
      BY <1>1, <3>1
  <2>4. \A c \in Cell : g[c] # NULL <=> \E i \in DOMAIN T : T[i] = c
    <3>1. \A c \in Cell : (\E i \in 1 .. n - 1 : T[i] = c) <=> \E i \in 1 .. n : i # 1 /\ R[i] = c
      <4> SUFFICES ASSUME NEW c \in Cell
                   PROVE  (\E i \in 1 .. n - 1 : T[i] = c) <=> \E i \in 1 .. n : i # 1 /\ R[i] = c
        OBVIOUS
      <4>1. ASSUME NEW i \in 1 .. n - 1, T[i] = c PROVE \E j \in 1 .. n : j # 1 /\ R[j] = c
        BY <1>3, <2>1, <4>1
      <4>2. ASSUME NEW j \in 1 .. n, j # 1, R[j] = c PROVE \E i \in 1 .. n - 1 : T[i] = c
        <5>1. j - 1 \in 1 .. n - 1 /\ T[j - 1] = R[(j - 1) + 1] /\ (j - 1) + 1 = j
          BY <1>3, <2>2, <4>2
        <5> QED
          BY <4>2, <5>1
      <4> QED
        BY <4>1, <4>2
    <3>2. ASSUME NEW c \in Cell PROVE g[c] # NULL <=> \E i \in 1 .. n : i # 1 /\ R[i] = c
      <4>1. CASE c = old
        BY <1>10, <1>11, <4>1
      <4>2. CASE c # old
        <5>1. (\E i \in 1 .. n : R[i] = c) <=> \E i \in 1 .. n : i # 1 /\ R[i] = c
          BY <4>2 DEF old
        <5>2. g[c] # NULL <=> h[c] # NULL
          BY <1>6, <1>10, <4>2, NullIsNoElement
        <5> QED
          BY <1>2, <5>1, <5>2
      <4> QED
        BY <4>1, <4>2
    <3> QED
      BY <1>3, <3>1, <3>2
  <2>5. z = IF T = << >> THEN NULL ELSE T[Len(T)]
    <3>1. T = << >> <=> n = 1
      <4>1. T = << >> <=> Len(T) = 0
        BY <1>3, EmptySeq
      <4> QED
        BY <1>1, <1>3, <4>1
    <3>2. n # 1 => n - 1 \in 1 .. n - 1 /\ (n - 1) + 1 = n
      BY <1>1
    <3>3. n # 1 => T[Len(T)] = R[n]
      BY <1>3, <3>2
    <3> QED
      BY <1>2, <1>7, <3>1, <3>3 DEF old
  <2>6. ASSUME NEW i \in DOMAIN T
        PROVE  g[T[i]].next = T[IF i = Len(T) THEN 1 ELSE i + 1]
    <3>1. /\ i \in 1 .. n - 1 /\ n # 1 /\ 1 \in 1 .. n - 1 /\ i + 1 \in 1 .. n /\ i + 1 # 1
          /\ T[i] = R[i + 1] /\ T[1] = R[2]
      <4>1. i \in 1 .. n - 1
        BY <1>3
      <4>2. n # 1 /\ 1 \in 1 .. n - 1 /\ 1 + 1 = 2
        BY <1>1, <4>1
      <4> QED
        BY <1>3, <2>1, <4>1, <4>2
    <3>2. CASE i = n - 1
      <4>1. i + 1 = n /\ 1 + 1 = 2
        BY <1>1, <3>1, <3>2
      <4>2. g[s].next = h[old].next
        BY <1>7, <1>10, <3>1
      <4>3. h[old].next = R[2]
        BY <1>2, <1>5, <3>1, <4>1 DEF old
      <4> QED
        BY <1>2, <1>3, <3>1, <3>2, <4>1, <4>2, <4>3
    <3>3. CASE i # n - 1
      <4>1. i + 1 # n /\ i + 1 \in 1 .. n - 1
        BY <1>1, <3>1, <3>3
      <4>2. R[i + 1] # s /\ R[i + 1] # old /\ R[i + 1] \in Cell
        BY <1>1, <1>2, <1>5, <1>11, <3>1, <4>1
      <4>3. g[R[i + 1]].next = R[(i + 1) + 1]
        BY <1>2, <1>10, <3>1, <4>1, <4>2
      <4>4. T[i + 1] = R[(i + 1) + 1]
        BY <1>3, <4>1
      <4> QED
        BY <1>3, <3>1, <3>3, <4>3, <4>4
    <3> QED
      BY <3>2, <3>3
  <2> QED
    BY <2>3, <2>4, <2>5, <2>6 DEF IsRing
<1> QED
  BY <1>6, <1>8, <1>9, <1>10, <1>12, <1>13 DEF g, T, n, old

-------------------------------------------------------------------------------
(* The invariant.                                                          *)

Inside(t) == pc[t] \in {"insert", "count", "take", "unlock"}

\* Consumers that have taken down size and not yet an element, and producers that have put
\* an element and not yet raised size.
Holding  == {c \in Consumer : pc[c] \in {"lock", "take"}}
Counting == {p \in Producer : pc[p] = "count"}

PlaceInv ==
  /\ pc \in [Thread -> {"idle", "lock", "insert", "count", "wait", "take", "unlock"}]
  /\ pushes \in [Producer -> 0 .. MaxPushes]
  /\ taken \in Seq(Value)
  /\ \A p \in Producer : pc[p] \notin {"wait", "take"}
  /\ \A c \in Consumer : pc[c] \notin {"insert", "count"}
  /\ \A p \in Producer : pc[p] \in {"lock", "insert"} => pushes[p] > 0

\* The thread inside is the one that holds the lock.
MutexInv ==
  /\ lock \in {0, 1}
  /\ lock = 1 => \A t \in Thread : ~ Inside(t)
  /\ lock = 0 => \E t \in Thread : Inside(t)
  /\ \A t, u \in Thread : Inside(t) /\ Inside(u) => t = u

RingInv ==
  /\ size \in Nat
  /\ heap \in Heap
  /\ \E R \in Seq(Cell) :
       /\ IsRing(heap, queue, R)
       /\ Len(R) = size + Cardinality(Holding) + Cardinality(Counting)

\* Only a consumer takes size down.
WaitInv == Cardinality(Consumer) = 1 => \A c \in Consumer : pc[c] = "wait" => size > 0

QueueInv == PlaceInv /\ MutexInv /\ RingInv /\ WaitInv

\* The threads between two semaphores are finitely many.
LEMMA Finite ==
  /\ Holding \in SUBSET Consumer /\ IsFiniteSet(Holding) /\ Cardinality(Holding) \in Nat
  /\ Counting \in SUBSET Producer /\ IsFiniteSet(Counting) /\ Cardinality(Counting) \in Nat
<1>1. Holding \in SUBSET Consumer /\ Counting \in SUBSET Producer
  BY DEF Holding, Counting
<1>2. IsFiniteSet(Consumer) /\ IsFiniteSet(Producer)
  BY QueueAssumption
<1>3. IsFiniteSet(Holding) /\ IsFiniteSet(Counting)
  BY <1>1, <1>2, FS_Subset
<1> QED
  BY <1>1, <1>3, FS_CardinalityType

\* A new queue is empty and nobody is in it.
LEMMA QueueInit == Init => QueueInv
<1> SUFFICES ASSUME Init PROVE QueueInv
  OBVIOUS
<1>1. PlaceInv
  BY QueueAssumption DEF Init, PlaceInv, Thread
<1>2. MutexInv
  BY DEF Init, MutexInv, Inside
<1>3. RingInv
  <2>1. heap \in Heap /\ size = 0
    BY DEF Init, Heap
  <2>2. Holding = {} /\ Counting = {}
    BY DEF Init, Holding, Counting, Thread
  <2>3. Cardinality(Holding) = 0 /\ Cardinality(Counting) = 0
    BY <2>2, FS_EmptySet
  <2>4. IsRing(heap, queue, << >>)
    <3>1. DOMAIN << >> = {}
      BY EmptySeq
    <3> QED
      BY <3>1 DEF Init, IsRing
  <2>5. << >> \in Seq(Cell) /\ Len(<< >>) = 0
    OBVIOUS
  <2>6. Len(<< >>) = size + Cardinality(Holding) + Cardinality(Counting)
    BY <2>1, <2>3, <2>5
  <2>7. \E R \in Seq(Cell) :
          /\ IsRing(heap, queue, R)
          /\ Len(R) = size + Cardinality(Holding) + Cardinality(Counting)
    BY <2>4, <2>5, <2>6, Zenon
  <2> QED
    BY <2>1, <2>7 DEF RingInv
<1>4. WaitInv
  BY DEF Init, WaitInv, Thread
<1> QED
  BY <1>1, <1>2, <1>3, <1>4 DEF QueueInv

-------------------------------------------------------------------------------
(* Every step keeps it.                                                    *)

\* Threads stay at the places of their code.
LEMMA PlaceKeeps ==
  ASSUME QueueInv, Next
  PROVE  PlaceInv'
<1>1. PlaceInv
  BY DEF QueueInv
<1>2. \A v \in Value : Append(taken, v) \in Seq(Value)
  BY <1>1 DEF PlaceInv
<1>3. ASSUME NEW p \in Producer, CallPush(p) \/ LockToPush(p) \/ Insert(p) \/ Count(p) \/ Unlock(p)
      PROVE  PlaceInv'
  <2>1. /\ p \in Thread /\ p \notin Consumer /\ taken' = taken
        /\ pc' \in [Thread -> {"idle", "lock", "insert", "count", "wait", "take", "unlock"}]
        /\ \A t \in Thread : t # p => pc'[t] = pc[t]
        /\ pc'[p] \in {"lock", "insert", "count", "unlock", "idle"}
        /\ pc'[p] \in {"insert"} => pc[p] = "lock"
    BY <1>1, <1>3, QueueAssumption
       DEF PlaceInv, Thread, Goes, CallPush, LockToPush, Insert, Count, Unlock
  <2>2. /\ pushes' \in [Producer -> 0 .. MaxPushes]
        /\ \A q \in Producer : pushes'[q] >= pushes[q]
        /\ pc'[p] = "lock" => pushes'[p] > 0
    <3>1. CASE CallPush(p)
      <4>1. pushes[p] \in Nat /\ pushes[p] < MaxPushes /\ pushes[p] + 1 \in 0 .. MaxPushes
        BY <1>1, <3>1, QueueAssumption DEF PlaceInv, CallPush
      <4> QED
        BY <1>1, <3>1, <4>1 DEF PlaceInv, CallPush
    <3>2. CASE ~ CallPush(p)
      <4>1. pushes' = pushes /\ pc'[p] # "lock"
        BY <1>1, <1>3, <2>1, <3>2 DEF PlaceInv, Goes, LockToPush, Insert, Count, Unlock
      <4> QED
        BY <1>1, <4>1 DEF PlaceInv
    <3> QED
      BY <3>1, <3>2
  <2>3. \A q \in Producer : pc'[q] \in {"lock", "insert"} => pushes'[q] > 0
    <3> SUFFICES ASSUME NEW q \in Producer, pc'[q] \in {"lock", "insert"} PROVE pushes'[q] > 0
      OBVIOUS
    <3>1. pushes[q] \in Nat /\ pushes'[q] \in Nat /\ pushes'[q] >= pushes[q]
      BY <1>1, <2>2 DEF PlaceInv
    <3>2. pc[q] \in {"lock", "insert"} => pushes[q] > 0
      BY <1>1 DEF PlaceInv
    <3> QED
      BY <2>1, <2>2, <3>1, <3>2 DEF Thread
  <2> QED
    BY <1>1, <2>1, <2>2, <2>3 DEF PlaceInv, Thread
<1>4. ASSUME NEW c \in Consumer, IsEmpty(c) \/ Wait(c) \/ LockToPop(c) \/ Take(c) \/ Unlock(c)
      PROVE  PlaceInv'
  <2>1. /\ c \in Thread /\ c \notin Producer /\ pushes' = pushes
        /\ pc' \in [Thread -> {"idle", "lock", "insert", "count", "wait", "take", "unlock"}]
        /\ \A t \in Thread : t # c => pc'[t] = pc[t]
        /\ pc'[c] \in {"lock", "wait", "take", "unlock", "idle"}
    BY <1>1, <1>4, QueueAssumption
       DEF PlaceInv, Thread, Goes, IsEmpty, Wait, LockToPop, Take, Unlock
  <2>2. taken' \in Seq(Value)
    <3>1. CASE Take(c)
      <4>1. PICK R \in Seq(Cell) : /\ IsRing(heap, queue, R)
                                   /\ Len(R) = size + Cardinality(Holding) + Cardinality(Counting)
        BY DEF QueueInv, RingInv
      <4>2. R # << >>
        <5>1. c \in Holding
          BY <3>1 DEF Take, Goes, Holding
        <5>2. Cardinality(Holding) # 0
          BY <5>1, Finite, FS_EmptySet
        <5>3. size \in Nat
          BY DEF QueueInv, RingInv
        <5>4. Len(R) # 0
          BY <4>1, <5>2, <5>3, Finite
        <5> QED
          BY <5>4
      <4>3. heap[heap[queue].next].ptr \in Value
        <5>1. heap \in Heap
          BY DEF QueueInv, RingInv
        <5>2. heap[queue].next = R[1] /\ heap[R[1]].ptr \in Value
          BY <4>1, <4>2, <5>1, PopKeepsRing
        <5> QED
          BY <5>2
      <4> QED
        BY <1>2, <3>1, <4>3 DEF Take
    <3>2. CASE ~ Take(c)
      BY <1>1, <1>4, <3>2 DEF PlaceInv, IsEmpty, Wait, LockToPop, Unlock
    <3> QED
      BY <3>1, <3>2
  <2> QED
    BY <1>1, <2>1, <2>2 DEF PlaceInv, Thread
<1> QED
  BY <1>3, <1>4 DEF Next, Push, Pop

\* One thread at most is between lock and unlock.
LEMMA MutexKeeps ==
  ASSUME QueueInv, Next
  PROVE  MutexInv'
<1>1. PlaceInv /\ MutexInv
  BY DEF QueueInv
<1>2. ASSUME NEW t \in Thread, NEW from, NEW to, Goes(t, from, to)
      PROVE  /\ pc[t] = from /\ pc'[t] = to
             /\ \A u \in Thread : u # t => pc'[u] = pc[u]
  BY <1>1, <1>2 DEF PlaceInv, Goes
<1>3. ASSUME NEW t \in Thread, ~ Inside(t), Inside(t)', lock = 1, lock' = 0,
             \A u \in Thread : u # t => pc'[u] = pc[u]
      PROVE  MutexInv'
  BY <1>1, <1>3 DEF MutexInv, Inside
<1>4. ASSUME NEW t \in Thread, Inside(t), ~ Inside(t)', lock = 0, lock' = 1,
             \A u \in Thread : u # t => pc'[u] = pc[u]
      PROVE  MutexInv'
  BY <1>1, <1>4 DEF MutexInv, Inside
<1>5. ASSUME NEW t \in Thread, Inside(t) <=> Inside(t)', lock' = lock,
             \A u \in Thread : u # t => pc'[u] = pc[u]
      PROVE  MutexInv'
  <2>1. \A u \in Thread : Inside(u) <=> Inside(u)'
    BY <1>5 DEF Inside
  <2>2. /\ lock' \in {0, 1}
        /\ lock' = 1 => \A u \in Thread : ~ Inside(u)'
        /\ lock' = 0 => \E u \in Thread : Inside(u)'
    BY <1>1, <1>5, <2>1 DEF MutexInv
  <2>3. \A u, v \in Thread : Inside(u)' /\ Inside(v)' => u = v
    BY <1>1, <2>1 DEF MutexInv
  <2> QED
    BY <2>2, <2>3 DEF MutexInv
<1>6. ASSUME NEW t \in Thread, Unlock(t) PROVE MutexInv'
  <2>1. pc[t] = "unlock" /\ pc'[t] = "idle" /\ \A u \in Thread : u # t => pc'[u] = pc[u]
    BY <1>2, <1>6 DEF Unlock
  <2>2. Inside(t) /\ ~ Inside(t)'
    BY <2>1 DEF Inside
  <2>3. lock = 0
    BY <1>1, <2>2 DEF MutexInv
  <2>4. lock' = 1
    BY <1>6, <2>3 DEF Unlock
  <2> QED
    BY <1>4, <2>1, <2>2, <2>3, <2>4
<1>7. ASSUME NEW t \in Thread, LockToPush(t) \/ LockToPop(t) PROVE MutexInv'
  <2>1. /\ pc[t] = "lock" /\ pc'[t] \in {"insert", "take"}
        /\ \A u \in Thread : u # t => pc'[u] = pc[u]
    BY <1>2, <1>7 DEF LockToPush, LockToPop
  <2>2. ~ Inside(t) /\ Inside(t)'
    BY <2>1 DEF Inside
  <2>3. lock = 1 /\ lock' = 0
    BY <1>1, <1>7 DEF LockToPush, LockToPop, MutexInv
  <2> QED
    BY <1>3, <2>1, <2>2, <2>3
<1>8. ASSUME NEW t \in Thread,
             CallPush(t) \/ Insert(t) \/ Count(t) \/ IsEmpty(t) \/ Wait(t) \/ Take(t)
      PROVE  MutexInv'
  <2>1. /\ Inside(t) <=> Inside(t)'
        /\ \A u \in Thread : u # t => pc'[u] = pc[u]
    BY <1>1, <1>8 DEF PlaceInv, Goes, Inside, CallPush, Insert, Count, IsEmpty, Wait, Take
  <2>2. lock' = lock
    BY <1>8 DEF CallPush, Insert, Count, IsEmpty, Wait, Take
  <2> QED
    BY <1>5, <2>1, <2>2
<1> QED
  BY <1>6, <1>7, <1>8 DEF Next, Push, Pop, Thread

\* How the two sets that size leaves out change when a thread goes on.
LEMMA HoldingGrows ==
  ASSUME PlaceInv, NEW c \in Consumer, c \notin Holding, pc' = [pc EXCEPT ![c] = "lock"]
  PROVE  Cardinality(Holding') = Cardinality(Holding) + 1 /\ Counting' = Counting
<1>1. Holding' = Holding \cup {c}
  BY DEF Holding, PlaceInv, Thread
<1>2. Counting' = Counting
  BY QueueAssumption DEF Counting, PlaceInv, Thread
<1> QED
  BY <1>1, <1>2, Finite, FS_AddElement

\* A consumer that takes its element holds no unit any more.
LEMMA HoldingShrinks ==
  ASSUME PlaceInv, NEW c \in Consumer, c \in Holding, pc' = [pc EXCEPT ![c] = "unlock"]
  PROVE  Cardinality(Holding') = Cardinality(Holding) - 1 /\ Counting' = Counting
<1>1. Holding' = Holding \ {c}
  BY DEF Holding, PlaceInv, Thread
<1>2. Counting' = Counting
  BY QueueAssumption DEF Counting, PlaceInv, Thread
<1> QED
  BY <1>1, <1>2, Finite, FS_RemoveElement

\* A producer that has inserted has still to count.
LEMMA CountingGrows ==
  ASSUME PlaceInv, NEW p \in Producer, p \notin Counting, pc' = [pc EXCEPT ![p] = "count"]
  PROVE  Cardinality(Counting') = Cardinality(Counting) + 1 /\ Holding' = Holding
<1>1. Counting' = Counting \cup {p}
  BY DEF Counting, PlaceInv, Thread
<1>2. Holding' = Holding
  BY QueueAssumption DEF Holding, PlaceInv, Thread
<1> QED
  BY <1>1, <1>2, Finite, FS_AddElement

\* A producer that raised size has counted.
LEMMA CountingShrinks ==
  ASSUME PlaceInv, NEW p \in Producer, p \in Counting, pc' = [pc EXCEPT ![p] = "unlock"]
  PROVE  Cardinality(Counting') = Cardinality(Counting) - 1 /\ Holding' = Holding
<1>1. Counting' = Counting \ {p}
  BY DEF Counting, PlaceInv, Thread
<1>2. Holding' = Holding
  BY QueueAssumption DEF Holding, PlaceInv, Thread
<1> QED
  BY <1>1, <1>2, Finite, FS_RemoveElement

\* queue_push and queue_pop run inside the lock, and do to the ring what they should.
LEMMA InsertAppends ==
  ASSUME QueueInv, NEW p \in Producer, Insert(p),
         NEW R \in Seq(Cell), IsRing(heap, queue, R)
  PROVE  \E q \in Cell :
           /\ heap' \in Heap
           /\ IsRing(heap', queue', Append(R, q))
           /\ heap'[q].ptr = <<p, pushes[p]>>
           /\ \A i \in 1 .. Len(R) : heap'[R[i]].ptr = heap[R[i]].ptr
           /\ <<p, pushes[p]>> \in Value
<1>1. PlaceInv /\ heap \in Heap
  BY DEF QueueInv, RingInv
<1>2. PICK q \in Cell :
        /\ heap[q] = NULL
        /\ LET new == QueuePush(heap, queue, q, <<p, pushes[p]>>)
           IN  queue' = new.queue /\ heap' = new.heap
  BY DEF Insert
<1>3. <<p, pushes[p]>> \in Value
  <2>1. pc[p] = "insert" /\ pushes[p] \in 0 .. MaxPushes
    BY <1>1 DEF Insert, Goes, PlaceInv
  <2>2. pushes[p] > 0
    BY <1>1, <2>1 DEF PlaceInv
  <2>3. pushes[p] \in 1 .. MaxPushes
    BY <2>1, <2>2
  <2> QED
    BY <2>3 DEF Value
<1> DEFINE v == <<p, pushes[p]>>
           new == QueuePush(heap, queue, q, v)
<1>4. /\ heap[q] = NULL
      /\ queue' = new.queue /\ heap' = new.heap
  BY <1>2
<1>6. v \in Value /\ new = QueuePush(heap, queue, q, v)
  BY <1>3
<1> HIDE DEF v, new
<1>5. /\ new.heap \in Heap
      /\ IsRing(new.heap, new.queue, Append(R, q))
      /\ new.heap[q].ptr = v
      /\ \A i \in 1 .. Len(R) : new.heap[R[i]].ptr = heap[R[i]].ptr
  BY <1>1, <1>4, <1>6, PushKeepsRing
<1> QED
  BY <1>4, <1>5, <1>6 DEF v

\* Take finds an element, since its thread holds a unit, and leaves the ring without its first.
LEMMA TakeRemoves ==
  ASSUME QueueInv, NEW c \in Consumer, Take(c),
         NEW R \in Seq(Cell), IsRing(heap, queue, R),
         Len(R) = size + Cardinality(Holding) + Cardinality(Counting)
  PROVE  /\ R # << >>
         /\ heap' \in Heap
         /\ IsRing(heap', queue', Tail(R))
         /\ heap[queue].next = R[1]
         /\ \A i \in 1 .. Len(R) : i # 1 => heap'[R[i]].ptr = heap[R[i]].ptr
<1>1. heap \in Heap /\ size \in Nat
  BY DEF QueueInv, RingInv
<1>2. R # << >>
  <2>1. c \in Holding
    BY DEF Take, Goes, Holding
  <2>2. Cardinality(Holding) # 0
    BY <2>1, Finite, FS_EmptySet
  <2>3. Len(R) # 0
    BY <1>1, <2>2, Finite
  <2> QED
    BY <2>3
<1> DEFINE left == QueuePop(heap, queue)
<1>3. queue' = left.queue /\ heap' = left.heap
  BY DEF Take
<1> HIDE DEF left
<1>4. /\ left.heap \in Heap
      /\ IsRing(left.heap, left.queue, Tail(R))
      /\ heap[queue].next = R[1]
      /\ \A i \in 1 .. Len(R) : i # 1 => left.heap[R[i]].ptr = heap[R[i]].ptr
  BY <1>1, <1>2, PopKeepsRing DEF left
<1> QED
  BY <1>2, <1>3, <1>4

\* The elements stay a ring, of the length that size and the threads in between add up to.
LEMMA RingKeeps ==
  ASSUME QueueInv, Next
  PROVE  RingInv'
<1>1. PlaceInv /\ size \in Nat /\ heap \in Heap
  BY DEF QueueInv, RingInv
<1>2. PICK R \in Seq(Cell) : /\ IsRing(heap, queue, R)
                             /\ Len(R) = size + Cardinality(Holding) + Cardinality(Counting)
  BY DEF QueueInv, RingInv
<1> DEFINE H == Cardinality(Holding)
           C == Cardinality(Counting)
           n == Len(R)
<1>3. H \in Nat /\ C \in Nat /\ n \in Nat
  BY Finite
<1>4. n = size + H + C
  BY <1>2
<1>5. ASSUME size' = size, UNCHANGED <<heap, queue>>, Holding' = Holding, Counting' = Counting
      PROVE  RingInv'
  <2>1. IsRing(heap', queue', R) /\ Len(R) = size' + Cardinality(Holding') + Cardinality(Counting')
    BY <1>2, <1>5
  <2> QED
    BY <1>1, <1>5, <2>1 DEF RingInv
<1> HIDE DEF H, C, n
<1>6. ASSUME NEW p \in Producer, CallPush(p) \/ LockToPush(p) PROVE RingInv'
  <2>1. Holding' = Holding /\ Counting' = Counting
    BY <1>1, <1>6, QueueAssumption
       DEF PlaceInv, Thread, Holding, Counting, Goes, CallPush, LockToPush
  <2> QED
    BY <1>5, <1>6, <2>1 DEF CallPush, LockToPush
<1>7. ASSUME NEW c \in Consumer, IsEmpty(c) \/ LockToPop(c) PROVE RingInv'
  <2>1. Holding' = Holding /\ Counting' = Counting
    BY <1>1, <1>7, QueueAssumption
       DEF PlaceInv, Thread, Holding, Counting, Goes, IsEmpty, LockToPop
  <2> QED
    BY <1>5, <1>7, <2>1 DEF IsEmpty, LockToPop
<1>8. ASSUME NEW t \in Thread, Unlock(t) PROVE RingInv'
  <2>1. Holding' = Holding /\ Counting' = Counting
    BY <1>1, <1>8 DEF PlaceInv, Thread, Holding, Counting, Goes, Unlock
  <2> QED
    BY <1>5, <1>8, <2>1 DEF Unlock
<1>9. ASSUME NEW p \in Producer, Insert(p) PROVE RingInv'
  <2>1. Cardinality(Counting') = C + 1 /\ Holding' = Holding
    <3>1. p \notin Counting /\ pc' = [pc EXCEPT ![p] = "count"]
      BY <1>9 DEF Insert, Goes, Counting
    <3> QED
      BY <1>1, <3>1, CountingGrows DEF C
  <2>2. PICK q \in Cell : heap' \in Heap /\ IsRing(heap', queue', Append(R, q))
    BY <1>2, <1>9, InsertAppends
  <2>3. Append(R, q) \in Seq(Cell) /\ Len(Append(R, q)) = n + 1
    BY AppendProperties DEF n
  <2>4. size' = size
    BY <1>9 DEF Insert
  <2>5. n + 1 = size' + Cardinality(Holding') + Cardinality(Counting')
    <3>1. size' + Cardinality(Holding') + Cardinality(Counting') = size + H + (C + 1)
      BY <2>1, <2>4 DEF H
    <3> QED
      BY <1>1, <1>3, <1>4, <3>1
  <2>6. size' \in Nat
    BY <1>1, <2>4
  <2> QED
    BY <2>2, <2>3, <2>5, <2>6 DEF RingInv
<1>10. ASSUME NEW p \in Producer, Count(p) PROVE RingInv'
  <2>1. Cardinality(Counting') = C - 1 /\ Holding' = Holding
    <3>1. p \in Counting /\ pc' = [pc EXCEPT ![p] = "unlock"]
      BY <1>10 DEF Count, Goes, Counting
    <3> QED
      BY <1>1, <3>1, CountingShrinks DEF C
  <2>2. size' = size + 1 /\ heap' = heap /\ queue' = queue
    BY <1>10 DEF Count
  <2>3. n = size' + Cardinality(Holding') + Cardinality(Counting')
    <3>1. size' + Cardinality(Holding') + Cardinality(Counting') = (size + 1) + H + (C - 1)
      BY <2>1, <2>2 DEF H
    <3> QED
      BY <1>1, <1>3, <1>4, <3>1
  <2>4. IsRing(heap', queue', R) /\ Len(R) = size' + Cardinality(Holding') + Cardinality(Counting')
    BY <1>2, <2>2, <2>3 DEF n
  <2>5. size' \in Nat /\ heap' \in Heap
    BY <1>1, <2>2
  <2> QED
    BY <2>4, <2>5 DEF RingInv
<1>11. ASSUME NEW c \in Consumer, Wait(c) PROVE RingInv'
  <2>1. Cardinality(Holding') = H + 1 /\ Counting' = Counting
    <3>1. c \notin Holding /\ pc' = [pc EXCEPT ![c] = "lock"]
      BY <1>11 DEF Wait, Goes, Holding
    <3> QED
      BY <1>1, <3>1, HoldingGrows DEF H
  <2>2. size > 0 /\ size' = size - 1 /\ heap' = heap /\ queue' = queue
    BY <1>11 DEF Wait
  <2>3. n = size' + Cardinality(Holding') + Cardinality(Counting')
    <3>1. size' + Cardinality(Holding') + Cardinality(Counting') = (size - 1) + (H + 1) + C
      BY <2>1, <2>2 DEF C
    <3> QED
      BY <1>1, <1>3, <1>4, <3>1
  <2>4. IsRing(heap', queue', R) /\ Len(R) = size' + Cardinality(Holding') + Cardinality(Counting')
    BY <1>2, <2>2, <2>3 DEF n
  <2>5. size' \in Nat /\ heap' \in Heap
    BY <1>1, <2>2
  <2> QED
    BY <2>4, <2>5 DEF RingInv
<1>12. ASSUME NEW c \in Consumer, Take(c) PROVE RingInv'
  <2>1. Cardinality(Holding') = H - 1 /\ Counting' = Counting
    <3>1. c \in Holding /\ pc' = [pc EXCEPT ![c] = "unlock"]
      BY <1>12 DEF Take, Goes, Holding
    <3> QED
      BY <1>1, <3>1, HoldingShrinks DEF H
  <2>2. R # << >> /\ heap' \in Heap /\ IsRing(heap', queue', Tail(R))
    BY <1>2, <1>12, TakeRemoves
  <2>3. Tail(R) \in Seq(Cell) /\ Len(Tail(R)) = n - 1
    BY <2>2, HeadTailProperties DEF n
  <2>4. size' = size
    BY <1>12 DEF Take
  <2>5. n - 1 = size' + Cardinality(Holding') + Cardinality(Counting')
    <3>1. size' + Cardinality(Holding') + Cardinality(Counting') = size + (H - 1) + C
      BY <2>1, <2>4 DEF C
    <3> QED
      BY <1>1, <1>3, <1>4, <3>1
  <2>6. size' \in Nat
    BY <1>1, <2>4
  <2> QED
    BY <2>2, <2>3, <2>5, <2>6 DEF RingInv
<1> QED
  BY <1>6, <1>7, <1>8, <1>9, <1>10, <1>11, <1>12 DEF Next, Push, Pop, Thread

\* Nobody but the consumer lowers size, so that what it saw is still there.
LEMMA WaitKeeps ==
  ASSUME QueueInv, Next
  PROVE  WaitInv'
<1> SUFFICES ASSUME Cardinality(Consumer) = 1, NEW c \in Consumer, pc'[c] = "wait"
             PROVE  size' > 0
  BY DEF WaitInv
<1>1. PlaceInv /\ size \in Nat /\ (pc[c] = "wait" => size > 0)
  BY DEF QueueInv, RingInv, WaitInv
<1>2. \A d \in Consumer : d = c
  <2>1. PICK x : Consumer = {x}
    BY QueueAssumption, FS_Singleton
  <2> QED
    BY <2>1
<1>3. ASSUME NEW p \in Producer, CallPush(p) \/ LockToPush(p) \/ Insert(p) \/ Count(p) \/ Unlock(p)
      PROVE  size' > 0
  <2>1. pc'[c] = pc[c]
    BY <1>1, <1>3, QueueAssumption
       DEF PlaceInv, Thread, Goes, CallPush, LockToPush, Insert, Count, Unlock
  <2>2. size > 0 /\ size' \in {size, size + 1}
    BY <1>1, <1>3, <2>1 DEF CallPush, LockToPush, Insert, Count, Unlock
  <2> QED
    BY <1>1, <2>2
<1>4. ASSUME NEW d \in Consumer, IsEmpty(d) PROVE size' > 0
  <2>1. pc' = [pc EXCEPT ![c] = IF size = 0 THEN "idle" ELSE "wait"] /\ size' = size
    BY <1>2, <1>4 DEF IsEmpty, Goes
  <2>2. size # 0
    BY <1>1, <2>1 DEF PlaceInv, Thread
  <2> QED
    BY <1>1, <2>1, <2>2
<1>5. ASSUME NEW d \in Consumer, Wait(d) \/ LockToPop(d) \/ Take(d) \/ Unlock(d) PROVE FALSE
  <2>1. pc' = [pc EXCEPT ![c] = pc'[c]] /\ pc'[c] \in {"lock", "take", "unlock", "idle"}
    BY <1>1, <1>2, <1>5 DEF PlaceInv, Thread, Wait, LockToPop, Take, Unlock, Goes
  <2> QED
    BY <2>1
<1> QED
  BY <1>3, <1>4, <1>5 DEF Next, Push, Pop

\* The invariant is inductive.
LEMMA QueueNext == QueueInv /\ [Next]_vars => QueueInv'
<1> SUFFICES ASSUME QueueInv, [Next]_vars PROVE QueueInv'
  OBVIOUS
<1>1. CASE Next
  BY <1>1, PlaceKeeps, MutexKeeps, RingKeeps, WaitKeeps DEF QueueInv
<1>2. CASE UNCHANGED vars
  BY <1>2 DEF QueueInv, PlaceInv, MutexInv, RingInv, WaitInv, Inside, Holding, Counting, vars
<1> QED
  BY <1>1, <1>2

\* It holds at every step.
LEMMA QueueInvariant == Spec => []QueueInv
BY QueueInit, QueueNext, PTL DEF Spec

-------------------------------------------------------------------------------
(* The theorems.                                                           *)

\* For every number of producers and consumers the variables keep to their types, and no
\* pointer of the ring leads to an element that was freed.
THEOREM QueueTypeOK == Spec => []TypeOK
<1>1. QueueInv => TypeOK
  <2> SUFFICES ASSUME QueueInv PROVE TypeOK
    OBVIOUS
  <2>1. PlaceInv /\ MutexInv /\ RingInv
    BY DEF QueueInv
  <2>2. PICK R \in Seq(Cell) : IsRing(heap, queue, R)
    BY <2>1 DEF RingInv
  <2>3. DOMAIN R = 1 .. Len(R) /\ Len(R) \in Nat /\ \A i \in 1 .. Len(R) : R[i] \in Cell
    BY ElementOfSeq
  <2>4. \A i \in 1 .. Len(R) : R[i] \in Allocated
    BY <2>2, <2>3 DEF IsRing, Allocated
  <2>5. queue \in {NULL} \cup Allocated
    <3>1. R # << >> => Len(R) \in 1 .. Len(R)
      BY <2>3, EmptySeq
    <3> QED
      BY <2>2, <2>4, <3>1 DEF IsRing
  <2>6. \A c \in Allocated : heap[c].next \in Allocated
    <3> SUFFICES ASSUME NEW c \in Allocated PROVE heap[c].next \in Allocated
      OBVIOUS
    <3>1. PICK i \in 1 .. Len(R) : R[i] = c
      BY <2>2, <2>3 DEF IsRing, Allocated
    <3>2. heap[R[i]].next = R[IF i = Len(R) THEN 1 ELSE i + 1]
      BY <2>2, <2>3 DEF IsRing
    <3>3. (IF i = Len(R) THEN 1 ELSE i + 1) \in 1 .. Len(R)
      BY <2>3, NextPlace
    <3> QED
      BY <2>4, <3>1, <3>2, <3>3
  <2>7. heap \in [Cell -> {NULL} \cup [ptr : Value, next : Cell]] /\ size \in Nat
    BY <2>1 DEF RingInv, Heap, Element
  <2>8. lock \in 0 .. 1
    BY <2>1 DEF MutexInv
  <2> QED
    BY <2>1, <2>5, <2>6, <2>7, <2>8 DEF TypeOK, PlaceInv
<1> QED
  BY <1>1, QueueInvariant, PTL

\* The semaphore size counts the ring at every step of every interleaving, and the lock
\* lets one thread in.
THEOREM SizeMatchesRing == Spec => []SizeCountsRing
<1>1. QueueInv => SizeCountsRing
  <2> SUFFICES ASSUME QueueInv PROVE SizeCountsRing
    OBVIOUS
  <2>1. PlaceInv /\ MutexInv /\ size \in Nat /\ heap \in Heap
    BY DEF QueueInv, RingInv
  <2>2. PICK R \in Seq(Cell) : /\ IsRing(heap, queue, R)
                               /\ Len(R) = size + Cardinality(Holding) + Cardinality(Counting)
    BY DEF QueueInv, RingInv
  <2>3. Rings # {} /\ Ring = R
    BY <2>1, <2>2, RingIs
  <2>4. At("count") = Counting
    BY <2>1 DEF At, Counting, PlaceInv, Thread
  <2>5. Cardinality(At("take")) + Cardinality(At("lock") \cap Consumer) = Cardinality(Holding)
    <3> DEFINE A == At("take")
               B == At("lock") \cap Consumer
    <3>1. Holding = A \cup B /\ A \cap B = {}
      BY <2>1 DEF At, Holding, PlaceInv, Thread
    <3>2. A \in SUBSET Consumer /\ B \in SUBSET Consumer
      BY <2>1 DEF At, PlaceInv, Thread
    <3> HIDE DEF A, B
    <3>3. IsFiniteSet(A) /\ IsFiniteSet(B)
      BY <3>2, QueueAssumption, FS_Subset
    <3>4. Cardinality(A \cup B) = Cardinality(A) + Cardinality(B) - Cardinality(A \cap B)
      BY <3>3, FS_Union
    <3>5. Cardinality(A) \in Nat /\ Cardinality(B) \in Nat /\ Cardinality(A \cap B) = 0
      BY <3>1, <3>3, FS_CardinalityType, FS_EmptySet
    <3>6. Cardinality(Holding) = Cardinality(A) + Cardinality(B)
      BY <3>1, <3>4, <3>5
    <3> QED
      BY <3>6 DEF A, B
  <2>6. size + Cardinality(At("take")) + Cardinality(At("lock") \cap Consumer)
          = Len(Ring) - Cardinality(At("count"))
    <3> DEFINE a == Cardinality(At("take"))
               b == Cardinality(At("lock") \cap Consumer)
               k == Cardinality(Counting)
    <3>1. a \in Nat /\ b \in Nat
      <4>1. At("take") \in SUBSET Consumer /\ At("lock") \cap Consumer \in SUBSET Consumer
        BY <2>1 DEF At, PlaceInv, Thread
      <4>2. IsFiniteSet(At("take")) /\ IsFiniteSet(At("lock") \cap Consumer)
        BY <4>1, QueueAssumption, FS_Subset
      <4> QED
        BY <4>2, FS_CardinalityType
    <3>2. k \in Nat /\ a + b = Cardinality(Holding)
      BY <2>5, Finite
    <3>3. Len(Ring) = size + (a + b) + k
      BY <2>2, <2>3, <3>2
    <3> HIDE DEF a, b, k
    <3>4. size + a + b = Len(Ring) - k
      BY <2>1, <3>1, <3>2, <3>3
    <3> QED
      BY <2>4, <3>4 DEF a, b, k
  <2>7. Cardinality(At("insert") \cup At("count") \cup At("take") \cup At("unlock")) + lock = 1
    <3> DEFINE I == At("insert") \cup At("count") \cup At("take") \cup At("unlock")
    <3>1. I = {t \in Thread : Inside(t)}
      BY DEF At, Inside
    <3> HIDE DEF I
    <3>2. CASE lock = 1
      <4>1. I = {}
        BY <2>1, <3>1, <3>2 DEF MutexInv
      <4> QED
        BY <3>2, <4>1, FS_EmptySet DEF I
    <3>3. CASE lock = 0
      <4>1. PICK t \in Thread : Inside(t)
        BY <2>1, <3>3 DEF MutexInv
      <4>2. I = {t}
        BY <2>1, <3>1, <4>1 DEF MutexInv
      <4>3. Cardinality(I) = 1
        BY <4>2, FS_Singleton
      <4> QED
        BY <3>3, <4>3 DEF I
    <3> QED
      BY <2>1, <3>2, <3>3 DEF MutexInv
  <2> QED
    BY <2>3, <2>6, <2>7 DEF SizeCountsRing
<1> QED
  BY <1>1, QueueInvariant, PTL

\* A queue with one consumer: the loop that looked at isEmpty without a lock never waits
\* inside pop, however many producers push.
THEOREM LookedIsEnough == Spec => []PopNeverWaits
<1>1. QueueInv => PopNeverWaits
  <2> SUFFICES ASSUME QueueInv, Cardinality(Consumer) = 1, NEW t \in Thread, pc[t] = "wait"
               PROVE  size > 0
    BY DEF PopNeverWaits, At
  <2>1. t \in Consumer
    BY DEF QueueInv, PlaceInv, Thread
  <2> QED
    BY <2>1 DEF QueueInv, WaitInv
<1> QED
  BY <1>1, QueueInvariant, PTL

Items == [k \in DOMAIN Ring |-> heap[Ring[k]].ptr]

\* The values in the queue are those of the elements, in the order of the ring.
LEMMA ItemsOf ==
  ASSUME heap \in Heap, NEW R \in Seq(Cell), IsRing(heap, queue, R)
  PROVE  /\ Items \in Seq(Value) /\ Len(Items) = Len(R)
         /\ \A k \in 1 .. Len(R) : Items[k] = heap[R[k]].ptr
<1>1. Ring = R
  BY RingIs
<1>2. DOMAIN R = 1 .. Len(R) /\ Len(R) \in Nat /\ \A i \in 1 .. Len(R) : R[i] \in Cell
  BY ElementOfSeq
<1>3. \A i \in 1 .. Len(R) : heap[R[i]].ptr \in Value
  <2> SUFFICES ASSUME NEW i \in 1 .. Len(R) PROVE heap[R[i]].ptr \in Value
    OBVIOUS
  <2>1. heap[R[i]] # NULL /\ R[i] \in Cell
    BY <1>2 DEF IsRing
  <2>2. heap[R[i]] \in Element
    BY <2>1 DEF Heap
  <2> QED
    BY <2>2 DEF Element
<1>4. Items = [k \in 1 .. Len(R) |-> heap[R[k]].ptr]
  BY <1>1, <1>2 DEF Items
<1>5. Items \in [1 .. Len(R) -> Value]
  BY <1>3, <1>4
<1> QED
  BY <1>2, <1>4, <1>5

\* The same fact, of a state and of the one after it.
ItemsAreThose ==
  heap \in Heap =>
    \A R \in Seq(Cell) : IsRing(heap, queue, R) =>
      /\ Items \in Seq(Value) /\ Len(Items) = Len(R)
      /\ \A k \in 1 .. Len(R) : Items[k] = heap[R[k]].ptr

\* They are so now,
LEMMA ItemsNow == ItemsAreThose
BY ItemsOf DEF ItemsAreThose

\* and after the step.
LEMMA ItemsNext == ItemsAreThose'
BY ItemsNow, PTL

\* Insert and Take are the steps of a FIFO, all others leave the queue as it is.
LEMMA StepIsFifo == QueueInv /\ QueueInv' /\ [Next]_vars => [F!Next]_(F!vars)
<1> SUFFICES ASSUME QueueInv, QueueInv', [Next]_vars PROVE [F!Next]_(F!vars)
  OBVIOUS
<1>1. PICK R \in Seq(Cell) : /\ IsRing(heap, queue, R)
                             /\ Len(R) = size + Cardinality(Holding) + Cardinality(Counting)
  BY DEF QueueInv, RingInv
<1>2. heap \in Heap /\ heap' \in Heap
  BY DEF QueueInv, RingInv
<1>3. /\ Items \in Seq(Value) /\ Len(Items) = Len(R)
      /\ \A k \in 1 .. Len(R) : Items[k] = heap[R[k]].ptr
  BY <1>1, <1>2, ItemsOf
<1>4. ASSUME NEW S \in Seq(Cell), IsRing(heap', queue', S)
      PROVE  /\ Items' \in Seq(Value) /\ Len(Items') = Len(S)
             /\ \A k \in 1 .. Len(S) : Items'[k] = heap'[S[k]].ptr
  BY <1>2, <1>4, ItemsNext DEF ItemsAreThose
<1>5. ASSUME NEW p \in Producer, Insert(p) PROVE F!Put
  <2> DEFINE v == <<p, pushes[p]>>
  <2>1. PICK q \in Cell :
          /\ IsRing(heap', queue', Append(R, q))
          /\ heap'[q].ptr = v
          /\ \A i \in 1 .. Len(R) : heap'[R[i]].ptr = heap[R[i]].ptr
          /\ v \in Value
    BY <1>1, <1>5, InsertAppends
  <2> HIDE DEF v
  <2>2. /\ Append(R, q) \in Seq(Cell) /\ Len(Append(R, q)) = Len(R) + 1 /\ Len(R) \in Nat
        /\ \A i \in 1 .. Len(R) : Append(R, q)[i] = R[i]
        /\ Append(R, q)[Len(R) + 1] = q
    BY AppendProperties
  <2>3. /\ Items' \in Seq(Value) /\ Len(Items') = Len(R) + 1
        /\ \A k \in 1 .. Len(R) + 1 : Items'[k] = heap'[Append(R, q)[k]].ptr
    BY <1>4, <2>1, <2>2
  <2>4. /\ Append(Items, v) \in Seq(Value) /\ Len(Append(Items, v)) = Len(R) + 1
        /\ \A i \in 1 .. Len(R) : Append(Items, v)[i] = Items[i]
        /\ Append(Items, v)[Len(R) + 1] = v
    BY <1>3, <2>1, AppendProperties
  <2>5. \A i \in 1 .. Len(R) + 1 : Items'[i] = Append(Items, v)[i]
    <3> SUFFICES ASSUME NEW i \in 1 .. Len(R) + 1 PROVE Items'[i] = Append(Items, v)[i]
      OBVIOUS
    <3>1. CASE i \in 1 .. Len(R)
      BY <1>3, <2>1, <2>2, <2>3, <2>4, <3>1
    <3>2. CASE i = Len(R) + 1
      BY <2>1, <2>2, <2>3, <2>4, <3>2
    <3>3. i \in 1 .. Len(R) \/ i = Len(R) + 1
      BY <2>2
    <3> QED
      BY <3>1, <3>2, <3>3
  <2>6. Items' = Append(Items, v)
    BY <2>3, <2>4, <2>5, SeqEqual
  <2>7. taken' = taken
    BY <1>5 DEF Insert
  <2> QED
    BY <2>1, <2>6, <2>7 DEF F!Put, Items
<1>6. ASSUME NEW c \in Consumer, Take(c) PROVE F!Take
  <2>1. /\ R # << >>
        /\ IsRing(heap', queue', Tail(R))
        /\ heap[queue].next = R[1]
        /\ \A i \in 1 .. Len(R) : i # 1 => heap'[R[i]].ptr = heap[R[i]].ptr
    BY <1>1, <1>6, TakeRemoves
  <2>2. /\ Tail(R) \in Seq(Cell) /\ Len(Tail(R)) = Len(R) - 1 /\ Len(R) \in Nat /\ Len(R) # 0
        /\ \A i \in 1 .. Len(R) - 1 : Tail(R)[i] = R[i + 1]
    BY <2>1, HeadTailProperties, EmptySeq
  <2>3. /\ Items' \in Seq(Value) /\ Len(Items') = Len(R) - 1
        /\ \A k \in 1 .. Len(R) - 1 : Items'[k] = heap'[Tail(R)[k]].ptr
    BY <1>4, <2>1, <2>2
  <2>4. Items # << >>
    BY <1>3, <2>2
  <2>5. /\ Tail(Items) \in Seq(Value) /\ Len(Tail(Items)) = Len(R) - 1
        /\ \A i \in 1 .. Len(R) - 1 : Tail(Items)[i] = Items[i + 1]
    BY <1>3, <2>4, HeadTailProperties
  <2>6. \A i \in 1 .. Len(R) - 1 : Items'[i] = Tail(Items)[i]
    <3> SUFFICES ASSUME NEW i \in 1 .. Len(R) - 1 PROVE Items'[i] = Tail(Items)[i]
      OBVIOUS
    <3>1. i + 1 \in 1 .. Len(R) /\ i + 1 # 1
      BY <2>2
    <3> QED
      BY <1>3, <2>1, <2>2, <2>3, <2>5, <3>1
  <2>7. Items' = Tail(Items)
    BY <2>3, <2>5, <2>6, SeqEqual
  <2>8. Head(Items) = heap[heap[queue].next].ptr
    <3>1. 1 \in 1 .. Len(R)
      BY <2>2
    <3> QED
      BY <1>3, <2>1, <2>4, <3>1
  <2>9. taken' = Append(taken, Head(Items))
    BY <1>6, <2>8 DEF Take
  <2> QED
    BY <2>4, <2>7, <2>9 DEF F!Take, Items
<1>7. CASE UNCHANGED <<heap, queue, taken>>
  <2>1. Items' = Items
    <3>1. IsRing(heap', queue', R)
      BY <1>1, <1>7
    <3>2. /\ Items' \in Seq(Value) /\ Len(Items') = Len(R)
          /\ \A k \in 1 .. Len(R) : Items'[k] = heap'[R[k]].ptr
      BY <1>4, <3>1
    <3>3. \A k \in 1 .. Len(R) : Items'[k] = Items[k]
      BY <1>3, <1>7, <3>2
    <3> QED
      BY <1>3, <3>2, <3>3, SeqEqual
  <2> QED
    BY <1>7, <2>1 DEF F!vars, Items
<1>8. \/ UNCHANGED <<heap, queue, taken>>
      \/ \E p \in Producer : Insert(p)
      \/ \E c \in Consumer : Take(c)
  BY DEF Next, Push, Pop, CallPush, LockToPush, Count, Unlock, IsEmpty, Wait, LockToPop, vars
<1> QED
  BY <1>5, <1>6, <1>7, <1>8 DEF F!Next

\* The ring under its semaphores is a FIFO, for every number of threads: values come out in
\* the order in which they went in, each once.
THEOREM QueueIsFifo == Spec => IsFifo
<1>1. Init => F!Init
  <2> SUFFICES ASSUME Init PROVE F!Init
    OBVIOUS
  <2>1. heap \in Heap
    BY DEF Init, Heap
  <2>2. << >> \in Seq(Cell) /\ Len(<< >>) = 0 /\ DOMAIN << >> = {}
    BY EmptySeq
  <2>3. IsRing(heap, queue, << >>)
    BY <2>2 DEF Init, IsRing
  <2>4. Items \in Seq(Value) /\ Len(Items) = 0
    BY <2>1, <2>2, <2>3, ItemsOf
  <2>5. Items = << >>
    BY <2>4, EmptySeq
  <2> QED
    BY <2>5 DEF Init, F!Init, Items
<1> QED
  BY <1>1, QueueInvariant, StepIsFifo, PTL DEF Spec, IsFifo, F!Spec

================================================================================
