----------------------------- MODULE SharedQueue -----------------------------
(***************************************************************************)
(* A queue between threads: the ring of queue.c under the two semaphores   *)
(* of shared_queue.c, lock and size (src/Projet/Tools/queue). The ring is  *)
(* kept by a pointer to its last element, whose next is the first.         *)
(*                                                                         *)
(* Producers push when they like. Consumers do as the loops of gestion and *)
(* SendOutGoinMessages: they pop when isEmpty has just said no.            *)
(***************************************************************************)
EXTENDS Integers, FiniteSets, Sequences

CONSTANTS
  Producer, Consumer,
  Cell,        \* addresses that malloc may return
  NULL,
  MaxPushes    \* bound on the pushes of each producer

ASSUME QueueAssumption ==
  /\ Producer \cap Consumer = {}
  /\ IsFiniteSet(Producer) /\ IsFiniteSet(Consumer)
  /\ NULL \notin Cell /\ NULL \notin [ptr : Producer \X (1 .. MaxPushes), next : Cell]
  /\ MaxPushes \in Nat
  \* malloc does not fail
  /\ Cardinality(Cell) >= Cardinality(Producer) * MaxPushes

Value == Producer \X (1 .. MaxPushes)

VARIABLES
  lock, size,   \* the values of the semaphores
  queue,        \* sq->queue
  heap,         \* the elements, NULL where nothing is allocated
  pc,           \* where each thread is
  pushes,       \* how many values each producer has pushed or is pushing
  taken         \* history: the values popped

vars == <<lock, size, queue, heap, pc, pushes, taken>>

Thread  == Producer \cup Consumer
Goes(t, from, to) == pc[t] = from /\ pc' = [pc EXCEPT ![t] = to]

Init ==
  /\ lock = 1 /\ size = 0
  /\ queue = NULL
  /\ heap = [c \in Cell |-> NULL]
  /\ pc = [t \in Thread |-> "idle"]
  /\ pushes = [p \in Producer |-> 0]
  /\ taken = << >>

-------------------------------------------------------------------------------
(* queue_push and queue_pop on a heap h, a ring s and a new element q.     *)

QueuePushAtFront(h, s, q, v) ==
  IF s = NULL
    THEN [queue |-> q, heap |-> [h EXCEPT ![q] = [ptr |-> v, next |-> q]]]
    ELSE [queue |-> s, heap |-> [h EXCEPT ![q] = [ptr |-> v, next |-> h[s].next],
                                          ![s].next = q]]

QueuePush(h, s, q, v) ==
  [queue |-> q,
   heap  |-> IF s = NULL
               THEN [h EXCEPT ![q] = [ptr |-> v, next |-> q]]
               ELSE [h EXCEPT ![q] = [ptr |-> v, next |-> h[s].next], ![s].next = q]]

QueuePopKeepsLast(h, s) ==
  LET old == h[s].next
  IN  [queue |-> s, heap |-> [[h EXCEPT ![s].next = h[old].next] EXCEPT ![old] = NULL]]

QueuePop(h, s) ==
  LET old == h[s].next
  IN  [queue |-> IF old = s THEN NULL ELSE s,
       heap  |-> [[h EXCEPT ![s].next = h[old].next] EXCEPT ![old] = NULL]]

-------------------------------------------------------------------------------
(* shared_queue_push.                                                      *)

CallPush(p) ==
  /\ pushes[p] < MaxPushes
  /\ pushes' = [pushes EXCEPT ![p] = @ + 1]
  /\ Goes(p, "idle", "lock")
  /\ UNCHANGED <<lock, size, queue, heap, taken>>

LockToPush(p) ==
  /\ lock > 0 /\ lock' = lock - 1
  /\ Goes(p, "lock", "insert")
  /\ UNCHANGED <<size, queue, heap, pushes, taken>>

Insert(p) ==
  /\ Goes(p, "insert", "count")
  /\ \E q \in {c \in Cell : heap[c] = NULL} :
       LET new == QueuePush(heap, queue, q, <<p, pushes[p]>>)
       IN  queue' = new.queue /\ heap' = new.heap
  /\ UNCHANGED <<lock, size, pushes, taken>>

CountSkipped(p) ==
  /\ Goes(p, "count", "unlock")
  /\ UNCHANGED <<lock, size, queue, heap, pushes, taken>>

Count(p) ==
  /\ Goes(p, "count", "unlock")
  /\ size' = size + 1
  /\ UNCHANGED <<lock, queue, heap, pushes, taken>>

Unlock(t) ==
  /\ Goes(t, "unlock", "idle")
  /\ lock' = lock + 1
  /\ UNCHANGED <<size, queue, heap, pushes, taken>>

-------------------------------------------------------------------------------
(* shared_queue_isEmpty, which takes no lock, and shared_queue_pop.        *)

IsEmptyUnlessCounted(c) ==
  /\ Goes(c, "idle", "wait")
  /\ UNCHANGED <<lock, size, queue, heap, pushes, taken>>

IsEmpty(c) ==
  /\ Goes(c, "idle", IF size = 0 THEN "idle" ELSE "wait")
  /\ UNCHANGED <<lock, size, queue, heap, pushes, taken>>

Wait(c) ==
  /\ size > 0 /\ size' = size - 1
  /\ Goes(c, "wait", "lock")
  /\ UNCHANGED <<lock, queue, heap, pushes, taken>>

LockToPop(c) ==
  /\ lock > 0 /\ lock' = lock - 1
  /\ Goes(c, "lock", "take")
  /\ UNCHANGED <<size, queue, heap, pushes, taken>>

Take(c) ==
  /\ Goes(c, "take", "unlock")
  /\ taken' = Append(taken, heap[heap[queue].next].ptr)
  /\ LET left == QueuePop(heap, queue)
     IN  queue' = left.queue /\ heap' = left.heap
  /\ UNCHANGED <<lock, size, pushes>>

-------------------------------------------------------------------------------
Push(p) == LockToPush(p) \/ Insert(p) \/ Count(p) \/ Unlock(p)
Pop(c)  == IsEmpty(c) \/ Wait(c) \/ LockToPop(c) \/ Take(c) \/ Unlock(c)

Next == \/ \E p \in Producer : CallPush(p) \/ Push(p)
        \/ \E c \in Consumer : Pop(c)

Spec == Init /\ [][Next]_vars

\* A push that was called goes on, and a consumer never stops looking; nobody has to
\* call push.
FairSpec == /\ Spec
            /\ \A p \in Producer : WF_vars(Push(p))
            /\ \A c \in Consumer : WF_vars(Pop(c))

-------------------------------------------------------------------------------
(* Properties.                                                             *)

Allocated == {c \in Cell : heap[c] # NULL}

\* Are these, from the first to the last, the elements of the ring s on the heap h? Each
\* leads to the next, the last to the first, and every element of the heap is there once.
IsRing(h, s, R) ==
  /\ \A i, j \in DOMAIN R : R[i] = R[j] => i = j
  /\ \A c \in Cell : h[c] # NULL <=> \E i \in DOMAIN R : R[i] = c
  /\ s = IF R = << >> THEN NULL ELSE R[Len(R)]
  /\ \A i \in DOMAIN R : h[R[i]].next = R[IF i = Len(R) THEN 1 ELSE i + 1]

Rings == {R \in [1 .. Cardinality(Allocated) -> Allocated] : IsRing(heap, queue, R)}
Ring  == CHOOSE R \in Rings : TRUE

At(place) == {t \in Thread : pc[t] = place}

\* The variables keep to their types, and no pointer of the ring leads to an element
\* that was freed.
TypeOK ==
  /\ lock \in 0 .. 1 /\ size \in Nat
  /\ heap \in [Cell -> {NULL} \cup [ptr : Value, next : Cell]]
  /\ queue \in {NULL} \cup Allocated
  /\ \A c \in Allocated : heap[c].next \in Allocated
  /\ pc \in [Thread -> {"idle", "lock", "insert", "count", "wait", "take", "unlock"}]
  /\ pushes \in [Producer -> 0 .. MaxPushes]
  /\ taken \in Seq(Value)

\* At every moment the elements form one ring, the semaphore counts those that nobody is
\* about to take or still has to count, and the lock keeps all but one thread out.
SizeCountsRing ==
  /\ Rings # {}
  /\ size + Cardinality(At("take")) + Cardinality(At("lock") \cap Consumer)
       = Len(Ring) - Cardinality(At("count"))
  /\ Cardinality(At("insert") \cup At("count") \cup At("take") \cup At("unlock")) + lock = 1

\* The only consumer of a queue never waits inside pop: the loop that looked at isEmpty
\* without a lock goes on to its other queues.
PopNeverWaits == Cardinality(Consumer) = 1 => \A c \in At("wait") : size > 0

\* Values come out in the order in which they went in, each once, whatever the threads
\* interleave.
F == INSTANCE Fifo WITH items <- [k \in DOMAIN Ring |-> heap[Ring[k]].ptr]
IsFifo == F!Spec

\* What was pushed is taken.
EverythingTaken ==
  \A p \in Producer, k \in 1 .. MaxPushes :
    (pushes[p] >= k) ~> \E i \in DOMAIN taken : taken[i] = <<p, k>>

===============================================================================
