----------------------------- MODULE GossipProofs -----------------------------
(***************************************************************************)
(* What holds of the lists of known servers on any number of nodes, with   *)
(* any bound on stops and messages: their types, how often a server can be *)
(* listed, and that what is known of a server is not forgotten while it    *)
(* is listed. Nothing is used of which entries a walk removes or frees.    *)
(***************************************************************************)
EXTENDS Gossip, ListLemmas

-------------------------------------------------------------------------------
(* What the functions of network_tools.c do to a list.                     *)

Many(list, a)    == Cardinality(Positions(list, a))
Knowing(list, a) == \E k \in Positions(list, a) : list[k].parts # Unknown

\* An address is listed a finite number of times.
LEMMA PositionsFinite ==
  ASSUME NEW list \in List, NEW a
  PROVE  /\ Positions(list, a) \in SUBSET (1 .. Len(list)) /\ Len(list) \in Nat
         /\ IsFiniteSet(Positions(list, a)) /\ Many(list, a) \in Nat
         /\ Many(list, a) = 0 <=> ~ Listed(list, a)
         /\ Listed(list, a) => Many(list, a) >= 1
  <1>1. Len(list) \in Nat /\ DOMAIN list = 1 .. Len(list)
    BY DEF List
  <1>2. Positions(list, a) \in SUBSET (1 .. Len(list))
    BY <1>1 DEF Positions
  <1>3. IsFiniteSet(Positions(list, a))
    <2>1. IsFiniteSet(1 .. Len(list))
      BY <1>1, FS_Interval
    <2> QED BY <1>2, <2>1, FS_Subset
  <1>4. Many(list, a) \in Nat /\ (Many(list, a) = 0 <=> Positions(list, a) = {})
    BY <1>3, FS_CardinalityType, FS_EmptySet DEF Many
  <1> QED BY <1>1, <1>2, <1>3, <1>4 DEF Listed

\* Nobody is on the empty list.
LEMMA NobodyListed ==
  /\ << >> \in List
  /\ \A a : ~ Listed(<< >>, a) /\ ~ Knowing(<< >>, a) /\ Many(<< >>, a) = 0
  <1>1. << >> \in List
    BY DEF List
  <1>2. \A a : Positions(<< >>, a) = {}
    BY DEF Positions
  <1> QED BY <1>1, <1>2, FS_EmptySet DEF Listed, Knowing, Many

\* An entry added at the head moves the others up and is the only one to come.
LEMMA HeadEntry ==
  ASSUME NEW list \in List, NEW e \in Entry, NEW a
  PROVE  /\ <<e>> \o list \in List
         /\ Many(<<e>> \o list, a) = Many(list, a) + IF e.addr = a THEN 1 ELSE 0
         /\ Knowing(list, a) => Knowing(<<e>> \o list, a)
  <1> DEFINE new == <<e>> \o list
             P == Positions(list, a)
             Q == {k \in 2 .. Len(list) + 1 : k - 1 \in P}
             f == [k \in P |-> k + 1]
  <1>1. /\ new \in List /\ Len(list) \in Nat /\ DOMAIN list = 1 .. Len(list)
        /\ DOMAIN new = 1 .. Len(list) + 1
        /\ new[1] = e /\ \A k \in 1 .. Len(list) : new[k + 1] = list[k]
    BY DEF List
  <1>2. IsFiniteSet(P) /\ Many(list, a) \in Nat /\ P \in SUBSET (1 .. Len(list))
    BY PositionsFinite
  <1> HIDE DEF new
  <1>3. \A k \in 2 .. Len(list) + 1 : k - 1 \in 1 .. Len(list) /\ new[k] = list[k - 1]
    <2> SUFFICES ASSUME NEW k \in 2 .. Len(list) + 1
                 PROVE  k - 1 \in 1 .. Len(list) /\ new[k] = list[k - 1]
      OBVIOUS
    <2>1. k - 1 \in 1 .. Len(list) /\ (k - 1) + 1 = k
      BY <1>1
    <2> QED BY <1>1, <2>1
  <1>4. Positions(new, a) = Q \cup IF e.addr = a THEN {1} ELSE {}
    <2>1. \A k \in DOMAIN new : k = 1 \/ k \in 2 .. Len(list) + 1
      BY <1>1
    <2>2. \A k \in 2 .. Len(list) + 1 : new[k].addr = a <=> k - 1 \in P
      BY <1>1, <1>3 DEF Positions
    <2>3. 1 \in DOMAIN new /\ 2 .. Len(list) + 1 \subseteq DOMAIN new
          /\ 1 \notin 2 .. Len(list) + 1
      BY <1>1
    <2> HIDE DEF P
    <2> QED BY <1>1, <2>1, <2>2, <2>3 DEF Positions
  <1>5. f \in Bijection(P, Q)
    <2>1. \A k \in P : k \in Nat /\ k + 1 \in Q
      <3> SUFFICES ASSUME NEW k \in P PROVE k \in Nat /\ k + 1 \in Q
        OBVIOUS
      <3>1. k \in 1 .. Len(list)
        BY <1>2
      <3>2. k + 1 \in 2 .. Len(list) + 1 /\ (k + 1) - 1 = k
        BY <1>1, <3>1
      <3> HIDE DEF P
      <3> QED BY <3>1, <3>2
    <2>2. \A k \in Q : k - 1 \in P /\ (k - 1) + 1 = k
      BY <1>1
    <2> HIDE DEF P, Q
    <2>3. f \in [P -> Q]
      BY <2>1
    <2>4. f \in Injection(P, Q)
      BY <2>1, <2>3 DEF Injection, IsInjective
    <2>5. f \in Surjection(P, Q)
      BY <2>2, <2>3 DEF Surjection
    <2> QED BY <2>4, <2>5 DEF Bijection
  <1>6. IsFiniteSet(Q) /\ Cardinality(Q) = Cardinality(P)
    <2>1. ExistsBijection(P, Q)
      BY <1>5 DEF ExistsBijection
    <2> HIDE DEF P, Q
    <2> QED BY <1>2, <2>1, FS_Bijection
  <1>7. Many(new, a) = Many(list, a) + IF e.addr = a THEN 1 ELSE 0
    <2>1. 1 \notin Q
      BY <1>1
    <2> HIDE DEF P, Q
    <2>2. CASE e.addr = a
      <3>1. Cardinality(Q \cup {1}) = Cardinality(Q) + 1
        BY <1>6, <2>1, FS_AddElement
      <3> QED BY <1>4, <1>6, <2>2, <3>1 DEF Many, P
    <2>3. CASE e.addr # a
      <3>1. Positions(new, a) = Q
        BY <1>4, <2>3
      <3> QED BY <1>2, <1>6, <2>3, <3>1 DEF Many, P
    <2> QED BY <2>2, <2>3
  <1>8. ASSUME Knowing(list, a) PROVE Knowing(new, a)
    <2>1. PICK k \in P : list[k].parts # Unknown
      BY <1>8 DEF Knowing
    <2>2. k \in 1 .. Len(list)
      BY <1>2
    <2>3. k + 1 \in Positions(new, a) /\ new[k + 1] = list[k]
      <3>1. k + 1 \in 1 .. Len(list) + 1
        BY <1>1, <2>2
      <3> QED BY <1>1, <2>2, <3>1 DEF Positions
    <2> QED BY <2>1, <2>3 DEF Knowing
  <1> QED BY <1>1, <1>7, <1>8 DEF new

\* addClient adds at most one entry, of this address.
LEMMA AddClientAdds ==
  ASSUME NEW list \in List, NEW b \in Node, NEW parts \in Parts \cup {Unknown},
         NEW reachable, NEW a
  PROVE  /\ AddClient(list, b, parts, reachable) \in List
         /\ Many(AddClient(list, b, parts, reachable), a)
              <= Many(list, a) + IF b = a THEN 1 ELSE 0
         /\ Knowing(list, a) => Knowing(AddClient(list, b, parts, reachable), a)
         /\ Many(AddClient(list, b, parts, reachable), a) \in Nat
  <1> DEFINE e == [addr |-> b, parts |-> parts]
  <1>1. e \in Entry /\ e.addr = b
    BY DEF Entry
  <1>2. Many(list, a) \in Nat
    BY PositionsFinite
  <1> HIDE DEF e
  <1>3. /\ <<e>> \o list \in List
        /\ Many(<<e>> \o list, a) = Many(list, a) + IF b = a THEN 1 ELSE 0
        /\ Knowing(list, a) => Knowing(<<e>> \o list, a)
    BY <1>1, HeadEntry
  <1>4. AddClient(list, b, parts, reachable) \in {list, <<e>> \o list}
    BY DEF AddClient, e
  <1>5. CASE AddClient(list, b, parts, reachable) = list
    BY <1>2, <1>5
  <1>6. CASE AddClient(list, b, parts, reachable) = <<e>> \o list
    BY <1>2, <1>3, <1>6
  <1> QED BY <1>4, <1>5, <1>6

\* One turn of addServerFromMessage makes no second entry of an address and forgets
\* nothing.
LEMMA NoteKeeps ==
  ASSUME NEW list \in List, NEW e \in Entry, NEW reachable, NEW a
  PROVE  /\ Note(list, e, reachable) \in List
         /\ Many(Note(list, e, reachable), a) \in Nat
         /\ \/ Many(Note(list, e, reachable), a) <= Many(list, a)
            \/ Many(Note(list, e, reachable), a) <= 1
         /\ Knowing(list, a) => Knowing(Note(list, e, reachable), a)
  <1>1. e.addr \in Node /\ e.parts \in Parts \cup {Unknown}
    BY DEF Entry
  <1>2. Many(list, a) \in Nat
    BY PositionsFinite
  <1>3. CASE ~ Listed(list, e.addr)
    <2>1. Note(list, e, reachable) = AddClient(list, e.addr, e.parts, reachable)
      BY <1>3 DEF Note
    <2>2. a = e.addr => Many(list, a) = 0
      BY <1>3, PositionsFinite
    <2> QED BY <1>1, <1>2, <2>1, <2>2, AddClientAdds
  <1>4. CASE Listed(list, e.addr)
    <2> DEFINE i == FindClient(list, e.addr)
               parts == IF e.parts = Unknown THEN list[i].parts ELSE e.parts
               new == [list EXCEPT ![i].parts = parts]
    <2>1. i \in DOMAIN list
      <3>1. Positions(list, e.addr) \in SUBSET Nat /\ Positions(list, e.addr) # {}
        BY <1>4, PositionsFinite DEF Listed
      <3>2. Min(Positions(list, e.addr)) \in Positions(list, e.addr)
        BY <3>1, MinIsLeast
      <3> QED BY <3>2 DEF FindClient, Positions
    <2>2. Note(list, e, reachable) = new
      BY <1>4 DEF Note
    <2> HIDE DEF i
    <2>3. list[i] \in Entry /\ list[i].parts \in Parts \cup {Unknown}
      <3>1. list[i] \in Entry
        BY <2>1 DEF List
      <3> QED BY <3>1 DEF Entry
    <2>4. parts \in Parts \cup {Unknown} /\ (parts = Unknown => list[i].parts = Unknown)
      BY <1>1, <2>3
    <2> HIDE DEF parts
    <2>5. /\ new \in List /\ DOMAIN new = DOMAIN list
          /\ \A k \in DOMAIN list :
               /\ new[k].addr = list[k].addr
               /\ new[k].parts = Unknown => list[k].parts = Unknown
      <3> DEFINE x == [list[i] EXCEPT !.parts = parts]
      <3>1. x \in Entry /\ x.addr = list[i].addr /\ x.parts = parts
        BY <2>3, <2>4 DEF Entry
      <3> HIDE DEF x
      <3>2. new = [list EXCEPT ![i] = x]
        BY <2>1 DEF x
      <3> HIDE DEF new
      <3>3. new \in List /\ DOMAIN new = DOMAIN list
            /\ \A k \in DOMAIN list : new[k] = IF k = i THEN x ELSE list[k]
        BY <2>1, <3>1, <3>2 DEF List
      <3> QED BY <2>4, <3>1, <3>3
    <2> HIDE DEF new
    <2>6. Positions(new, a) = Positions(list, a)
      BY <2>5 DEF Positions
    <2>7. Knowing(list, a) => Knowing(new, a)
      BY <2>5, <2>6 DEF Knowing, Positions
    <2> QED BY <1>2, <2>2, <2>5, <2>6, <2>7 DEF Many
  <1> QED BY <1>3, <1>4

\* removeClient leaves no more entries of an address than there were; if it leaves as many,
\* it left them all.
LEMMA WithoutKeeps ==
  ASSUME NEW list \in List, NEW gone, NEW a
  PROVE  /\ Without(list, gone) \in List
         /\ Many(Without(list, gone), a) \in Nat
         /\ Many(Without(list, gone), a) <= Many(list, a)
         /\ Knowing(list, a) /\ Many(Without(list, gone), a) >= Many(list, a)
              => Knowing(Without(list, gone), a)
         /\ list = << >> => Without(list, gone) = << >>
  <1> DEFINE K == DOMAIN list \ gone
             P == Positions(list, a)
             new == Pick(list, K)
  <1>1. /\ Len(list) \in Nat /\ K \in SUBSET (1 .. Len(list)) /\ P \in SUBSET (1 .. Len(list))
        /\ IsFiniteSet(P) /\ Many(list, a) \in Nat /\ list \in Seq(Entry)
    BY PositionsFinite DEF List
  <1>2. Without(list, gone) = new
    BY DEF Without
  <1> HIDE DEF K
  <1>3. new \in List /\ DOMAIN new = 1 .. Cardinality(K)
        /\ \A k \in DOMAIN new : new[k] = list[Nth(K, k)] /\ Nth(K, k) \in K
    <2>1. new \in Seq(Entry)
          /\ \A k \in DOMAIN new : Nth(K, k) \in K /\ new[k] = list[Nth(K, k)]
      BY <1>1, PickType
    <2> QED BY <2>1 DEF Pick, List
  <1> HIDE DEF new
  <1>4. Positions(new, a) = {k \in 1 .. Cardinality(K) : Nth(K, k) \in P}
    <2>1. \A k \in DOMAIN new : Nth(K, k) \in DOMAIN list
      BY <1>3 DEF K
    <2> QED BY <1>3, <2>1 DEF Positions
  <1>5. Many(new, a) = Cardinality(P \cap K)
    <2> HIDE DEF P
    <2> QED BY <1>1, <1>4, PickCount DEF Many
  <1>6. /\ Many(new, a) \in Nat /\ Many(new, a) <= Many(list, a)
        /\ Many(new, a) = Many(list, a) => P \cap K = P
    <2>1. IsFiniteSet(P \cap K) /\ Cardinality(P \cap K) <= Cardinality(P)
          /\ (Cardinality(P \cap K) = Cardinality(P) => P \cap K = P)
      <3>1. P \cap K \in SUBSET P
        OBVIOUS
      <3> HIDE DEF P
      <3> QED BY <1>1, <3>1, FS_Subset
    <2> QED BY <1>5, <2>1, FS_CardinalityType DEF Many
  <1>7. ASSUME Knowing(list, a), Many(new, a) >= Many(list, a)
        PROVE  Knowing(new, a)
    <2>1. P \cap K = P
      BY <1>1, <1>6, <1>7
    <2>2. PICK i \in P : list[i].parts # Unknown
      BY <1>7 DEF Knowing
    <2>3. i \in K
      BY <2>1
    <2>4. PICK k \in 1 .. Cardinality(K) : Nth(K, k) = i
      BY <1>1, <2>3, NthOrder
    <2>5. k \in Positions(new, a) /\ new[k] = list[i]
      BY <1>3, <1>4, <2>4
    <2> QED BY <2>2, <2>5 DEF Knowing
  <1>8. ASSUME list = << >> PROVE new = << >>
    <2>1. K = {}
      BY <1>8 DEF K
    <2>2. DOMAIN new = {}
      BY <1>3, <2>1, FS_EmptySet
    <2> QED BY <1>3, <2>2 DEF List
  <1> QED BY <1>2, <1>3, <1>6, <1>7, <1>8

-------------------------------------------------------------------------------
(* Types.                                                                  *)

\* Nobody runs at the start.
LEMMA GossipInit == Init => TypeOK
  BY NobodyListed DEF Init, TypeOK

\* What a message that was sent leaves behind on the nodes that got it.
LEMMA ReadingType ==
  ASSUME TypeOK, NEW n \in Node, NEW got \in SUBSET Online, NEW list \in List,
         reading' = [m \in Node |-> IF m \in got THEN [reading[m] EXCEPT ![n] = list]
                                               ELSE reading[m]]
  PROVE  /\ reading' \in [Node -> [Node -> List]]
         /\ \A m \in Node : status[m] \in {"down", "starting"} =>
              \A s \in Node : reading'[m][s] = << >>
  <1>1. \A m \in got : status[m] = "online"
    BY DEF Online
  <1>2. \A m \in Node : reading'[m] \in [Node -> List]
    BY DEF TypeOK
  <1> QED BY <1>1, <1>2 DEF TypeOK

\* What Send does to the list of the node that sends and to the nodes that answer.
LEMMA SendChanges ==
  ASSUME TypeOK, NEW n \in Node, Send(n)
  PROVE  /\ \E gone : servers' = [servers EXCEPT ![n] = Without(servers[n], gone)]
         /\ \E got \in SUBSET Online, list \in List :
              reading' = [m \in Node |-> IF m \in got THEN [reading[m] EXCEPT ![n] = list]
                                                    ELSE reading[m]]
         /\ outgoing' \in [Node -> Seq(List)]
         /\ UNCHANGED <<status, joined, crashes>>
  <1> DEFINE all == Reached(servers[n], DOMAIN servers[n])
  <1>1. PICK w \in Walks(servers[n], Online) :
          /\ servers' = [servers EXCEPT ![n] = Without(servers[n], w.gone)]
          /\ \E lost \in SUBSET (all \ Reached(servers[n], w.safe)) :
               reading' = [m \in Node |->
                             IF m \in all \ lost
                               THEN [reading[m] EXCEPT ![n] = Head(outgoing[n])]
                               ELSE reading[m]]
    BY DEF Send
  <1>2. PICK lost : reading' = [m \in Node |->
                                 IF m \in all \ lost
                                   THEN [reading[m] EXCEPT ![n] = Head(outgoing[n])]
                                   ELSE reading[m]]
    BY <1>1
  <1>3. all \ lost \in SUBSET Online
    BY DEF Reached
  <1> HIDE DEF all
  <1>4. outgoing[n] \in Seq(List) /\ outgoing[n] # << >>
    BY DEF TypeOK, Send
  <1>5. Head(outgoing[n]) \in List /\ Tail(outgoing[n]) \in Seq(List)
    BY <1>4
  <1>6. outgoing' \in [Node -> Seq(List)]
    BY <1>5 DEF Send, TypeOK
  <1>7. \E got \in SUBSET Online, list \in List :
          reading' = [m \in Node |-> IF m \in got THEN [reading[m] EXCEPT ![n] = list]
                                                ELSE reading[m]]
    <2> USE <1>3, <1>5
    <2> WITNESS all \ lost \in SUBSET Online, Head(outgoing[n]) \in List
    <2> QED BY <1>2
  <1> QED BY <1>1, <1>6, <1>7 DEF Send

\* Every step keeps the types, and tells nothing to a program that does not listen.
LEMMA GossipTypeStep == TypeOK /\ [Next]_vars => TypeOK'
  <1> SUFFICES ASSUME TypeOK, [Next]_vars PROVE TypeOK'
    OBVIOUS
  <1>1. ASSUME NEW n \in Node, Start(n) \/ Listen(n) PROVE TypeOK'
    BY <1>1 DEF TypeOK, Start, Listen
  <1>2. ASSUME NEW n \in Node, Join(n) PROVE TypeOK'
    <2>1. /\ status[n] = "online" /\ joined' = [joined EXCEPT ![n] = TRUE]
          /\ status' = [status EXCEPT ![n] = "exiting"] \/ status' = status
          /\ UNCHANGED <<outgoing, reading, crashes>>
      BY <1>2 DEF Join
    <2> DEFINE own == AddClient(servers[n], n, PartsOf[n], Online)
               both == AddClient(own, First[n], Unknown, Online)
    <2>2. own \in List
      BY GossipAssumption, AddClientAdds DEF TypeOK
    <2> HIDE DEF own
    <2>3. First[n] # NoServer => both \in List
      BY <2>2, GossipAssumption, AddClientAdds
    <2> HIDE DEF both
    <2>4. servers' = [servers EXCEPT ![n] = IF First[n] = NoServer THEN own ELSE both]
      BY <1>2 DEF Join, own, both
    <2>5. servers' \in [Node -> List] /\ \A m \in Node : m # n => servers'[m] = servers[m]
      BY <2>2, <2>3, <2>4 DEF TypeOK
    <2>6. /\ status' \in [Node -> {"down", "starting", "online", "exiting"}]
          /\ \A m \in Node : m # n => status'[m] = status[m]
          /\ status'[n] \in {"online", "exiting"}
          /\ joined' \in [Node -> BOOLEAN]
      BY <2>1 DEF TypeOK
    <2> QED BY <2>1, <2>5, <2>6 DEF TypeOK
  <1>3. ASSUME NEW n \in Node, Share(n) PROVE TypeOK'
    <2>1. Append(outgoing[n], servers[n]) \in Seq(List)
      BY DEF TypeOK
    <2>2. outgoing' \in [Node -> Seq(List)]
      BY <1>3, <2>1 DEF Share, TypeOK
    <2> QED BY <1>3, <2>2 DEF Share, TypeOK
  <1>4. ASSUME NEW n \in Node, Send(n) PROVE TypeOK'
    <2>1. /\ reading' \in [Node -> [Node -> List]]
          /\ \A m \in Node : status[m] \in {"down", "starting"} =>
               \A s \in Node : reading'[m][s] = << >>
      <3>1. PICK got \in SUBSET Online, list \in List :
              reading' = [m \in Node |-> IF m \in got THEN [reading[m] EXCEPT ![n] = list]
                                                    ELSE reading[m]]
        BY <1>4, SendChanges
      <3> QED BY <3>1, ReadingType
    <2>2. PICK gone : servers' = [servers EXCEPT ![n] = Without(servers[n], gone)]
      BY <1>4, SendChanges
    <2>3. /\ Without(servers[n], gone) \in List
          /\ servers[n] = << >> => Without(servers[n], gone) = << >>
      BY WithoutKeeps DEF TypeOK
    <2>4. /\ servers' \in [Node -> List]
          /\ \A m \in Node : servers[m] = << >> => servers'[m] = << >>
      BY <2>2, <2>3 DEF TypeOK
    <2>5. outgoing' \in [Node -> Seq(List)] /\ UNCHANGED <<status, joined, crashes>>
      BY <1>4, SendChanges
    <2> QED BY <2>1, <2>4, <2>5 DEF TypeOK
  <1>5. ASSUME NEW n \in Node, NEW s \in Node, ReadEntry(n, s) PROVE TypeOK'
    <2>1. reading[n][s] \in List /\ reading[n][s] # << >> /\ reading[n] \in [Node -> List]
      BY <1>5 DEF ReadEntry, TypeOK
    <2>2. Head(reading[n][s]) \in Entry /\ Tail(reading[n][s]) \in List
      BY <2>1 DEF List
    <2> DEFINE noted == Note(servers[n], Head(reading[n][s]), Online)
               left == [reading[n] EXCEPT ![s] = Tail(reading[n][s])]
    <2>3. noted \in List
      BY <2>2, NoteKeeps DEF TypeOK
    <2>4. left \in [Node -> List]
      BY <2>1, <2>2
    <2>5. servers' = [servers EXCEPT ![n] = noted] /\ reading' = [reading EXCEPT ![n] = left]
      BY <1>5 DEF ReadEntry
    <2> HIDE DEF noted, left
    <2>6. /\ servers' \in [Node -> List] /\ reading' \in [Node -> [Node -> List]]
          /\ \A m \in Node : m # n => servers'[m] = servers[m] /\ reading'[m] = reading[m]
      BY <2>3, <2>4, <2>5 DEF TypeOK
    <2>7. status[n] \notin {"down", "starting"}
      BY <2>1 DEF TypeOK
    <2> QED BY <1>5, <2>6, <2>7 DEF ReadEntry, TypeOK
  <1>6. ASSUME NEW n \in Node, Crash(n) PROVE TypeOK'
    <2>1. << >> \in Seq(List) /\ << >> \in List /\ crashes[n] + 1 \in Nat
      BY NobodyListed DEF TypeOK
    <2> QED BY <1>6, <2>1 DEF Crash, TypeOK
  <1>7. CASE UNCHANGED vars
    BY <1>7 DEF vars, TypeOK
  <1> QED BY <1>1, <1>2, <1>3, <1>4, <1>5, <1>6, <1>7 DEF Next, Threads

\* Whatever nodes are stopped, started and told, the lists of known servers and what
\* travels between them keep their types, and a program that does not listen has been
\* told of nobody.
THEOREM GossipTypeCorrect == Spec => []TypeOK
  BY GossipInit, GossipTypeStep, PTL DEF Spec

-------------------------------------------------------------------------------
(* How often an address is listed, and what is known of it.                *)

\* What one step does to one node's list: it stays; or entries are taken from it; or one
\* is noted; or Network adds the two it knows from the start; or it goes with the program.
ListChange(n) ==
  \/ servers'[n] = servers[n] /\ joined'[n] = joined[n]
  \/ joined'[n] = joined[n] /\ \E gone : servers'[n] = Without(servers[n], gone)
  \/ joined'[n] = joined[n] /\ \E e \in Entry : servers'[n] = Note(servers[n], e, Online)
  \/ /\ ~ joined[n] /\ joined'[n]
     /\ LET own == AddClient(servers[n], n, PartsOf[n], Online)
        IN  \/ servers'[n] = own
            \/ First[n] \in Node /\ servers'[n] = AddClient(own, First[n], Unknown, Online)
  \/ servers'[n] = << >>

\* Every step is one of these, for every node.
LEMMA ListChanges ==
  ASSUME TypeOK, [Next]_vars, NEW n \in Node
  PROVE  ListChange(n)
  <1>1. ASSUME NEW m \in Node, Start(m) \/ Listen(m) \/ Share(m) PROVE ListChange(n)
    BY <1>1 DEF Start, Listen, Share, ListChange
  <1>2. ASSUME NEW m \in Node, Join(m) PROVE ListChange(n)
    <2> DEFINE own == AddClient(servers[m], m, PartsOf[m], Online)
    <2>1. /\ servers' = [servers EXCEPT ![m] =
                          IF First[m] = NoServer
                            THEN own ELSE AddClient(own, First[m], Unknown, Online)]
          /\ ~ joined[m] /\ joined' = [joined EXCEPT ![m] = TRUE]
      BY <1>2 DEF Join
    <2>2. n # m => servers'[n] = servers[n] /\ joined'[n] = joined[n]
      BY <2>1 DEF TypeOK
    <2>3. /\ joined'[m]
          /\ servers'[m] = IF First[m] = NoServer
                             THEN own ELSE AddClient(own, First[m], Unknown, Online)
      BY <2>1 DEF TypeOK
    <2>4. First[m] = NoServer \/ First[m] \in Node
      BY GossipAssumption
    <2>5. CASE n # m
      BY <2>2, <2>5 DEF ListChange
    <2>6. CASE n = m
      <3> DEFINE ownN == AddClient(servers[n], n, PartsOf[n], Online)
      <3>1. own = ownN /\ First[m] = First[n] /\ servers'[m] = servers'[n]
        BY <2>6
      <3> HIDE DEF own, ownN
      <3>2. \/ servers'[n] = ownN
            \/ First[n] \in Node /\ servers'[n] = AddClient(ownN, First[n], Unknown, Online)
        BY <2>3, <2>4, <3>1
      <3>3. ~ joined[n] /\ joined'[n]
        BY <2>1, <2>3, <2>6
      <3> QED BY <3>2, <3>3 DEF ListChange, ownN
    <2> QED BY <2>5, <2>6
  <1>3. ASSUME NEW m \in Node, Send(m) PROVE ListChange(n)
    <2>1. PICK gone : servers' = [servers EXCEPT ![m] = Without(servers[m], gone)]
      BY <1>3, SendChanges
    <2>2. joined' = joined
      BY <1>3, SendChanges
    <2>3. servers'[m] = Without(servers[m], gone) /\ (n # m => servers'[n] = servers[n])
      BY <2>1 DEF TypeOK
    <2> QED BY <2>2, <2>3 DEF ListChange
  <1>4. ASSUME NEW m \in Node, NEW s \in Node, ReadEntry(m, s) PROVE ListChange(n)
    <2>1. reading[m][s] \in Seq(Entry) /\ reading[m][s] # << >>
      BY <1>4 DEF ReadEntry, TypeOK, List
    <2>2. Head(reading[m][s]) \in Entry
      BY <2>1
    <2>3. /\ servers'[m] = Note(servers[m], Head(reading[m][s]), Online)
          /\ n # m => servers'[n] = servers[n]
          /\ joined' = joined
      BY <1>4 DEF ReadEntry, TypeOK
    <2> QED BY <2>2, <2>3 DEF ListChange
  <1>5. ASSUME NEW m \in Node, Crash(m) PROVE ListChange(n)
    BY <1>5 DEF Crash, TypeOK, ListChange
  <1>6. CASE UNCHANGED vars
    BY <1>6 DEF vars, ListChange
  <1> QED BY <1>1, <1>2, <1>3, <1>4, <1>5, <1>6 DEF Next, Threads

\* What ListedOnce allows of one address in one list.
Allowed(n, a) ==
  1 + Cardinality({x \in {"own"} : joined[n] /\ a = n})
    + Cardinality({x \in {"first"} : joined[n] /\ a = First[n]})

\* A part of a one-element set has one element or none.
LEMMA OneOrNone ==
  ASSUME NEW x, NEW S \in SUBSET {x}
  PROVE  Cardinality(S) = IF S = {} THEN 0 ELSE 1
  <1>1. S = {} \/ S = {x}
    OBVIOUS
  <1> QED BY <1>1, FS_EmptySet, FS_Singleton

\* The allowance as a sum of ones, before and after a step.
LEMMA AllowedIs ==
  ASSUME NEW n, NEW a
  PROVE  /\ Allowed(n, a) = 1 + (IF joined[n] /\ a = n THEN 1 ELSE 0)
                              + (IF joined[n] /\ a = First[n] THEN 1 ELSE 0)
         /\ Allowed(n, a)' = 1 + (IF joined'[n] /\ a = n THEN 1 ELSE 0)
                               + (IF joined'[n] /\ a = First[n] THEN 1 ELSE 0)
  <1>1. /\ Cardinality({x \in {"own"} : joined[n] /\ a = n})
             = IF joined[n] /\ a = n THEN 1 ELSE 0
        /\ Cardinality({x \in {"first"} : joined[n] /\ a = First[n]})
             = IF joined[n] /\ a = First[n] THEN 1 ELSE 0
    BY OneOrNone
  <1>2. /\ Cardinality({x \in {"own"} : joined'[n] /\ a = n})
             = IF joined'[n] /\ a = n THEN 1 ELSE 0
        /\ Cardinality({x \in {"first"} : joined'[n] /\ a = First[n]})
             = IF joined'[n] /\ a = First[n] THEN 1 ELSE 0
    BY OneOrNone
  <1> QED BY <1>1, <1>2 DEF Allowed

\* No step lists an address too often.
LEMMA CountStep ==
  TypeOK /\ TypeOK' /\ ListedOnce /\ [Next]_vars => ListedOnce'
  <1> SUFFICES ASSUME TypeOK, TypeOK', [Next]_vars, NEW n \in Node, NEW a \in Node,
                      Many(servers[n], a) <= Allowed(n, a)
               PROVE  Many(servers'[n], a) <= Allowed(n, a)'
    BY DEF ListedOnce, Count, Many, Allowed
  <1>1. servers[n] \in List /\ Many(servers[n], a) \in Nat /\ joined[n] \in BOOLEAN
    BY PositionsFinite DEF TypeOK
  <1>2. Allowed(n, a) \in Nat /\ Allowed(n, a) >= 1
    BY AllowedIs
  <1>3. Allowed(n, a)' \in Nat /\ Allowed(n, a)' >= 1
    BY AllowedIs
  <1>4. joined'[n] = joined[n] => Allowed(n, a)' = Allowed(n, a)
    BY AllowedIs
  <1>5. CASE servers'[n] = servers[n] /\ joined'[n] = joined[n]
    BY <1>4, <1>5
  <1>6. CASE joined'[n] = joined[n] /\ \E gone : servers'[n] = Without(servers[n], gone)
    BY <1>1, <1>2, <1>4, <1>6, WithoutKeeps
  <1>7. CASE joined'[n] = joined[n]
             /\ \E e \in Entry : servers'[n] = Note(servers[n], e, Online)
    BY <1>1, <1>2, <1>4, <1>7, NoteKeeps
  <1>8. ASSUME ~ joined[n], joined'[n],
               LET own == AddClient(servers[n], n, PartsOf[n], Online)
               IN  \/ servers'[n] = own
                   \/ First[n] \in Node
                      /\ servers'[n] = AddClient(own, First[n], Unknown, Online)
        PROVE  Many(servers'[n], a) <= Allowed(n, a)'
    <2> DEFINE own == AddClient(servers[n], n, PartsOf[n], Online)
    <2>1. PartsOf[n] \in Parts
      BY GossipAssumption
    <2>2. /\ own \in List /\ Many(own, a) \in Nat
          /\ Many(own, a) <= Many(servers[n], a) + IF n = a THEN 1 ELSE 0
      BY <1>1, <2>1, AddClientAdds
    <2>3. Many(servers[n], a) <= 1
      BY <1>8, AllowedIs
    <2> HIDE DEF own
    <2>4. CASE servers'[n] = own
      BY <1>1, <1>8, <2>2, <2>3, <2>4, AllowedIs
    <2>5. CASE First[n] \in Node /\ servers'[n] = AddClient(own, First[n], Unknown, Online)
      <3>1. /\ Many(servers'[n], a) \in Nat
            /\ Many(servers'[n], a) <= Many(own, a) + IF First[n] = a THEN 1 ELSE 0
        BY <2>2, <2>5, AddClientAdds
      <3> QED BY <1>1, <1>8, <2>2, <2>3, <3>1, AllowedIs
    <2> QED BY <1>8, <2>4, <2>5 DEF own
  <1>9. CASE servers'[n] = << >>
    BY <1>3, <1>9, NobodyListed
  <1> QED BY <1>5, <1>6, <1>7, <1>8, <1>9, ListChanges DEF ListChange

\* On any number of nodes that are stopped and started at any time, each address is listed
\* once on each, and once more only if it is the node's own or its first server's, which
\* Network adds without a look.
THEOREM ListedNoMore == Spec => []ListedOnce
  <1>1. Init => ListedOnce
    <2> SUFFICES ASSUME Init, NEW n \in Node, NEW a \in Node
                 PROVE  Count(n, a) <= Allowed(n, a)
      BY DEF ListedOnce, Allowed
    <2>1. Count(n, a) = 0
      BY NobodyListed DEF Init, Count, Many
    <2> QED BY <2>1, AllowedIs
  <1> QED BY <1>1, CountStep, GossipTypeCorrect, PTL DEF Spec

\* A step after which an address is listed as often as before forgets nothing about it.
LEMMA KnowledgeStep ==
  ASSUME TypeOK, [Next]_vars, NEW n \in Node, NEW a \in Node,
         Knowing(servers[n], a), Many(servers'[n], a) >= Many(servers[n], a)
  PROVE  Knowing(servers'[n], a)
  <1>1. servers[n] \in List /\ Many(servers[n], a) >= 1
    <2>1. servers[n] \in List /\ Listed(servers[n], a)
      BY DEF TypeOK, Knowing, Listed
    <2> QED BY <2>1, PositionsFinite
  <1>2. CASE servers'[n] = servers[n]
    BY <1>2
  <1>3. CASE \E gone : servers'[n] = Without(servers[n], gone)
    BY <1>1, <1>3, WithoutKeeps
  <1>4. CASE \E e \in Entry : servers'[n] = Note(servers[n], e, Online)
    BY <1>1, <1>4, NoteKeeps
  <1>5. ASSUME LET own == AddClient(servers[n], n, PartsOf[n], Online)
               IN  \/ servers'[n] = own
                   \/ First[n] \in Node
                      /\ servers'[n] = AddClient(own, First[n], Unknown, Online)
        PROVE  Knowing(servers'[n], a)
    <2> DEFINE own == AddClient(servers[n], n, PartsOf[n], Online)
    <2>1. own \in List /\ Knowing(own, a)
      BY <1>1, GossipAssumption, AddClientAdds
    <2> HIDE DEF own
    <2>2. First[n] \in Node => Knowing(AddClient(own, First[n], Unknown, Online), a)
      BY <2>1, AddClientAdds
    <2> QED BY <1>5, <2>1, <2>2 DEF own
  <1>6. CASE servers'[n] = << >>
    <2>1. Many(servers'[n], a) = 0 /\ Many(servers[n], a) \in Nat
      BY <1>1, <1>6, NobodyListed, PositionsFinite
    <2> QED BY <1>1, <2>1
  <1> QED BY <1>2, <1>3, <1>4, <1>5, <1>6, ListChanges DEF ListChange

\* No message, old or new, and no pruning makes a node forget which parts a server runs as
\* long as it lists it as often as before.
THEOREM NothingForgotten == Spec => KnowledgeStays
  <1>1. TypeOK /\ [Next]_vars =>
          [\A n, a \in Node : Knows(n, a) /\ Count(n, a)' >= Count(n, a) => Knows(n, a)']_vars
    <2> SUFFICES ASSUME TypeOK, [Next]_vars, NEW n \in Node, NEW a \in Node,
                        Knows(n, a), Count(n, a)' >= Count(n, a)
                 PROVE  Knows(n, a)'
      OBVIOUS
    <2> QED BY KnowledgeStep DEF Knows, Knowing, Count, Many
  <1> QED BY <1>1, GossipTypeCorrect, PTL DEF Spec, KnowledgeStays

===============================================================================
