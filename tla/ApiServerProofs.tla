---------------------------- MODULE ApiServerProofs ----------------------------
(***************************************************************************)
(* What holds of the API server for any number of clients and descriptors: *)
(* a worker keeps to its own connection as long as it read its argument in *)
(* time, and no request is posted twice even when it did not.              *)
(***************************************************************************)
EXTENDS ApiServer, ListLemmas

\* The pieces of c that some worker has read.
PiecesRead(c) ==
  {p \in 1 .. Pieces[c] : \E w \in Conn : Contains(full_request[w], <<c, p>>)}

Piece == {piece \in Conn \X Nat : piece[2] \in 1 .. Pieces[piece[1]]}

\* Types, and nobody has sent more than there is of a request.
TypeInv ==
  /\ client \in [Conn -> {"away", "waiting", "connected", "left"}]
  /\ pieces \in [Conn -> Nat] /\ \A c \in Conn : pieces[c] <= Pieces[c]
  /\ sock \in [Fd -> Conn \cup {Free}]
  /\ lpc \in Conn \cup {"accept"}
  /\ work_arg \in Fd
  /\ wpc \in [Conn -> {"none", "arg", "read", "serve", "close", "done"}]
  /\ fd \in [Conn -> Fd]
  /\ full_request \in [Conn -> Seq(Piece)]
  /\ outgoingTxs \in Seq(Conn)

\* A connection is behind one descriptor at most, and only once it was accepted; its
\* worker is created once.
ConnInv ==
  /\ \A f, g \in Fd : sock[f] = sock[g] /\ sock[f] # Free => f = g
  /\ \A c \in Conn : (\E f \in Fd : sock[f] = c) \/ lpc = c \/ wpc[c] # "none"
                       => client[c] \in {"connected", "left"}
  /\ lpc # "accept" => wpc[lpc] = "none"

\* While nobody was overtaken, work_arg holds the descriptor of the worker that is to
\* read it, and what a worker has read leads to its own connection until it closes it.
OwnInv ==
  /\ lpc # "accept" => sock[work_arg] = lpc /\ \A w \in Conn : wpc[w] # "arg"
  /\ \A w \in Conn : wpc[w] = "arg" => sock[work_arg] = w
  /\ \A w \in Conn : wpc[w] \in {"read", "serve", "close"} => Served(w) = w

\* Also when workers share a connection, each piece of it is read once, in order; and only
\* the worker that read the first piece of a request has posted it.
ReadInv ==
  /\ \A c \in Conn : PiecesRead(c) = 1 .. NbRead(c)
  /\ \A v, w \in Conn : \A i \in DOMAIN full_request[v], j \in DOMAIN full_request[w] :
       full_request[v][i] = full_request[w][j] => v = w /\ i = j

PostInv ==
  /\ \A i \in DOMAIN outgoingTxs : \E w \in Conn :
       /\ wpc[w] \in {"close", "done"} /\ full_request[w] # << >>
       /\ full_request[w][1] = <<outgoingTxs[i], 1>>
  /\ \A i, j \in DOMAIN outgoingTxs : i # j => outgoingTxs[i] # outgoingTxs[j]

Inv == TypeInv /\ ConnInv /\ (overtaken \/ OwnInv) /\ ReadInv /\ PostInv

-------------------------------------------------------------------------------
\* While a client waits to be accepted, there is a descriptor for it, and accept takes
\* the smallest.
LEMMA DescriptorFree ==
  ASSUME TypeInv, ConnInv, NEW c \in Conn, client[c] = "waiting"
  PROVE  /\ Min({g \in Fd : sock[g] = Free}) \in Fd
         /\ sock[Min({g \in Fd : sock[g] = Free})] = Free
  <1> DEFINE F == {g \in Fd : sock[g] = Free}
             others == Conn \ {c}
             s == [f \in Fd |-> sock[f]]
  <1>1. IsFiniteSet(others) /\ Cardinality(others) < Cardinality(Fd) /\ IsFiniteSet(Fd)
    <2>1. IsFiniteSet(Conn) /\ Cardinality(Conn) \in Nat /\ Cardinality(Fd) \in Nat
          /\ IsFiniteSet(Fd) /\ Cardinality(Fd) >= Cardinality(Conn)
      BY ApiAssumption, FS_CardinalityType
    <2>2. IsFiniteSet(others) /\ Cardinality(others) = Cardinality(Conn) - 1
      BY <2>1, FS_RemoveElement
    <2> QED BY <2>1, <2>2
  <1>2. F # {}
    <2> SUFFICES ASSUME F = {} PROVE FALSE
      OBVIOUS
    <2>1. \A f \in Fd : sock[f] \in others
      BY DEF TypeInv, ConnInv
    <2>2. s \in [Fd -> others]
      BY <2>1
    <2> HIDE DEF others
    <2>3. \E f, g \in Fd : f # g /\ s[f] = s[g]
      <3> HIDE DEF s
      <3> QED BY <1>1, <2>2, FS_PigeonHole
    <2>4. \A f \in Fd : sock[f] # Free
      OBVIOUS
    <2> QED BY <2>3, <2>4 DEF ConnInv
  <1>3. F \in SUBSET Nat
    BY ApiAssumption
  <1>4. Min(F) \in F
    <2> HIDE DEF F
    <2> QED BY <1>2, <1>3, MinIsLeast
  <1> QED BY <1>4

\* The pieces read of a connection are finitely many.
LEMMA PiecesReadFinite ==
  ASSUME NEW c \in Conn, TypeInv
  PROVE  NbRead(c) \in Nat /\ NbRead(c) = Cardinality(PiecesRead(c))
  <1>1. Pieces[c] \in Nat
    BY ApiAssumption
  <1>2. IsFiniteSet(1 .. Pieces[c])
    BY <1>1, FS_Interval
  <1>3. PiecesRead(c) \in SUBSET (1 .. Pieces[c])
    BY DEF PiecesRead
  <1>4. IsFiniteSet(PiecesRead(c))
    BY <1>2, <1>3, FS_Subset
  <1> QED BY <1>4, FS_CardinalityType DEF NbRead, PiecesRead

\* At the start nobody has been accepted and nothing was read or posted.
LEMMA ApiInit == Init => Inv
  <1> SUFFICES ASSUME Init PROVE Inv
    OBVIOUS
  <1>1. Min(Fd) \in Fd
    BY ApiAssumption, MinIsLeast
  <1>2. TypeInv
    <2>1. << >> \in Seq(Piece) /\ << >> \in Seq(Conn)
      OBVIOUS
    <2>2. \A c \in Conn : Pieces[c] \in Nat
      BY ApiAssumption
    <2> QED BY <1>1, <2>1, <2>2 DEF Init, TypeInv
  <1>3. ConnInv
    BY ApiAssumption DEF Init, ConnInv
  <1>4. OwnInv
    BY ApiAssumption DEF Init, OwnInv
  <1>5. ReadInv
    <2>1. ASSUME NEW c \in Conn PROVE PiecesRead(c) = 1 .. NbRead(c)
      <3>1. \A w \in Conn : 1 .. Len(full_request[w]) = {}
        BY DEF Init
      <3>2. PiecesRead(c) = {}
        BY <3>1 DEF PiecesRead, Contains
      <3>3. NbRead(c) = 0
        BY <1>2, <3>2, PiecesReadFinite, FS_EmptySet
      <3> QED BY <3>2, <3>3
    <2>2. \A w \in Conn : DOMAIN full_request[w] = {}
      BY DEF Init
    <2> QED BY <2>1, <2>2 DEF ReadInv
  <1>6. PostInv
    BY DEF Init, PostInv
  <1> QED BY <1>2, <1>3, <1>4, <1>5, <1>6 DEF Inv

-------------------------------------------------------------------------------
\* What was read and posted does not depend on clients or on who is behind a descriptor.
LEMMA UnreadSame ==
  ASSUME Inv, UNCHANGED <<full_request, outgoingTxs>>,
         \A w \in Conn : wpc[w] \in {"close", "done"} => wpc'[w] \in {"close", "done"}
  PROVE  ReadInv' /\ PostInv'
  <1>1. \A c \in Conn : PiecesRead(c)' = PiecesRead(c) /\ NbRead(c)' = NbRead(c)
    BY DEF PiecesRead, NbRead
  <1>2. ReadInv'
    BY <1>1 DEF Inv, ReadInv
  <1>3. PostInv'
    BY DEF Inv, PostInv
  <1> QED BY <1>2, <1>3

\* Clients come, ask and leave.
LEMMA ClientStep ==
  ASSUME Inv, NEW c \in Conn, Connects(c) \/ Asks(c) \/ Leaves(c)
  PROVE  Inv'
  <1>1. UNCHANGED <<sock, lpc, work_arg, worker, outgoingTxs, overtaken>>
    BY DEF Connects, Asks, Leaves
  <1>2. TypeInv'
    <2>1. client' \in [Conn -> {"away", "waiting", "connected", "left"}]
      BY DEF Inv, TypeInv, Connects, Asks, Leaves
    <2>2. Pieces[c] \in Nat
      BY ApiAssumption
    <2>3. pieces' \in [Conn -> Nat] /\ \A d \in Conn : pieces'[d] <= Pieces[d]
      <3>1. CASE UNCHANGED pieces
        BY <3>1 DEF Inv, TypeInv
      <3>2. CASE pieces[c] < Pieces[c] /\ pieces' = [pieces EXCEPT ![c] = @ + 1]
        BY <2>2, <3>2 DEF Inv, TypeInv
      <3> QED BY <3>1, <3>2 DEF Connects, Asks, Leaves
    <2> QED BY <1>1, <2>1, <2>3 DEF Inv, TypeInv, worker
  <1>3. ConnInv'
    <2>1. \A d \in Conn : client[d] \in {"connected", "left"}
                            => client'[d] \in {"connected", "left"}
      BY DEF Connects, Asks, Leaves, Inv, TypeInv
    <2> QED BY <1>1, <2>1 DEF Inv, ConnInv, worker
  <1>4. (overtaken \/ OwnInv)'
    BY <1>1 DEF Inv, OwnInv, Served, worker
  <1>5. ReadInv' /\ PostInv'
    BY <1>1, UnreadSame DEF worker
  <1> QED BY <1>2, <1>3, <1>4, <1>5 DEF Inv

\* A connection is accepted: behind its descriptor there was nobody, so nobody's own
\* connection is lost, and whoever still has to read work_arg is overtaken.
LEMMA AcceptStep ==
  ASSUME Inv, NEW c \in Conn, Accept(c)
  PROVE  Inv'
  <1> DEFINE f == Min({g \in Fd : sock[g] = Free})
  <1>1. f \in Fd /\ sock[f] = Free
    BY DescriptorFree DEF Inv, Accept
  <1>2. /\ lpc = "accept" /\ client[c] = "waiting" /\ lpc' = c
        /\ client' = [client EXCEPT ![c] = "connected"]
        /\ sock' = [sock EXCEPT ![f] = c] /\ work_arg' = f
        /\ overtaken' = (overtaken \/ \E w \in Conn : wpc[w] = "arg")
        /\ UNCHANGED <<pieces, worker, outgoingTxs>>
    BY DEF Accept
  <1> HIDE DEF f
  <1>3. TypeInv'
    BY <1>1, <1>2 DEF Inv, TypeInv, worker
  <1>4. c \notin {sock[g] : g \in Fd} /\ wpc[c] = "none" /\ c # "accept" /\ c # Free
    BY <1>2, ApiAssumption DEF Inv, ConnInv, TypeInv
  <1>5. sock'[f] = c /\ \A g \in Fd : g # f => sock'[g] = sock[g]
    BY <1>1, <1>2 DEF Inv, TypeInv
  <1>6. ConnInv'
    <2>1. \A g, h \in Fd : sock'[g] = sock'[h] /\ sock'[g] # Free => g = h
      BY <1>1, <1>4, <1>5 DEF Inv, ConnInv
    <2>2. \A d \in Conn : (\E g \in Fd : sock'[g] = d) \/ lpc' = d \/ wpc'[d] # "none"
                            => client'[d] \in {"connected", "left"}
      BY <1>1, <1>2, <1>5 DEF Inv, ConnInv, TypeInv, worker
    <2>3. lpc' # "accept" => wpc'[lpc'] = "none"
      BY <1>2, <1>4 DEF worker
    <2> QED BY <2>1, <2>2, <2>3 DEF ConnInv
  <1>7. (overtaken \/ OwnInv)'
    <2> SUFFICES ASSUME ~ overtaken' PROVE OwnInv'
      OBVIOUS
    <2>1. OwnInv /\ \A w \in Conn : wpc[w] # "arg"
      BY <1>2 DEF Inv
    <2>2. \A w \in Conn : wpc[w] \in {"read", "serve", "close"} => sock'[fd[w]] = w
      <3> SUFFICES ASSUME NEW w \in Conn, wpc[w] \in {"read", "serve", "close"}
                   PROVE  sock'[fd[w]] = w
        OBVIOUS
      <3>1. sock[fd[w]] = w /\ fd[w] \in Fd /\ w # Free
        BY <2>1, ApiAssumption DEF OwnInv, Served, Inv, TypeInv
      <3> QED BY <1>1, <1>5, <3>1
    <2> QED BY <1>2, <1>5, <2>1, <2>2 DEF OwnInv, Served, worker
  <1>8. ReadInv' /\ PostInv'
    BY <1>2, UnreadSame DEF worker
  <1> QED BY <1>3, <1>6, <1>7, <1>8 DEF Inv

\* The worker is created, or the program exits.
LEMMA CreateStep ==
  ASSUME Inv, NEW c \in Conn, CreateWorker(c)
  PROVE  Inv'
  <1>1. /\ lpc = c /\ lpc' = "accept" /\ c # "accept"
        /\ UNCHANGED <<clients, sock, work_arg, fd, full_request, outgoingTxs, overtaken>>
        /\ wpc' = [wpc EXCEPT ![c] = "arg"] \/ wpc' = wpc
    BY ApiAssumption DEF CreateWorker
  <1>2. wpc[c] = "none" /\ client[c] \in {"connected", "left"}
    BY <1>1 DEF Inv, ConnInv
  <1>3. TypeInv'
    <2>1. wpc' \in [Conn -> {"none", "arg", "read", "serve", "close", "done"}]
      BY <1>1 DEF Inv, TypeInv
    <2> QED BY <1>1, <2>1 DEF Inv, TypeInv, clients
  <1>4. ConnInv'
    <2>1. \A w \in Conn : wpc'[w] = wpc[w] \/ w = c
      BY <1>1 DEF Inv, TypeInv
    <2>2. \A d \in Conn : (\E f \in Fd : sock[f] = d) \/ lpc' = d \/ wpc'[d] # "none"
                            => client[d] \in {"connected", "left"}
      BY <1>1, <1>2, <2>1, ApiAssumption DEF Inv, ConnInv
    <2> QED BY <1>1, <2>2 DEF Inv, ConnInv, clients
  <1>5. (overtaken \/ OwnInv)'
    <2> SUFFICES ASSUME OwnInv PROVE OwnInv'
      BY <1>1 DEF Inv
    <2>1. sock[work_arg] = c /\ \A w \in Conn : wpc[w] # "arg"
      BY <1>1 DEF OwnInv
    <2>2. \A w \in Conn : w # c => wpc'[w] = wpc[w]
      BY <1>1 DEF Inv, TypeInv
    <2>3. wpc'[c] \in {"arg", "none"}
      BY <1>1, <1>2 DEF Inv, TypeInv
    <2> QED BY <1>1, <2>1, <2>2, <2>3 DEF OwnInv, Served
  <1>6. ReadInv' /\ PostInv'
    <2>1. \A w \in Conn : wpc[w] \in {"close", "done"} => wpc'[w] \in {"close", "done"}
      BY <1>1, <1>2 DEF Inv, TypeInv
    <2> QED BY <1>1, <2>1, UnreadSame
  <1> QED BY <1>3, <1>4, <1>5, <1>6 DEF Inv

-------------------------------------------------------------------------------
(* The steps of a worker.                                                  *)

\* What concerns connections stands when a worker goes on and nobody gets a descriptor.
LEMMA WorkerConn ==
  ASSUME Inv, NEW w \in Conn, UNCHANGED <<client, lpc>>,
         \A f \in Fd : sock'[f] \in {sock[f], Free},
         wpc[w] \notin {"none", "done"}, NEW to, wpc' = [wpc EXCEPT ![w] = to]
  PROVE  ConnInv'
  <1>1. wpc'[w] = to /\ \A v \in Conn : v # w => wpc'[v] = wpc[v]
    BY DEF Inv, TypeInv
  <1>2. w # lpc /\ client[w] \in {"connected", "left"}
    BY ApiAssumption DEF Inv, ConnInv, TypeInv
  <1>3. \A f \in Fd : sock'[f] # Free => sock'[f] = sock[f]
    OBVIOUS
  <1>4. \A f, g \in Fd : sock'[f] = sock'[g] /\ sock'[f] # Free => f = g
    BY <1>3 DEF Inv, ConnInv
  <1>5. \A c \in Conn : (\E f \in Fd : sock'[f] = c) \/ lpc = c \/ wpc'[c] # "none"
                           => client[c] \in {"connected", "left"}
    BY <1>1, <1>2, <1>3, ApiAssumption DEF Inv, ConnInv
  <1> QED BY <1>1, <1>2, <1>4, <1>5 DEF Inv, ConnInv, TypeInv

\* Where a worker is does not matter to the others: it keeps its own connection, if it
\* has one, as long as the sockets stay.
LEMMA WorkerOwn ==
  ASSUME Inv, NEW w \in Conn, UNCHANGED <<sock, lpc, work_arg, fd, overtaken>>,
         wpc[w] \in {"read", "serve"}, NEW to \in {"read", "serve", "close"},
         wpc' = [wpc EXCEPT ![w] = to]
  PROVE  (overtaken \/ OwnInv)'
  <1> SUFFICES ASSUME OwnInv PROVE OwnInv'
    BY DEF Inv
  <1>1. wpc'[w] = to /\ \A v \in Conn : v # w => wpc'[v] = wpc[v]
    BY DEF Inv, TypeInv
  <1> QED BY <1>1 DEF OwnInv, Served

\* The variable of the accept loop is read: while nobody was overtaken it still leads to
\* the connection this worker was created for.
LEMMA ReadArgStep ==
  ASSUME Inv, NEW w \in Conn, ReadArg(w)
  PROVE  Inv'
  <1>1. /\ wpc[w] = "arg" /\ wpc' = [wpc EXCEPT ![w] = "read"]
        /\ fd' = [fd EXCEPT ![w] = work_arg]
        /\ UNCHANGED <<clients, sock, lpc, work_arg, full_request, outgoingTxs, overtaken>>
    BY DEF ReadArg, Goes
  <1>2. TypeInv'
    BY <1>1 DEF Inv, TypeInv, clients
  <1>3. ConnInv'
    BY <1>1, WorkerConn DEF clients, Inv, TypeInv
  <1>4. (overtaken \/ OwnInv)'
    <2> SUFFICES ASSUME OwnInv PROVE OwnInv'
      BY <1>1 DEF Inv
    <2>1. wpc'[w] = "read" /\ fd'[w] = work_arg
          /\ \A v \in Conn : v # w => wpc'[v] = wpc[v] /\ fd'[v] = fd[v]
      BY <1>1 DEF Inv, TypeInv
    <2> QED BY <1>1, <2>1 DEF OwnInv, Served
  <1>5. ReadInv' /\ PostInv'
    <2>1. \A v \in Conn : wpc[v] \in {"close", "done"} => wpc'[v] \in {"close", "done"}
      BY <1>1 DEF Inv, TypeInv
    <2> QED BY <1>1, <2>1, UnreadSame
  <1> QED BY <1>2, <1>3, <1>4, <1>5 DEF Inv

\* A piece is read: the one that follows those read so far, whoever read them.
LEMMA ReadPieceStep ==
  ASSUME Inv, NEW w \in Conn, ReadPiece(w)
  PROVE  Inv'
  <1> DEFINE c == Served(w)
             n == NbRead(c)
             piece == <<c, n + 1>>
  <1>1. PICK to \in {"read", "serve"} :
          /\ wpc[w] = "read" /\ wpc' = [wpc EXCEPT ![w] = to]
          /\ full_request' = [full_request EXCEPT ![w] = Append(@, piece)]
          /\ n + 1 <= pieces[c] /\ c # Free
          /\ UNCHANGED <<clients, sock, lpc, work_arg, fd, outgoingTxs, overtaken>>
    <2>1. wpc = [wpc EXCEPT ![w] = wpc[w]]
      BY DEF Inv, TypeInv
    <2> QED BY <2>1 DEF ReadPiece
  <1>2. c \in Conn
    BY <1>1 DEF Inv, TypeInv, Served
  <1>3. n \in Nat /\ n + 1 \in 1 .. Pieces[c]
    <2>1. pieces[c] \in Nat /\ Pieces[c] \in Nat /\ pieces[c] <= Pieces[c]
      BY <1>2, ApiAssumption DEF Inv, TypeInv
    <2>2. n \in Nat
      BY <1>2, PiecesReadFinite DEF Inv
    <2> HIDE DEF n, c
    <2> QED BY <1>1, <2>1, <2>2
  <1> HIDE DEF c, n
  <1>4. piece \in Piece
    BY <1>2, <1>3 DEF Piece
  <1>5. full_request[w] \in Seq(Piece)
    BY DEF Inv, TypeInv
  <1>6. /\ full_request'[w] = Append(full_request[w], piece)
        /\ \A v \in Conn : v # w => full_request'[v] = full_request[v]
    BY <1>1 DEF Inv, TypeInv
  <1>7. /\ Len(full_request[w]) \in Nat
        /\ DOMAIN full_request'[w] = 1 .. Len(full_request[w]) + 1
        /\ DOMAIN full_request[w] = 1 .. Len(full_request[w])
        /\ Len(full_request'[w]) = Len(full_request[w]) + 1
        /\ full_request'[w][Len(full_request[w]) + 1] = piece
        /\ \A i \in 1 .. Len(full_request[w]) : full_request'[w][i] = full_request[w][i]
    BY <1>4, <1>5, <1>6
  <1>8. TypeInv'
    <2>1. Append(full_request[w], piece) \in Seq(Piece)
      BY <1>4, <1>5
    <2> HIDE DEF piece
    <2> QED BY <1>1, <2>1 DEF Inv, TypeInv, clients
  <1>9. ConnInv'
    BY <1>1, WorkerConn DEF clients, Inv, TypeInv
  <1>10. (overtaken \/ OwnInv)'
    BY <1>1, WorkerOwn
  \* Someone reads <<d, p>> after the step if someone did before, or it is this piece.
  <1>11. ASSUME NEW d \in Conn, NEW p \in Nat
         PROVE  (\E v \in Conn : Contains(full_request'[v], <<d, p>>))
                  <=> \/ \E v \in Conn : Contains(full_request[v], <<d, p>>)
                      \/ <<d, p>> = piece
    <2> HIDE DEF piece
    <2>1. Contains(full_request'[w], <<d, p>>)
            <=> Contains(full_request[w], <<d, p>>) \/ <<d, p>> = piece
      <3> DEFINE m == Len(full_request[w])
      <3>1. m \in Nat /\ \A i \in 1 .. m + 1 : i \in 1 .. m \/ i = m + 1
        BY <1>7
      <3>2. 1 .. m \subseteq 1 .. m + 1 /\ m + 1 \in 1 .. m + 1
        BY <3>1
      <3> QED BY <1>7, <3>1, <3>2 DEF Contains
    <2> QED BY <1>6, <2>1
  <1>12. ~ \E v \in Conn : Contains(full_request[v], piece)
    <2>1. PiecesRead(c) = 1 .. n
      BY <1>2 DEF Inv, ReadInv, n
    <2>2. n + 1 \notin PiecesRead(c)
      BY <1>3, <2>1
    <2> QED BY <1>3, <2>2 DEF PiecesRead
  <1>13. ASSUME NEW d \in Conn PROVE PiecesRead(d)' = 1 .. NbRead(d)'
    <2>0. \A p \in 1 .. Pieces[d] : p \in Nat
      BY ApiAssumption
    <2>1. CASE d # c
      <3>1. PiecesRead(d)' = PiecesRead(d)
        BY <1>11, <2>0, <2>1 DEF PiecesRead
      <3>2. NbRead(d)' = NbRead(d)
        BY <1>8, <3>1, PiecesReadFinite DEF Inv, NbRead, PiecesRead
      <3> QED BY <3>1, <3>2 DEF Inv, ReadInv
    <2>2. CASE d = c
      <3>1. PiecesRead(d)' = PiecesRead(d) \cup {n + 1}
        <4>1. \A p : <<d, p>> = piece <=> p = n + 1
          BY <2>2
        <4>2. n + 1 \in 1 .. Pieces[d]
          BY <1>3, <2>2
        <4> HIDE DEF piece
        <4> QED BY <1>11, <2>0, <4>1, <4>2 DEF PiecesRead
      <3>2. PiecesRead(d) = 1 .. n
        BY <2>2 DEF Inv, ReadInv, n
      <3>3. PiecesRead(d)' = 1 .. n + 1
        BY <1>3, <3>1, <3>2
      <3>4. NbRead(d)' = Cardinality(PiecesRead(d)')
        BY DEF NbRead, PiecesRead
      <3>5. Cardinality(1 .. n + 1) = n + 1
        BY <1>3, FS_Interval
      <3> QED BY <2>2, <3>3, <3>4, <3>5
    <2> QED BY <2>1, <2>2
  <1>14. \A u, v \in Conn : \A i \in DOMAIN full_request'[u], j \in DOMAIN full_request'[v] :
           full_request'[u][i] = full_request'[v][j] => u = v /\ i = j
    <2> HIDE DEF piece
    <2>1. \A v \in Conn : \A i \in DOMAIN full_request[v] : full_request[v][i] # piece
      <3> SUFFICES ASSUME NEW v \in Conn, NEW i \in DOMAIN full_request[v]
                   PROVE  full_request[v][i] # piece
        OBVIOUS
      <3>1. i \in 1 .. Len(full_request[v])
        BY DEF Inv, TypeInv
      <3> QED BY <1>12, <3>1 DEF Contains
    <2> DEFINE old(u, i) == i \in DOMAIN full_request[u]
    <2>2. \A u \in Conn : \A i \in DOMAIN full_request'[u] :
            IF old(u, i) THEN full_request'[u][i] = full_request[u][i]
            ELSE u = w /\ i = Len(full_request[w]) + 1 /\ full_request'[u][i] = piece
      BY <1>6, <1>7
    <2>3. \A u, v \in Conn : \A i \in DOMAIN full_request[u], j \in DOMAIN full_request[v] :
            full_request[u][i] = full_request[v][j] => u = v /\ i = j
      BY DEF Inv, ReadInv
    <2> QED BY <2>1, <2>2, <2>3
  <1>15. ReadInv'
    BY <1>13, <1>14 DEF ReadInv
  <1>16. PostInv'
    <2> SUFFICES ASSUME NEW i \in DOMAIN outgoingTxs
                 PROVE  \E v \in Conn :
                          /\ wpc'[v] \in {"close", "done"} /\ full_request'[v] # << >>
                          /\ full_request'[v][1] = <<outgoingTxs[i], 1>>
      BY <1>1 DEF Inv, PostInv
    <2>1. PICK v \in Conn : /\ wpc[v] \in {"close", "done"} /\ full_request[v] # << >>
                            /\ full_request[v][1] = <<outgoingTxs[i], 1>>
      BY DEF Inv, PostInv
    <2>2. v # w /\ wpc'[v] = wpc[v]
      BY <1>1, <2>1 DEF Inv, TypeInv
    <2> QED BY <1>6, <2>1, <2>2
  <1> QED BY <1>8, <1>9, <1>10, <1>15, <1>16 DEF Inv

\* Reading fails or finds nothing.
LEMMA ReadNothingStep ==
  ASSUME Inv, NEW w \in Conn, ReadNothing(w) \/ ReadFails(w)
  PROVE  Inv'
  <1>1. PICK to \in {"serve", "close"} :
          /\ wpc[w] = "read" /\ wpc' = [wpc EXCEPT ![w] = to]
          /\ UNCHANGED <<clients, sock, lpc, work_arg, fd, full_request, outgoingTxs,
                         overtaken>>
    BY DEF ReadNothing, ReadFails, Goes
  <1>2. TypeInv'
    BY <1>1 DEF Inv, TypeInv, clients
  <1>3. ConnInv'
    BY <1>1, WorkerConn DEF clients, Inv, TypeInv
  <1>4. (overtaken \/ OwnInv)'
    BY <1>1, WorkerOwn
  <1>5. ReadInv' /\ PostInv'
    <2>1. \A v \in Conn : wpc[v] \in {"close", "done"} => wpc'[v] \in {"close", "done"}
      BY <1>1 DEF Inv, TypeInv
    <2> QED BY <1>1, <2>1, UnreadSame
  <1> QED BY <1>2, <1>3, <1>4, <1>5 DEF Inv

\* A request is answered, and posted by the worker that read its first piece: no other
\* worker has, or will have, read that piece.
LEMMA ServeStep ==
  ASSUME Inv, NEW w \in Conn, Serve(w)
  PROVE  Inv'
  <1>1. /\ wpc[w] = "serve" /\ wpc' = [wpc EXCEPT ![w] = "close"]
        /\ UNCHANGED <<clients, sock, lpc, work_arg, fd, full_request, overtaken>>
    BY DEF Serve
  <1>2. \/ outgoingTxs' = outgoingTxs
        \/ /\ full_request[w] # << >> /\ full_request[w][1][2] = 1
           /\ outgoingTxs' = Append(outgoingTxs, full_request[w][1][1])
    BY DEF Serve, IsGet, Posts
  <1>3. ConnInv'
    BY <1>1, WorkerConn DEF clients, Inv, TypeInv
  <1>4. (overtaken \/ OwnInv)'
    BY <1>1, WorkerOwn
  <1>5. \A v \in Conn : wpc[v] \in {"close", "done"} => wpc'[v] \in {"close", "done"}
    BY <1>1 DEF Inv, TypeInv
  <1>6. wpc' \in [Conn -> {"none", "arg", "read", "serve", "close", "done"}]
    BY <1>1 DEF Inv, TypeInv
  <1>7. CASE outgoingTxs' = outgoingTxs
    <2>1. TypeInv'
      BY <1>1, <1>6, <1>7 DEF Inv, TypeInv, clients
    <2> QED BY <1>1, <1>3, <1>4, <1>5, <1>7, <2>1, UnreadSame DEF Inv
  <1>8. CASE /\ full_request[w] # << >> /\ full_request[w][1][2] = 1
             /\ outgoingTxs' = Append(outgoingTxs, full_request[w][1][1])
    <2> DEFINE t == full_request[w][1][1]
               n == Len(outgoingTxs)
    <2>1. 1 \in DOMAIN full_request[w] /\ full_request[w][1] \in Piece
      BY <1>8 DEF Inv, TypeInv
    <2>2. t \in Conn /\ full_request[w][1] = <<t, 1>>
      BY <1>8, <2>1 DEF Piece
    <2> HIDE DEF t
    <2>3. /\ outgoingTxs' \in Seq(Conn) /\ n \in Nat
          /\ DOMAIN outgoingTxs' = 1 .. n + 1 /\ DOMAIN outgoingTxs = 1 .. n
          /\ outgoingTxs'[n + 1] = t
          /\ \A i \in 1 .. n : outgoingTxs'[i] = outgoingTxs[i]
      BY <1>8, <2>2 DEF Inv, TypeInv, t
    <2> HIDE DEF n
    <2>4. TypeInv'
      BY <1>1, <1>6, <2>3 DEF Inv, TypeInv, clients
    <2>5. ASSUME NEW i \in 1 .. n PROVE outgoingTxs[i] # t
      <3> SUFFICES ASSUME outgoingTxs[i] = t PROVE FALSE
        OBVIOUS
      <3>0. i \in DOMAIN outgoingTxs
        BY <2>3
      <3>1. PICK v \in Conn : /\ wpc[v] \in {"close", "done"} /\ full_request[v] # << >>
                              /\ full_request[v][1] = <<t, 1>>
        BY <3>0 DEF Inv, PostInv
      <3>2. 1 \in DOMAIN full_request[v]
        BY <3>1 DEF Inv, TypeInv
      <3>3. v = w
        BY <2>1, <2>2, <3>1, <3>2 DEF Inv, ReadInv
      <3> QED BY <1>1, <3>1, <3>3
    <2>6. PostInv'
      <3>1. wpc'[w] = "close"
        BY <1>1 DEF Inv, TypeInv
      <3>2. \A i \in DOMAIN outgoingTxs' : \E v \in Conn :
              /\ wpc'[v] \in {"close", "done"} /\ full_request[v] # << >>
              /\ full_request[v][1] = <<outgoingTxs'[i], 1>>
        <4> SUFFICES ASSUME NEW i \in DOMAIN outgoingTxs'
                     PROVE  \E v \in Conn :
                              /\ wpc'[v] \in {"close", "done"} /\ full_request[v] # << >>
                              /\ full_request[v][1] = <<outgoingTxs'[i], 1>>
          OBVIOUS
        <4>1. CASE i = n + 1
          BY <1>8, <2>2, <2>3, <3>1, <4>1
        <4>2. CASE i \in 1 .. n
          BY <1>5, <2>3, <4>2 DEF Inv, PostInv
        <4> QED BY <2>3, <4>1, <4>2
      <3>3. \A i, j \in DOMAIN outgoingTxs' : i # j => outgoingTxs'[i] # outgoingTxs'[j]
        <4>1. \A i, j \in 1 .. n : i # j => outgoingTxs[i] # outgoingTxs[j]
          BY <2>3 DEF Inv, PostInv
        <4>2. \A i \in DOMAIN outgoingTxs' : i \in 1 .. n \/ i = n + 1
          BY <2>3
        <4> QED BY <2>3, <2>5, <4>1, <4>2
      <3> QED BY <1>1, <3>2, <3>3 DEF PostInv
    <2>7. ReadInv'
      <3>1. \A c \in Conn : PiecesRead(c)' = PiecesRead(c) /\ NbRead(c)' = NbRead(c)
        BY <1>1 DEF PiecesRead, NbRead
      <3> QED BY <1>1, <3>1 DEF Inv, ReadInv
    <2> QED BY <1>3, <1>4, <2>4, <2>6, <2>7 DEF Inv
  <1> QED BY <1>2, <1>7, <1>8

\* A descriptor is closed: while nobody was overtaken it is the worker's own.
LEMMA CloseStep ==
  ASSUME Inv, NEW w \in Conn, Close(w)
  PROVE  Inv'
  <1>1. /\ wpc[w] = "close" /\ wpc' = [wpc EXCEPT ![w] = "done"]
        /\ sock' = [sock EXCEPT ![fd[w]] = Free]
        /\ UNCHANGED <<clients, lpc, work_arg, fd, full_request, outgoingTxs, overtaken>>
    BY DEF Close, Goes
  <1>2. TypeInv'
    BY <1>1 DEF Inv, TypeInv, clients
  <1>3. fd[w] \in Fd /\ sock'[fd[w]] = Free /\ \A f \in Fd : f # fd[w] => sock'[f] = sock[f]
    BY <1>1 DEF Inv, TypeInv
  <1>4. ConnInv'
    BY <1>1, <1>3, WorkerConn DEF clients, Inv, TypeInv
  <1>5. (overtaken \/ OwnInv)'
    <2> SUFFICES ASSUME OwnInv PROVE OwnInv'
      BY <1>1 DEF Inv
    <2>1. wpc'[w] = "done" /\ \A v \in Conn : v # w => wpc'[v] = wpc[v]
      BY <1>1 DEF Inv, TypeInv
    <2>2. sock[fd[w]] = w
      BY <1>1 DEF OwnInv, Served
    <2>3. lpc # w
      BY <1>1, ApiAssumption DEF Inv, ConnInv, TypeInv
    <2>4. work_arg \in Fd /\ \A v \in Conn : fd[v] \in Fd
      BY DEF Inv, TypeInv
    <2>5. \A f \in Fd : sock[f] # w => sock'[f] = sock[f]
      BY <1>3, <2>2
    <2> QED BY <1>1, <2>1, <2>3, <2>4, <2>5 DEF OwnInv, Served
  <1>6. ReadInv' /\ PostInv'
    <2>1. \A v \in Conn : wpc[v] \in {"close", "done"} => wpc'[v] \in {"close", "done"}
      BY <1>1 DEF Inv, TypeInv
    <2> QED BY <1>1, <2>1, UnreadSame
  <1> QED BY <1>2, <1>4, <1>5, <1>6 DEF Inv

\* The invariant is inductive.
LEMMA ApiStep == Inv /\ [Next]_vars => Inv'
  <1> SUFFICES ASSUME Inv, [Next]_vars PROVE Inv'
    OBVIOUS
  <1>1. ASSUME NEW c \in Conn, Accept(c) \/ CreateWorker(c) PROVE Inv'
    BY <1>1, AcceptStep, CreateStep
  <1>2. ASSUME NEW c \in Conn, Connects(c) \/ Asks(c) \/ Leaves(c) PROVE Inv'
    BY <1>2, ClientStep
  <1>3. ASSUME NEW c \in Conn, Worker(c) PROVE Inv'
    BY <1>3, ReadArgStep, ReadPieceStep, ReadNothingStep, ServeStep, CloseStep DEF Worker
  <1>4. CASE UNCHANGED vars
    <2>1. ReadInv' /\ PostInv'
      BY <1>4, UnreadSame DEF vars, worker
    <2> QED BY <1>4, <2>1 DEF vars, clients, worker, Inv, TypeInv, ConnInv, OwnInv, Served
  <1> QED BY <1>1, <1>2, <1>3, <1>4 DEF Next, API

\* For any number of clients: as long as no connection was accepted between a worker's
\* creation and its look at work_arg, each worker reads, answers and closes its own
\* connection only, although closed descriptors are used again at once; and no request is
\* posted twice, even when two workers share a connection and read its pieces by turns.
THEOREM WorkersKeepApart == Spec => []ServesItsOwn
  <1>1. Inv => ServesItsOwn
    BY DEF Inv, OwnInv, PostInv, ServesItsOwn
  <1> QED BY ApiInit, ApiStep, <1>1, PTL DEF Spec

===============================================================================
