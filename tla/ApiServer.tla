------------------------------- MODULE ApiServer -------------------------------
(***************************************************************************)
(* The HTTP server of a node (src/Projet/API/API.c): API accepts           *)
(* connections and creates a worker for each, which reads a request,       *)
(* answers it and closes the socket. All workers are handed a pointer to   *)
(* the same variable of the accept loop.                                   *)
(*                                                                         *)
(* A request comes in pieces, the last of which ends in the empty line.    *)
(* What the commands read under which lock is the matter of Gestion.       *)
(***************************************************************************)
EXTENDS Integers, Sequences, SequencesExt, FiniteSets, FiniteSetsExt

CONSTANTS
  Conn,      \* connections of clients
  Kind,      \* for each, what it asks: "get", "post", "badPost", "unknown" or "other"
  Pieces,    \* for each, the pieces its request comes in
  Fd,        \* file descriptors
  Free       \* not a connection

ASSUME ApiAssumption ==
  /\ Kind \in [Conn -> {"get", "post", "badPost", "unknown", "other"}]
  /\ Pieces \in [Conn -> Nat \ {0}]
  /\ IsFiniteSet(Conn) /\ Free \notin Conn /\ "accept" \notin Conn
  /\ IsFiniteSet(Fd) /\ Fd \subseteq Nat /\ Fd # {}
  /\ Cardinality(Fd) >= Cardinality(Conn)

VARIABLES
  client,      \* each client: "away", "waiting" for accept, "connected" or "left"
  pieces,      \* how much of its request each client has sent
  sock,        \* the connection behind each descriptor
  lpc,         \* the accept loop
  work_arg,    \* its variable, of which only client_socket_id changes
  wpc,         \* the worker that was created for each connection
  fd,          \* its client_socket_id
  full_request,\* the pieces it has read
  outgoingTxs, \* the requests whose transactions were pushed
  answered,    \* the connections that were sent an answer
  running,     \* does the program run?
  overtaken    \* history: was work_arg written before the worker had read it?

clients == <<client, pieces>>
worker  == <<wpc, fd, full_request>>
vars    == <<clients, sock, lpc, work_arg, worker, outgoingTxs, answered, running, overtaken>>

Init ==
  /\ client = [c \in Conn |-> "away"]
  /\ pieces = [c \in Conn |-> 0]
  /\ sock = [f \in Fd |-> Free]
  /\ lpc = "accept" /\ work_arg = Min(Fd)
  /\ wpc = [c \in Conn |-> "none"]
  /\ fd = [c \in Conn |-> Min(Fd)]
  /\ full_request = [c \in Conn |-> << >>]
  /\ outgoingTxs = << >>
  /\ answered = {}
  /\ running = TRUE /\ overtaken = FALSE

-------------------------------------------------------------------------------
(* Clients.                                                                *)

Connects(c) ==
  /\ client[c] = "away"
  /\ client' = [client EXCEPT ![c] = "waiting"]
  /\ UNCHANGED <<pieces, sock, lpc, work_arg, worker, outgoingTxs, answered, running, overtaken>>

Asks(c) ==
  /\ client[c] \in {"waiting", "connected"} /\ pieces[c] < Pieces[c]
  /\ pieces' = [pieces EXCEPT ![c] = @ + 1]
  /\ UNCHANGED <<client, sock, lpc, work_arg, worker, outgoingTxs, answered, running, overtaken>>

Leaves(c) ==
  /\ client[c] = "connected"
  /\ client' = [client EXCEPT ![c] = "left"]
  /\ UNCHANGED <<pieces, sock, lpc, work_arg, worker, outgoingTxs, answered, running, overtaken>>

-------------------------------------------------------------------------------
(* The accept loop.                                                        *)

\* accept returns the smallest descriptor that is free, and work_arg is written.
Accept(c) ==
  /\ running
  /\ lpc = "accept" /\ client[c] = "waiting"
  /\ client' = [client EXCEPT ![c] = "connected"]
  /\ LET f == Min({g \in Fd : sock[g] = Free})
     IN  sock' = [sock EXCEPT ![f] = c] /\ work_arg' = f
  /\ lpc' = c
  /\ overtaken' = (overtaken \/ \E w \in Conn : wpc[w] = "arg")
  /\ UNCHANGED <<pieces, worker, outgoingTxs, answered, running>>

\* If no thread can be created the program exits.
CreateWorker(c) ==
  /\ running
  /\ lpc = c
  /\ lpc' = "accept"
  /\ \/ wpc' = [wpc EXCEPT ![c] = "arg"] /\ UNCHANGED running
     \/ running' = FALSE /\ UNCHANGED wpc
  /\ UNCHANGED <<clients, sock, work_arg, fd, full_request, outgoingTxs, answered, overtaken>>

-------------------------------------------------------------------------------
(* worker. It is named after the connection for which it was created.      *)

Goes(w, from, to) == running /\ wpc[w] = from /\ wpc' = [wpc EXCEPT ![w] = to]

ReadArg(w) ==
  /\ Goes(w, "arg", "read")
  /\ fd' = [fd EXCEPT ![w] = work_arg]
  /\ UNCHANGED <<clients, sock, lpc, work_arg, full_request, outgoingTxs, answered, running,
                 overtaken>>

Served(w) == sock[fd[w]]

\* What a descriptor may lead to when nobody is there any more.
Gone == {Free} \cup {c \in Conn : client[c] = "left"}

\* The pieces of a connection that someone has read.
NbRead(c) ==
  Cardinality({p \in 1 .. Pieces[c] : \E w \in Conn : Contains(full_request[w], <<c, p>>)})

IsLast(piece) == piece[2] = Pieces[piece[1]]

\* read returns what has come, and the loop ends at the empty line. Without it, it goes on
\* only if memcmp returns 1, where any value of that sign would do.
ReadPiece(w) ==
  /\ running /\ wpc[w] = "read"
  /\ Served(w) # Free
  /\ LET c == Served(w)
         piece == <<c, NbRead(c) + 1>>
     IN  /\ piece[2] <= pieces[c]
         /\ full_request' = [full_request EXCEPT ![w] = Append(@, piece)]
         /\ \/ ~ IsLast(piece) /\ UNCHANGED wpc
            \/ wpc' = [wpc EXCEPT ![w] = "serve"]
  /\ UNCHANGED <<clients, sock, lpc, work_arg, fd, outgoingTxs, answered, running, overtaken>>

\* read returns 0: the client has left, and the request is what has come of it.
ReadNothing(w) ==
  /\ Goes(w, "read", "serve")
  /\ Served(w) # Free
  /\ client[Served(w)] = "left" /\ pieces[Served(w)] = NbRead(Served(w))
  /\ UNCHANGED <<clients, sock, lpc, work_arg, fd, full_request, outgoingTxs, answered, running,
                 overtaken>>

ReadFailsOpen(w) ==
  /\ Goes(w, "read", "done")
  /\ Served(w) \in Gone
  /\ UNCHANGED <<clients, sock, lpc, work_arg, fd, full_request, outgoingTxs, answered, running,
                 overtaken>>

\* read returns -1: the descriptor was closed, or the client has reset the connection. The
\* descriptor is closed (again).
ReadFails(w) ==
  /\ Goes(w, "read", "close")
  /\ Served(w) \in Gone
  /\ UNCHANGED <<clients, sock, lpc, work_arg, fd, full_request, outgoingTxs, answered, running,
                 overtaken>>

\* Only what begins with GET is answered: the first piece of a request.
IsGet(request) ==
  request # << >> /\ request[1][2] = 1 /\ Kind[request[1][1]] # "other"

\* Did findInfoTxs find a sender, a receiver and an amount? A request that was cut off may
\* have lost one, or a part of one.
FindInfoTxs(request) ==
  IF Kind[request[1][1]] # "post" THEN {FALSE}
  ELSE IF IsLast(request[Len(request)]) THEN {TRUE} ELSE BOOLEAN

\* add_transaction_cmd pushes what has all three.
Posts(w) ==
  \E found \in FindInfoTxs(full_request[w]) :
    outgoingTxs' = IF found THEN Append(outgoingTxs, full_request[w][1][1]) ELSE outgoingTxs

\* The answer goes to whoever is behind the descriptor by now. If that one has left, the
\* signal SIGPIPE or the err of resend ends the program.
Serve(w) ==
  /\ running /\ wpc[w] = "serve"
  /\ IF IsGet(full_request[w])
       THEN /\ Posts(w)
            /\ IF Served(w) \in Gone
                 THEN running' \in BOOLEAN /\ UNCHANGED answered
                 ELSE answered' = answered \cup {Served(w)} /\ UNCHANGED running
       ELSE UNCHANGED <<outgoingTxs, answered, running>>
  /\ wpc' = [wpc EXCEPT ![w] = "close"]
  /\ UNCHANGED <<clients, sock, lpc, work_arg, fd, full_request, overtaken>>

CloseTwice(w) ==
  /\ running /\ wpc[w] = "close"
  /\ wpc' = [wpc EXCEPT ![w] = IF Served(w) = Free THEN "done" ELSE "close"]
  /\ sock' = [sock EXCEPT ![fd[w]] = Free]
  /\ UNCHANGED <<clients, lpc, work_arg, fd, full_request, outgoingTxs, answered, running,
                 overtaken>>

Close(w) ==
  /\ Goes(w, "close", "done")
  /\ sock' = [sock EXCEPT ![fd[w]] = Free]
  /\ UNCHANGED <<clients, lpc, work_arg, fd, full_request, outgoingTxs, answered, running,
                 overtaken>>

Worker(w) ==
  \/ ReadArg(w) \/ ReadPiece(w) \/ ReadNothing(w) \/ ReadFails(w) \/ Serve(w) \/ Close(w)

API == \E c \in Conn : Accept(c) \/ CreateWorker(c)

Next == API \/ \E c \in Conn : Connects(c) \/ Asks(c) \/ Leaves(c) \/ Worker(c)

Spec == Init /\ [][Next]_vars

\* The threads go on, and a client that has connected sends its request.
FairSpec == Spec /\ WF_vars(API) /\ \A c \in Conn : WF_vars(Asks(c)) /\ WF_vars(Worker(c))

-------------------------------------------------------------------------------
(* Properties.                                                             *)

\* As long as every worker has read work_arg before the next connection is accepted, a
\* worker reads, answers and closes its own connection only, although descriptors are used
\* again as soon as they are closed. No request is posted twice in any case.
ServesItsOwn ==
  /\ overtaken \/ \A w \in Conn : wpc[w] \in {"read", "serve", "close"} => Served(w) = w
  /\ \A i, j \in DOMAIN outgoingTxs : i # j => outgoingTxs[i] # outgoingTxs[j]

\* Then also every connection is closed, and answered if its client has waited for a GET,
\* unless the program ended.
Ended(c) == \A f \in Fd : sock[f] # c

EveryoneIsServed ==
  \A c \in Conn :
    (client[c] = "connected") ~>
      \/ Ended(c) /\ (c \in answered \/ client[c] = "left" \/ Kind[c] = "other")
      \/ overtaken \/ ~ running

===============================================================================
