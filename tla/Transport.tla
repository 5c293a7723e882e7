------------------------------- MODULE Transport -------------------------------
(***************************************************************************)
(* One message from a node to another: SendMessageForOneClient opens a     *)
(* connection for it, Send writes its bytes, and a read_thread of the      *)
(* other node reads them into a message and hands it over (client.c,       *)
(* server.c and message.c in src/Projet/Network).                          *)
(*                                                                         *)
(* A connection is a stream of bytes: send takes some of the bytes it is   *)
(* offered, read gives some of those that are there. Either program may    *)
(* stop, and the network may go silent, between any two calls. Memory      *)
(* beyond a message, which Send may send too, holds zeros.                 *)
(***************************************************************************)
EXTENDS Bytes

CONSTANTS
  Conn,           \* connections, all to one node, each for one message
  Message,        \* the messages, [type : Nat, data : sequence of bytes]
  TYPE_NETWORK    \* the type of a list of known servers

HEADER_SIZE == Word + 1

\* The type is cut to a byte.
MessageToBin(m) == <<m.type % Base>> \o ToWord(Len(m.data)) \o m.data

SizeData(bin) == WordAt(bin, 1)

BinToMessageFromStart(bin) == [type |-> Head(bin), data |-> Cut(bin, 0, SizeData(bin))]

BinToMessage(bin) == [type |-> Head(bin), data |-> Cut(bin, HEADER_SIZE, SizeData(bin))]

\* The types fit a byte, and the sizes the place they have in the header.
ASSUME TransportAssumption ==
  /\ Message \subseteq [type : 0 .. Base - 1, data : Seq(Nat)]
  /\ \A m \in Message : Len(m.data) < power[Word]

VARIABLES
  msg,         \* what SendMessageForOneClient was called with
  spc, reste,  \* where it is, and the bytes that Send has left
  sent,        \* what Send returned, "none" before
  res,         \* what SendMessageForOneClient returns
  link,        \* the sender's side of the connection, as the reader will find it
  wire,        \* the bytes on their way
  rpc,         \* where the read_thread is
  buff,        \* what it has read: headerBuff, then the data
  nbCharToRead,
  listening,   \* does the reading program run?
  delivered    \* messages handed over, and the connection they came by

sender == <<spc, reste, sent, res>>
reader == <<rpc, buff, nbCharToRead, delivered>>
vars   == <<msg, sender, link, wire, reader, listening>>

Init ==
  /\ msg \in [Conn -> Message]
  /\ spc = [c \in Conn |-> "connect"]
  /\ reste = [c \in Conn |-> Len(MessageToBin(msg[c]))]
  /\ sent = [c \in Conn |-> "none"]
  /\ res = [c \in Conn |-> "none"]
  /\ link = [c \in Conn |-> "none"]
  /\ wire = [c \in Conn |-> << >>]
  /\ rpc = [c \in Conn |-> "none"]
  /\ buff = [c \in Conn |-> << >>]
  /\ nbCharToRead = [c \in Conn |-> HEADER_SIZE]
  /\ listening = TRUE
  /\ delivered = << >>

-------------------------------------------------------------------------------
(* The sender.                                                             *)

Moves(c, from, to) == spc[c] = from /\ spc' = [spc EXCEPT ![c] = to]

\* connectClient: the kernel of the other node puts the connection in its backlog.
Connect(c) ==
  /\ Moves(c, "connect", "send")
  /\ listening
  /\ link' = [link EXCEPT ![c] = "up"]
  /\ rpc' = [rpc EXCEPT ![c] = "backlog"]
  /\ UNCHANGED <<msg, reste, sent, res, wire, buff, nbCharToRead, listening, delivered>>

\* No socket, no address or no answer.
Refused(c) ==
  /\ Moves(c, "connect", "done")
  /\ res' = [res EXCEPT ![c] = "failure"]
  /\ UNCHANGED <<msg, reste, sent, link, wire, reader, listening>>

Count(c) == Len(MessageToBin(msg[c]))

\* The message in memory, and as much of what comes after it as Send may reach.
Memory(c) == MessageToBin(msg[c]) \o [k \in 1 .. Count(c) |-> 0]

\* Bytes arrive as long as the connection stands at both ends.
Arrives(c, bytes) ==
  wire' = [wire EXCEPT ![c] =
             IF link[c] = "up" /\ rpc[c] \notin {"unread", "done"} THEN @ \o bytes ELSE @]

SendFrom(c, at) ==
  /\ spc[c] = "send"
  /\ \E r \in 1 .. Count(c) :
       /\ Arrives(c, Cut(Memory(c), at, r))
       /\ IF r < reste[c]
            THEN reste' = [reste EXCEPT ![c] = @ - r] /\ UNCHANGED <<spc, sent>>
            ELSE /\ spc' = [spc EXCEPT ![c] = "close"]
                 /\ sent' = [sent EXCEPT ![c] = "success"]
                 /\ UNCHANGED reste
  /\ UNCHANGED <<msg, res, link, reader, listening>>

SendSomeFromStart(c) == SendFrom(c, 0)

\* Send calls send from where it is, but with the length of the whole message.
SendSome(c) == SendFrom(c, Count(c) - reste[c])

\* send returns -1: after a second without room, or on a connection that is gone.
SendFails(c) ==
  /\ Moves(c, "send", "close")
  /\ sent' = [sent EXCEPT ![c] = "failure"]
  /\ UNCHANGED <<msg, reste, res, link, wire, reader, listening>>

\* close succeeds, and so does SendMessageForOneClient, whatever Send returned.
Close(c) ==
  /\ Moves(c, "close", "done")
  /\ res' = [res EXCEPT ![c] = "success"]
  /\ link' = [link EXCEPT ![c] = IF @ = "up" THEN "closed" ELSE @]
  /\ UNCHANGED <<msg, reste, sent, wire, reader, listening>>

\* The program of the sender is stopped; with no handler for SIGPIPE, it also is when it
\* sends to a program that was.
StopSender(c) ==
  /\ spc[c] \in {"connect", "send", "close"}
  /\ spc' = [spc EXCEPT ![c] = "stopped"]
  /\ link' = [link EXCEPT ![c] = IF @ = "up" THEN "closed" ELSE @]
  /\ UNCHANGED <<msg, reste, sent, res, wire, reader, listening>>

-------------------------------------------------------------------------------
(* The network.                                                            *)

\* The connection is reset, or nothing comes through any more.
Break(c) ==
  /\ link[c] \in {"up", "closed"}
  /\ \E how \in {"reset", "silent"} : link' = [link EXCEPT ![c] = how]
  /\ wire' = [wire EXCEPT ![c] = << >>]
  /\ UNCHANGED <<msg, sender, reader, listening>>

-------------------------------------------------------------------------------
(* The reader.                                                             *)

\* Server accepts the connection and starts a read_thread for it.
Accept(c) ==
  /\ rpc[c] = "backlog"
  /\ rpc' = [rpc EXCEPT ![c] = "header"]
  /\ UNCHANGED <<msg, sender, link, wire, buff, nbCharToRead, listening, delivered>>

\* It cannot be started: the connection is closed.
NoThread(c) ==
  /\ rpc[c] = "backlog"
  /\ rpc' = [rpc EXCEPT ![c] = "unread"]
  /\ UNCHANGED <<msg, sender, link, wire, buff, nbCharToRead, listening, delivered>>

ReadUpTo(c, most) ==
  /\ rpc[c] \in {"header", "data"}
  /\ \E r \in 1 .. most :
       /\ r <= Len(wire[c])
       /\ buff' = [buff EXCEPT ![c] = @ \o Cut(wire[c], 0, r)]
       /\ wire' = [wire EXCEPT ![c] = SubSeq(@, r + 1, Len(@))]
       /\ rpc' = [rpc EXCEPT ![c] =
                    IF nbCharToRead[c] > r THEN @
                    ELSE IF @ = "header" /\ SizeData(buff'[c]) > 0 THEN "data" ELSE "deliver"]
       /\ nbCharToRead' = [nbCharToRead EXCEPT ![c] =
                             IF @ > r \/ rpc[c] = "data" THEN @ - r ELSE SizeData(buff'[c])]
  /\ UNCHANGED <<msg, sender, link, listening, delivered>>

ReadSomeTooFar(c) == ReadUpTo(c, nbCharToRead[c] + 1)

\* One turn of a loop of read_thread. The last byte of the header tells how many bytes
\* of data to read.
ReadSome(c) == ReadUpTo(c, nbCharToRead[c])

ReadEndsOnReset(c) ==
  /\ rpc[c] \in {"header", "data"}
  /\ wire[c] = << >> /\ link[c] = "reset"
  /\ rpc' = [rpc EXCEPT ![c] = "done"]
  /\ UNCHANGED <<msg, sender, link, wire, buff, nbCharToRead, listening, delivered>>

ReadEndsWhenEmpty(c) ==
  /\ rpc[c] \in {"header", "data"}
  /\ wire[c] = << >>
  /\ rpc' = [rpc EXCEPT ![c] = "done"]
  /\ UNCHANGED <<msg, sender, link, wire, buff, nbCharToRead, listening, delivered>>

\* read returns 0 or -1: a problem, and the socket is closed.
ReadEnds(c) ==
  /\ rpc[c] \in {"header", "data"}
  /\ wire[c] = << >> /\ link[c] \in {"closed", "reset"}
  /\ rpc' = [rpc EXCEPT ![c] = "done"]
  /\ UNCHANGED <<msg, sender, link, wire, buff, nbCharToRead, listening, delivered>>

\* A list of servers goes to addServerFromMessage, any other message to IncomingMessages.
Deliver(c) ==
  /\ rpc[c] = "deliver"
  /\ rpc' = [rpc EXCEPT ![c] = "done"]
  /\ LET m == BinToMessage(buff[c])
     IN  delivered' = Append(delivered,
           [by |-> c, msg |-> m,
            to |-> IF m.type = TYPE_NETWORK THEN "KnownServers" ELSE "IncomingMessages"])
  /\ UNCHANGED <<msg, sender, link, wire, buff, nbCharToRead, listening>>

\* The program of the reader is stopped with all its threads.
StopReader ==
  /\ listening /\ listening' = FALSE
  /\ rpc' = [c \in Conn |-> IF rpc[c] = "none" THEN "none" ELSE "done"]
  /\ UNCHANGED <<msg, sender, link, wire, buff, nbCharToRead, delivered>>

-------------------------------------------------------------------------------
SendMessageForOneClient(c) ==
  Connect(c) \/ Refused(c) \/ SendSome(c) \/ SendFails(c) \/ Close(c)

ReadThread(c) == Accept(c) \/ NoThread(c) \/ ReadSome(c) \/ ReadEnds(c) \/ Deliver(c)

Next == \/ \E c \in Conn : SendMessageForOneClient(c) \/ StopSender(c) \/ Break(c) \/ ReadThread(c)
        \/ StopReader

Spec == Init /\ [][Next]_vars

\* Threads go on. Nothing has to fail, to break or to be stopped.
FairSpec == /\ Spec
            /\ \A c \in Conn : WF_vars(SendMessageForOneClient(c)) /\ WF_vars(ReadThread(c))

-------------------------------------------------------------------------------
(* Properties.                                                             *)

\* The variables keep to their types: the sender has at most the whole message left, and
\* the reader, whose counter is unsigned, never reads past what it asked for.
TypeOK ==
  /\ spc \in [Conn -> {"connect", "send", "close", "done", "stopped"}]
  /\ \A c \in Conn : reste[c] \in 1 .. Count(c)
  /\ sent \in [Conn -> {"none", "success", "failure"}]
  /\ res \in [Conn -> {"none", "success", "failure"}]
  /\ link \in [Conn -> {"none", "up", "closed", "reset", "silent"}]
  /\ rpc \in [Conn -> {"none", "backlog", "header", "data", "deliver", "unread", "done"}]
  /\ nbCharToRead \in [Conn -> Nat]
  /\ listening \in BOOLEAN

\* However send and read cut the bytes up, a read_thread that is about to hand a message
\* over has read all of what was sent and nothing of the memory that followed it.
ReadsTheMessage ==
  \A c \in Conn : rpc[c] = "deliver" => buff[c] = MessageToBin(msg[c])

\* Each message arrives once and as it was, or never.
D == INSTANCE Datagram WITH
       delivered <- [i \in DOMAIN delivered |-> [by |-> delivered[i].by, msg |-> delivered[i].msg]]
IsDatagram == D!Spec

\* A message arrives, or there is an excuse: the other node could not be reached, was
\* stopped or had no thread for it; this one was stopped or its send failed; or the
\* connection broke. The answer of SendMessageForOneClient does not tell these apart.
Arrived(c) == \E i \in DOMAIN delivered : delivered[i].by = c

Excused(c) ==
  \/ res[c] = "failure" \/ sent[c] = "failure" \/ spc[c] = "stopped"
  \/ link[c] \in {"reset", "silent"} \/ rpc[c] = "unread" \/ ~ listening

ArrivesUnlessExcused == \A c \in Conn : <>(Arrived(c) \/ Excused(c))

\* No read_thread waits for ever, unless the connection went silent: nothing in read_thread
\* limits the time of a read.
ReadersEnd ==
  \A c \in Conn : (rpc[c] \in {"header", "data"}) ~> (rpc[c] = "done" \/ link[c] = "silent")

===============================================================================
