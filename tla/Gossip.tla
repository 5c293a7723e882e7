-------------------------------- MODULE Gossip --------------------------------
(***************************************************************************)
(* How nodes come to know each other: the threads of Network, Server,      *)
(* read_thread, sendNetwork and SendOutGoinMessages on every node, between *)
(* the start of the program and its end (src/Projet/Network).              *)
(*                                                                         *)
(* Every access to a list of known servers is under lockKnownServers and   *)
(* is one step here, one per entry of a received list. A message that      *)
(* finds its destination listening is read there by a thread of its own;   *)
(* the model keeps one such thread for each sender. Messages of other      *)
(* kinds prune the list as an empty list does, and are left out.           *)
(***************************************************************************)
EXTENDS KnownServers, Functions

CONSTANTS
  First,       \* for each node, the first server given on its command line
  NoServer,    \* no first server
  PartsOf,     \* the parts each node runs
  MaxOutgoing, MaxCrashes   \* bounds

ASSUME GossipAssumption ==
  /\ NoServer \notin Node
  /\ First \in [Node -> Node \cup {NoServer}]
  /\ PartsOf \in [Node -> Parts]
  /\ {MaxOutgoing, MaxCrashes} \subseteq Nat

VARIABLES
  status,      \* server->status, or "down" when the program does not run
  joined,      \* has Network added its own address and the first server?
  servers,     \* server->KnownServers
  outgoing,    \* the lists among server->OutgoingMessages
  reading,     \* what each node has left to note of the last list of each sender
  crashes      \* how often each program was stopped

vars == <<status, joined, servers, outgoing, reading, crashes>>

Online == {n \in Node : status[n] = "online"}

-------------------------------------------------------------------------------
Init ==
  /\ status = [n \in Node |-> "down"]
  /\ joined = [n \in Node |-> FALSE]
  /\ servers = [n \in Node |-> << >>]
  /\ outgoing = [n \in Node |-> << >>]
  /\ reading = [n \in Node |-> [s \in Node |-> << >>]]
  /\ crashes = [n \in Node |-> 0]

\* The program is started: initServer, then the three threads of Network.
Start(n) ==
  /\ status[n] = "down"
  /\ status' = [status EXCEPT ![n] = "starting"]
  /\ UNCHANGED <<joined, servers, outgoing, reading, crashes>>

\* Server listens and says so.
Listen(n) ==
  /\ status[n] = "starting"
  /\ status' = [status EXCEPT ![n] = "online"]
  /\ UNCHANGED <<joined, servers, outgoing, reading, crashes>>

\* Network waits for ONLINE, then adds this node and the first server; it looks for
\* neither in the list. If the first server does not answer, the node exits.
Join(n) ==
  /\ status[n] = "online" /\ ~ joined[n]
  /\ joined' = [joined EXCEPT ![n] = TRUE]
  /\ LET own == AddClient(servers[n], n, PartsOf[n], Online)
     IN  /\ servers' = [servers EXCEPT ![n] =
                          IF First[n] = NoServer
                            THEN own ELSE AddClient(own, First[n], Unknown, Online)]
         /\ status' = IF First[n] \in Online \cup {NoServer}
                        THEN status ELSE [status EXCEPT ![n] = "exiting"]
  /\ UNCHANGED <<outgoing, reading, crashes>>

\* sendNetwork: every two seconds the list as it is now goes to the queue.
Share(n) ==
  /\ status[n] \in {"starting", "online"}
  /\ Len(outgoing[n]) < MaxOutgoing
  /\ outgoing' = [outgoing EXCEPT ![n] = Append(@, servers[n])]
  /\ UNCHANGED <<status, joined, servers, reading, crashes>>

Addressed(list, K) == {list[k].addr : k \in K}

\* SendMessageForOneClient: of the servers at these positions, those that can be
\* connected to.
Reached(list, K) == Addressed(list, K) \cap Online

\* SendOutGoinMessages: the oldest message goes to everyone on the list as it is by
\* then. Every listed node that answers gets it, but for those whose threads may
\* find their arguments freed.
Send(n) ==
  /\ status[n] \in {"starting", "online"}
  /\ outgoing[n] # << >>
  /\ \A m \in Node : reading[m][n] = << >>
  /\ \E w \in Walks(servers[n], Online) :
       LET list == servers[n]
           all  == Reached(list, DOMAIN list)
       IN  /\ servers' = [servers EXCEPT ![n] = Without(list, w.gone)]
           /\ \E lost \in SUBSET (all \ Reached(list, w.safe)) :
                reading' = [m \in Node |->
                              IF m \in all \ lost
                                THEN [reading[m] EXCEPT ![n] = Head(outgoing[n])]
                                ELSE reading[m]]
  /\ outgoing' = [outgoing EXCEPT ![n] = Tail(@)]
  /\ UNCHANGED <<status, joined, crashes>>

\* The read_thread that got the list of s is in addServerFromMessage and notes the
\* next server of that list.
ReadEntry(n, s) ==
  /\ status[n] # "down"
  /\ reading[n][s] # << >>
  /\ servers' = [servers EXCEPT ![n] = Note(@, Head(reading[n][s]), Online)]
  /\ reading' = [reading EXCEPT ![n][s] = Tail(@)]
  /\ UNCHANGED <<status, joined, outgoing, crashes>>

\* The program is stopped, whatever it was at.
Crash(n) ==
  /\ SumFunction(crashes) < MaxCrashes
  /\ status[n] # "down"
  /\ crashes' = [crashes EXCEPT ![n] = @ + 1]
  /\ status' = [status EXCEPT ![n] = "down"]
  /\ joined' = [joined EXCEPT ![n] = FALSE]
  /\ servers' = [servers EXCEPT ![n] = << >>]
  /\ outgoing' = [outgoing EXCEPT ![n] = << >>]
  /\ reading' = [reading EXCEPT ![n] = [s \in Node |-> << >>]]

Threads(n) ==
  Listen(n) \/ Join(n) \/ Share(n) \/ Send(n) \/ \E s \in Node : ReadEntry(n, s)

Next == \E n \in Node : Start(n) \/ Threads(n) \/ Crash(n)

Spec == Init /\ [][Next]_vars

\* Every thread of a running program gets its turn; nobody has to start or stop one.
Fairness == \A n \in Node :
  /\ WF_vars(Listen(n)) /\ WF_vars(Join(n)) /\ WF_vars(Share(n)) /\ WF_vars(Send(n))
  /\ \A s \in Node : WF_vars(ReadEntry(n, s))

FairSpec == Spec /\ Fairness

-------------------------------------------------------------------------------
(* Properties.                                                             *)

\* The variables keep to their types, and a program that does not listen yet has been
\* told of nobody.
TypeOK ==
  /\ status \in [Node -> {"down", "starting", "online", "exiting"}]
  /\ joined \in [Node -> BOOLEAN]
  /\ servers \in [Node -> List]
  /\ outgoing \in [Node -> Seq(List)]
  /\ reading \in [Node -> [Node -> List]]
  /\ crashes \in [Node -> Nat]
  /\ \A n \in Node : status[n] \in {"down", "starting"} =>
       servers[n] = << >> /\ \A s \in Node : reading[n][s] = << >>

Count(n, a) == Cardinality(Positions(servers[n], a))
Knows(n, a) == \E k \in Positions(servers[n], a) : servers[n][k].parts # Unknown

\* However many threads note the same server at once, it is listed once; only the two
\* addresses that Network adds without a look at the list can be there once more.
ListedOnce ==
  \A n, a \in Node :
    Count(n, a) <= 1 + Cardinality({x \in {"own"} : joined[n] /\ a = n})
                     + Cardinality({x \in {"first"} : joined[n] /\ a = First[n]})

\* What a node knows of another's parts is never replaced by "unknown", although every
\* node that was given a first server spreads an entry that says so.
KnowledgeStays ==
  [][\A n, a \in Node :
       Knows(n, a) /\ Count(n, a)' >= Count(n, a) => Knows(n, a)']_vars

\* A node that answers is not removed from the list of a node that sends: "If there is
\* a problem with the client, it will remove of the list".
OnlyUnreachableRemoved ==
  [][\A n \in Node, a \in Online :
       (Send(n) /\ Listed(servers[n], a)) => Listed(servers'[n], a)]_vars

\* Two nodes that stay from some moment on get to know each other's parts for good,
\* also when one of them came back from a stop with an empty list, as long as a node that
\* was given no first server, and so has nobody to ask, was not stopped itself.
Stays(n) == status[n] = "online"
FounderStopped == \E n \in Node : First[n] = NoServer /\ crashes[n] > 0

EveryoneLearns ==
  \A n \in Node : \A m \in Node \ {n} :
    <>[](Stays(n) /\ Stays(m)) => <>[](Knows(n, m) \/ FounderStopped)

===============================================================================
