------------------------------- MODULE Lifecycle -------------------------------
(***************************************************************************)
(* The program of one node from its start to its end, and the chain it     *)
(* keeps in bcsave.data across them: LaunchTEK (main.c), Network with its  *)
(* three threads and the read_threads (network.c, server.c), gestion and   *)
(* save_worker (gestion.c), saveBlockchain and loadBlockchain              *)
(* (blockchain.c).                                                         *)
(*                                                                         *)
(* Here the threads only start, look at server->status and end; Gossip,    *)
(* Gestion and Transport say what they do in between.                      *)
(***************************************************************************)
EXTENDS Integers

CONSTANTS
  Chain, Genesis,  \* the chains, and the one that initBlockchain makes
  None,         \* no chain, no file
  Torn,         \* a file that was truncated and not written to its end
  Garbage,      \* what binToBlockchain makes of such a file
  MaxReaders,   \* bound on the read_threads that run
  MaxStops      \* bound on the stops from outside

ASSUME LifecycleAssumption ==
  /\ Genesis \in Chain
  /\ {None, Torn, Garbage} \cap Chain = {} /\ None # Torn /\ Torn # Garbage /\ Garbage # None
  /\ {MaxReaders, MaxStops} \subseteq Nat

VARIABLES
  args,        \* was the node given a first server and -l, and are its ports short enough?
  status,      \* server->status
  freed,       \* has freeServer freed server?
  mpc,         \* LaunchTEK
  npc,         \* Network
  problem,     \* its variable
  server, send, share,   \* the threads Server, SendOutGoinMessages and sendNetwork
  readers,     \* how many read_threads run
  gpc, bc,     \* gestion, and the chain it holds
  wpc,         \* save_worker
  file,        \* bcsave.data
  saved,       \* history: the chain that was last saved to the end
  interrupted, \* history: was a save ever interrupted?
  stops

network == <<npc, problem, server, send, share, readers>>
node    == <<gpc, bc, wpc>>
disk    == <<file, saved, interrupted>>
vars    == <<args, status, freed, mpc, network, node, disk, stops>>

NotRunning ==
  /\ status' = "none" /\ freed' = FALSE
  /\ npc' = "none" /\ problem' = 0
  /\ server' = "none" /\ send' = "none" /\ share' = "none" /\ readers' = 0
  /\ gpc' = "none" /\ bc' = None /\ wpc' = "none"

Init ==
  /\ args = [first |-> FALSE, load |-> FALSE, shortPorts |-> TRUE]
  /\ status = "none" /\ freed = FALSE
  /\ mpc = "off"
  /\ npc = "none" /\ problem = 0
  /\ server = "none" /\ send = "none" /\ share = "none" /\ readers = 0
  /\ gpc = "none" /\ bc = None /\ wpc = "none"
  /\ file = None /\ saved = None /\ interrupted = FALSE
  /\ stops = 0

-------------------------------------------------------------------------------
(* main and LaunchTEK.                                                     *)

\* What ProcessingArgs and the defaults of initArgs leave to tell apart here. It tests that
\* a port is a positive number, not how long it is.
Args == [first : BOOLEAN, load : BOOLEAN, shortPorts : BOOLEAN]

\* initServer, and the thread of Network is created, or not: nobody looks.
Start ==
  /\ mpc = "off"
  /\ mpc' = "poll" /\ npc' \in {"none", "tests"}
  /\ status' = "STARTING"
  /\ args' \in Args
  /\ UNCHANGED <<freed, problem, server, send, share, readers, node, disk, stops>>

\* The loop that waits for ONLINE sees it: the thread of gestion is created.
CreateGestion ==
  /\ mpc = "poll"
  /\ status = "ONLINE"
  /\ mpc' = "joinNetwork" /\ gpc' = "test"
  /\ UNCHANGED <<args, status, freed, network, bc, wpc, disk, stops>>

JoinNetwork ==
  /\ mpc = "joinNetwork" /\ npc = "done"
  /\ mpc' = "joinGestion"
  /\ UNCHANGED <<args, status, freed, network, node, disk, stops>>

JoinGestion ==
  /\ mpc = "joinGestion" /\ gpc = "done"
  /\ mpc' = "free"
  /\ UNCHANGED <<args, status, freed, network, node, disk, stops>>

FreeServer ==
  /\ mpc = "free"
  /\ mpc' = "return" /\ freed' = TRUE
  /\ UNCHANGED <<args, status, network, node, disk, stops>>

\* main returns, which ends the threads that are left.
Return ==
  /\ mpc = "return"
  /\ mpc' = "off"
  /\ NotRunning
  /\ UNCHANGED <<args, disk, stops>>

Main == CreateGestion \/ JoinNetwork \/ JoinGestion \/ FreeServer \/ Return

-------------------------------------------------------------------------------
(* Network.                                                                *)

\* Network returns before it does anything if a port is too long for an address, or if
\* there is no memory for its own: its problem is still 0, and the status STARTING.
TestArguments ==
  /\ npc = "tests"
  /\ npc' \in {"done"} \cup (IF args.shortPorts THEN {"createServer"} ELSE {})
  /\ UNCHANGED <<args, status, freed, mpc, problem, server, send, share, readers, node, disk, stops>>

\* pthread_create for one of the three threads, which may fail.
Creates(from, to, code, started) ==
  /\ npc = from
  /\ \/ npc' = to /\ started /\ UNCHANGED problem
     \/ npc' = "end" /\ problem' = code /\ UNCHANGED <<server, send, share>>
  /\ UNCHANGED <<args, status, freed, mpc, readers, node, disk, stops>>

CreateServer == Creates("createServer", "createSend", -1,
                        server' = "bind" /\ UNCHANGED <<send, share>>)
CreateSend   == Creates("createSend", "createShare", -2,
                        send' = "run" /\ UNCHANGED <<server, share>>)
CreateShare  == Creates("createShare", "wait", -3,
                        share' = "run" /\ UNCHANGED <<server, send>>)

WaitOnline ==
  /\ npc = "wait" /\ status = "ONLINE"
  /\ npc' = "add"
  /\ UNCHANGED <<args, status, freed, mpc, problem, server, send, share, readers, node, disk, stops>>

\* addClient connects before it adds: 1 if this node does not answer itself, 2 if the
\* first server does not answer.
AddServers ==
  /\ npc = "add"
  /\ npc' = "end"
  /\ problem' \in {0, 1} \cup (IF args.first THEN {2} ELSE {})
  /\ UNCHANGED <<args, status, freed, mpc, server, send, share, readers, node, disk, stops>>

\* After a problem the threads are told to end. Without Server there is none to wait for.
End ==
  /\ npc = "end"
  /\ status' = IF problem # 0 THEN "EXITING" ELSE status
  /\ npc' = IF problem = -1 THEN "done" ELSE "joinServer"
  /\ UNCHANGED <<args, freed, mpc, problem, server, send, share, readers, node, disk, stops>>

Joins(from, thread, to) ==
  /\ npc = from /\ thread = "done"
  /\ npc' = to
  /\ UNCHANGED <<args, status, freed, mpc, problem, server, send, share, readers, node, disk, stops>>

JoinServer == Joins("joinServer", server, IF problem = -2 THEN "done" ELSE "joinSend")
JoinSendLast == Joins("joinSend", send, "done")
JoinSendThenShare == Joins("joinSend", send, "joinShare")
JoinSend   == Joins("joinSend", send, IF problem = -3 THEN "done" ELSE "joinShare")
JoinShare  == Joins("joinShare", share, "done")

Network == \/ TestArguments
           \/ CreateServer \/ CreateSend \/ CreateShare
           \/ WaitOnline \/ AddServers
           \/ End \/ JoinServer \/ JoinSend \/ JoinShare

-------------------------------------------------------------------------------
(* The threads of Network.                                                 *)

BindSaysOnline ==
  /\ server = "bind"
  /\ server' = "listen" /\ status' = "ONLINE"
  /\ UNCHANGED <<args, freed, mpc, npc, problem, send, share, readers, node, disk, stops>>

\* Server tries its address again and again until it is free.
Bind ==
  /\ server = "bind"
  /\ server' = "listen"
  /\ UNCHANGED <<args, status, freed, mpc, npc, problem, send, share, readers, node, disk, stops>>

\* It says ONLINE whatever the status was.
Listen ==
  /\ server = "listen"
  /\ server' = "test" /\ status' = "ONLINE"
  /\ UNCHANGED <<args, freed, mpc, npc, problem, send, share, readers, node, disk, stops>>

TestStatus ==
  /\ server = "test"
  /\ server' = IF status = "EXITING" THEN "done" ELSE "accept"
  /\ UNCHANGED <<args, status, freed, mpc, npc, problem, send, share, readers, node, disk, stops>>

\* accept does not block; a connection gets a read_thread, if one can be created.
Accept ==
  /\ server = "accept"
  /\ server' = "test"
  /\ readers' \in {readers, readers + 1} \cap (0 .. MaxReaders)
  /\ UNCHANGED <<args, status, freed, mpc, npc, problem, send, share, node, disk, stops>>

ReaderEnds ==
  /\ readers > 0
  /\ readers' = readers - 1
  /\ UNCHANGED <<args, status, freed, mpc, npc, problem, server, send, share, node, disk, stops>>

SendEnds ==
  /\ send = "run" /\ status = "EXITING"
  /\ send' = "done"
  /\ UNCHANGED <<args, status, freed, mpc, npc, problem, server, share, readers, node, disk, stops>>

ShareEnds ==
  /\ share = "run" /\ status = "EXITING"
  /\ share' = "done"
  /\ UNCHANGED <<args, status, freed, mpc, npc, problem, server, send, readers, node, disk, stops>>

Server == Listen \/ TestStatus \/ Accept

-------------------------------------------------------------------------------
(* gestion and save_worker.                                                *)

Unchanged == UNCHANGED <<args, status, freed, mpc, network, stops>>

\* gestion returns at once when the node is not ONLINE, and never later.
TestOnline ==
  /\ gpc = "test"
  /\ gpc' = IF status = "ONLINE" THEN "init" ELSE "done"
  /\ UNCHANGED <<bc, wpc, disk>> /\ Unchanged

LoadBlockchainOrNull == IF file = Torn THEN Garbage ELSE file

\* loadBlockchain does not test what it reads; only without a file is there a new chain.
LoadBlockchain ==
  IF file = None THEN Genesis ELSE IF file = Torn THEN Garbage ELSE file

InitChain ==
  /\ gpc = "init"
  /\ gpc' = "serve" /\ wpc' = "asleep"
  /\ bc' = IF args.load THEN LoadBlockchain ELSE Genesis
  /\ UNCHANGED disk /\ Unchanged

\* A block is added or another chain adopted, under the lock of the chain.
ChangeChain ==
  /\ gpc = "serve" /\ wpc = "asleep"
  /\ bc' \in Chain \ {bc}
  /\ UNCHANGED <<gpc, wpc, disk>> /\ Unchanged

\* fopen truncates the file.
OpenFile ==
  /\ wpc = "asleep"
  /\ wpc' = "write"
  /\ file' = Torn
  /\ UNCHANGED <<gpc, bc, saved, interrupted>> /\ Unchanged

WriteFileUnclosed ==
  /\ wpc = "write"
  /\ wpc' = "asleep"
  /\ saved' = bc
  /\ UNCHANGED <<gpc, bc, file, interrupted>> /\ Unchanged

\* With fclose all of it is in the file.
WriteFile ==
  /\ wpc = "write"
  /\ wpc' = "asleep"
  /\ file' = bc /\ saved' = bc
  /\ UNCHANGED <<gpc, bc, interrupted>> /\ Unchanged

Gestion == TestOnline \/ InitChain

-------------------------------------------------------------------------------
\* A signal stops the program, or one of its threads calls exit or err.
Stop ==
  /\ mpc # "off"
  /\ stops < MaxStops /\ stops' = stops + 1
  /\ mpc' = "off"
  /\ NotRunning
  /\ interrupted' = (interrupted \/ wpc = "write")
  /\ UNCHANGED <<args, file, saved>>

Next == \/ Start \/ Main \/ Stop
        \/ Network \/ Bind \/ Server \/ ReaderEnds \/ SendEnds \/ ShareEnds
        \/ Gestion \/ ChangeChain \/ OpenFile \/ WriteFile

Spec == Init /\ [][Next]_vars

\* Every thread gets its turn. Nobody has to start or stop the program, nor to free the
\* address it wants to bind.
FairSpec == /\ Spec
            /\ WF_vars(Main) /\ WF_vars(Network) /\ WF_vars(Server)
            /\ WF_vars(SendEnds) /\ WF_vars(ShareEnds) /\ WF_vars(Gestion)

-------------------------------------------------------------------------------
(* Properties.                                                             *)

\* The variables keep to their types, and gestion serves with a chain, if only one that
\* it made of a torn file.
TypeOK ==
  /\ args \in Args
  /\ status \in {"none", "STARTING", "ONLINE", "EXITING"}
  /\ freed \in BOOLEAN
  /\ mpc \in {"off", "poll", "joinNetwork", "joinGestion", "free", "return"}
  /\ npc \in {"none", "tests", "createServer", "createSend", "createShare", "wait", "add", "end",
              "joinServer", "joinSend", "joinShare", "done"}
  /\ problem \in -3 .. 2
  /\ server \in {"none", "bind", "listen", "test", "accept", "done"}
  /\ {send, share} \subseteq {"none", "run", "done"}
  /\ readers \in Nat
  /\ gpc \in {"none", "test", "init", "serve", "done"}
  /\ bc \in Chain \cup {None, Garbage} /\ (bc = None <=> gpc # "serve")
  /\ wpc \in {"none", "asleep", "write"}
  /\ file \in Chain \cup {None, Torn, Garbage}
  /\ saved \in Chain \cup {None, Garbage}
  /\ interrupted \in BOOLEAN /\ stops \in Nat

\* Whatever made Network give up, when the server is freed Network, its threads and
\* gestion have ended: only read_threads, which nobody joins, may still use it.
FreedIsJoined ==
  freed => /\ npc = "done" /\ gpc = "done"
           /\ {server, send, share} \subseteq {"none", "done"}

\* gestion serves only on a node that listens or did so until it was told to end.
ServesWhatListens == gpc \in {"init", "serve"} => server \in {"test", "accept", "done"}

\* A program started with -l goes on from the chain that was saved last, and starts anew
\* only if none was, as long as no stop interrupted a save.
ResumesFromSave ==
  [][gpc = "init" /\ gpc' = "serve" /\ args.load =>
       \/ bc' = saved /\ saved # None
       \/ bc' = Genesis /\ saved = None
       \/ interrupted]_vars

\* LaunchTEK waits for an ONLINE that never comes, or that it did not see: Network was not
\* created or returned at once, Server gets no address, or Network has said EXITING.
NeverOnline    == mpc = "poll" /\ status = "STARTING" /\ npc \in {"none", "done"}
NoAddress      == mpc = "poll" /\ status = "STARTING" /\ server = "bind"
LooksForOnline == mpc = "poll" /\ status = "EXITING"

\* A program that was started ends, or gestion serves for ever, with a network or, after a
\* problem of it, without; or LaunchTEK polls for ever, in one of those three cases. A
\* node that does not serve never waits for ever for a thread of its to end.
EndsOrServes ==
  mpc = "poll" ~> \/ mpc = "off"
                  \/ [](gpc = "serve" \/ NeverOnline \/ NoAddress \/ LooksForOnline)

===============================================================================
