---------------------------- MODULE LifecycleProofs ----------------------------
(* That the program frees what only read_threads may still use, serves     *)
(* only where it listens, and goes on from its last save, for any chains   *)
(* and any number of connections and stops.                                *)
EXTENDS Lifecycle, TLAPS

\* What main, Network and gestion have reached goes together.
StagesInv ==
  /\ mpc = "off" => npc = "none"
  /\ mpc \in {"off", "poll"} => gpc = "none"
  /\ mpc \in {"joinGestion", "free", "return"} => npc = "done"
  /\ mpc \in {"free", "return"} => gpc = "done"
  /\ freed => mpc = "return"
  /\ wpc = "none" <=> gpc # "serve"

\* Which threads Network has left, from where it is and the problem it met.
JoinsInv ==
  /\ npc \in {"none", "tests", "createServer"} => server = "none"
  /\ npc \in {"none", "tests", "createServer", "createSend"} => send = "none"
  /\ npc \in {"none", "tests", "createServer", "createSend", "createShare"} => share = "none"
  /\ npc \in {"none", "tests", "createServer", "createSend", "createShare", "wait", "add"}
       => problem = 0
  /\ problem = -1 => server = "none"
  /\ problem \in {-1, -2} => send = "none"
  /\ problem \in {-1, -2, -3} => share = "none"
  /\ npc \in {"joinSend", "joinShare"} => server = "done"
  /\ npc = "joinShare" => send = "done"
  /\ npc = "done" => {server, send, share} \subseteq {"none", "done"}

\* Who says ONLINE listens.
OnlineInv ==
  /\ status = "ONLINE" => server \in {"test", "accept", "done"}
  /\ gpc \in {"init", "serve"} => server \in {"test", "accept", "done"}

\* The file holds what was saved last, but while it is written and after a stop then.
FileInv == interrupted \/ file = (IF wpc = "write" THEN Torn ELSE saved)

LifeInv == TypeOK /\ StagesInv /\ JoinsInv /\ OnlineInv /\ FileInv

\* Before the first start there is no thread and no file.
LEMMA LifeInit == Init => LifeInv
<1> SUFFICES ASSUME Init PROVE LifeInv
  OBVIOUS
<1>1. args \in Args
  BY DEF Init, Args
<1>2. problem \in -3 .. 2 /\ readers \in Nat /\ stops \in Nat
  BY DEF Init
<1>3. freed \in BOOLEAN /\ interrupted \in BOOLEAN
  BY DEF Init
<1>4. /\ bc \in Chain \cup {None, Garbage} /\ (bc = None <=> gpc # "serve")
      /\ file \in Chain \cup {None, Torn, Garbage}
      /\ saved \in Chain \cup {None, Garbage}
  BY DEF Init
<1>5. TypeOK
  BY <1>1, <1>2, <1>3, <1>4 DEF Init, TypeOK
<1>6. StagesInv
  BY DEF Init, StagesInv
<1>7. JoinsInv
  BY DEF Init, JoinsInv
<1>8. OnlineInv /\ FileInv
  BY DEF Init, OnlineInv, FileInv
<1> QED
  BY <1>5, <1>6, <1>7, <1>8 DEF LifeInv

\* A program that has ended leaves its variables as before the first start, up to types.
LEMMA NotRunningTypes ==
  ASSUME NotRunning
  PROVE  /\ status' = "none" /\ freed' \in BOOLEAN
         /\ npc' = "none" /\ problem' \in -3 .. 2
         /\ server' = "none" /\ {send', share'} \subseteq {"none", "run", "done"}
         /\ readers' \in Nat
         /\ gpc' = "none" /\ wpc' = "none"
         /\ bc' \in Chain \cup {None, Garbage} /\ (bc' = None <=> gpc' # "serve")
<1>1. freed' \in BOOLEAN
  BY DEF NotRunning
<1>2. problem' \in -3 .. 2 /\ readers' \in Nat
  BY DEF NotRunning
<1>3. bc' \in Chain \cup {None, Garbage} /\ (bc' = None <=> gpc' # "serve")
  BY DEF NotRunning
<1> QED
  BY <1>1, <1>2, <1>3 DEF NotRunning

\* Every step keeps the types.
LEMMA TypeStep == LifeInv /\ [Next]_vars => TypeOK'
<1> SUFFICES ASSUME LifeInv, [Next]_vars PROVE TypeOK'
  OBVIOUS
<1>0. TypeOK /\ StagesInv
  BY DEF LifeInv
<1> USE <1>0, LifecycleAssumption
<1>1. CASE Start
  BY <1>1 DEF TypeOK, StagesInv, Start, node, disk
<1>2. CASE CreateGestion \/ JoinNetwork \/ JoinGestion
  BY <1>2 DEF TypeOK, StagesInv, CreateGestion, JoinNetwork, JoinGestion, network, node, disk
<1>8. CASE FreeServer
  <2>1. freed' \in BOOLEAN
    BY <1>8 DEF FreeServer
  <2> QED
    BY <1>8, <2>1 DEF TypeOK, FreeServer, network, node, disk
<1>9. CASE Return
  <2>1. UNCHANGED <<args, file, saved, interrupted, stops>> /\ mpc' = "off"
    BY <1>9 DEF Return, disk
  <2> QED
    BY <1>9, <2>1, NotRunningTypes DEF TypeOK, Return
<1>3. CASE Stop
  <2>1. UNCHANGED <<args, file, saved>> /\ mpc' = "off" /\ stops' \in Nat
    BY <1>3 DEF Stop, TypeOK
  <2>2. interrupted' \in BOOLEAN
    BY <1>3 DEF Stop, TypeOK
  <2> QED
    BY <1>3, <2>1, <2>2, NotRunningTypes DEF TypeOK, Stop
<1>4. CASE Network
  BY <1>4
    DEF TypeOK, Network, TestArguments, CreateServer, CreateSend, CreateShare, Creates,
        WaitOnline, AddServers, End, JoinServer, JoinSend, JoinShare, Joins, node, disk
<1>5. CASE Bind \/ Server \/ ReaderEnds \/ SendEnds \/ ShareEnds
  BY <1>5
    DEF TypeOK, Bind, Server, Listen, TestStatus, Accept, ReaderEnds, SendEnds, ShareEnds,
        node, disk
<1>6. CASE Gestion \/ ChangeChain \/ OpenFile \/ WriteFile
  BY <1>6
    DEF TypeOK, StagesInv, Gestion, TestOnline, InitChain, LoadBlockchain, ChangeChain,
        OpenFile, WriteFile, Unchanged, network, disk
<1>7. CASE UNCHANGED vars
  BY <1>7 DEF TypeOK, vars, network, node, disk
<1> QED
  BY <1>1, <1>2, <1>3, <1>4, <1>5, <1>6, <1>7, <1>8, <1>9 DEF Next, Main

\* Every step keeps the threads at the stages that go together.
LEMMA StagesStep == LifeInv /\ [Next]_vars => StagesInv'
<1> SUFFICES ASSUME LifeInv, [Next]_vars PROVE StagesInv'
  OBVIOUS
<1> USE DEF LifeInv, StagesInv
<1>1. CASE Start
  BY <1>1 DEF Start, node
<1>2. CASE Main
  BY <1>2
    DEF Main, CreateGestion, JoinNetwork, JoinGestion, FreeServer, Return, NotRunning,
        network, node
<1>3. CASE Stop
  BY <1>3 DEF Stop, NotRunning
<1>4. CASE Network
  BY <1>4
    DEF TypeOK, JoinsInv, Network, TestArguments, CreateServer, CreateSend, CreateShare,
        Creates, WaitOnline, AddServers, End, JoinServer, JoinSend, JoinShare, Joins, node
<1>5. CASE Bind \/ Server \/ ReaderEnds \/ SendEnds \/ ShareEnds
  BY <1>5 DEF Bind, Server, Listen, TestStatus, Accept, ReaderEnds, SendEnds, ShareEnds, node
<1>6. CASE Gestion \/ ChangeChain \/ OpenFile \/ WriteFile
  BY <1>6
    DEF Gestion, TestOnline, InitChain, ChangeChain, OpenFile, WriteFile, Unchanged, network
<1>7. CASE UNCHANGED vars
  BY <1>7 DEF vars, network, node
<1> QED
  BY <1>1, <1>2, <1>3, <1>4, <1>5, <1>6, <1>7 DEF Next

\* Every step keeps what is known of the threads that were created and joined.
LEMMA JoinsStep == LifeInv /\ [Next]_vars => JoinsInv'
<1> SUFFICES ASSUME LifeInv, [Next]_vars PROVE JoinsInv'
  OBVIOUS
<1> USE DEF LifeInv, JoinsInv
<1>1. CASE Start
  BY <1>1 DEF Start, StagesInv
<1>2. CASE Main
  BY <1>2
    DEF Main, CreateGestion, JoinNetwork, JoinGestion, FreeServer, Return, NotRunning, network
<1>3. CASE Stop
  BY <1>3 DEF Stop, NotRunning
<1>4. CASE TestArguments \/ CreateServer \/ CreateSend \/ CreateShare
  BY <1>4 DEF TypeOK, TestArguments, CreateServer, CreateSend, CreateShare, Creates
<1>5. CASE WaitOnline \/ AddServers \/ End
  BY <1>5 DEF TypeOK, WaitOnline, AddServers, End
<1>6. CASE JoinServer \/ JoinSend \/ JoinShare
  BY <1>6 DEF TypeOK, JoinServer, JoinSend, JoinShare, Joins
<1>7. CASE Bind \/ Server \/ ReaderEnds \/ SendEnds \/ ShareEnds
  BY <1>7 DEF TypeOK, Bind, Server, Listen, TestStatus, Accept, ReaderEnds, SendEnds, ShareEnds
<1>8. CASE Gestion \/ ChangeChain \/ OpenFile \/ WriteFile
  BY <1>8
    DEF Gestion, TestOnline, InitChain, ChangeChain, OpenFile, WriteFile, Unchanged, network
<1>9. CASE UNCHANGED vars
  BY <1>9 DEF vars, network
<1> QED
  BY <1>1, <1>2, <1>3, <1>4, <1>5, <1>6, <1>7, <1>8, <1>9 DEF Next, Network

\* Every step keeps what the status ONLINE says of Server.
LEMMA OnlineStep == LifeInv /\ [Next]_vars => OnlineInv'
<1> SUFFICES ASSUME LifeInv, [Next]_vars PROVE OnlineInv'
  OBVIOUS
<1> USE DEF LifeInv, OnlineInv
<1>1. CASE Start
  BY <1>1 DEF Start, StagesInv, node
<1>2. CASE Main
  BY <1>2
    DEF Main, CreateGestion, JoinNetwork, JoinGestion, FreeServer, Return, NotRunning,
        network, node
<1>3. CASE Stop
  BY <1>3 DEF Stop, NotRunning
<1>4. CASE Network
  BY <1>4
    DEF JoinsInv, Network, TestArguments, CreateServer, CreateSend, CreateShare, Creates,
        WaitOnline, AddServers, End, JoinServer, JoinSend, JoinShare, Joins, node
<1>5. CASE Bind \/ Server \/ ReaderEnds \/ SendEnds \/ ShareEnds
  BY <1>5 DEF Bind, Server, Listen, TestStatus, Accept, ReaderEnds, SendEnds, ShareEnds, node
<1>6. CASE Gestion \/ ChangeChain \/ OpenFile \/ WriteFile
  BY <1>6
    DEF StagesInv, Gestion, TestOnline, InitChain, ChangeChain, OpenFile, WriteFile,
        Unchanged, network
<1>7. CASE UNCHANGED vars
  BY <1>7 DEF vars, network, node
<1> QED
  BY <1>1, <1>2, <1>3, <1>4, <1>5, <1>6, <1>7 DEF Next

\* Every step keeps the file at what was saved last, if no save was interrupted.
LEMMA FileStep == LifeInv /\ [Next]_vars => FileInv'
<1> SUFFICES ASSUME LifeInv, [Next]_vars PROVE FileInv'
  OBVIOUS
<1> USE DEF LifeInv, FileInv
<1>1. CASE Start
  BY <1>1 DEF Start, node, disk
<1>2. CASE CreateGestion \/ JoinNetwork \/ JoinGestion \/ FreeServer
  BY <1>2 DEF CreateGestion, JoinNetwork, JoinGestion, FreeServer, node, disk
<1>3. CASE Return
  \* gestion has ended, so nobody saves
  BY <1>3 DEF StagesInv, Return, NotRunning, disk
<1>4. CASE Stop
  BY <1>4 DEF TypeOK, Stop, NotRunning
<1>5. CASE Network
  BY <1>5
    DEF Network, TestArguments, CreateServer, CreateSend, CreateShare, Creates,
        WaitOnline, AddServers, End, JoinServer, JoinSend, JoinShare, Joins, node, disk
<1>6. CASE Bind \/ Server \/ ReaderEnds \/ SendEnds \/ ShareEnds
  BY <1>6
    DEF Bind, Server, Listen, TestStatus, Accept, ReaderEnds, SendEnds, ShareEnds, node, disk
<1>7. CASE Gestion \/ ChangeChain \/ OpenFile \/ WriteFile
  BY <1>7 DEF StagesInv, Gestion, TestOnline, InitChain, ChangeChain, OpenFile, WriteFile, disk
<1>8. CASE UNCHANGED vars
  BY <1>8 DEF vars, node, disk
<1> QED
  BY <1>1, <1>2, <1>3, <1>4, <1>5, <1>6, <1>7, <1>8 DEF Next, Main

\* The invariant is inductive.
LEMMA LifeStep == LifeInv /\ [Next]_vars => LifeInv'
  BY TypeStep, StagesStep, JoinsStep, OnlineStep, FileStep DEF LifeInv

\* The variables of the program keep to their types, and gestion serves with a chain.
THEOREM LifecycleTypeOK == Spec => []TypeOK
<1>1. LifeInv => TypeOK
  BY DEF LifeInv
<1> QED
  BY <1>1, LifeInit, LifeStep, PTL DEF Spec

\* When the server is freed, Network, its threads and gestion have ended.
THEOREM FreesWhatIsJoined == Spec => []FreedIsJoined
<1>1. LifeInv => FreedIsJoined
  BY DEF LifeInv, StagesInv, JoinsInv, FreedIsJoined
<1> QED
  BY <1>1, LifeInit, LifeStep, PTL DEF Spec

\* gestion serves only on a node that listens.
THEOREM GestionServesWhatListens == Spec => []ServesWhatListens
<1>1. LifeInv => ServesWhatListens
  BY DEF LifeInv, OnlineInv, ServesWhatListens
<1> QED
  BY <1>1, LifeInit, LifeStep, PTL DEF Spec

\* With -l gestion goes on from the last save, unless a stop interrupted one.
THEOREM GestionResumesFromSave == Spec => ResumesFromSave
<1>1. LifeInv /\ [Next]_vars =>
        [gpc = "init" /\ gpc' = "serve" /\ args.load =>
           \/ bc' = saved /\ saved # None
           \/ bc' = Genesis /\ saved = None
           \/ interrupted]_vars
  <2> SUFFICES ASSUME LifeInv, Next, gpc = "init", gpc' = "serve", args.load, ~ interrupted
               PROVE  \/ bc' = saved /\ saved # None
                      \/ bc' = Genesis /\ saved = None
    OBVIOUS
  <2>1. InitChain
    BY
      DEF Next, Start, Main, CreateGestion, JoinNetwork, JoinGestion, FreeServer, Return,
          NotRunning, Stop,
          Network, TestArguments, CreateServer, CreateSend, CreateShare, Creates, WaitOnline,
          AddServers, End, JoinServer, JoinSend, JoinShare, Joins, Bind, Server, Listen,
          TestStatus, Accept, ReaderEnds, SendEnds, ShareEnds, Gestion, TestOnline,
          ChangeChain, OpenFile, WriteFile, node
  <2>2. file = saved
    BY DEF LifeInv, StagesInv, FileInv
  <2>3. saved # Torn
    BY LifecycleAssumption DEF LifeInv, TypeOK
  <2> QED
    BY <2>1, <2>2, <2>3 DEF InitChain, LoadBlockchain
<1> QED
  BY <1>1, LifeInit, LifeStep, PTL DEF Spec, ResumesFromSave

===============================================================================
