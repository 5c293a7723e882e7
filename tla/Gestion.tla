------------------------------- MODULE Gestion -------------------------------
(***************************************************************************)
(* One node after start-up: the loop of gestion, the threads it starts     *)
(* (mining, send_data, save_worker, the workers of the API) and the two    *)
(* mutexes they share, bc_m.mutex over the chain and txs_temp_m.mutex over *)
(* the pending list (src/Projet/Noeud_de_gestion/gestion.c).               *)
(*                                                                         *)
(* A thread takes a lock, works on what the lock covers and releases it in *)
(* separate steps where another thread can tell: a step that acquires does *)
(* the work under the lock too, the release is a step of its own. Steps    *)
(* that touch no shared state are part of the step before them.            *)
(*                                                                         *)
(* The network layer is reduced to what gestion sees of it. A message it   *)
(* pushes to OutgoingMessages travels (wire), and since a node lists       *)
(* itself among the servers it knows, its own messages come back to its    *)
(* IncomingMessages, in any order, or get lost. Peers send whatever the    *)
(* constants allow, valid or not.                                          *)
(***************************************************************************)
EXTENDS Ledger

CONSTANTS
  InitChains,      \* what initBlockchain or loadBlockchain may start with
  PeerTxs,         \* transactions the other nodes may send
  RemoteChains,    \* chains the other nodes may send
  ApiTxs,          \* transactions the API's clients may post
  IsAPI, IsMINING, \* the parts this node runs
  Background,      \* which of send_data and save_worker wake up in this instance
  SleepIsLong,     \* does mining's sleep(10) outlast gestion's work on a block?
  MaxIncoming, MaxApi, MaxBlocks, MaxWire,  \* bounds on the queues and the wire
  MaxTime,         \* bound on the clock
  MaxChain,        \* mining stops at this length
  None             \* gestion has nothing in hand

ASSUME GestionAssumption ==
  /\ PeerTxs \subseteq Transaction
  /\ ApiTxs \subseteq Transaction
  /\ RemoteChains \subseteq Chain
  /\ Background \subseteq {"send", "save"}
  /\ IsAPI \in BOOLEAN /\ IsMINING \in BOOLEAN /\ SleepIsLong \in BOOLEAN
  /\ {MaxIncoming, MaxApi, MaxBlocks, MaxWire, MaxTime, MaxChain} \subseteq Nat

\* A node starts from the genesis block it makes or from the chain it saved.
ASSUME InitChainsAssumption ==
  /\ InitChains \subseteq Chain
  /\ \A c \in InitChains : Len(c) > 0 /\ CheckBlockchain(c)

VARIABLES
  bc, tl,          \* bc_m.bc and txs_temp_m.tl
  bcLock, tlLock,  \* the thread that holds each mutex, or "free"
  incoming,        \* network->IncomingMessages
  apiTxs,          \* api_txs
  miningBlocks,    \* mining_blocks
  wire,            \* messages pushed to OutgoingMessages that still travel
  clock,           \* time(NULL)
  file,            \* the chain in bcsave.data, << >> before the first save
  accepted,        \* history: every transaction this node has made pending
  gpc, hand, from, \* gestion: where it is, what it popped, the queue it came from
  mpc, mprev, mtl, mtime,  \* mining: where it is, and the block it builds
  stale,           \* mining: may last_block point to memory already freed?
  spc, wpc, apc    \* send_data, save_worker, one worker of the API

shared == <<bc, tl, file, accepted>>
locks  == <<bcLock, tlLock>>
queues == <<incoming, apiTxs, miningBlocks, wire>>
gvars  == <<gpc, hand, from>>
mvars  == <<mpc, mprev, mtl, mtime>>
others == <<spc, wpc, apc>>
vars   == <<shared, locks, queues, clock, gvars, mvars, stale, others>>

-------------------------------------------------------------------------------
(* Messages and locks.                                                     *)

TxsMsg(t)   == [type |-> "TXS", txs |-> t]
ChainMsg(c) == [type |-> "BLOCKCHAIN", bc |-> c]
Message     == [type : {"TXS"}, txs : Transaction]
                 \cup [type : {"BLOCKCHAIN"}, bc : Chain]

PeerMessages == {TxsMsg(t) : t \in PeerTxs} \cup {ChainMsg(c) : c \in RemoteChains}

\* The wire after these messages are sent; what exceeds the bound is lost, as is
\* any message whose connection fails.
Sent(msgs) == IF Cardinality(wire \cup msgs) <= MaxWire THEN wire \cup msgs ELSE wire

Acquires(lock, thread) == lock = "free" /\ lock' = thread
Releases(lock, thread) == lock = thread /\ lock' = "free"

-------------------------------------------------------------------------------
Init ==
  /\ bc \in InitChains
  /\ tl = << >>
  /\ bcLock = "free" /\ tlLock = "free"
  /\ incoming = << >> /\ apiTxs = << >> /\ miningBlocks = << >>
  /\ wire = {}
  /\ clock = 0
  /\ file = << >>
  /\ accepted = {}
  /\ gpc = "network" /\ hand = None /\ from = "network"
  /\ mpc = "asleep" /\ mprev = << >> /\ mtl = << >> /\ mtime = 0
  /\ stale = FALSE
  /\ spc = "asleep" /\ wpc = "asleep" /\ apc = "idle"

-------------------------------------------------------------------------------
(* The world outside: the clock, the peers, the wire, the API's clients.   *)

Tick == /\ clock < MaxTime
        /\ clock' = clock + 1
        /\ UNCHANGED <<shared, locks, queues, gvars, mvars, stale, others>>

\* A peer's message is queued by the thread that read it.
PeerSend(m) ==
  /\ Len(incoming) < MaxIncoming
  /\ incoming' = Append(incoming, m)
  /\ UNCHANGED <<shared, locks, apiTxs, miningBlocks, wire, clock, gvars, mvars,
                 stale, others>>

\* A message of this node comes back to it.
Loopback(m) ==
  /\ Len(incoming) < MaxIncoming
  /\ incoming' = Append(incoming, m)
  /\ wire' = wire \ {m}
  /\ UNCHANGED <<shared, locks, apiTxs, miningBlocks, clock, gvars, mvars, stale,
                 others>>

\* add_transaction_cmd: a worker of the API queues a transaction.
ApiPost(t) ==
  /\ IsAPI
  /\ Len(apiTxs) < MaxApi
  /\ apiTxs' = Append(apiTxs, t)
  /\ UNCHANGED <<shared, locks, incoming, miningBlocks, wire, clock, gvars, mvars,
                 stale, others>>

World == \/ Tick
         \/ \E m \in PeerMessages : PeerSend(m)
         \/ \E m \in wire : Loopback(m)
         \/ \E t \in ApiTxs : ApiPost(t)

-------------------------------------------------------------------------------
(* gestion: one round looks at the network, at the API and at the miner.   *)

NothingFromNetwork ==
  /\ gpc = "network" /\ incoming = << >>
  /\ gpc' = "api"
  /\ UNCHANGED <<shared, locks, queues, clock, hand, from, mvars, stale, others>>

PopTxs ==
  /\ gpc = "network" /\ incoming # << >> /\ Head(incoming).type = "TXS"
  /\ incoming' = Tail(incoming)
  /\ hand' = Head(incoming).txs
  /\ from' = "network"
  /\ gpc' = "lockTl"
  /\ UNCHANGED <<shared, locks, apiTxs, miningBlocks, wire, clock, mvars, stale, others>>

PopChainUnchecked ==
  /\ gpc = "network" /\ incoming # << >> /\ Head(incoming).type = "BLOCKCHAIN"
  /\ incoming' = Tail(incoming)
  /\ gpc' = "lockBcToAdopt" /\ hand' = Head(incoming).bc
  /\ UNCHANGED <<shared, locks, apiTxs, miningBlocks, wire, clock, from, mvars, stale,
                 others>>

PopChainFallsThrough ==
  /\ gpc = "network" /\ incoming # << >> /\ Head(incoming).type = "BLOCKCHAIN"
  /\ incoming' = Tail(incoming)
  /\ gpc' = "lockBcToAdopt"
  /\ hand' = IF CheckBlockchain(Head(incoming).bc) THEN Head(incoming).bc ELSE None
  /\ UNCHANGED <<shared, locks, apiTxs, miningBlocks, wire, clock, from, mvars, stale,
                 others>>

\* A received chain is checked before any lock is taken; a bad one is dropped.
PopChain ==
  /\ gpc = "network" /\ incoming # << >> /\ Head(incoming).type = "BLOCKCHAIN"
  /\ incoming' = Tail(incoming)
  /\ IF CheckBlockchain(Head(incoming).bc)
       THEN gpc' = "lockBcToAdopt" /\ hand' = Head(incoming).bc
       ELSE gpc' = "api" /\ hand' = None
  /\ UNCHANGED <<shared, locks, apiTxs, miningBlocks, wire, clock, from, mvars, stale,
                 others>>

NothingFromApi ==
  /\ gpc = "api" /\ (~ IsAPI \/ apiTxs = << >>)
  /\ gpc' = "mined"
  /\ UNCHANGED <<shared, locks, queues, clock, hand, from, mvars, stale, others>>

PopApiTxs ==
  /\ gpc = "api" /\ IsAPI /\ apiTxs # << >>
  /\ apiTxs' = Tail(apiTxs)
  /\ hand' = Head(apiTxs)
  /\ from' = "api"
  /\ gpc' = "lockTl"
  /\ UNCHANGED <<shared, locks, incoming, miningBlocks, wire, clock, mvars, stale, others>>

NothingMined ==
  /\ gpc = "mined" /\ (~ IsMINING \/ miningBlocks = << >>)
  /\ gpc' = "network"
  /\ UNCHANGED <<shared, locks, queues, clock, hand, from, mvars, stale, others>>

PopBlock ==
  /\ gpc = "mined" /\ IsMINING /\ miningBlocks # << >>
  /\ miningBlocks' = Tail(miningBlocks)
  /\ hand' = Head(miningBlocks)
  /\ gpc' = "lockBcToAdd"
  /\ UNCHANGED <<shared, locks, incoming, apiTxs, wire, clock, from, mvars, stale, others>>

LockTlUnchecked ==
  /\ gpc = "lockTl"
  /\ Acquires(tlLock, "gestion")
  /\ gpc' = "lockBc"
  /\ UNCHANGED <<shared, bcLock, queues, clock, hand, from, mvars, stale, others>>

\* A transaction, from the network or the API: refused if its sender has one
\* pending, or has not enough money on the chain; else made pending and sent.
LockTl ==
  /\ gpc = "lockTl"
  /\ Acquires(tlLock, "gestion")
  /\ gpc' = IF HasSendedTxs(hand.sender, tl) THEN "unlockTl" ELSE "lockBc"
  /\ UNCHANGED <<shared, bcLock, queues, clock, hand, from, mvars, stale, others>>

LockBcLeaks ==
  /\ gpc = "lockBc"
  /\ Acquires(bcLock, "gestion")
  /\ IF EnoughMoney(hand.sender, hand.amount, bc)
       THEN /\ tl' = Append(tl, hand)
            /\ accepted' = accepted \cup {hand}
            /\ wire' = Sent({TxsMsg(hand)})
            /\ gpc' = "unlockBc"
       ELSE gpc' = "unlockTl" /\ UNCHANGED <<tl, accepted, wire>>
  /\ UNCHANGED <<bc, file, tlLock, incoming, apiTxs, miningBlocks, clock, hand, from, mvars,
                 stale, others>>

LockBc ==
  /\ gpc = "lockBc"
  /\ Acquires(bcLock, "gestion")
  /\ IF EnoughMoney(hand.sender, hand.amount, bc)
       THEN /\ tl' = Append(tl, hand)
            /\ accepted' = accepted \cup {hand}
            /\ wire' = Sent({TxsMsg(hand)})
       ELSE UNCHANGED <<tl, accepted, wire>>
  /\ gpc' = "unlockBc"
  /\ UNCHANGED <<bc, file, tlLock, incoming, apiTxs, miningBlocks, clock, hand, from, mvars,
                 stale, others>>

UnlockBc ==
  /\ gpc = "unlockBc"
  /\ Releases(bcLock, "gestion")
  /\ gpc' = "unlockTl"
  /\ UNCHANGED <<shared, tlLock, queues, clock, hand, from, mvars, stale, others>>

UnlockTl ==
  /\ gpc = "unlockTl"
  /\ Releases(tlLock, "gestion")
  /\ gpc' = IF from = "network" THEN "api" ELSE "mined"
  /\ hand' = None
  /\ UNCHANGED <<shared, bcLock, queues, clock, from, mvars, stale, others>>

\* A checked chain: adopted if it is better; the old chain's memory is freed and
\* the pending list is filtered by the new chain before either lock is released.
LockBcToAdopt ==
  /\ gpc = "lockBcToAdopt"
  /\ Acquires(bcLock, "gestion")
  /\ IF Better(hand, bc)
       THEN bc' = hand /\ stale' = TRUE /\ gpc' = "lockTlToFilter"
       ELSE gpc' = "unlockBcAdopted" /\ UNCHANGED <<bc, stale>>
  /\ UNCHANGED <<tl, file, accepted, tlLock, queues, clock, hand, from, mvars, others>>

LockTlToFilter ==
  /\ gpc = "lockTlToFilter"
  /\ Acquires(tlLock, "gestion")
  /\ tl' = UpdateTlWithBc(tl, bc)
  /\ gpc' = "unlockTlFiltered"
  /\ UNCHANGED <<bc, file, accepted, bcLock, queues, clock, hand, from, mvars, stale, others>>

UnlockTlFilteredLeaks ==
  /\ gpc = "unlockTlFiltered"
  /\ gpc' = "unlockBcAdopted"
  /\ UNCHANGED <<shared, locks, queues, clock, hand, from, mvars, stale, others>>

UnlockTlFiltered ==
  /\ gpc = "unlockTlFiltered"
  /\ Releases(tlLock, "gestion")
  /\ gpc' = "unlockBcAdopted"
  /\ UNCHANGED <<shared, bcLock, queues, clock, hand, from, mvars, stale, others>>

UnlockBcAdopted ==
  /\ gpc = "unlockBcAdopted"
  /\ Releases(bcLock, "gestion")
  /\ gpc' = "api"
  /\ hand' = None
  /\ UNCHANGED <<shared, tlLock, queues, clock, from, mvars, stale, others>>

\* A mined block: appended if it still fits, and the chain is announced; realloc
\* may move the blocks, so last_block may be left pointing to freed memory.
LockBcToAdd ==
  /\ gpc = "lockBcToAdd"
  /\ Acquires(bcLock, "gestion")
  /\ IF AddBlockOk(bc, hand)
       THEN /\ bc' = Append(bc, hand)
            /\ stale' = TRUE
            /\ wire' = Sent({ChainMsg(bc')})
       ELSE UNCHANGED <<bc, stale, wire>>
  /\ gpc' = "unlockBcAdded"
  /\ UNCHANGED <<tl, file, accepted, tlLock, incoming, apiTxs, miningBlocks, clock, hand,
                 from, mvars, others>>

UnlockBcAdded ==
  /\ gpc = "unlockBcAdded"
  /\ Releases(bcLock, "gestion")
  /\ gpc' = "network"
  /\ hand' = None
  /\ UNCHANGED <<shared, tlLock, queues, clock, from, mvars, stale, others>>

Gestion ==
  \/ NothingFromNetwork \/ PopTxs \/ PopChain
  \/ NothingFromApi \/ PopApiTxs \/ NothingMined \/ PopBlock
  \/ LockTl \/ LockBc \/ UnlockBc \/ UnlockTl
  \/ LockBcToAdopt \/ LockTlToFilter \/ UnlockTlFiltered \/ UnlockBcAdopted
  \/ LockBcToAdd \/ UnlockBcAdded

-------------------------------------------------------------------------------
(* mining: a block of all that is pending, on top of the last block.       *)

\* sleep(10) is over, and gestion has dealt with the last block if SleepIsLong.
RestIsOver ==
  SleepIsLong => miningBlocks = << >> /\ gpc \notin {"lockBcToAdd", "unlockBcAdded"}

SeePendingOrNothing ==
  /\ IsMINING
  /\ mpc = "asleep" /\ RestIsOver
  /\ Len(bc) < MaxChain /\ Len(miningBlocks) < MaxBlocks
  /\ mpc' = "lockBc"
  /\ UNCHANGED <<shared, locks, queues, clock, gvars, mprev, mtl, mtime, stale, others>>

\* The size of the pending list is read without its lock.
SeePending ==
  /\ IsMINING
  /\ mpc = "asleep" /\ RestIsOver
  /\ tl # << >>
  /\ Len(bc) < MaxChain /\ Len(miningBlocks) < MaxBlocks
  /\ mpc' = "lockBc"
  /\ UNCHANGED <<shared, locks, queues, clock, gvars, mprev, mtl, mtime, stale, others>>

\* last_block is a pointer into the chain; mprev is the hash it leads to by now.
PointToLastBlock ==
  /\ mpc = "lockBc"
  /\ Acquires(bcLock, "mining")
  /\ mprev' = GetLastBlock(bc).blockHash
  /\ stale' = FALSE
  /\ mpc' = "unlockBc"
  /\ UNCHANGED <<shared, tlLock, queues, clock, gvars, mtl, mtime, others>>

ReleaseLastBlock ==
  /\ mpc = "unlockBc"
  /\ Releases(bcLock, "mining")
  /\ mpc' = "copyHash"
  /\ UNCHANGED <<shared, tlLock, queues, clock, gvars, mprev, mtl, mtime, stale, others>>

\* The hash is copied after the unlock: freed memory still holds it, or another
\* block's, or anything else (or is gone from the program, which then dies: the
\* steps end here). The block is dated.
CopyHash ==
  /\ mpc = "copyHash"
  /\ mprev' \in IF stale THEN {mprev, GarbageHash} \cup {bc[k].blockHash : k \in DOMAIN bc}
                          ELSE {mprev}
  /\ stale' = FALSE
  /\ mtime' = clock
  /\ mpc' = "lockTl"
  /\ UNCHANGED <<shared, locks, queues, clock, gvars, mtl, others>>

CopyPending ==
  /\ mpc = "lockTl"
  /\ Acquires(tlLock, "mining")
  /\ mtl' = tl
  /\ mpc' = "unlockTl"
  /\ UNCHANGED <<shared, bcLock, queues, clock, gvars, mprev, mtime, stale, others>>

\* mine_from_string follows; it returns sooner or later.
ReleasePending ==
  /\ mpc = "unlockTl"
  /\ Releases(tlLock, "mining")
  /\ mpc' = "lockTlToRemove"
  /\ UNCHANGED <<shared, bcLock, queues, clock, gvars, mprev, mtl, mtime, stale, others>>

RemovePendingAll ==
  /\ mpc = "lockTlToRemove"
  /\ Acquires(tlLock, "mining")
  /\ tl' = << >>
  /\ mpc' = "unlockTlRemoved"
  /\ UNCHANGED <<bc, file, accepted, bcLock, queues, clock, gvars, mprev, mtl, mtime, stale,
                 others>>

\* As many transactions as were copied go from the head of the list.
RemovePending ==
  /\ mpc = "lockTlToRemove"
  /\ Acquires(tlLock, "mining")
  /\ tl' = RemoveTxsList(tl, 0, Len(mtl))
  /\ mpc' = "unlockTlRemoved"
  /\ UNCHANGED <<bc, file, accepted, bcLock, queues, clock, gvars, mprev, mtl, mtime, stale,
                 others>>

ReleaseRemoved ==
  /\ mpc = "unlockTlRemoved"
  /\ Releases(tlLock, "mining")
  /\ mpc' = "push"
  /\ UNCHANGED <<shared, bcLock, queues, clock, gvars, mprev, mtl, mtime, stale, others>>

PushBlock ==
  /\ mpc = "push"
  /\ miningBlocks' = Append(miningBlocks, SealBlock(mprev, mtl, mtime))
  /\ mpc' = "asleep" /\ mprev' = << >> /\ mtl' = << >> /\ mtime' = 0
  /\ UNCHANGED <<shared, locks, incoming, apiTxs, wire, clock, gvars, stale, others>>

Mining ==
  \/ SeePending \/ PointToLastBlock \/ ReleaseLastBlock \/ CopyHash
  \/ CopyPending \/ ReleasePending \/ RemovePending \/ ReleaseRemoved \/ PushBlock

-------------------------------------------------------------------------------
(* send_data: every few seconds the chain, then every pending transaction. *)

SendChain ==
  /\ "send" \in Background
  /\ spc = "asleep"
  /\ Acquires(bcLock, "send")
  /\ wire' = Sent({ChainMsg(bc)})
  /\ spc' = "unlockBc"
  /\ UNCHANGED <<shared, tlLock, incoming, apiTxs, miningBlocks, clock, gvars, mvars, stale,
                 wpc, apc>>

SendChainDone ==
  /\ spc = "unlockBc"
  /\ Releases(bcLock, "send")
  /\ spc' = "lockTl"
  /\ UNCHANGED <<shared, tlLock, queues, clock, gvars, mvars, stale, wpc, apc>>

SendPending ==
  /\ spc = "lockTl"
  /\ Acquires(tlLock, "send")
  /\ wire' = Sent({TxsMsg(tl[i]) : i \in DOMAIN tl})
  /\ spc' = "unlockTl"
  /\ UNCHANGED <<shared, bcLock, incoming, apiTxs, miningBlocks, clock, gvars, mvars, stale,
                 wpc, apc>>

SendPendingDone ==
  /\ spc = "unlockTl"
  /\ Releases(tlLock, "send")
  /\ spc' = "asleep"
  /\ UNCHANGED <<shared, bcLock, queues, clock, gvars, mvars, stale, wpc, apc>>

SendData == SendChain \/ SendChainDone \/ SendPending \/ SendPendingDone

-------------------------------------------------------------------------------
(* save_worker: every 30 seconds the chain goes to the file.               *)

Save ==
  /\ "save" \in Background
  /\ wpc = "asleep"
  /\ Acquires(bcLock, "save")
  /\ file' = bc
  /\ wpc' = "unlockBc"
  /\ UNCHANGED <<bc, tl, accepted, tlLock, queues, clock, gvars, mvars, stale, spc, apc>>

SaveDone ==
  /\ wpc = "unlockBc"
  /\ Releases(bcLock, "save")
  /\ wpc' = "asleep"
  /\ UNCHANGED <<shared, tlLock, queues, clock, gvars, mvars, stale, spc, apc>>

SaveWorker == Save \/ SaveDone

-------------------------------------------------------------------------------
(* A worker of the API lists the pending transactions or the blocks.       *)

ListPending ==
  /\ IsAPI /\ apc = "idle"
  /\ Acquires(tlLock, "api")
  /\ apc' = "unlockTl"
  /\ UNCHANGED <<shared, bcLock, queues, clock, gvars, mvars, stale, spc, wpc>>

ListPendingDone ==
  /\ apc = "unlockTl"
  /\ Releases(tlLock, "api")
  /\ apc' = "idle"
  /\ UNCHANGED <<shared, bcLock, queues, clock, gvars, mvars, stale, spc, wpc>>

ListBlocks ==
  /\ IsAPI /\ apc = "idle"
  /\ Acquires(bcLock, "api")
  /\ apc' = "unlockBc"
  /\ UNCHANGED <<shared, tlLock, queues, clock, gvars, mvars, stale, spc, wpc>>

ListBlocksDone ==
  /\ apc = "unlockBc"
  /\ Releases(bcLock, "api")
  /\ apc' = "idle"
  /\ UNCHANGED <<shared, tlLock, queues, clock, gvars, mvars, stale, spc, wpc>>

ApiWorker == ListPending \/ ListPendingDone \/ ListBlocks \/ ListBlocksDone

-------------------------------------------------------------------------------
Next == World \/ Gestion \/ Mining \/ SendData \/ SaveWorker \/ ApiWorker

Spec == Init /\ [][Next]_vars

\* gestion and mining never stop by themselves and sleep outside the locks; the
\* other threads hold a lock only for a step of theirs. Gestion and mining get a
\* lock they keep asking for, because its other users sleep for seconds between
\* two uses; nothing is assumed of the clock, the peers or the wire.
Fairness == /\ SF_vars(Gestion)
            /\ SF_vars(Mining)
            /\ WF_vars(SendData)
            /\ WF_vars(SaveWorker)
            /\ WF_vars(ApiWorker)

FairSpec == Spec /\ Fairness

-------------------------------------------------------------------------------
(* Properties.                                                             *)

\* Every variable has its type, and what gestion has in hand is what its place
\* in the loop needs: a transaction while it judges one, a chain, a block.
TypeOK ==
  /\ bc \in Chain /\ Len(bc) > 0
  /\ tl \in Seq(Transaction)
  /\ bcLock \in {"free", "gestion", "mining", "send", "save", "api"}
  /\ tlLock \in {"free", "gestion", "mining", "send", "api"}
  /\ incoming \in Seq(Message) /\ apiTxs \in Seq(Transaction)
  /\ miningBlocks \in Seq(Block)
  /\ wire \subseteq Message
  /\ clock \in Nat
  /\ file \in Chain
  /\ accepted \subseteq Transaction
  /\ gpc \in {"network", "api", "mined", "lockTl", "lockBc", "unlockBc", "unlockTl",
              "lockBcToAdopt", "lockTlToFilter", "unlockTlFiltered", "unlockBcAdopted",
              "lockBcToAdd", "unlockBcAdded"}
  /\ gpc \in {"lockTl", "lockBc", "unlockBc", "unlockTl"} => hand \in Transaction
  /\ gpc \in {"lockBcToAdopt", "lockTlToFilter", "unlockTlFiltered", "unlockBcAdopted"}
       => hand \in Chain
  /\ gpc \in {"lockBcToAdd", "unlockBcAdded"} => hand \in Block
  /\ from \in {"network", "api"}
  /\ mpc \in {"asleep", "lockBc", "unlockBc", "copyHash", "lockTl", "unlockTl",
              "lockTlToRemove", "unlockTlRemoved", "push"}
  /\ mprev \in Hash /\ mtl \in Seq(Transaction) /\ mtime \in Nat
  /\ stale \in BOOLEAN
  /\ spc \in {"asleep", "unlockBc", "lockTl", "unlockTl"}
  /\ wpc \in {"asleep", "unlockBc"}
  /\ apc \in {"idle", "unlockTl", "unlockBc"}

\* No sender has two pending transactions, although the list is appended to,
\* filtered and cut by different threads: the rule whose breach gestion reports
\* as "the sender has already an uncheck transaction".
OnePendingPerSender ==
  \A i, j \in DOMAIN tl : tl[i].sender = tl[j].sender => i = j

\* A mutex is held by a thread exactly while that thread is inside the section it
\* covers: every path out of a section, refusals included, releases what was taken,
\* and the thread gestion waits for while it holds a lock is about to release.
LockOwners ==
  /\ tlLock = "gestion" <=> gpc \in {"lockBc", "unlockBc", "unlockTl", "unlockTlFiltered"}
  /\ tlLock = "mining"  <=> mpc \in {"unlockTl", "unlockTlRemoved"}
  /\ tlLock = "send"    <=> spc = "unlockTl"
  /\ tlLock = "api"     <=> apc = "unlockTl"
  /\ bcLock = "gestion" <=> gpc \in {"unlockBc", "lockTlToFilter", "unlockTlFiltered",
                                     "unlockBcAdopted", "unlockBcAdded"}
  /\ bcLock = "mining"  <=> mpc = "unlockBc"
  /\ bcLock = "send"    <=> spc = "unlockBc"
  /\ bcLock = "save"    <=> wpc = "unlockBc"
  /\ bcLock = "api"     <=> apc = "unlockBc"

\* Every chain the node holds, saves or sends is one that its peers would accept:
\* gestion appends only blocks that fit, whatever mining built them on.
ChainsAreValid ==
  /\ CheckBlockchain(bc)
  /\ CheckBlockchain(file)
  /\ \A m \in wire : m.type = "BLOCKCHAIN" => CheckBlockchain(m.bc)

\* The chain is unbroken, exchanged only for one that outranks it, and only chains
\* the node has held are saved or sent.
Published == {m.bc : m \in {x \in wire : x.type = "BLOCKCHAIN"}}
FC == INSTANCE ForkChoice WITH chain <- bc, saved <- file, published <- Published
KeepsBestChain == FC!Spec

\* A chain that was saved or sent never outranks the chain the node holds: a node
\* that hears an echo of itself has nothing to adopt.
SnapshotsNeverAhead ==
  /\ file # << >> => ~ FC!Outranks(file, bc)
  /\ \A c \in Published : ~ FC!Outranks(c, bc)

\* The transactions in the chain, whoever mined them.
MinedTxs == UNION {{b.tl[i] : i \in DOMAIN b.tl} : b \in {bc[k] : k \in DOMAIN bc}}

\* The transactions on their way from the pending list to the chain: in the block
\* mining builds, in its queue, or in the block gestion has in hand.
InBlocks ==
  {mtl[i] : i \in DOMAIN mtl}
    \cup (UNION {{miningBlocks[k].tl[i] : i \in DOMAIN miningBlocks[k].tl} :
                    k \in DOMAIN miningBlocks})
    \cup (IF gpc = "lockBcToAdd" THEN {hand.tl[i] : i \in DOMAIN hand.tl} ELSE {})

\* On a node that hears no other chain, a transaction it made pending is pending,
\* in a block on its way, or in the chain: the miner removes by position exactly
\* what it copied, and gestion never refuses the block.
AcceptedNeverLost ==
  accepted \subseteq {tl[i] : i \in DOMAIN tl} \cup InBlocks \cup MinedTxs

\* gestion comes back to its network queue for ever: it is never left waiting for
\* one lock while it holds the other, in either order it takes them.
GestionKeepsServing == []<>(gpc = "network")

\* On a mining node that hears no other chain, what was made pending gets into
\* the chain (or the chain reaches the bound of the model).
AcceptedGetsMined ==
  \A t \in ApiTxs \cup PeerTxs :
    t \in accepted ~> (t \in MinedTxs \/ Len(bc) >= MaxChain)

\* A transaction enters the chain once.
MinedOnce ==
  \A p, q \in TxsOf(bc, 1) : bc[p[1]].tl[p[2]] = bc[q[1]].tl[q[2]] => p = q

\* No block without a transaction gets into the chain of a node that hears no other
\* chain: mining starts only when something is pending, and although that was seen
\* without the lock and the list is copied two locks later, only mining shortens it.
NoEmptyBlock == \A k \in DOMAIN bc : bc[k].tl # << >>

\* Nobody has spent more than they were given, save who the first block mints from.
NoOverdraft ==
  LET Tx(p)    == bc[p[1]].tl[p[2]]
      Total(P) == MapThenSumSet(LAMBDA p : Tx(p).amount, P)
      mints    == {bc[1].tl[i].sender : i \in DOMAIN bc[1].tl}
  IN  \A a \in Address \ mints :
        Total({p \in TxsOf(bc, 1) : Tx(p).sender = a})
          <= Total({p \in TxsOf(bc, 1) : Tx(p).receiver = a})

===============================================================================
