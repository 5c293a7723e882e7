---------------------------- MODULE GestionProofs ----------------------------
(***************************************************************************)
(* What the functions of Ledger return, for every chain and every list;    *)
(* that no chain that grows block by block makes money or is misjudged;    *)
(* and what holds of a node for every value of the constants: its types,   *)
(* one pending transaction per sender, that all it does to its chain, its  *)
(* save file and what it publishes is what ForkChoice allows, and that a   *)
(* node that hears no other chain loses no transaction it accepted.        *)
(***************************************************************************)
EXTENDS Gestion, Chains, ListLemmas

-------------------------------------------------------------------------------
(* Pending lists.                                                          *)

\* No two entries of a list have one sender.
Distinct(list) == \A i, j \in DOMAIN list : list[i].sender = list[j].sender => i = j

\* What stays of a list after its head was removed is a list, entry by entry the
\* old one shifted: removing never makes a second entry for a sender.
LEMMA RemoveTxsListType ==
  ASSUME NEW list \in Seq(Transaction), NEW n \in Nat
  PROVE  /\ RemoveTxsList(list, 0, n) \in Seq(Transaction)
         /\ \A i \in DOMAIN list : i > n =>
               /\ i - n \in DOMAIN RemoveTxsList(list, 0, n)
               /\ RemoveTxsList(list, 0, n)[i - n] = list[i]
         /\ Distinct(list) => Distinct(RemoveTxsList(list, 0, n))
  <1> DEFINE rest == SubSeq(list, n + 1, Len(list))
  <1>1. SubSeq(list, 1, 0) = << >>
    OBVIOUS
  <1>2. rest \in Seq(Transaction)
    OBVIOUS
  <1>3. RemoveTxsList(list, 0, n) = rest
    BY <1>1, <1>2, ConcatEmptySeq DEF RemoveTxsList
  <1>4. \A k \in DOMAIN rest : k \in Nat /\ k + n \in DOMAIN list /\ rest[k] = list[k + n]
    OBVIOUS
  <1>5. ASSUME Distinct(list), NEW i \in DOMAIN rest, NEW j \in DOMAIN rest,
               rest[i].sender = rest[j].sender
        PROVE  i = j
    <2>1. i + n = j + n
      BY <1>4, <1>5 DEF Distinct
    <2> QED BY <1>4, <2>1
  <1>6. \A i \in DOMAIN list : i > n => i - n \in DOMAIN rest /\ rest[i - n] = list[i]
    OBVIOUS
  <1> QED BY <1>2, <1>3, <1>5, <1>6 DEF Distinct

\* The positions of the transactions that stay beside an adopted chain.
Wanted(list, c) ==
  {i \in DOMAIN list : /\ ~ FindTxsInBc(list[i], c)
                       /\ EnoughMoney(list[i].sender, list[i].amount, c)}

\* The filtered list is a list of transactions, and filtering never makes a second
\* entry for a sender.
LEMMA UpdateTlWithBcType ==
  ASSUME NEW list \in Seq(Transaction), NEW c
  PROVE  /\ UpdateTlWithBc(list, c) \in Seq(Transaction)
         /\ Distinct(list) => Distinct(UpdateTlWithBc(list, c))
  <1> DEFINE K == Wanted(list, c)
             kept == Pick(list, K)
  <1>1. K \in SUBSET (1 .. Len(list)) /\ K \subseteq DOMAIN list
    BY DEF Wanted
  <1>2. UpdateTlWithBc(list, c) = kept
    BY DEF UpdateTlWithBc, Wanted
  <1> HIDE DEF K
  <1>3. /\ kept \in Seq(Transaction)
        /\ \A k \in DOMAIN kept : Nth(K, k) \in K /\ kept[k] = list[Nth(K, k)]
        /\ \A k, l \in DOMAIN kept : Nth(K, k) = Nth(K, l) => k = l
    BY <1>1, PickType
  <1> HIDE DEF kept
  <1>4. ASSUME Distinct(list), NEW k \in DOMAIN kept, NEW l \in DOMAIN kept,
               kept[k].sender = kept[l].sender
        PROVE  k = l
    <2>1. Nth(K, k) = Nth(K, l)
      BY <1>1, <1>3, <1>4 DEF Distinct
    <2> QED BY <1>3, <2>1
  <1> QED BY <1>2, <1>3, <1>4 DEF Distinct

\* Filtering keeps exactly the transactions that the chain does not hold and whose
\* sender can pay, each once and in the order they were made pending.
THEOREM UpdateFilters ==
  ASSUME NEW list \in Seq(Transaction), NEW c
  PROVE  \E at \in [DOMAIN UpdateTlWithBc(list, c) -> Wanted(list, c)] :
           /\ \A k \in DOMAIN at : UpdateTlWithBc(list, c)[k] = list[at[k]]
           /\ \A k, l \in DOMAIN at : k < l => at[k] < at[l]
           /\ \A i \in Wanted(list, c) : \E k \in DOMAIN at : at[k] = i
  <1> DEFINE K == Wanted(list, c)
             kept == UpdateTlWithBc(list, c)
             at == [k \in DOMAIN kept |-> Nth(K, k)]
  <1>1. K \in SUBSET (1 .. Len(list)) /\ Len(list) \in Nat
    BY DEF Wanted
  <1>2. kept = Pick(list, K)
    BY DEF UpdateTlWithBc, Wanted
  <1> HIDE DEF K, kept
  <1>3. DOMAIN kept = 1 .. Cardinality(K)
    BY <1>2 DEF Pick
  <1>4. \A k \in DOMAIN kept : Nth(K, k) \in K /\ kept[k] = list[Nth(K, k)]
    BY <1>1, <1>2, PickType
  <1>5. /\ \A k, l \in DOMAIN kept : k < l => Nth(K, k) < Nth(K, l)
        /\ \A i \in K : \E k \in DOMAIN kept : Nth(K, k) = i
    BY <1>1, <1>3, NthOrder
  <1>6. at \in [DOMAIN kept -> K] /\ DOMAIN at = DOMAIN kept
    BY <1>4
  <1>7. /\ \A k \in DOMAIN at : kept[k] = list[at[k]]
        /\ \A k, l \in DOMAIN at : k < l => at[k] < at[l]
        /\ \A i \in K : \E k \in DOMAIN at : at[k] = i
    BY <1>4, <1>5
  <1> HIDE DEF at
  <1> QED BY <1>6, <1>7 DEF K, kept

\* A transaction appended to a list that holds none of its sender's keeps the
\* senders of the list distinct.
LEMMA AppendDistinct ==
  ASSUME NEW list \in Seq(Transaction), NEW t \in Transaction,
         Distinct(list), ~ HasSendedTxs(t.sender, list)
  PROVE  Distinct(Append(list, t))
  <1> DEFINE long == Append(list, t)
  <1>1. /\ DOMAIN long = 1 .. Len(list) + 1
        /\ \A i \in 1 .. Len(list) : i \in DOMAIN list /\ long[i] = list[i]
        /\ long[Len(list) + 1] = t
    OBVIOUS
  <1>2. \A i \in 1 .. Len(list) : long[i].sender # t.sender
    BY <1>1 DEF HasSendedTxs
  <1>3. Len(list) \in Nat
    OBVIOUS
  <1>4. ASSUME NEW i \in DOMAIN long, NEW j \in DOMAIN long, long[i].sender = long[j].sender
        PROVE  i = j
    <2>1. CASE i \in 1 .. Len(list) /\ j \in 1 .. Len(list)
      BY <1>1, <1>4, <2>1 DEF Distinct
    <2>2. CASE i = Len(list) + 1 \/ j = Len(list) + 1
      BY <1>1, <1>2, <1>3, <1>4, <2>2
    <2> QED BY <1>1, <1>3, <2>1, <2>2
  <1> QED BY <1>4 DEF Distinct

-------------------------------------------------------------------------------
(* Blocks and chains.                                                      *)

\* A sealed block is a block, and its hash is the one getHash computes.
LEMMA SealBlockType ==
  ASSUME NEW prev \in Hash, NEW list \in Seq(Transaction), NEW time \in Nat
  PROVE  SealBlock(prev, list, time) \in Block
  <1>1. [tl |-> list, time |-> time] \in Content
    BY DEF Content
  <1>2. Append(prev, [tl |-> list, time |-> time]) \in Hash
    BY <1>1, AppendProperties DEF Hash
  <1> QED BY <1>2 DEF SealBlock, Block

\* The hash left in freed memory has the type of a hash.
LEMMA GarbageHashType == GarbageHash \in Hash
  <1>1. << >> \in Seq(Transaction)
    OBVIOUS
  <1>2. [tl |-> << >>, time |-> 0] \in Content
    BY <1>1 DEF Content
  <1> QED BY <1>2 DEF GarbageHash, Hash

\* addBlock and checkBlockchain agree: what addBlock appends to a chain that passes
\* checkBlockchain gives a chain that passes it.
LEMMA AddBlockKeepsValid ==
  ASSUME NEW c \in Chain, Len(c) > 0, CheckBlockchain(c), NEW b \in Block,
         AddBlockOk(c, b)
  PROVE  /\ Append(c, b) \in Chain
         /\ CheckBlockchain(Append(c, b))
  <1> DEFINE d == Append(c, b)
             n == Len(c)
  <1>1. n \in Nat /\ d \in Seq(Block) /\ Len(d) = n + 1 /\ d[n + 1] = b
        /\ \A i \in 1 .. n : d[i] = c[i]
    BY AppendProperties DEF Chain
  <1> HIDE DEF d, n
  <1>2. ASSUME NEW i \in 2 .. n + 1
        PROVE  /\ d[i].time >= d[i - 1].time
               /\ d[i].previusHash = d[i - 1].blockHash
               /\ d[i].blockHash = GetHash(d[i])
    <2>1. CASE i \in 2 .. n
      <3>1. i - 1 \in 1 .. n /\ i \in 1 .. n
        BY <1>1, <2>1
      <3>2. d[i] = c[i] /\ d[i - 1] = c[i - 1]
        BY <1>1, <3>1
      <3> QED BY <2>1, <3>2 DEF CheckBlockchain, n
    <2>2. CASE i = n + 1
      <3>1. d[i] = b /\ d[i - 1] = c[n]
        BY <1>1, <2>2 DEF n
      <3> QED BY <3>1 DEF AddBlockOk, GetLastBlock, n
    <2> QED BY <1>1, <2>1, <2>2
  <1>3. CheckBlockchain(d)
    BY <1>1, <1>2 DEF CheckBlockchain
  <1> QED BY <1>1, <1>3 DEF d, Chain

\* addBlock refuses nothing else: to a chain that passes checkBlockchain, addBlock
\* appends exactly the blocks with which it still passes.
THEOREM AddBlockIsCheck ==
  ASSUME NEW c \in Chain, Len(c) > 0, CheckBlockchain(c), NEW b \in Block
  PROVE  AddBlockOk(c, b) <=> CheckBlockchain(Append(c, b))
  <1>1. ASSUME CheckBlockchain(Append(c, b)) PROVE AddBlockOk(c, b)
    <2> DEFINE d == Append(c, b)
               n == Len(c)
    <2>1. n \in Nat /\ Len(d) = n + 1 /\ d[n + 1] = b /\ d[n] = c[n]
      BY AppendProperties DEF Chain
    <2>2. n + 1 \in 2 .. Len(d)
      BY <2>1
    <2>3. /\ d[n + 1].time >= d[n + 1 - 1].time
          /\ d[n + 1].previusHash = d[n + 1 - 1].blockHash
          /\ d[n + 1].blockHash = GetHash(d[n + 1])
      BY <1>1, <2>2 DEF CheckBlockchain
    <2>4. n + 1 - 1 = n
      BY <2>1
    <2> QED BY <2>1, <2>3, <2>4, ZenonT(30) DEF AddBlockOk, GetLastBlock
  <1> QED BY <1>1, AddBlockKeepsValid, SMTT(30)

\* The order of the fork choice is strict: no chain is better than itself, and
\* nodes that exchange chains never go round in a circle.
THEOREM BetterIsStrictOrder ==
  ASSUME NEW a \in Chain, NEW b \in Chain, NEW c \in Chain,
         Len(a) > 0, Len(b) > 0, Len(c) > 0
  PROVE  /\ ~ Better(a, a)
         /\ Better(a, b) /\ Better(b, c) => Better(a, c)
  <1>1. ASSUME NEW d \in Chain, Len(d) > 0
        PROVE  Len(d) \in Nat /\ GetLastBlock(d).time \in Nat
    <2>1. Len(d) \in Nat /\ d[Len(d)] \in Block
      BY <1>1, ElementOfSeq DEF Chain
    <2> QED BY <2>1 DEF Block, GetLastBlock
  <1>2. /\ Len(a) \in Nat /\ GetLastBlock(a).time \in Nat
        /\ Len(b) \in Nat /\ GetLastBlock(b).time \in Nat
        /\ Len(c) \in Nat /\ GetLastBlock(c).time \in Nat
    BY <1>1
  <1> QED BY <1>2 DEF Better

-------------------------------------------------------------------------------
(* Types.                                                                  *)

\* What a message carries.
LEMMA MessageType ==
  /\ \A t \in Transaction : TxsMsg(t) \in Message
  /\ \A c \in Chain : ChainMsg(c) \in Message
  /\ \A m \in Message : /\ m.type = "TXS" => m.txs \in Transaction
                        /\ m.type = "BLOCKCHAIN" => m.bc \in Chain
  BY DEF Message, TxsMsg, ChainMsg

\* What peers send are messages.
LEMMA PeerMessageType == PeerMessages \subseteq Message
  BY MessageType, GestionAssumption DEF PeerMessages

\* The wire only ever holds what was put on it.
LEMMA SentType ==
  ASSUME wire \subseteq Message, NEW msgs \in SUBSET Message
  PROVE  Sent(msgs) \subseteq Message
  BY DEF Sent

\* A queue that is not empty has a head and a tail.
LEMMA QueueType ==
  ASSUME NEW S, NEW q \in Seq(S)
  PROVE  /\ q # << >> => Head(q) \in S /\ Tail(q) \in Seq(S)
         /\ \A e \in S : Append(q, e) \in Seq(S)
  OBVIOUS

\* Every initial state is typed.
LEMMA TypeInit == Init => TypeOK
  <1> SUFFICES ASSUME Init PROVE TypeOK
    OBVIOUS
  <1>1. bc \in Chain /\ Len(bc) > 0
    BY InitChainsAssumption DEF Init
  <1>2. << >> \in Seq(Transaction) /\ << >> \in Seq(Message) /\ << >> \in Seq(Block)
        /\ << >> \in Seq(Content)
    OBVIOUS
  <1> QED BY <1>1, <1>2 DEF Init, TypeOK, Chain, Hash

\* The world outside changes the queues, the wire and the clock within their types.
LEMMA TypeWorld == TypeOK /\ World => TypeOK'
  <1> SUFFICES ASSUME TypeOK, World PROVE TypeOK'
    OBVIOUS
  <1>1. CASE Tick
    BY <1>1 DEF Tick, TypeOK, shared, locks, queues, gvars, mvars, others
  <1>2. ASSUME NEW m \in PeerMessages, PeerSend(m)
        PROVE  TypeOK'
    <2>1. incoming' \in Seq(Message)
      BY <1>2, PeerMessageType, QueueType DEF PeerSend, TypeOK
    <2> QED BY <1>2, <2>1 DEF PeerSend, TypeOK, shared, locks, gvars, mvars, others
  <1>3. ASSUME NEW m \in wire, Loopback(m)
        PROVE  TypeOK'
    <2>1. incoming' \in Seq(Message) /\ wire' \subseteq Message
      BY <1>3, QueueType DEF Loopback, TypeOK
    <2> QED BY <1>3, <2>1 DEF Loopback, TypeOK, shared, locks, gvars, mvars, others
  <1>4. ASSUME NEW t \in ApiTxs, ApiPost(t)
        PROVE  TypeOK'
    <2>1. apiTxs' \in Seq(Transaction)
      BY <1>4, GestionAssumption, QueueType DEF ApiPost, TypeOK
    <2> QED BY <1>4, <2>1 DEF ApiPost, TypeOK, shared, locks, gvars, mvars, others
  <1> QED BY <1>1, <1>2, <1>3, <1>4 DEF World

\* The steps of gestion keep the types; in particular what it holds in hand fits the
\* place it goes to.
LEMMA TypeGestion == TypeOK /\ Gestion => TypeOK'
  <1> SUFFICES ASSUME TypeOK, Gestion PROVE TypeOK'
    OBVIOUS
  <1> USE DEF shared, locks, queues, gvars, mvars, others
  <1>1. CASE NothingFromNetwork \/ NothingFromApi \/ NothingMined
    BY <1>1 DEF NothingFromNetwork, NothingFromApi, NothingMined, TypeOK
  <1>2. CASE PopTxs
    <2>1. Head(incoming) \in Message /\ incoming' \in Seq(Message)
      BY <1>2, QueueType DEF PopTxs, TypeOK
    <2>2. hand' \in Transaction
      BY <1>2, <2>1, MessageType DEF PopTxs
    <2> QED BY <1>2, <2>1, <2>2 DEF PopTxs, TypeOK
  <1>3. CASE PopChain
    <2>1. Head(incoming) \in Message /\ incoming' \in Seq(Message)
      BY <1>3, QueueType DEF PopChain, TypeOK
    <2>2. Head(incoming).bc \in Chain
      BY <1>3, <2>1, MessageType DEF PopChain
    <2> QED BY <1>3, <2>1, <2>2 DEF PopChain, TypeOK
  <1>4. CASE PopApiTxs
    <2>1. hand' \in Transaction /\ apiTxs' \in Seq(Transaction)
      BY <1>4, QueueType DEF PopApiTxs, TypeOK
    <2> QED BY <1>4, <2>1 DEF PopApiTxs, TypeOK
  <1>5. CASE PopBlock
    <2>1. hand' \in Block /\ miningBlocks' \in Seq(Block)
      BY <1>5, QueueType DEF PopBlock, TypeOK
    <2> QED BY <1>5, <2>1 DEF PopBlock, TypeOK
  <1>6. CASE LockTl
    BY <1>6 DEF LockTl, Acquires, TypeOK
  <1>7. CASE LockBc
    <2>1. hand \in Transaction
      BY <1>7 DEF LockBc, TypeOK
    <2>2. tl' \in Seq(Transaction) /\ accepted' \subseteq Transaction
      <3>1. Append(tl, hand) \in Seq(Transaction)
        BY <2>1, QueueType DEF TypeOK
      <3> QED BY <1>7, <2>1, <3>1 DEF LockBc, TypeOK
    <2>3. wire' \subseteq Message
      BY <1>7, <2>1, SentType, MessageType DEF LockBc, TypeOK
    <2> QED BY <1>7, <2>1, <2>2, <2>3 DEF LockBc, Acquires, TypeOK
  <1>8. CASE UnlockBc \/ UnlockTl \/ UnlockTlFiltered \/ UnlockBcAdopted \/ UnlockBcAdded
    BY <1>8 DEF UnlockBc, UnlockTl, UnlockTlFiltered, UnlockBcAdopted, UnlockBcAdded,
                Releases, TypeOK
  <1>9. CASE LockBcToAdopt
    <2>1. hand \in Chain
      BY <1>9 DEF LockBcToAdopt, TypeOK
    <2>2. Better(hand, bc) => Len(hand) > 0
      BY <2>1, LenProperties DEF Better, TypeOK, Chain
    <2>3. bc' \in Chain /\ Len(bc') > 0
      BY <1>9, <2>1, <2>2 DEF LockBcToAdopt, TypeOK
    <2>4. stale' \in BOOLEAN
      BY <1>9 DEF LockBcToAdopt, TypeOK
    <2> QED BY <1>9, <2>1, <2>3, <2>4 DEF LockBcToAdopt, Acquires, TypeOK
  <1>10. CASE LockTlToFilter
    <2>1. tl' \in Seq(Transaction)
      BY <1>10, UpdateTlWithBcType DEF LockTlToFilter, TypeOK
    <2> QED BY <1>10, <2>1 DEF LockTlToFilter, Acquires, TypeOK
  <1>11. CASE LockBcToAdd
    <2>1. hand \in Block
      BY <1>11 DEF LockBcToAdd, TypeOK
    <2>2. Append(bc, hand) \in Chain /\ Len(Append(bc, hand)) > 0
      BY <2>1, AppendProperties, LenProperties DEF TypeOK, Chain
    <2>3. wire' \subseteq Message
      BY <1>11, <2>2, SentType, MessageType DEF LockBcToAdd, TypeOK
    <2>4. bc' \in Chain /\ Len(bc') > 0
      BY <1>11, <2>2 DEF LockBcToAdd, TypeOK
    <2>5. stale' \in BOOLEAN
      BY <1>11 DEF LockBcToAdd, TypeOK
    <2> QED BY <1>11, <2>1, <2>3, <2>4, <2>5 DEF LockBcToAdd, Acquires, TypeOK
  <1> QED BY <1>1, <1>2, <1>3, <1>4, <1>5, <1>6, <1>7, <1>8, <1>9, <1>10, <1>11 DEF Gestion

\* The steps of mining keep the types of the block it builds.
LEMMA TypeMining == TypeOK /\ Mining => TypeOK'
  <1> SUFFICES ASSUME TypeOK, Mining PROVE TypeOK'
    OBVIOUS
  <1> USE DEF shared, locks, queues, gvars, mvars, others
  <1>1. CASE SeePending
    BY <1>1 DEF SeePending, TypeOK
  <1>2. CASE PointToLastBlock
    <2>1. bc[Len(bc)] \in Block
      BY ElementOfSeq, LenProperties DEF TypeOK, Chain
    <2>2. mprev' \in Hash
      BY <1>2, <2>1 DEF PointToLastBlock, GetLastBlock, Block
    <2>3. stale' \in BOOLEAN
      BY <1>2 DEF PointToLastBlock
    <2> QED BY <1>2, <2>2, <2>3 DEF PointToLastBlock, Acquires, TypeOK
  <1>3. CASE ReleaseLastBlock \/ ReleasePending \/ ReleaseRemoved
    BY <1>3 DEF ReleaseLastBlock, ReleasePending, ReleaseRemoved, Releases, TypeOK
  <1>4. CASE CopyHash
    <2>1. \A k \in DOMAIN bc : bc[k].blockHash \in Hash
      <3>1. \A k \in DOMAIN bc : bc[k] \in Block
        BY DEF TypeOK, Chain
      <3> QED BY <3>1 DEF Block
    <2>2. mprev' \in Hash
      BY <1>4, <2>1, GarbageHashType DEF CopyHash, TypeOK
    <2>3. stale' \in BOOLEAN
      BY <1>4 DEF CopyHash
    <2> QED BY <1>4, <2>2, <2>3 DEF CopyHash, TypeOK
  <1>5. CASE CopyPending
    BY <1>5 DEF CopyPending, Acquires, TypeOK
  <1>6. CASE RemovePending
    <2>1. tl' \in Seq(Transaction)
      BY <1>6, RemoveTxsListType, LenProperties DEF RemovePending, TypeOK
    <2> QED BY <1>6, <2>1 DEF RemovePending, Acquires, TypeOK
  <1>7. CASE PushBlock
    <2>1. miningBlocks' \in Seq(Block)
      BY <1>7, SealBlockType, QueueType DEF PushBlock, TypeOK
    <2>2. << >> \in Hash /\ << >> \in Seq(Transaction)
      BY DEF Hash
    <2> QED BY <1>7, <2>1, <2>2 DEF PushBlock, TypeOK
  <1> QED BY <1>1, <1>2, <1>3, <1>4, <1>5, <1>6, <1>7 DEF Mining

\* The other threads keep the types: all they change is the wire, the file and locks.
LEMMA TypeOthers == TypeOK /\ (SendData \/ SaveWorker \/ ApiWorker) => TypeOK'
  <1> SUFFICES ASSUME TypeOK, SendData \/ SaveWorker \/ ApiWorker PROVE TypeOK'
    OBVIOUS
  <1> USE DEF shared, locks, queues, gvars, mvars, others
  <1>1. CASE SendChain
    <2>1. {ChainMsg(bc)} \in SUBSET Message
      BY MessageType DEF TypeOK
    <2>2. wire' \subseteq Message
      BY <1>1, <2>1, SentType DEF SendChain, TypeOK
    <2>3. /\ bcLock' = "send" /\ spc' = "unlockBc"
          /\ UNCHANGED <<shared, tlLock, incoming, apiTxs, miningBlocks, clock, gvars,
                         mvars, stale, wpc, apc>>
      BY <1>1 DEF SendChain, Acquires
    <2> QED BY <2>2, <2>3 DEF TypeOK
  <1>2. CASE SendPending
    <2>1. \A i \in DOMAIN tl : TxsMsg(tl[i]) \in Message
      BY MessageType, ElementOfSeq, LenProperties DEF TypeOK
    <2>2. wire' \subseteq Message
      BY <1>2, <2>1, SentType DEF SendPending, TypeOK
    <2> QED BY <1>2, <2>2 DEF SendPending, Acquires, TypeOK
  <1>3. CASE SendChainDone \/ SendPendingDone
    BY <1>3 DEF SendChainDone, SendPendingDone, Releases, TypeOK
  <1>4. CASE SaveWorker
    BY <1>4 DEF SaveWorker, Save, SaveDone, Acquires, Releases, TypeOK
  <1>5. CASE ApiWorker
    BY <1>5 DEF ApiWorker, ListPending, ListPendingDone, ListBlocks, ListBlocksDone,
                Acquires, Releases, TypeOK
  <1> QED BY <1>1, <1>2, <1>3, <1>4, <1>5 DEF SendData

\* A step that changes nothing keeps the types.
LEMMA TypeStutter == TypeOK /\ UNCHANGED vars => TypeOK'
  BY DEF TypeOK, vars, shared, locks, queues, gvars, mvars, others

\* Type correctness of a node: whatever peers send and however its threads
\* interleave, every variable keeps its type.
THEOREM TypeCorrect == Spec => []TypeOK
  <1>1. TypeOK /\ [Next]_vars => TypeOK'
    BY TypeWorld, TypeGestion, TypeMining, TypeOthers, TypeStutter DEF Next
  <1> QED BY TypeInit, <1>1, PTL DEF Spec

-------------------------------------------------------------------------------
(* The two mutexes.                                                        *)

\* At the start both mutexes are free and no thread is in a section.
LEMMA LockInit == Init => LockOwners
  BY DEF Init, LockOwners

\* Every step takes and releases the mutexes as its thread enters and leaves.
LEMMA LockStep == LockOwners /\ [Next]_vars => LockOwners'
  <1> SUFFICES ASSUME LockOwners, [Next]_vars PROVE LockOwners'
    OBVIOUS
  <1> USE DEF shared, locks, queues, gvars, mvars, others
  <1>1. CASE World
    BY <1>1 DEF World, Tick, PeerSend, Loopback, ApiPost, LockOwners
  <1>2. CASE NothingFromNetwork \/ PopTxs \/ PopChain \/ NothingFromApi \/ PopApiTxs
             \/ NothingMined \/ PopBlock
    BY <1>2 DEF NothingFromNetwork, PopTxs, PopChain, NothingFromApi, PopApiTxs,
                NothingMined, PopBlock, LockOwners
  <1>3. CASE LockTl \/ LockBc \/ UnlockBc \/ UnlockTl
    BY <1>3 DEF LockTl, LockBc, UnlockBc, UnlockTl, Acquires, Releases, LockOwners
  <1>4. CASE LockBcToAdopt \/ LockTlToFilter \/ UnlockTlFiltered \/ UnlockBcAdopted
    BY <1>4 DEF LockBcToAdopt, LockTlToFilter, UnlockTlFiltered, UnlockBcAdopted,
                Acquires, Releases, LockOwners
  <1>5. CASE LockBcToAdd \/ UnlockBcAdded
    BY <1>5 DEF LockBcToAdd, UnlockBcAdded, Acquires, Releases, LockOwners
  <1>6. CASE Mining
    BY <1>6 DEF Mining, SeePending, PointToLastBlock, ReleaseLastBlock, CopyHash,
                CopyPending, ReleasePending, RemovePending, ReleaseRemoved, PushBlock,
                Acquires, Releases, LockOwners
  <1>7. CASE SendData
    BY <1>7 DEF SendData, SendChain, SendChainDone, SendPending, SendPendingDone,
                Acquires, Releases, LockOwners
  <1>8. CASE SaveWorker
    BY <1>8 DEF SaveWorker, Save, SaveDone, Acquires, Releases, LockOwners
  <1>9. CASE ApiWorker
    BY <1>9 DEF ApiWorker, ListPending, ListPendingDone, ListBlocks, ListBlocksDone,
                Acquires, Releases, LockOwners
  <1>10. CASE UNCHANGED vars
    BY <1>10 DEF vars, LockOwners
  <1> QED BY <1>1, <1>2, <1>3, <1>4, <1>5, <1>6, <1>7, <1>8, <1>9, <1>10
          DEF Next, Gestion

\* Each mutex is held exactly by the thread inside its section, so that nobody who
\* holds one and waits for the other waits for somebody who waits.
THEOREM LocksAccountedFor == Spec => []LockOwners
  BY LockInit, LockStep, PTL DEF Spec

-------------------------------------------------------------------------------
(* One pending transaction per sender.                                     *)

\* The inductive form: between the look at the pending list and the addition to it
\* gestion waits for the other mutex, and what it saw must still be true.
PendingInv ==
  /\ OnePendingPerSender
  /\ gpc = "lockBc" => ~ HasSendedTxs(hand.sender, tl)

\* No step adds a second transaction of a sender; the lock on the list, held from the
\* look to the addition, is what keeps the look valid.
LEMMA PendingStep ==
  TypeOK /\ LockOwners /\ PendingInv /\ [Next]_vars => PendingInv'
  <1> SUFFICES ASSUME TypeOK, LockOwners, PendingInv, [Next]_vars PROVE PendingInv'
    OBVIOUS
  <1> USE DEF shared, locks, queues, gvars, mvars, others
  <1>a. OnePendingPerSender <=> Distinct(tl)
    BY DEF OnePendingPerSender, Distinct
  <1>b. OnePendingPerSender' <=> Distinct(tl')
    BY DEF OnePendingPerSender, Distinct
  <1>c. tl \in Seq(Transaction)
    BY DEF TypeOK
  <1>d. ASSUME UNCHANGED tl, gpc' # "lockBc" \/ UNCHANGED <<gpc, hand>>
        PROVE  PendingInv'
    BY <1>d, <1>a, <1>b DEF PendingInv
  <1>1. CASE World
    <2>1. UNCHANGED <<tl, gpc, hand>>
      BY <1>1 DEF World, Tick, PeerSend, Loopback, ApiPost
    <2> QED BY <2>1, <1>d
  <1>2. CASE NothingFromNetwork \/ PopTxs \/ PopChain \/ NothingFromApi \/ PopApiTxs
             \/ NothingMined \/ PopBlock
    <2>1. UNCHANGED tl /\ gpc' # "lockBc"
      BY <1>2 DEF NothingFromNetwork, PopTxs, PopChain, NothingFromApi, PopApiTxs,
                  NothingMined, PopBlock
    <2> QED BY <2>1, <1>d
  <1>3. CASE LockTl
    <2>1. UNCHANGED <<tl, hand>>
      BY <1>3 DEF LockTl
    <2>2. gpc' = "lockBc" => ~ HasSendedTxs(hand.sender, tl)
      BY <1>3 DEF LockTl
    <2> QED BY <2>1, <2>2, <1>a, <1>b DEF PendingInv
  <1>4. CASE LockBc
    <2>1. gpc' # "lockBc" /\ (tl' = tl \/ tl' = Append(tl, hand))
      BY <1>4 DEF LockBc
    <2>2. hand \in Transaction /\ ~ HasSendedTxs(hand.sender, tl)
      BY <1>4 DEF LockBc, TypeOK, PendingInv
    <2>3. Distinct(tl')
      BY <2>1, <2>2, <1>a, <1>c, AppendDistinct DEF PendingInv
    <2> QED BY <2>1, <2>3, <1>b DEF PendingInv
  <1>5. CASE LockTlToFilter
    <2>1. gpc' # "lockBc" /\ tl' = UpdateTlWithBc(tl, bc)
      BY <1>5 DEF LockTlToFilter
    <2>2. Distinct(tl')
      BY <2>1, <1>a, <1>c, UpdateTlWithBcType DEF PendingInv
    <2> QED BY <2>1, <2>2, <1>b DEF PendingInv
  <1>6. CASE UnlockBc \/ UnlockTl \/ LockBcToAdopt \/ UnlockTlFiltered
             \/ UnlockBcAdopted \/ LockBcToAdd \/ UnlockBcAdded
    <2>1. UNCHANGED tl /\ gpc' # "lockBc"
      BY <1>6 DEF UnlockBc, UnlockTl, LockBcToAdopt, UnlockTlFiltered, UnlockBcAdopted,
                  LockBcToAdd, UnlockBcAdded
    <2> QED BY <2>1, <1>d
  <1>7. CASE RemovePending
    <2>1. gpc # "lockBc"
      BY <1>7 DEF RemovePending, Acquires, LockOwners
    <2>2. gpc' = gpc /\ tl' = RemoveTxsList(tl, 0, Len(mtl)) /\ Len(mtl) \in Nat
      BY <1>7, LenProperties DEF RemovePending, TypeOK
    <2>3. Distinct(tl')
      BY <2>2, <1>a, <1>c, RemoveTxsListType DEF PendingInv
    <2> QED BY <2>1, <2>2, <2>3, <1>b DEF PendingInv
  <1>8. CASE Mining /\ ~ RemovePending
    <2>1. UNCHANGED <<tl, gpc, hand>>
      BY <1>8 DEF Mining, SeePending, PointToLastBlock, ReleaseLastBlock, CopyHash,
                  CopyPending, ReleasePending, ReleaseRemoved, PushBlock
    <2> QED BY <2>1, <1>d
  <1>9. CASE SendData \/ SaveWorker \/ ApiWorker \/ UNCHANGED vars
    <2>1. UNCHANGED <<tl, gpc, hand>>
      BY <1>9 DEF SendData, SendChain, SendChainDone, SendPending, SendPendingDone,
                  SaveWorker, Save, SaveDone, ApiWorker, ListPending, ListPendingDone,
                  ListBlocks, ListBlocksDone, vars
    <2> QED BY <2>1, <1>d
  <1> QED BY <1>1, <1>2, <1>3, <1>4, <1>5, <1>6, <1>7, <1>8, <1>9 DEF Next, Gestion

\* A sender never has two pending transactions, whichever thread touches the list
\* between gestion's look at it and its addition to it.
THEOREM NeverTwoPending == Spec => []OnePendingPerSender
  <1>1. Init => PendingInv
    BY DEF Init, PendingInv, OnePendingPerSender
  <1>2. PendingInv => OnePendingPerSender
    BY DEF PendingInv
  <1> QED BY <1>1, <1>2, PendingStep, TypeCorrect, LocksAccountedFor, PTL DEF Spec

-------------------------------------------------------------------------------
(* Every chain the node holds, saves or sends passes checkBlockchain.      *)

\* The inductive form: the chain gestion has in hand was checked before any lock was
\* taken, and a chain does not change while it waits.
ChainInv ==
  /\ ChainsAreValid
  /\ gpc = "lockBcToAdopt" => CheckBlockchain(hand)

\* What is put on the wire beside valid chains leaves it with valid chains.
LEMMA SentValid ==
  ASSUME NEW msgs, \A m \in msgs : m.type = "BLOCKCHAIN" => CheckBlockchain(m.bc),
         \A m \in wire : m.type = "BLOCKCHAIN" => CheckBlockchain(m.bc)
  PROVE  \A m \in Sent(msgs) : m.type = "BLOCKCHAIN" => CheckBlockchain(m.bc)
  BY DEF Sent

\* The empty chain, the content of the file before the first save, passes the check.
LEMMA EmptyIsValid == CheckBlockchain(<< >>)
  <1>1. 2 .. Len(<< >>) = {}
    OBVIOUS
  <1> QED BY <1>1 DEF CheckBlockchain

\* No step of any thread brings in a chain that does not pass.
LEMMA ChainStep == TypeOK /\ ChainInv /\ [Next]_vars => ChainInv'
  <1> SUFFICES ASSUME TypeOK, ChainInv, [Next]_vars PROVE ChainInv'
    OBVIOUS
  <1> USE DEF shared, locks, queues, gvars, mvars, others
  <1>a. ASSUME UNCHANGED <<bc, file>>, wire' \subseteq wire,
               gpc' # "lockBcToAdopt" \/ UNCHANGED <<gpc, hand>>
        PROVE  ChainInv'
    BY <1>a DEF ChainInv, ChainsAreValid
  <1>b. \A t \in {hand} \cup {tl[i] : i \in DOMAIN tl} : TxsMsg(t).type # "BLOCKCHAIN"
    BY DEF TxsMsg
  <1>c. \A c : ChainMsg(c).bc = c
    BY DEF ChainMsg
  <1>1. CASE World
    <2>1. /\ UNCHANGED <<bc, file, gpc, hand>>
          /\ wire' \subseteq wire
      BY <1>1 DEF World, Tick, PeerSend, Loopback, ApiPost
    <2> QED BY <2>1, <1>a
  <1>2. CASE NothingFromNetwork \/ PopTxs \/ NothingFromApi \/ PopApiTxs
             \/ NothingMined \/ PopBlock \/ LockTl \/ UnlockBc \/ UnlockTl
             \/ LockTlToFilter \/ UnlockTlFiltered \/ UnlockBcAdopted \/ UnlockBcAdded
    <2>1. UNCHANGED <<bc, file, wire>> /\ gpc' # "lockBcToAdopt"
      BY <1>2 DEF NothingFromNetwork, PopTxs, NothingFromApi, PopApiTxs, NothingMined,
                  PopBlock, LockTl, UnlockBc, UnlockTl, LockTlToFilter,
                  UnlockTlFiltered, UnlockBcAdopted, UnlockBcAdded
    <2> QED BY <2>1, <1>a
  <1>3. CASE PopChain
    <2>1. UNCHANGED <<bc, file, wire>>
      BY <1>3 DEF PopChain
    <2>2. gpc' = "lockBcToAdopt" => CheckBlockchain(hand')
      BY <1>3 DEF PopChain
    <2> QED BY <2>1, <2>2 DEF ChainInv, ChainsAreValid
  <1>4. CASE LockBc
    <2>1. UNCHANGED <<bc, file>> /\ gpc' # "lockBcToAdopt"
          /\ (wire' = wire \/ wire' = Sent({TxsMsg(hand)}))
      BY <1>4 DEF LockBc
    <2>2. \A m \in wire' : m.type = "BLOCKCHAIN" => CheckBlockchain(m.bc)
      BY <2>1, <1>b, SentValid DEF ChainInv, ChainsAreValid
    <2> QED BY <2>1, <2>2 DEF ChainInv, ChainsAreValid
  <1>5. CASE LockBcToAdopt
    <2>1. UNCHANGED <<file, wire>> /\ gpc' # "lockBcToAdopt" /\ (bc' = hand \/ bc' = bc)
      BY <1>5 DEF LockBcToAdopt
    <2>2. CheckBlockchain(bc')
      BY <1>5, <2>1 DEF LockBcToAdopt, ChainInv, ChainsAreValid
    <2> QED BY <2>1, <2>2 DEF ChainInv, ChainsAreValid
  <1>6. CASE LockBcToAdd
    <2>1. UNCHANGED file /\ gpc' # "lockBcToAdopt" /\ hand \in Block
      BY <1>6 DEF LockBcToAdd, TypeOK
    <2>2. CASE AddBlockOk(bc, hand)
      <3>1. bc' = Append(bc, hand) /\ wire' = Sent({ChainMsg(bc')})
        BY <1>6, <2>2 DEF LockBcToAdd
      <3>2. CheckBlockchain(bc')
        BY <2>1, <2>2, <3>1, AddBlockKeepsValid DEF TypeOK, ChainInv, ChainsAreValid
      <3>3. \A m \in wire' : m.type = "BLOCKCHAIN" => CheckBlockchain(m.bc)
        BY <3>1, <3>2, <1>c, SentValid DEF ChainInv, ChainsAreValid
      <3> QED BY <2>1, <3>2, <3>3 DEF ChainInv, ChainsAreValid
    <2>3. CASE ~ AddBlockOk(bc, hand)
      <3>1. UNCHANGED <<bc, wire>>
        BY <1>6, <2>3 DEF LockBcToAdd
      <3> QED BY <2>1, <3>1, <1>a
    <2> QED BY <2>2, <2>3
  <1>7. CASE Mining
    <2>1. UNCHANGED <<bc, file, wire, gpc, hand>>
      BY <1>7 DEF Mining, SeePending, PointToLastBlock, ReleaseLastBlock, CopyHash,
                  CopyPending, ReleasePending, RemovePending, ReleaseRemoved, PushBlock
    <2> QED BY <2>1, <1>a
  <1>8. CASE SendChain
    <2>1. UNCHANGED <<bc, file, gpc, hand>> /\ wire' = Sent({ChainMsg(bc)})
      BY <1>8 DEF SendChain
    <2>2. \A m \in wire' : m.type = "BLOCKCHAIN" => CheckBlockchain(m.bc)
      BY <2>1, <1>c, SentValid DEF ChainInv, ChainsAreValid
    <2> QED BY <2>1, <2>2 DEF ChainInv, ChainsAreValid
  <1>9. CASE SendPending
    <2>1. UNCHANGED <<bc, file, gpc, hand>>
          /\ wire' = Sent({TxsMsg(tl[i]) : i \in DOMAIN tl})
      BY <1>9 DEF SendPending
    <2>2. \A m \in wire' : m.type = "BLOCKCHAIN" => CheckBlockchain(m.bc)
      BY <2>1, <1>b, SentValid DEF ChainInv, ChainsAreValid
    <2> QED BY <2>1, <2>2 DEF ChainInv, ChainsAreValid
  <1>10. CASE Save
    <2>1. UNCHANGED <<bc, wire, gpc, hand>> /\ file' = bc
      BY <1>10 DEF Save
    <2> QED BY <2>1 DEF ChainInv, ChainsAreValid
  <1>11. CASE SendChainDone \/ SendPendingDone \/ SaveDone \/ ApiWorker \/ UNCHANGED vars
    <2>1. UNCHANGED <<bc, file, wire, gpc, hand>>
      BY <1>11 DEF SendChainDone, SendPendingDone, SaveDone, ApiWorker, ListPending,
                   ListPendingDone, ListBlocks, ListBlocksDone, vars
    <2> QED BY <2>1, <1>a
  <1> QED BY <1>1, <1>2, <1>3, <1>4, <1>5, <1>6, <1>7, <1>8, <1>9, <1>10, <1>11
          DEF Next, Gestion, SendData, SaveWorker

\* A node that starts from a valid chain never holds, saves or sends one that its peers
\* would refuse as invalid, whatever they send it and wherever mining built its block.
THEOREM AlwaysValid == Spec => []ChainsAreValid
  <1>1. Init => ChainInv
    <2> SUFFICES ASSUME Init PROVE ChainInv
      OBVIOUS
    <2>1. CheckBlockchain(bc)
      BY InitChainsAssumption DEF Init
    <2> QED BY <2>1, EmptyIsValid DEF Init, ChainInv, ChainsAreValid
  <1>2. ChainInv => ChainsAreValid
    BY DEF ChainInv
  <1> QED BY <1>1, <1>2, ChainStep, TypeCorrect, PTL DEF Spec

-------------------------------------------------------------------------------
(* Refinement of ForkChoice.                                               *)

\* In a chain that passes checkBlockchain, times do not decrease along it.
LEMMA TimesAscend ==
  ASSUME NEW c \in Chain, CheckBlockchain(c),
         NEW i \in 1 .. Len(c), NEW j \in 1 .. Len(c), i < j
  PROVE  c[i].time <= c[j].time
  <1> DEFINE T == {k \in i .. Len(c) : ~ (c[i].time <= c[k].time)}
  <1>1. Len(c) \in Nat /\ \A k \in 1 .. Len(c) : c[k].time \in Nat
    <2>1. \A k \in 1 .. Len(c) : c[k] \in Block
      BY ElementOfSeq DEF Chain
    <2> QED BY <2>1, LenProperties DEF Chain, Block
  <1>2. SUFFICES ASSUME T # {} PROVE FALSE
    BY <1>1
  <1>3. PICK m \in T : \A k \in T : m <= k
    <2>1. T \in SUBSET Nat
      BY <1>1
    <2> HIDE DEF T
    <2> QED BY <1>2, <2>1, LeastNatural
  <1>4. m # i /\ m \in 2 .. Len(c) /\ m - 1 \in i .. Len(c) /\ m - 1 \in 1 .. Len(c)
    BY <1>1, <1>3
  <1>5. m - 1 \notin T
    BY <1>3, <1>4
  <1>6. c[i].time <= c[m - 1].time
    BY <1>4, <1>5
  <1>7. c[m].time >= c[m - 1].time
    BY <1>4 DEF CheckBlockchain
  <1>8. c[i].time <= c[m].time
    BY <1>1, <1>4, <1>6, <1>7, SMTT(30)
  <1> QED BY <1>3, <1>8

\* A block's history is its parent's with the block's content at its end.
LEMMA HistoryGrows ==
  ASSUME NEW c \in Chain, NEW i \in 2 .. Len(c)
  PROVE  FC!History(c, i)
           = Append(FC!History(c, i - 1), [tl |-> c[i].tl, time |-> c[i].time])
  <1> DEFINE content(k) == [tl |-> c[k + 1].tl, time |-> c[k + 1].time]
             f(n) == [k \in 1 .. n |-> content(k)]
             h == c[1].blockHash
             e == [tl |-> c[i].tl, time |-> c[i].time]
  <1>1. Len(c) \in Nat /\ \A k \in 1 .. Len(c) : c[k] \in Block
    BY LenProperties, ElementOfSeq DEF Chain
  <1>2. h \in Seq(Content)
    BY <1>1 DEF Block, Hash
  <1>3. \A k \in 1 .. i - 1 : content(k) \in Content
    BY <1>1 DEF Block, Content
  <1>4. i - 1 \in Nat /\ i - 2 \in Nat
    BY <1>1
  <1>5. e \in Content /\ e = content(i - 1)
    BY <1>1 DEF Block, Content
  <1>6. f(i - 1) \in Seq(Content) /\ f(i - 2) \in Seq(Content)
    BY <1>3, <1>4, IsASeq
  <1>7. f(i - 1) = Append(f(i - 2), e)
    <2>1. /\ Append(f(i - 2), e) \in Seq(Content)
          /\ Len(f(i - 2)) = i - 2 /\ Len(f(i - 1)) = i - 1
      BY <1>4, <1>5, <1>6, AppendProperties
    <2>2. Len(Append(f(i - 2), e)) = i - 1
      BY <1>4, <1>5, <1>6, <2>1, AppendProperties
    <2>3. ASSUME NEW k \in 1 .. i - 1
          PROVE  f(i - 1)[k] = Append(f(i - 2), e)[k]
      <3>1. CASE k \in 1 .. i - 2
        BY <1>4, <1>5, <1>6, <2>1, <3>1, AppendProperties
      <3>2. CASE k = i - 1
        BY <1>4, <1>5, <1>6, <2>1, <3>2, AppendProperties
      <3> QED BY <1>4, <3>1, <3>2
    <2> QED BY <1>6, <2>1, <2>2, <2>3, SeqEqual
  <1>8. h \o Append(f(i - 2), e) = Append(h \o f(i - 2), e)
    <2> HIDE DEF h, f, e
    <2> QED BY <1>2, <1>5, <1>6, AppendAfter, SMTT(30)
  <1>9. FC!History(c, i) = h \o f(i - 1)
    BY DEF FC!History
  <1>10. FC!History(c, i - 1) = h \o f(i - 2)
    BY <1>1, <1>4 DEF FC!History
  <1> QED BY <1>7, <1>8, <1>9, <1>10

\* The history begins with the hash of the first block.
LEMMA HistoryStarts ==
  ASSUME NEW c \in Chain, Len(c) > 0
  PROVE  FC!History(c, 1) = c[1].blockHash
  <1>1. c[1].blockHash \in Seq(Content)
    <2>1. Len(c) \in Nat /\ \A k \in 1 .. Len(c) : c[k] \in Block
      BY LenProperties, ElementOfSeq DEF Chain
    <2>2. c[1] \in Block
      BY <2>1
    <2> QED BY <2>2 DEF Block, Hash
  <1>2. 1 .. 1 - 1 = {}
    OBVIOUS
  <1>3. [k \in 1 .. 1 - 1 |-> [tl |-> c[k + 1].tl, time |-> c[k + 1].time]] = << >>
    BY <1>2
  <1>4. FC!History(c, 1) = c[1].blockHash \o << >>
    BY <1>3 DEF FC!History
  <1> QED BY <1>1, <1>4, ConcatEmptySeq

\* What checkBlockchain establishes block by block adds up: each hash commits to the
\* whole history, back to the first block.
LEMMA CheckImpliesUnbroken ==
  ASSUME NEW c \in Chain, Len(c) > 0, CheckBlockchain(c)
  PROVE  FC!Unbroken(c)
  <1> DEFINE T == {k \in 1 .. Len(c) : c[k].blockHash # FC!History(c, k)}
  <1>1. Len(c) \in Nat /\ \A k \in 1 .. Len(c) : c[k] \in Block
    BY LenProperties, ElementOfSeq DEF Chain
  <1>2. 1 \notin T
    BY HistoryStarts
  <1>3. T = {}
    <2>1. SUFFICES ASSUME T # {} PROVE FALSE
      OBVIOUS
    <2>2. T \in SUBSET Nat
      BY <1>1
    <2>3. PICK m \in T : \A k \in T : m <= k
      <3> HIDE DEF T
      <3> QED BY <2>1, <2>2, LeastNatural
    <2>4. m \in 2 .. Len(c) /\ m - 1 \in 1 .. Len(c) /\ m - 1 \notin T
      BY <1>1, <1>2, <2>3
    <2>5. c[m - 1].blockHash = FC!History(c, m - 1)
      BY <2>4
    <2>6. c[m].blockHash
            = Append(c[m - 1].blockHash, [tl |-> c[m].tl, time |-> c[m].time])
      BY <2>4 DEF CheckBlockchain, GetHash
    <2>7. c[m].blockHash = FC!History(c, m)
      BY <2>4, <2>5, <2>6, HistoryGrows
    <2> QED BY <2>3, <2>7
  <1>4. \A i \in 2 .. Len(c) : c[i].blockHash = FC!History(c, i)
    BY <1>1, <1>3
  <1>5. \A i, j \in 1 .. Len(c) : i < j => c[i].time <= c[j].time
    BY TimesAscend
  <1> QED BY <1>4, <1>5 DEF FC!Unbroken

\* checkBlockchain accepts exactly the unbroken lines in which each block also names its
\* parent's history: no chain that was changed anywhere passes, and no sound one fails.
THEOREM CheckIsUnbrokenLine ==
  ASSUME NEW c \in Chain, Len(c) > 0
  PROVE  CheckBlockchain(c)
           <=> /\ FC!Unbroken(c)
               /\ \A i \in 2 .. Len(c) : c[i].previusHash = FC!History(c, i - 1)
  <1>1. /\ Len(c) \in Nat
        /\ \A k \in 1 .. Len(c) : c[k] \in Block /\ c[k].time \in Nat
        /\ \A i \in 2 .. Len(c) : i - 1 \in 1 .. Len(c) /\ i - 1 < i /\ i \in 1 .. Len(c)
    <2>1. \A k \in 1 .. Len(c) : c[k] \in Block
      BY ElementOfSeq DEF Chain
    <2> QED BY <2>1, LenProperties, SMTT(30) DEF Chain, Block
  <1>2. ASSUME FC!Unbroken(c), NEW k \in 1 .. Len(c)
        PROVE  c[k].blockHash = FC!History(c, k)
    <2>1. CASE k = 1
      BY <2>1, HistoryStarts
    <2>2. CASE k \in 2 .. Len(c)
      BY <1>2, <2>2 DEF FC!Unbroken
    <2> QED BY <1>1, <2>1, <2>2
  <1>3. ASSUME CheckBlockchain(c), NEW i \in 2 .. Len(c)
        PROVE  c[i].previusHash = FC!History(c, i - 1)
    BY <1>1, <1>2, <1>3, CheckImpliesUnbroken DEF CheckBlockchain
  <1>4. ASSUME FC!Unbroken(c), NEW i \in 2 .. Len(c),
               c[i].previusHash = FC!History(c, i - 1)
        PROVE  /\ c[i].time >= c[i - 1].time
               /\ c[i].previusHash = c[i - 1].blockHash
               /\ c[i].blockHash = GetHash(c[i])
    <2>1. c[i - 1].time <= c[i].time
      BY <1>1, <1>4 DEF FC!Unbroken
    <2>2. c[i - 1].blockHash = FC!History(c, i - 1) /\ c[i].blockHash = FC!History(c, i)
      BY <1>1, <1>2, <1>4
    <2>3. FC!History(c, i)
            = Append(c[i].previusHash, [tl |-> c[i].tl, time |-> c[i].time])
      BY <1>4, HistoryGrows
    <2> QED BY <1>1, <1>4, <2>1, <2>2, <2>3 DEF GetHash
  <1> QED BY <1>3, <1>4, CheckImpliesUnbroken DEF CheckBlockchain

\* The code's preference is the order ForkChoice states, and a longer chain outranks.
LEMMA BetterIsOutranks ==
  /\ \A c, d : Better(d, c) <=> FC!Outranks(d, c)
  /\ \A c \in Chain, b \in Block : FC!Outranks(Append(c, b), c)
  <1>1. \A c, d : Better(d, c) <=> FC!Outranks(d, c)
    BY DEF Better, GetLastBlock, FC!Outranks
  <1>2. ASSUME NEW c \in Chain, NEW b \in Block
        PROVE  FC!Outranks(Append(c, b), c)
    <2>1. Len(c) \in Nat /\ Len(Append(c, b)) = Len(c) + 1
      BY LenProperties, AppendProperties DEF Chain
    <2> QED BY <2>1 DEF FC!Outranks
  <1> QED BY <1>1, <1>2

\* What happens to the wire, in terms of the chains that travel: a chain pushed is
\* published, transactions pushed publish nothing, a message that leaves takes its chain.
LEMMA PublishedChanges ==
  /\ \A c : wire' = Sent({ChainMsg(c)})
              => Published' \in {Published, Published \cup {c}}
  /\ \A T : wire' = Sent({TxsMsg(t) : t \in T}) => Published' = Published
  /\ wire \subseteq Message =>
       \A m \in wire : wire' = wire \ {m} =>
         Published' = Published \/ \E c \in Published : Published' = Published \ {c}
  <1>1. ASSUME NEW c, wire' = Sent({ChainMsg(c)})
        PROVE  Published' \in {Published, Published \cup {c}}
    <2>1. wire' = wire \/ wire' = wire \cup {ChainMsg(c)}
      BY <1>1 DEF Sent
    <2>2. ChainMsg(c).type = "BLOCKCHAIN" /\ ChainMsg(c).bc = c
      BY DEF ChainMsg
    <2>3. CASE wire' = wire
      BY <2>3 DEF Published
    <2>4. CASE wire' = wire \cup {ChainMsg(c)}
      BY <2>4, <2>2 DEF Published
    <2> QED BY <2>1, <2>3, <2>4
  <1>2. ASSUME NEW T, wire' = Sent({TxsMsg(t) : t \in T}) PROVE Published' = Published
    <2>1. wire' = wire \/ wire' = wire \cup {TxsMsg(t) : t \in T}
      BY <1>2 DEF Sent
    <2>2. \A x \in {TxsMsg(t) : t \in T} : x.type # "BLOCKCHAIN"
      BY DEF TxsMsg
    <2>3. {x \in wire' : x.type = "BLOCKCHAIN"} = {x \in wire : x.type = "BLOCKCHAIN"}
      BY <2>1, <2>2
    <2> QED BY <2>3 DEF Published
  <1>3. ASSUME wire \subseteq Message, NEW m \in wire, wire' = wire \ {m}
        PROVE  Published' = Published \/ \E c \in Published : Published' = Published \ {c}
    <2>1. CASE m.type # "BLOCKCHAIN"
      <3>1. {x \in wire' : x.type = "BLOCKCHAIN"} = {x \in wire : x.type = "BLOCKCHAIN"}
        BY <1>3, <2>1
      <3> QED BY <3>1 DEF Published
    <2>2. CASE m.type = "BLOCKCHAIN"
      <3>1. \A x, y \in wire : /\ x.type = "BLOCKCHAIN" /\ y.type = "BLOCKCHAIN"
                               /\ x.bc = y.bc
                               => x = y
        BY <1>3 DEF Message
      <3>2. m.bc \in Published /\ Published' = Published \ {m.bc}
        BY <1>3, <2>2, <3>1 DEF Published
      <3> QED BY <3>2
    <2> QED BY <2>1, <2>2
  <1> QED BY <1>1, <1>2, <1>3

\* Every step of the node is a step of ForkChoice or leaves its variables alone.
LEMMA StepRefines ==
  TypeOK /\ TypeOK' /\ ChainsAreValid' /\ [Next]_vars => [FC!Next]_(FC!vars)
  <1> SUFFICES ASSUME TypeOK, TypeOK', ChainsAreValid', [Next]_vars
               PROVE  FC!Next \/ UNCHANGED <<bc, file, Published>>
    BY DEF FC!vars
  <1>a. UNCHANGED wire => UNCHANGED Published
    BY DEF Published
  <1>b. FC!Unbroken(bc')
    BY CheckImpliesUnbroken DEF TypeOK, ChainsAreValid
  <1>1. CASE World
    <2>1. UNCHANGED <<bc, file>> /\ (UNCHANGED wire \/ \E m \in wire : wire' = wire \ {m})
      BY <1>1 DEF World, Tick, PeerSend, Loopback, ApiPost, shared, queues
    <2>2. CASE UNCHANGED wire
      BY <1>a, <2>1, <2>2
    <2>3. CASE \E m \in wire : wire' = wire \ {m}
      <3>1. Published' = Published \/ \E c \in Published : Published' = Published \ {c}
        BY <2>3, PublishedChanges DEF TypeOK
      <3> QED BY <2>1, <3>1 DEF FC!Next, FC!Arrive
    <2> QED BY <2>1, <2>2, <2>3
  <1>2. CASE LockBc
    <2>1. /\ UNCHANGED <<bc, file>>
          /\ UNCHANGED wire \/ wire' = Sent({TxsMsg(t) : t \in {hand}})
      <3>1. {TxsMsg(hand)} = {TxsMsg(t) : t \in {hand}}
        OBVIOUS
      <3> QED BY <1>2, <3>1 DEF LockBc
    <2> QED BY <1>a, <2>1, PublishedChanges
  <1>3. CASE LockBcToAdopt
    <2>1. UNCHANGED <<file, wire>> /\ (UNCHANGED bc \/ (bc' = hand /\ Better(hand, bc)))
      <3>1. UNCHANGED <<file, wire>>
        BY <1>3 DEF LockBcToAdopt, queues
      <3>2. CASE Better(hand, bc)
        BY <1>3, <3>1, <3>2 DEF LockBcToAdopt
      <3>3. CASE ~ Better(hand, bc)
        BY <1>3, <3>1, <3>3 DEF LockBcToAdopt
      <3> QED BY <3>2, <3>3
    <2>2. UNCHANGED bc \/ FC!Outranks(bc', bc)
      BY <2>1, BetterIsOutranks
    <2> QED BY <1>a, <1>b, <2>1, <2>2 DEF FC!Next, FC!Advance
  <1>4. CASE LockBcToAdd
    <2>1. CASE AddBlockOk(bc, hand)
      <3>1. /\ bc' = Append(bc, hand) /\ file' = file
            /\ wire' = Sent({ChainMsg(bc')})
        BY <1>4, <2>1 DEF LockBcToAdd
      <3>2. FC!Outranks(bc', bc)
        BY <1>4, <3>1, BetterIsOutranks DEF TypeOK, LockBcToAdd
      <3>3. Published' \in {Published, Published \cup {bc'}}
        BY <3>1, PublishedChanges
      <3> QED BY <1>b, <3>1, <3>2, <3>3 DEF FC!Next, FC!Advance
    <2>2. CASE ~ AddBlockOk(bc, hand)
      <3>1. UNCHANGED <<bc, file, wire>>
        BY <1>4, <2>2 DEF LockBcToAdd
      <3> QED BY <1>a, <3>1
    <2> QED BY <2>1, <2>2
  <1>5. CASE SendChain
    <2>1. UNCHANGED <<bc, file>> /\ wire' = Sent({ChainMsg(bc)})
      BY <1>5 DEF SendChain, shared
    <2>2. Published' \in {Published, Published \cup {bc}}
      BY <2>1, PublishedChanges
    <2> QED BY <2>1, <2>2 DEF FC!Next, FC!Publish
  <1>6. CASE SendPending
    <2>1. {TxsMsg(tl[i]) : i \in DOMAIN tl} = {TxsMsg(t) : t \in {tl[i] : i \in DOMAIN tl}}
      OBVIOUS
    <2>2. UNCHANGED <<bc, file>> /\ wire' = Sent({TxsMsg(tl[i]) : i \in DOMAIN tl})
      BY <1>6 DEF SendPending, shared
    <2> QED BY <2>1, <2>2, PublishedChanges
  <1>7. CASE Save
    <2>1. UNCHANGED <<bc, wire>> /\ file' = bc
      BY <1>7 DEF Save, queues
    <2> QED BY <1>a, <2>1 DEF FC!Next, FC!Save
  <1>8. CASE NothingFromNetwork \/ PopTxs \/ PopChain \/ NothingFromApi \/ PopApiTxs
               \/ NothingMined \/ PopBlock \/ LockTl \/ UnlockBc \/ UnlockTl
               \/ LockTlToFilter \/ UnlockTlFiltered \/ UnlockBcAdopted \/ UnlockBcAdded
    <2>1. UNCHANGED <<bc, file, wire>>
      BY <1>8 DEF NothingFromNetwork, PopTxs, PopChain, NothingFromApi, PopApiTxs,
                  NothingMined, PopBlock, LockTl, UnlockBc, UnlockTl, LockTlToFilter,
                  UnlockTlFiltered, UnlockBcAdopted, UnlockBcAdded, shared, queues
    <2> QED BY <1>a, <2>1
  <1>9. CASE Mining
    <2>1. UNCHANGED <<bc, file, wire>>
      BY <1>9 DEF Mining, SeePending, PointToLastBlock, ReleaseLastBlock, CopyHash,
                  CopyPending, ReleasePending, RemovePending, ReleaseRemoved, PushBlock,
                  shared, queues
    <2> QED BY <1>a, <2>1
  <1>10. CASE SendChainDone \/ SendPendingDone \/ SaveDone \/ ApiWorker \/ UNCHANGED vars
    <2>1. UNCHANGED <<bc, file, wire>>
      BY <1>10 DEF SendChainDone, SendPendingDone, SaveDone, ApiWorker, ListPending,
                   ListPendingDone, ListBlocks, ListBlocksDone, vars, shared, queues
    <2> QED BY <1>a, <2>1
  <1> QED BY <1>1, <1>2, <1>3, <1>4, <1>5, <1>6, <1>7, <1>8, <1>9, <1>10
          DEF Next, Gestion, SendData, SaveWorker

\* The node implements ForkChoice for every size of its queues and every set of
\* messages its peers may send: between the threads, no chain is ever exchanged for one
\* that does not outrank it, and nothing is saved or sent that the node did not hold.
THEOREM RefinesForkChoice == Spec => KeepsBestChain
  <1>1. Init => FC!Init
    <2> SUFFICES ASSUME Init PROVE FC!Init
      OBVIOUS
    <2>1. bc \in Chain /\ Len(bc) > 0 /\ CheckBlockchain(bc)
      BY InitChainsAssumption DEF Init
    <2>2. Published = {} /\ file = << >>
      BY DEF Init, Published
    <2> QED BY <2>1, <2>2, CheckImpliesUnbroken DEF FC!Init
  <1> QED BY <1>1, StepRefines, TypeCorrect, AlwaysValid, PTL
          DEF Spec, KeepsBestChain, FC!Spec

-------------------------------------------------------------------------------
(* What ForkChoice promises, used.                                         *)

\* Who does not outrank a chain does not outrank the one that replaces it.
LEMMA OutrankedStays ==
  ASSUME NEW c \in Chain, NEW d \in Chain, NEW e \in Chain, Len(d) > 0,
         ~ FC!Outranks(c, d), FC!Outranks(e, d)
  PROVE  ~ FC!Outranks(c, e)
  <1>1. Len(c) \in Nat /\ Len(d) \in Nat /\ Len(e) \in Nat
    BY LenProperties DEF Chain
  <1>2. d[Len(d)].time \in Nat
    <2>1. d[Len(d)] \in Block
      BY <1>1, ElementOfSeq DEF Chain
    <2> QED BY <2>1 DEF Block
  <1>3. Len(c) = Len(d) => c[Len(c)].time \in Nat
    <2>1. Len(c) = Len(d) => c[Len(c)] \in Block
      BY <1>1, ElementOfSeq DEF Chain
    <2> QED BY <2>1 DEF Block
  <1>4. Len(e) = Len(d) => e[Len(e)].time \in Nat
    <2>1. Len(e) = Len(d) => e[Len(e)] \in Block
      BY <1>1, ElementOfSeq DEF Chain
    <2> QED BY <2>1 DEF Block
  <1> QED BY <1>1, <1>2, <1>3, <1>4 DEF FC!Outranks

\* A node never hears back, from its file or its own messages, of a chain it would
\* exchange its own for: what it saved and sent is outdated or equal by then.
THEOREM NeverBehindItself == Spec => []SnapshotsNeverAhead
  <1>1. Init => SnapshotsNeverAhead
    BY DEF Init, SnapshotsNeverAhead, Published
  <1>2. /\ SnapshotsNeverAhead /\ TypeOK /\ TypeOK' /\ [FC!Next]_(FC!vars)
        => SnapshotsNeverAhead'
    <2> SUFFICES ASSUME SnapshotsNeverAhead, TypeOK, TypeOK',
                        FC!Next \/ UNCHANGED <<bc, file, Published>>
                 PROVE  /\ file' # << >> => ~ FC!Outranks(file', bc')
                        /\ \A c \in Published' : ~ FC!Outranks(c, bc')
      BY DEF SnapshotsNeverAhead, FC!vars
    <2>1. /\ bc \in Chain /\ Len(bc) > 0 /\ bc' \in Chain /\ file \in Chain
          /\ Published \subseteq Chain
      BY DEF TypeOK, Published, Message
    <2>2. ~ FC!Outranks(bc', bc')
      <3>1. bc'[Len(bc')] \in Block
        BY LenProperties, ElementOfSeq, SMTT(30) DEF Chain, TypeOK
      <3>2. Len(bc') \in Nat /\ bc'[Len(bc')].time \in Nat
        BY <2>1, <3>1, LenProperties DEF Block, Chain
      <3> QED BY <3>2 DEF FC!Outranks
    <2>3. CASE FC!Advance
      <3>1. file' = file /\ Published' \subseteq Published \cup {bc'} /\ FC!Outranks(bc', bc)
        BY <2>3 DEF FC!Advance
      <3>2. file' # << >> => ~ FC!Outranks(file', bc')
        BY <2>1, <3>1, OutrankedStays DEF SnapshotsNeverAhead
      <3>3. ASSUME NEW c \in Published' PROVE ~ FC!Outranks(c, bc')
        BY <2>1, <2>2, <3>1, OutrankedStays DEF SnapshotsNeverAhead
      <3> QED BY <3>2, <3>3
    <2>4. CASE FC!Publish \/ FC!Arrive
      BY <2>2, <2>4 DEF FC!Publish, FC!Arrive, SnapshotsNeverAhead
    <2>5. CASE FC!Save
      BY <2>2, <2>5 DEF FC!Save, SnapshotsNeverAhead
    <2>6. CASE UNCHANGED <<bc, file, Published>>
      BY <2>6 DEF SnapshotsNeverAhead
    <2> QED BY <2>3, <2>4, <2>5, <2>6 DEF FC!Next
  <1> QED BY <1>1, <1>2, StepRefines, TypeCorrect, AlwaysValid, PTL DEF Spec

-------------------------------------------------------------------------------
(* A node that hears no other chain: mining and gestion share the pending  *)
(* list and the chain, and nothing that was accepted falls between them.   *)

\* A chain that gestion would not adopt.
Echo(c) == ~ Better(c, bc)

\* All chains on their way to gestion are echoes of its own: it never adopts one, and so
\* never filters the pending list.
EchoInv ==
  /\ \A i \in DOMAIN incoming : incoming[i].type = "BLOCKCHAIN" => Echo(incoming[i].bc)
  /\ gpc = "lockBcToAdopt" => Echo(hand)
  /\ gpc \notin {"lockTlToFilter", "unlockTlFiltered"}

\* The steps of the threads that leave the pending list, the chain and what mining builds
\* alone, and where they can take gestion.
Aside ==
  /\ UNCHANGED <<bc, tl, miningBlocks, accepted, mpc, mprev, mtl, mtime, stale>>
  /\ \/ UNCHANGED <<gpc, hand>> /\ clock' \in {clock, clock + 1}
     \/ /\ clock' = clock /\ gpc # "lockBcToAdd"
        /\ gpc' \notin {"lockBcToAdd", "unlockBcAdded"}

\* While no chain is adopted these are the steps that matter.
LEMMA AloneSteps ==
  ASSUME EchoInv, [Next]_vars
  PROVE  Aside \/ LockBc \/ PopBlock \/ LockBcToAdd \/ Mining
  <1> USE DEF shared, locks, queues, gvars, mvars, others
  <1>1. CASE World
    BY <1>1 DEF World, Tick, PeerSend, Loopback, ApiPost, Aside
  <1>2. CASE NothingFromNetwork \/ PopTxs \/ PopChain \/ NothingFromApi \/ PopApiTxs
             \/ NothingMined \/ LockTl \/ UnlockBc \/ UnlockTl \/ UnlockTlFiltered
             \/ UnlockBcAdopted \/ UnlockBcAdded
    BY <1>2 DEF NothingFromNetwork, PopTxs, PopChain, NothingFromApi, PopApiTxs,
                NothingMined, LockTl, UnlockBc, UnlockTl, UnlockTlFiltered,
                UnlockBcAdopted, UnlockBcAdded, Aside
  <1>3. CASE LockBcToAdopt
    BY <1>3 DEF LockBcToAdopt, EchoInv, Echo, Aside
  <1>4. CASE LockTlToFilter
    BY <1>4 DEF LockTlToFilter, EchoInv
  <1>5. CASE SendData \/ SaveWorker \/ ApiWorker \/ UNCHANGED vars
    BY <1>5 DEF SendData, SendChain, SendChainDone, SendPending, SendPendingDone,
                SaveWorker, Save, SaveDone, ApiWorker, ListPending, ListPendingDone,
                ListBlocks, ListBlocksDone, vars, Aside
  <1> QED BY <1>1, <1>2, <1>3, <1>4, <1>5 DEF Next, Gestion

\* An echo stays one when the chain grows.
LEMMA EchoStays ==
  ASSUME TypeOK, TypeOK', NEW c \in Chain, Echo(c),
         bc' = bc \/ \E b \in Block : bc' = Append(bc, b)
  PROVE  Echo(c)'
  <1>1. CASE bc' = bc
    BY <1>1 DEF Echo
  <1>2. CASE \E b \in Block : bc' = Append(bc, b)
    <2>1. FC!Outranks(bc', bc) /\ ~ FC!Outranks(c, bc)
      BY <1>2, BetterIsOutranks DEF TypeOK, Echo
    <2>2. ~ FC!Outranks(c, bc')
      BY <2>1, OutrankedStays DEF TypeOK
    <2> QED BY <2>2, BetterIsOutranks DEF Echo
  <1> QED BY <1>1, <1>2

\* What is queued beside echoes leaves the queue with echoes.
LEMMA EchoQueued ==
  ASSUME TypeOK, EchoInv, NEW m \in Message, m.type = "BLOCKCHAIN" => Echo(m.bc),
         incoming' = Append(incoming, m), UNCHANGED <<bc, gpc, hand>>
  PROVE  EchoInv'
  <1>1. /\ Len(incoming) \in Nat /\ DOMAIN incoming = 1 .. Len(incoming)
        /\ DOMAIN incoming' = 1 .. Len(incoming) + 1 /\ incoming'[Len(incoming) + 1] = m
        /\ \A i \in 1 .. Len(incoming) : incoming'[i] = incoming[i]
    BY DEF TypeOK
  <1>2. \A i \in DOMAIN incoming' : i = Len(incoming) + 1 \/ i \in DOMAIN incoming
    BY <1>1
  <1> QED BY <1>1, <1>2 DEF EchoInv, Echo

\* A message that is taken from the queue leaves the others behind.
LEMMA EchoTaken ==
  ASSUME TypeOK, EchoInv, incoming # << >>, incoming' = Tail(incoming), bc' = bc
  PROVE  \A i \in DOMAIN incoming' :
           incoming'[i].type = "BLOCKCHAIN" => ~ Better(incoming'[i].bc, bc')
  <1>1. \A i \in DOMAIN incoming' : i + 1 \in DOMAIN incoming /\ incoming'[i] = incoming[i + 1]
    <2>1. incoming \in Seq(Message)
      BY DEF TypeOK
    <2> QED BY <2>1
  <1> QED BY <1>1 DEF EchoInv, Echo

\* No chain better than its own reaches the node: nobody sends one, and its own come back
\* outdated or equal.
LEMMA EchoStep ==
  ASSUME RemoteChains = {}, TypeOK, TypeOK', SnapshotsNeverAhead, EchoInv, [Next]_vars
  PROVE  EchoInv'
  <1> USE DEF shared, locks, queues, gvars, mvars, others
  <1>1. CASE Tick \/ \E t \in ApiTxs : ApiPost(t)
    BY <1>1 DEF Tick, ApiPost, EchoInv, Echo
  <1>2. ASSUME NEW m \in PeerMessages, PeerSend(m) PROVE EchoInv'
    <2>1. m \in Message /\ m.type = "TXS"
      BY PeerMessageType DEF PeerMessages, TxsMsg
    <2> QED BY <1>2, <2>1, EchoQueued DEF PeerSend
  <1>3. ASSUME NEW m \in wire, Loopback(m) PROVE EchoInv'
    <2>1. m \in Message
      BY DEF TypeOK
    <2>2. m.type = "BLOCKCHAIN" => Echo(m.bc)
      BY BetterIsOutranks DEF SnapshotsNeverAhead, Published, Echo
    <2> QED BY <1>3, <2>1, <2>2, EchoQueued DEF Loopback
  <1>4. CASE PopTxs
    <2>1. incoming # << >> /\ incoming' = Tail(incoming) /\ bc' = bc /\ gpc' = "lockTl"
      BY <1>4 DEF PopTxs
    <2> QED BY <2>1, EchoTaken DEF EchoInv, Echo
  <1>5. CASE PopChain
    <2>1. /\ incoming # << >> /\ incoming' = Tail(incoming) /\ bc' = bc
          /\ Head(incoming).type = "BLOCKCHAIN"
          /\ \/ gpc' = "lockBcToAdopt" /\ hand' = Head(incoming).bc
             \/ gpc' = "api"
      BY <1>5 DEF PopChain
    <2>2. 1 \in DOMAIN incoming /\ Head(incoming) = incoming[1]
      BY <2>1 DEF TypeOK
    <2>3. Echo(Head(incoming).bc)
      BY <2>1, <2>2 DEF EchoInv
    <2>4. gpc' = "lockBcToAdopt" => ~ Better(hand', bc')
      BY <2>1, <2>3 DEF Echo
    <2> QED BY <2>1, <2>4, EchoTaken DEF EchoInv, Echo
  <1>6. CASE LockBcToAdopt
    <2>1. UNCHANGED <<bc, incoming>> /\ gpc' = "unlockBcAdopted"
      BY <1>6 DEF LockBcToAdopt, EchoInv, Echo
    <2> QED BY <2>1 DEF EchoInv, Echo
  <1>7. CASE LockBcToAdd
    <2>1. /\ UNCHANGED incoming /\ gpc' = "unlockBcAdded" /\ hand \in Block
          /\ bc' = bc \/ bc' = Append(bc, hand)
      BY <1>7 DEF LockBcToAdd, TypeOK
    <2>2. \A c \in Chain : Echo(c) => ~ Better(c, bc')
      BY <2>1, EchoStays DEF Echo
    <2>3. \A i \in DOMAIN incoming : incoming[i].type = "BLOCKCHAIN" => incoming[i].bc \in Chain
      BY MessageType, SMTT(30) DEF TypeOK
    <2> QED BY <2>1, <2>2, <2>3 DEF EchoInv, Echo
  <1>8. CASE NothingFromNetwork \/ NothingFromApi \/ PopApiTxs \/ NothingMined \/ PopBlock
             \/ LockTl \/ LockBc \/ UnlockBc \/ UnlockTl \/ UnlockBcAdopted
             \/ UnlockBcAdded
    <2>1. UNCHANGED <<bc, incoming>>
          /\ gpc' \notin {"lockBcToAdopt", "lockTlToFilter", "unlockTlFiltered"}
      BY <1>8 DEF NothingFromNetwork, NothingFromApi, PopApiTxs, NothingMined, PopBlock,
                  LockTl, LockBc, UnlockBc, UnlockTl, UnlockBcAdopted, UnlockBcAdded
    <2> QED BY <2>1 DEF EchoInv, Echo
  <1>9. CASE LockTlToFilter \/ UnlockTlFiltered
    BY <1>9 DEF LockTlToFilter, UnlockTlFiltered, EchoInv
  <1>10. CASE Mining
    <2>1. UNCHANGED <<bc, incoming, gpc, hand>>
      BY <1>10 DEF Mining, SeePending, PointToLastBlock, ReleaseLastBlock, CopyHash,
                   CopyPending, ReleasePending, RemovePending, ReleaseRemoved, PushBlock
    <2> QED BY <2>1 DEF EchoInv, Echo
  <1>11. CASE SendData \/ SaveWorker \/ ApiWorker \/ UNCHANGED vars
    <2>1. UNCHANGED <<bc, incoming, gpc, hand>>
      BY <1>11 DEF SendData, SendChain, SendChainDone, SendPending, SendPendingDone,
                   SaveWorker, Save, SaveDone, ApiWorker, ListPending, ListPendingDone,
                   ListBlocks, ListBlocksDone, vars
    <2> QED BY <2>1 DEF EchoInv, Echo
  <1> QED BY <1>1, <1>2, <1>3, <1>4, <1>5, <1>6, <1>7, <1>8, <1>9, <1>10, <1>11
          DEF Next, World, Gestion

\* At the start nothing is queued.
LEMMA EchoInit == Init => EchoInv
  BY DEF Init, EchoInv

-------------------------------------------------------------------------------
(* No empty block on such a node.                                          *)

\* Between mining's unguarded look at the list and its copy somebody else may work on the
\* list, but only mining shortens it.
FullInv ==
  /\ mpc \in {"lockBc", "unlockBc", "copyHash", "lockTl"} => tl # << >>
  /\ mpc \in {"unlockTl", "lockTlToRemove", "unlockTlRemoved", "push"} => mtl # << >>
  /\ \A i \in DOMAIN miningBlocks : miningBlocks[i].tl # << >>
  /\ gpc = "lockBcToAdd" => hand.tl # << >>
  /\ NoEmptyBlock

\* A longer sequence holds what it held and its new element.
LEMMA AppendHolds ==
  ASSUME NEW S, NEW q \in Seq(S), NEW e \in S
  PROVE  /\ DOMAIN Append(q, e) = DOMAIN q \cup {Len(q) + 1}
         /\ Append(q, e)[Len(q) + 1] = e /\ Len(q) + 1 \notin DOMAIN q
         /\ \A i \in DOMAIN q : Append(q, e)[i] = q[i]
         /\ Append(q, e) # << >>
  OBVIOUS

\* The tail holds what the sequence held but for its head.
LEMMA TailHolds ==
  ASSUME NEW S, NEW q \in Seq(S), q # << >>
  PROVE  /\ Head(q) = q[1] /\ 1 \in DOMAIN q
         /\ \A i \in DOMAIN Tail(q) : i + 1 \in DOMAIN q /\ Tail(q)[i] = q[i + 1]
         /\ \A i \in DOMAIN q : i = 1 \/ (i - 1 \in DOMAIN Tail(q) /\ Tail(q)[i - 1] = q[i])
         /\ Len(Tail(q)) = Len(q) - 1
  OBVIOUS

\* No step brings an empty block on its way.
LEMMA FullStep == TypeOK /\ EchoInv /\ FullInv /\ [Next]_vars => FullInv'
  <1> SUFFICES ASSUME TypeOK, EchoInv, FullInv, [Next]_vars PROVE FullInv'
    OBVIOUS
  <1> USE DEF shared, locks, queues, gvars, mvars, others
  <1>1. CASE Aside
    BY <1>1 DEF Aside, FullInv, NoEmptyBlock
  <1>2. CASE LockBc
    <2>1. tl' = tl \/ (tl' = Append(tl, hand) /\ hand \in Transaction)
      BY <1>2 DEF LockBc, TypeOK
    <2>2. tl # << >> => tl' # << >>
      BY <2>1, AppendHolds DEF TypeOK
    <2>3. UNCHANGED <<mpc, mtl, miningBlocks, bc>> /\ gpc' # "lockBcToAdd"
      BY <1>2 DEF LockBc
    <2> QED BY <2>2, <2>3 DEF FullInv, NoEmptyBlock
  <1>3. CASE PopBlock
    <2>1. /\ miningBlocks # << >> /\ miningBlocks' = Tail(miningBlocks)
          /\ hand' = Head(miningBlocks) /\ UNCHANGED <<bc, tl, mpc, mtl>>
      BY <1>3 DEF PopBlock
    <2>2. hand'.tl # << >> /\ \A i \in DOMAIN miningBlocks' : miningBlocks'[i].tl # << >>
      BY <2>1, TailHolds DEF TypeOK, FullInv
    <2> QED BY <2>1, <2>2 DEF FullInv, NoEmptyBlock
  <1>4. CASE LockBcToAdd
    <2>1. /\ UNCHANGED <<tl, mpc, mtl, miningBlocks>> /\ gpc' = "unlockBcAdded"
          /\ bc' = bc \/ bc' = Append(bc, hand)
          /\ hand \in Block /\ hand.tl # << >>
      BY <1>4 DEF LockBcToAdd, TypeOK, FullInv
    <2>2. bc \in Seq(Block) /\ \A k \in DOMAIN bc : bc[k].tl # << >>
      BY DEF TypeOK, Chain, FullInv, NoEmptyBlock
    <2>3. \A k \in DOMAIN bc' : bc'[k].tl # << >>
      <3>1. CASE bc' = bc
        BY <2>2, <3>1
      <3>2. CASE bc' = Append(bc, hand)
        BY <2>1, <2>2, <3>2, AppendHolds
      <3> QED BY <2>1, <3>1, <3>2
    <2> QED BY <2>1, <2>3 DEF FullInv, NoEmptyBlock
  <1>5. CASE SeePending \/ PointToLastBlock \/ ReleaseLastBlock \/ CopyHash
             \/ CopyPending \/ ReleasePending \/ ReleaseRemoved
    BY <1>5 DEF SeePending, PointToLastBlock, ReleaseLastBlock, CopyHash, CopyPending,
                ReleasePending, ReleaseRemoved, FullInv, NoEmptyBlock
  <1>6. CASE RemovePending
    BY <1>6 DEF RemovePending, FullInv, NoEmptyBlock
  <1>7. CASE PushBlock
    <2> DEFINE b == SealBlock(mprev, mtl, mtime)
    <2>1. b \in Block /\ b.tl # << >>
      BY <1>7, SealBlockType DEF PushBlock, TypeOK, SealBlock, FullInv
    <2>2. /\ miningBlocks' = Append(miningBlocks, b) /\ mpc' = "asleep"
          /\ UNCHANGED <<bc, tl, gpc, hand>>
      BY <1>7 DEF PushBlock
    <2> HIDE DEF b
    <2>3. \A i \in DOMAIN miningBlocks' : miningBlocks'[i].tl # << >>
      BY <2>1, <2>2, AppendHolds, SMTT(30) DEF TypeOK, FullInv
    <2> QED BY <2>2, <2>3 DEF FullInv, NoEmptyBlock
  <1> QED BY <1>1, <1>2, <1>3, <1>4, <1>5, <1>6, <1>7, AloneSteps DEF Mining

\* A node whose peers send no chains, and that starts from a chain without empty blocks,
\* never adds one: between the threads, with any queues, whatever transactions its peers
\* and clients send and however long mining sleeps.
THEOREM MinesNoEmptyBlock ==
  ASSUME RemoteChains = {},
         \A c \in InitChains : \A k \in DOMAIN c : c[k].tl # << >>
  PROVE  Spec => []NoEmptyBlock
  <1>1. Init => FullInv
    BY DEF Init, FullInv, NoEmptyBlock
  <1>2. TypeOK /\ TypeOK' /\ SnapshotsNeverAhead /\ EchoInv /\ [Next]_vars => EchoInv'
    BY EchoStep
  <1>3. FullInv => NoEmptyBlock
    BY DEF FullInv
  <1> QED BY EchoInit, <1>1, <1>2, <1>3, FullStep, TypeCorrect, NeverBehindItself, PTL DEF Spec

-------------------------------------------------------------------------------
(* Nothing accepted is lost on such a node.                                *)

\* When its sleep is long mining has one block on its way at a time: while it builds one,
\* gestion has none.
OneBlockInv ==
  /\ mpc # "asleep" => miningBlocks = << >> /\ gpc \notin {"lockBcToAdd", "unlockBcAdded"}
  /\ gpc \in {"lockBcToAdd", "unlockBcAdded"} => miningBlocks = << >>
  /\ Len(miningBlocks) <= 1

\* A block that gestion will append.
Fits(b) == AddBlockOk(bc, b) /\ b.time <= clock

\* What mining read of the last block stays true of it, so that its block fits.
FitInv ==
  /\ GetLastBlock(bc).time <= clock
  /\ mpc \in {"unlockBc", "copyHash"} => mprev = GetLastBlock(bc).blockHash /\ ~ stale
  /\ mpc \in {"lockTl", "unlockTl", "lockTlToRemove", "unlockTlRemoved", "push"} =>
       /\ mprev = GetLastBlock(bc).blockHash
       /\ GetLastBlock(bc).time <= mtime /\ mtime <= clock
  /\ \A i \in DOMAIN miningBlocks : Fits(miningBlocks[i])
  /\ gpc = "lockBcToAdd" => Fits(hand)

\* What was copied is still at the head of the list when as much is removed from there.
CopyInv ==
  /\ mpc \in {"asleep", "lockBc", "unlockBc", "copyHash", "lockTl"} => mtl = << >>
  /\ mpc \in {"unlockTl", "lockTlToRemove"} =>
       Len(mtl) <= Len(tl) /\ \A i \in DOMAIN mtl : mtl[i] = tl[i]

\* While mining builds a block gestion has none, and the next is built when gestion is done.
LEMMA OneBlockStep ==
  ASSUME SleepIsLong, TypeOK, EchoInv, OneBlockInv, [Next]_vars
  PROVE  OneBlockInv'
  <1> USE DEF shared, locks, queues, gvars, mvars, others
  <1>1. CASE Aside
    BY <1>1 DEF Aside, OneBlockInv
  <1>2. CASE LockBc \/ LockBcToAdd
    BY <1>2 DEF LockBc, LockBcToAdd, OneBlockInv
  <1>3. CASE PopBlock
    <2>1. /\ miningBlocks # << >> /\ miningBlocks' = Tail(miningBlocks)
          /\ mpc' = mpc /\ mpc = "asleep" /\ gpc' = "lockBcToAdd"
      BY <1>3 DEF PopBlock, OneBlockInv
    <2>2. miningBlocks \in Seq(Block) /\ Len(miningBlocks) <= 1
      BY DEF TypeOK, OneBlockInv
    <2>3. miningBlocks' = << >> /\ Len(miningBlocks') <= 1
      BY <2>1, <2>2
    <2> QED BY <2>1, <2>3 DEF OneBlockInv
  <1>4. CASE SeePending
    BY <1>4 DEF SeePending, RestIsOver, OneBlockInv
  <1>5. CASE PointToLastBlock \/ ReleaseLastBlock \/ CopyHash \/ CopyPending
             \/ ReleasePending \/ RemovePending \/ ReleaseRemoved
    BY <1>5 DEF PointToLastBlock, ReleaseLastBlock, CopyHash, CopyPending,
                ReleasePending, RemovePending, ReleaseRemoved, OneBlockInv
  <1>6. CASE PushBlock
    <2> DEFINE b == SealBlock(mprev, mtl, mtime)
    <2>1. /\ miningBlocks = << >> /\ miningBlocks' = Append(miningBlocks, b)
          /\ mpc' = "asleep" /\ gpc' = gpc
          /\ gpc \notin {"lockBcToAdd", "unlockBcAdded"}
      BY <1>6 DEF PushBlock, OneBlockInv
    <2> HIDE DEF b
    <2>2. Len(miningBlocks') <= 1
      BY <2>1
    <2> QED BY <2>1, <2>2 DEF OneBlockInv
  <1> QED BY <1>1, <1>2, <1>3, <1>4, <1>5, <1>6, AloneSteps DEF Mining

\* The last block changes only when gestion appends the one block that was on its way, and
\* the clock only grows: what mining read of both stays good.
LEMMA FitStep ==
  ASSUME TypeOK, TypeOK', EchoInv, OneBlockInv, FitInv, [Next]_vars
  PROVE  FitInv'
  <1> USE DEF shared, locks, queues, gvars, mvars, others
  <1>a. /\ clock \in Nat /\ mtime \in Nat /\ GetLastBlock(bc).time \in Nat
        /\ bc \in Seq(Block) /\ Len(bc) > 0
        /\ \A i \in DOMAIN miningBlocks : miningBlocks[i].time \in Nat
        /\ gpc = "lockBcToAdd" => hand \in Block /\ hand.time \in Nat
    <2>1. bc[Len(bc)] \in Block
      BY ElementOfSeq, LenProperties, SMTT(30) DEF TypeOK, Chain
    <2>2. \A i \in DOMAIN miningBlocks : miningBlocks[i] \in Block
      BY SMTT(30) DEF TypeOK
    <2> QED BY <2>1, <2>2 DEF TypeOK, Chain, GetLastBlock, Block
  <1>1. CASE Aside
    <2>1. UNCHANGED <<bc, miningBlocks, mpc, mprev, mtime, stale>>
      BY <1>1 DEF Aside
    <2>2. clock' \in Nat /\ clock <= clock'
      BY <1>1, <1>a DEF Aside
    <2>3. \A b : Fits(b) /\ b.time \in Nat => AddBlockOk(bc', b) /\ b.time <= clock'
      BY <1>a, <2>1, <2>2 DEF Fits
    <2>4. \A i \in DOMAIN miningBlocks' : Fits(miningBlocks[i])'
      BY <1>a, <2>1, <2>3 DEF FitInv, Fits
    <2>5. gpc' = "lockBcToAdd" => gpc = "lockBcToAdd" /\ hand' = hand
      BY <1>1 DEF Aside
    <2>6. gpc' = "lockBcToAdd" => Fits(hand)'
      BY <1>a, <2>3, <2>5 DEF FitInv, Fits
    <2> QED BY <1>a, <2>1, <2>2, <2>4, <2>6 DEF FitInv
  <1>2. CASE LockBc
    BY <1>2 DEF LockBc, FitInv, Fits
  <1>3. CASE PopBlock
    <2>1. /\ miningBlocks # << >> /\ miningBlocks' = Tail(miningBlocks)
          /\ hand' = Head(miningBlocks)
          /\ UNCHANGED <<bc, clock, mpc, mprev, mtime, stale>>
      BY <1>3 DEF PopBlock
    <2>2. Fits(hand') /\ \A i \in DOMAIN miningBlocks' : Fits(miningBlocks'[i])
      BY <2>1, TailHolds, SMTT(30) DEF TypeOK, FitInv
    <2> QED BY <2>1, <2>2 DEF FitInv, Fits
  <1>4. CASE LockBcToAdd
    <2>1. /\ AddBlockOk(bc, hand) /\ bc' = Append(bc, hand) /\ gpc' = "unlockBcAdded"
          /\ UNCHANGED <<clock, mpc, miningBlocks>>
          /\ mpc = "asleep" /\ miningBlocks = << >>
      BY <1>4 DEF LockBcToAdd, FitInv, Fits, OneBlockInv
    <2>2. GetLastBlock(bc') = hand
      BY <1>4, <1>a, <2>1 DEF GetLastBlock, LockBcToAdd
    <2>3. hand.time <= clock
      BY <1>4 DEF FitInv, Fits, LockBcToAdd
    <2> QED BY <2>1, <2>2, <2>3 DEF FitInv
  <1>5. CASE SeePending \/ PointToLastBlock \/ ReleaseLastBlock
             \/ CopyPending \/ ReleasePending \/ RemovePending \/ ReleaseRemoved
    BY <1>5 DEF SeePending, PointToLastBlock, ReleaseLastBlock, CopyPending,
                ReleasePending, RemovePending, ReleaseRemoved, FitInv, Fits
  <1>6. CASE CopyHash
    BY <1>6, <1>a DEF CopyHash, FitInv, Fits
  <1>7. CASE PushBlock
    <2> DEFINE b == SealBlock(mprev, mtl, mtime)
    <2>1. /\ miningBlocks' = Append(miningBlocks, b) /\ mpc' = "asleep"
          /\ UNCHANGED <<bc, clock, gpc, hand>>
          /\ mprev = GetLastBlock(bc).blockHash
          /\ GetLastBlock(bc).time <= mtime /\ mtime <= clock
          /\ miningBlocks = << >>
      BY <1>7 DEF PushBlock, FitInv, OneBlockInv
    <2>2. Fits(b)
      BY <1>a, <2>1 DEF Fits, AddBlockOk, SealBlock, GetHash
    <2> HIDE DEF b
    <2>3. \A i \in DOMAIN miningBlocks' : miningBlocks'[i] = b
      BY <2>1
    <2> QED BY <2>1, <2>2, <2>3 DEF FitInv, Fits
  <1> QED BY <1>1, <1>2, <1>3, <1>4, <1>5, <1>6, <1>7, AloneSteps DEF Mining

\* Between the copy and the cut others only append to the list.
LEMMA CopyStep ==
  ASSUME TypeOK, EchoInv, CopyInv, [Next]_vars
  PROVE  CopyInv'
  <1> USE DEF shared, locks, queues, gvars, mvars, others
  <1>1. CASE Aside \/ PopBlock \/ LockBcToAdd
    BY <1>1 DEF Aside, PopBlock, LockBcToAdd, CopyInv
  <1>2. CASE LockBc
    <2>1. UNCHANGED <<mpc, mtl>> /\ (tl' = tl \/ (tl' = Append(tl, hand) /\ hand \in Transaction))
      BY <1>2 DEF LockBc, TypeOK
    <2>2. /\ tl \in Seq(Transaction) /\ mtl \in Seq(Transaction)
      BY DEF TypeOK
    <2>3. ASSUME Len(mtl) <= Len(tl), \A i \in DOMAIN mtl : mtl[i] = tl[i]
          PROVE  Len(mtl) <= Len(tl') /\ \A i \in DOMAIN mtl : mtl[i] = tl'[i]
      <3>1. Len(tl) <= Len(tl') /\ \A i \in DOMAIN tl : tl'[i] = tl[i]
        BY <2>1, <2>2
      <3>2. \A i \in DOMAIN mtl : i \in DOMAIN tl
        BY <2>2, <2>3
      <3>3. Len(mtl) \in Nat /\ Len(tl) \in Nat /\ Len(tl') \in Nat
        BY <2>1, <2>2
      <3> QED BY <2>3, <3>1, <3>2, <3>3
    <2> QED BY <2>1, <2>3 DEF CopyInv
  <1>3. CASE SeePending \/ PointToLastBlock \/ ReleaseLastBlock \/ CopyHash
             \/ ReleasePending \/ ReleaseRemoved \/ PushBlock \/ RemovePending
    BY <1>3 DEF SeePending, PointToLastBlock, ReleaseLastBlock, CopyHash, ReleasePending,
                ReleaseRemoved, PushBlock, RemovePending, CopyInv
  <1>4. CASE CopyPending
    <2>1. Len(tl) \in Nat
      BY DEF TypeOK
    <2> QED BY <1>4, <2>1 DEF CopyPending, CopyInv
  <1> QED BY <1>1, <1>2, <1>3, <1>4, AloneSteps DEF Mining

\* Where a transaction that was accepted can be.
Holds(list, t) == \E i \in DOMAIN list : list[i] = t
Kept(t) == \/ Holds(tl, t) \/ Holds(mtl, t)
           \/ \E k \in DOMAIN miningBlocks : Holds(miningBlocks[k].tl, t)
           \/ gpc = "lockBcToAdd" /\ Holds(hand.tl, t)
           \/ \E k \in DOMAIN bc : Holds(bc[k].tl, t)
KeptInv == \A t \in accepted : Kept(t)

\* What is kept somewhere is where AcceptedNeverLost looks.
LEMMA KeptIsNotLost == KeptInv => AcceptedNeverLost
  <1> SUFFICES ASSUME KeptInv, NEW t \in accepted
               PROVE  t \in {tl[i] : i \in DOMAIN tl} \cup InBlocks \cup MinedTxs
    BY DEF AcceptedNeverLost
  <1>1. Kept(t)
    BY DEF KeptInv
  <1>2. Holds(mtl, t) => t \in InBlocks
    BY DEF Holds, InBlocks
  <1>3. ASSUME NEW k \in DOMAIN miningBlocks, Holds(miningBlocks[k].tl, t)
        PROVE  t \in InBlocks
    BY <1>3 DEF Holds, InBlocks
  <1>4. gpc = "lockBcToAdd" /\ Holds(hand.tl, t) => t \in InBlocks
    BY DEF Holds, InBlocks
  <1>5. ASSUME NEW k \in DOMAIN bc, Holds(bc[k].tl, t)
        PROVE  t \in MinedTxs
    BY <1>5 DEF Holds, MinedTxs
  <1>6. Holds(tl, t) => t \in {tl[i] : i \in DOMAIN tl}
    BY DEF Holds
  <1> QED BY <1>1, <1>2, <1>3, <1>4, <1>5, <1>6 DEF Kept

\* Each step leaves what is kept in its place, or takes it to the next.
LEMMA KeptStep ==
  ASSUME TypeOK, EchoInv, OneBlockInv, FitInv, CopyInv, KeptInv, [Next]_vars
  PROVE  KeptInv'
  <1> USE DEF shared, locks, queues, gvars, mvars, others
  <1>a. /\ tl \in Seq(Transaction) /\ mtl \in Seq(Transaction)
        /\ miningBlocks \in Seq(Block) /\ bc \in Seq(Block)
    BY DEF TypeOK, Chain
  <1>1. CASE Aside
    BY <1>1 DEF Aside, KeptInv, Kept
  <1>2. CASE LockBc
    <2>1. /\ UNCHANGED <<mtl, miningBlocks, bc>> /\ gpc = "lockBc" /\ hand \in Transaction
          /\ \/ UNCHANGED <<tl, accepted>>
             \/ tl' = Append(tl, hand) /\ accepted' = accepted \cup {hand}
      BY <1>2 DEF LockBc, TypeOK
    <2>2. \A i \in DOMAIN tl : i \in DOMAIN tl' /\ tl'[i] = tl[i]
      <3>1. CASE UNCHANGED tl
        BY <3>1
      <3>2. CASE tl' = Append(tl, hand)
        BY <1>a, <2>1, <3>2, AppendHolds
      <3> QED BY <2>1, <3>1, <3>2
    <2>3. \A t \in accepted' : t \in accepted \/ \E i \in DOMAIN tl' : tl'[i] = t
      BY <1>a, <2>1, AppendHolds
    <2>4. \A t \in accepted : Holds(tl, t) => Holds(tl', t)
      BY <2>2 DEF Holds
    <2> QED BY <2>1, <2>3, <2>4 DEF KeptInv, Kept, Holds
  <1>3. CASE PopBlock
    <2>1. /\ miningBlocks # << >> /\ miningBlocks' = Tail(miningBlocks)
          /\ hand' = Head(miningBlocks) /\ gpc = "mined" /\ gpc' = "lockBcToAdd"
          /\ UNCHANGED <<tl, mtl, bc, accepted>>
      BY <1>3 DEF PopBlock
    <2>2. \A k \in DOMAIN miningBlocks :
            \/ miningBlocks[k] = hand'
            \/ \E l \in DOMAIN miningBlocks' : miningBlocks'[l] = miningBlocks[k]
      BY <1>a, <2>1, TailHolds
    <2>3. ASSUME NEW t, NEW k \in DOMAIN miningBlocks, Holds(miningBlocks[k].tl, t)
          PROVE  Holds(hand'.tl, t) \/ \E l \in DOMAIN miningBlocks' : Holds(miningBlocks'[l].tl, t)
      <3>1. CASE miningBlocks[k] = hand'
        BY <2>3, <3>1
      <3>2. CASE \E l \in DOMAIN miningBlocks' : miningBlocks'[l] = miningBlocks[k]
        BY <2>3, <3>2
      <3> QED BY <2>2, <3>1, <3>2
    <2>4. ASSUME NEW t \in accepted PROVE Kept(t)'
      <3>1. Kept(t) /\ gpc # "lockBcToAdd"
        BY <2>1 DEF KeptInv
      <3>2. CASE \E k \in DOMAIN miningBlocks : Holds(miningBlocks[k].tl, t)
        BY <2>1, <2>3, <3>2 DEF Kept, Holds
      <3>3. CASE Holds(tl, t) \/ Holds(mtl, t) \/ \E k \in DOMAIN bc : Holds(bc[k].tl, t)
        BY <2>1, <3>3 DEF Kept, Holds
      <3> QED BY <3>1, <3>2, <3>3 DEF Kept
    <2> QED BY <2>1, <2>4 DEF KeptInv
  <1>4. CASE LockBcToAdd
    <2>1. /\ bc' = Append(bc, hand) /\ hand \in Block /\ gpc' = "unlockBcAdded"
          /\ UNCHANGED <<tl, mtl, miningBlocks, accepted>>
      BY <1>4 DEF LockBcToAdd, FitInv, Fits, TypeOK
    <2>2. \A k \in DOMAIN bc : k \in DOMAIN bc' /\ bc'[k] = bc[k]
      BY <1>a, <2>1, AppendHolds
    <2>3. \E k \in DOMAIN bc' : bc'[k] = hand
      BY <1>a, <2>1, AppendHolds
    <2>4. \A t : Holds(hand.tl, t) \/ (\E k \in DOMAIN bc : Holds(bc[k].tl, t))
            => \E k \in DOMAIN bc' : Holds(bc'[k].tl, t)
      BY <2>2, <2>3
    <2> QED BY <2>1, <2>4 DEF KeptInv, Kept, Holds
  <1>5. CASE SeePending \/ PointToLastBlock \/ ReleaseLastBlock \/ CopyHash
             \/ ReleasePending \/ ReleaseRemoved
    <2>1. UNCHANGED <<tl, mtl, miningBlocks, bc, gpc, hand, accepted>>
      BY <1>5 DEF SeePending, PointToLastBlock, ReleaseLastBlock, CopyHash,
                  ReleasePending, ReleaseRemoved
    <2> QED BY <2>1 DEF KeptInv, Kept, Holds
  <1>6. CASE CopyPending
    <2>1. mtl = << >> /\ UNCHANGED <<tl, miningBlocks, bc, gpc, hand, accepted>>
      BY <1>6 DEF CopyPending, CopyInv
    <2>2. \A t : ~ Holds(mtl, t)
      BY <2>1 DEF Holds
    <2> QED BY <2>1, <2>2 DEF KeptInv, Kept, Holds
  <1>7. CASE RemovePending
    <2>1. /\ tl' = RemoveTxsList(tl, 0, Len(mtl)) /\ Len(mtl) \in Nat
          /\ \A i \in DOMAIN mtl : mtl[i] = tl[i]
          /\ UNCHANGED <<mtl, miningBlocks, bc, gpc, hand, accepted>>
      BY <1>7, <1>a DEF RemovePending, CopyInv
    <2>2. \A i \in DOMAIN tl : i > Len(mtl) => \E j \in DOMAIN tl' : tl'[j] = tl[i]
      BY <1>a, <2>1, RemoveTxsListType
    <2>3. \A i \in DOMAIN tl : i > Len(mtl) \/ i \in DOMAIN mtl
      BY <1>a
    <2>4. \A t : Holds(tl, t) => Holds(tl', t) \/ Holds(mtl, t)
      BY <2>1, <2>2, <2>3 DEF Holds
    <2> QED BY <2>1, <2>4 DEF KeptInv, Kept, Holds
  <1>8. CASE PushBlock
    <2> DEFINE b == SealBlock(mprev, mtl, mtime)
    <2>1. /\ miningBlocks' = Append(miningBlocks, b)
          /\ UNCHANGED <<tl, bc, gpc, hand, accepted>>
      BY <1>8 DEF PushBlock
    <2>2. b \in Block /\ b.tl = mtl
      BY SealBlockType DEF TypeOK, SealBlock
    <2> HIDE DEF b
    <2>3. \A k \in DOMAIN miningBlocks :
            k \in DOMAIN miningBlocks' /\ miningBlocks'[k] = miningBlocks[k]
      BY <1>a, <2>1, <2>2, AppendHolds
    <2>4. \E k \in DOMAIN miningBlocks' : miningBlocks'[k] = b
      BY <1>a, <2>1, <2>2, AppendHolds
    <2>5. \A t : Holds(mtl, t) \/ (\E k \in DOMAIN miningBlocks : Holds(miningBlocks[k].tl, t))
            => \E k \in DOMAIN miningBlocks' : Holds(miningBlocks'[k].tl, t)
      BY <2>2, <2>3, <2>4
    <2> QED BY <2>1, <2>5 DEF KeptInv, Kept, Holds
  <1> QED BY <1>1, <1>2, <1>3, <1>4, <1>5, <1>6, <1>7, <1>8, AloneSteps DEF Mining

\* On a node whose peers send no chains, where mining's sleep outlasts gestion's work on
\* a block and the clock has passed the last block it starts from, a transaction that was
\* made pending is pending, in a block on its way or in the chain: whatever is posted,
\* sent and lost, mining cuts exactly what it copied and gestion refuses none of its blocks.
THEOREM AcceptedIsKept ==
  ASSUME RemoteChains = {}, SleepIsLong, \A c \in InitChains : GetLastBlock(c).time = 0
  PROVE  Spec => []AcceptedNeverLost
  <1>1. Init => OneBlockInv /\ FitInv /\ CopyInv /\ KeptInv
    BY DEF Init, OneBlockInv, FitInv, CopyInv, KeptInv
  <1>2. TypeOK /\ TypeOK' /\ SnapshotsNeverAhead /\ EchoInv /\ [Next]_vars => EchoInv'
    BY EchoStep
  <1>3. TypeOK /\ TypeOK' /\ EchoInv /\ OneBlockInv /\ FitInv /\ CopyInv /\ KeptInv
          /\ [Next]_vars
          => OneBlockInv' /\ FitInv' /\ CopyInv' /\ KeptInv'
    BY OneBlockStep, FitStep, CopyStep, KeptStep
  <1> QED BY EchoInit, <1>1, <1>2, <1>3, KeptIsNotLost, TypeCorrect, NeverBehindItself, PTL
          DEF Spec

-------------------------------------------------------------------------------
(* Chains: every chain that grows from a genesis block.                    *)

\* What every such chain is: it begins with the genesis block, and holds only the
\* transactions blocks may hold.
GrowthInv ==
  /\ chain \in Chain /\ Len(chain) > 0
  /\ chain[1] = CreateGenesis(Owner, Minted, Birth)
  /\ \A i \in 2 .. Len(chain) : chain[i].tl \in TxLists

\* What may be appended is a block, of a list a block may hold.
LEMMA BlocksType ==
  ASSUME NEW c \in Chain, Len(c) > 0, NEW b \in Blocks(c)
  PROVE  b \in Block /\ b.tl \in TxLists
  <1>1. GetLastBlock(c).blockHash \in Hash
    <2>1. c[Len(c)] \in Block
      BY ElementOfSeq, LenProperties DEF Chain
    <2> QED BY <2>1 DEF GetLastBlock, Block
  <1>2. PICK prev \in {GetLastBlock(c).blockHash} \cup OtherHashes, list \in TxLists,
             time \in Times :
          \/ b = SealBlock(prev, list, time)
          \/ \E hash \in OtherHashes : b = [SealBlock(prev, list, time) EXCEPT !.blockHash = hash]
    BY DEF Blocks
  <1>3. prev \in Hash /\ list \in Seq(Transaction) /\ time \in Nat /\ OtherHashes \subseteq Hash
    BY <1>1, ChainsAssumption
  <1>4. SealBlock(prev, list, time) \in Block
    BY <1>3, SealBlockType
  <1>5. SealBlock(prev, list, time).tl = list
    BY DEF SealBlock
  <1> QED BY <1>2, <1>3, <1>4, <1>5 DEF Block

\* The genesis block is a block, and holds one transaction.
LEMMA GenesisType ==
  /\ CreateGenesis(Owner, Minted, Birth) \in Block
  /\ CreateGenesis(Owner, Minted, Birth).tl
       = <<[sender |-> "", receiver |-> Owner, amount |-> Minted, time |-> Birth]>>
  <1> DEFINE t    == [sender |-> "", receiver |-> Owner, amount |-> Minted, time |-> Birth]
             none == << >>
             list == <<t>>
  <1>1. t \in Transaction
    BY ChainsAssumption DEF Transaction
  <1>2. none \in Hash /\ list \in Seq(Transaction) /\ Birth \in Nat
    <2>1. none \in Hash
      BY DEF Hash
    <2> HIDE DEF t
    <2>2. <<t>> \in Seq(Transaction)
      BY <1>1
    <2> QED BY <2>1, <2>2, ChainsAssumption DEF t
  <1>3. CreateGenesis(Owner, Minted, Birth) = SealBlock(none, list, Birth)
    BY DEF CreateGenesis
  <1> HIDE DEF none, list
  <1>4. SealBlock(none, list, Birth) \in Block
    BY <1>2, SealBlockType
  <1>5. SealBlock(none, list, Birth).tl = list
    BY <1>2 DEF SealBlock
  <1> QED BY <1>3, <1>4, <1>5, Zenon DEF list

\* It holds of the genesis block, and of every chain that is one block longer.
LEMMA GrowthInvStart == Start => GrowthInv
  <1> SUFFICES ASSUME Start PROVE GrowthInv
    OBVIOUS
  <1> DEFINE g == CreateGenesis(Owner, Minted, Birth)
  <1>1. g \in Block /\ chain = <<g>>
    BY GenesisType DEF Start, InitBlockchain
  <1> HIDE DEF g
  <1>2. chain \in Seq(Block) /\ Len(chain) = 1 /\ chain[1] = g
    BY <1>1
  <1> QED BY <1>2 DEF GrowthInv, Chain, g

LEMMA GrowthInvStep == GrowthInv /\ [Grow]_chain => GrowthInv'
  <1>1. ASSUME GrowthInv, Grow PROVE GrowthInv'
    <2>1. PICK b \in Blocks(chain) : chain' = Append(chain, b)
      BY <1>1 DEF Grow
    <2>2. b \in Block /\ b.tl \in TxLists
      BY <1>1, BlocksType DEF GrowthInv
    <2>3. /\ chain' \in Seq(Block) /\ Len(chain') = Len(chain) + 1 /\ Len(chain) \in Nat
          /\ chain'[Len(chain) + 1] = b
          /\ \A i \in 1 .. Len(chain) : chain'[i] = chain[i]
      BY <1>1, <2>1, <2>2, AppendProperties DEF GrowthInv, Chain
    <2> QED BY <1>1, <2>2, <2>3 DEF GrowthInv, Chain
  <1>2. ASSUME GrowthInv, UNCHANGED chain PROVE GrowthInv'
    BY <1>2 DEF GrowthInv
  <1> QED BY <1>1, <1>2

LEMMA GrowthInvHolds == Growth => []GrowthInv
  BY GrowthInvStart, GrowthInvStep, PTL DEF Growth

\* In every chain that grows, checkBlockchain accepts what is an unbroken line of blocks,
\* and nothing else.
THEOREM CheckedIsUnbroken == Growth => []CheckIsUnbroken
  <1>1. ASSUME GrowthInv PROVE CheckIsUnbroken
    <2>1. \A c, i : Line!History(c, i) = FC!History(c, i)
      BY Zenon DEF Line!History, FC!History
    <2>2. Line!Unbroken(chain) <=> FC!Unbroken(chain)
      BY <2>1, Zenon DEF Line!Unbroken, FC!Unbroken
    <2>3. CheckBlockchain(chain)
            <=> /\ FC!Unbroken(chain)
                /\ \A i \in 2 .. Len(chain) : chain[i].previusHash = FC!History(chain, i - 1)
      BY <1>1, CheckIsUnbrokenLine DEF GrowthInv
    <2> QED BY <2>1, <2>2, <2>3, Zenon DEF CheckIsUnbroken
  <1> QED BY <1>1, GrowthInvHolds, PTL

\* addBlock and checkBlockchain never disagree about a block that follows such a chain.
THEOREM AddedAgreesWithChecked == Growth => []AddAgreesWithCheck
  <1>1. ASSUME GrowthInv PROVE AddAgreesWithCheck
    <2> SUFFICES ASSUME CheckBlockchain(chain), NEW b \in Blocks(chain)
                 PROVE  AddBlockOk(chain, b) <=> CheckBlockchain(Append(chain, b))
      BY DEF AddAgreesWithCheck
    <2>1. chain \in Chain /\ Len(chain) > 0
      BY <1>1 DEF GrowthInv
    <2>2. b \in Block
      BY <2>1, BlocksType
    <2> QED BY <2>1, <2>2, AddBlockIsCheck
  <1> QED BY <1>1, GrowthInvHolds, PTL

\* The positions of the transactions of a chain.
LEMMA TxsAt ==
  ASSUME NEW c, NEW first
  PROVE  \A p : p \in TxsOf(c, first)
                  <=> \E i \in first .. Len(c) : \E j \in DOMAIN c[i].tl : p = <<i, j>>
  BY DEF TxsOf

\* Beside such a chain, updateTlWithBc keeps of every pending list what the chain does
\* not hold and the sender can pay, each once and in order.
THEOREM UpdatedIsFiltered == Growth => []UpdateIsFilter
  <1>1. ASSUME GrowthInv PROVE UpdateIsFilter
    <2> SUFFICES ASSUME NEW list \in PendingLists
                 PROVE  LET kept  == UpdateTlWithBc(list, chain)
                            stays == {i \in DOMAIN list :
                              /\ \A k \in 2 .. Len(chain) : \A j \in DOMAIN chain[k].tl :
                                   chain[k].tl[j] # list[i]
                              /\ AmountMoney(list[i].sender, chain) >= list[i].amount}
                        IN  \E at \in [DOMAIN kept -> stays] :
                              /\ \A k \in DOMAIN kept : kept[k] = list[at[k]]
                              /\ \A k, l \in DOMAIN kept : k < l => at[k] < at[l]
                              /\ \A i \in stays : \E k \in DOMAIN kept : at[k] = i
      BY Zenon DEF UpdateIsFilter
    <2>1. list \in Seq(Transaction)
      BY ChainsAssumption
    <2>2. ASSUME NEW t
          PROVE  FindTxsInBc(t, chain)
                   <=> \E k \in 2 .. Len(chain) : \E j \in DOMAIN chain[k].tl :
                         chain[k].tl[j] = t
      <3>1. \A p : p \in TxsOf(chain, 2)
                     <=> \E k \in 2 .. Len(chain) : \E j \in DOMAIN chain[k].tl : p = <<k, j>>
        BY TxsAt
      <3>2. ASSUME NEW p \in TxsOf(chain, 2), chain[p[1]].tl[p[2]] = t
            PROVE  \E k \in 2 .. Len(chain) : \E j \in DOMAIN chain[k].tl : chain[k].tl[j] = t
        <4>1. PICK k \in 2 .. Len(chain) : \E j \in DOMAIN chain[k].tl : p = <<k, j>>
          BY <3>1
        <4>2. PICK j \in DOMAIN chain[k].tl : p = <<k, j>>
          BY <4>1
        <4>3. p[1] = k /\ p[2] = j
          BY <4>2
        <4> QED BY <3>2, <4>3
      <3>3. ASSUME NEW k \in 2 .. Len(chain), NEW j \in DOMAIN chain[k].tl,
                   chain[k].tl[j] = t
            PROVE  \E p \in TxsOf(chain, 2) : chain[p[1]].tl[p[2]] = t
        <4> DEFINE p == <<k, j>>
        <4>1. p[1] = k /\ p[2] = j
          OBVIOUS
        <4>2. p \in TxsOf(chain, 2)
          BY <3>1
        <4> HIDE DEF p
        <4>3. chain[p[1]].tl[p[2]] = t
          BY <3>3, <4>1
        <4> QED BY <4>2, <4>3
      <3> QED BY <3>2, <3>3, Zenon DEF FindTxsInBc
    <2> DEFINE kept  == UpdateTlWithBc(list, chain)
               stays == {i \in DOMAIN list :
                           /\ \A k \in 2 .. Len(chain) : \A j \in DOMAIN chain[k].tl :
                                chain[k].tl[j] # list[i]
                           /\ AmountMoney(list[i].sender, chain) >= list[i].amount}
    <2>3. stays = Wanted(list, chain)
      BY <2>2 DEF Wanted, EnoughMoney
    <2>4. PICK at \in [DOMAIN kept -> Wanted(list, chain)] :
            /\ \A k \in DOMAIN at : kept[k] = list[at[k]]
            /\ \A k, l \in DOMAIN at : k < l => at[k] < at[l]
            /\ \A i \in Wanted(list, chain) : \E k \in DOMAIN at : at[k] = i
      BY <2>1, UpdateFilters
    <2> HIDE DEF kept, stays
    <2>5. at \in [DOMAIN kept -> stays] /\ DOMAIN at = DOMAIN kept
      BY <2>3, <2>4
    <2> QED BY <2>3, <2>4, <2>5 DEF kept, stays
  <1> QED BY <1>1, GrowthInvHolds, PTL

-------------------------------------------------------------------------------
(* Money.                                                                  *)

\* Transfers amt between holders, at the places P: what the holders in A gained, less what
\* they gave.
Net(P, amt, snd, rcv, A) ==
  SumFunctionOnSet(amt, {p \in P : rcv[p] \in A}) - SumFunctionOnSet(amt, {p \in P : snd[p] \in A})

\* What two groups have together is what each has.
LEMMA NetAdds ==
  ASSUME NEW P, IsFiniteSet(P), NEW amt \in [P -> Nat], NEW snd, NEW rcv,
         NEW A, NEW B, A \cap B = {}
  PROVE  /\ Net(P, amt, snd, rcv, A) \in Int /\ Net(P, amt, snd, rcv, B) \in Int
         /\ Net(P, amt, snd, rcv, A \cup B) = Net(P, amt, snd, rcv, A) + Net(P, amt, snd, rcv, B)
  <1> DEFINE Total(Q) == SumFunctionOnSet(amt, Q)
             to(C) == {p \in P : rcv[p] \in C}
             by(C) == {p \in P : snd[p] \in C}
             net(C) == Total(to(C)) - Total(by(C))
  <1>1. ASSUME NEW Q \in SUBSET P PROVE IsFiniteSet(Q) /\ Total(Q) \in Int
    <2>1. IsFiniteSet(Q) /\ \A p \in Q : amt[p] \in Int
      BY FS_Subset
    <2> QED BY <2>1, SumType
  <1>2. ASSUME NEW Q \in SUBSET P, NEW R \in SUBSET P, Q \cap R = {}
        PROVE  Total(Q \cup R) = Total(Q) + Total(R)
    <2>1. IsFiniteSet(Q) /\ IsFiniteSet(R) /\ \A p \in Q \cup R : amt[p] \in Int
      BY <1>1
    <2> QED BY <1>2, <2>1, SumUnion
  <1>3. ASSUME NEW C PROVE to(C) \in SUBSET P /\ by(C) \in SUBSET P
    OBVIOUS
  <1>4. /\ to(A \cup B) = to(A) \cup to(B) /\ to(A) \cap to(B) = {}
        /\ by(A \cup B) = by(A) \cup by(B) /\ by(A) \cap by(B) = {}
    OBVIOUS
  <1> HIDE DEF to, by, Total
  <1>5. /\ Total(to(A \cup B)) = Total(to(A)) + Total(to(B))
        /\ Total(by(A \cup B)) = Total(by(A)) + Total(by(B))
    BY <1>2, <1>3, <1>4
  <1>6. /\ Total(to(A)) \in Int /\ Total(to(B)) \in Int
        /\ Total(by(A)) \in Int /\ Total(by(B)) \in Int
    BY <1>1, <1>3
  <1>7. net(A) \in Int /\ net(B) \in Int /\ net(A \cup B) = net(A) + net(B)
    BY <1>5, <1>6
  <1> QED BY <1>7 DEF Net, Total, to, by

\* If nobody is in debt, no group is.
LEMMA GroupSolvent ==
  ASSUME NEW P, IsFiniteSet(P), NEW amt \in [P -> Nat], NEW snd, NEW rcv,
         NEW K, IsFiniteSet(K), \A b \in K : Net(P, amt, snd, rcv, {b}) >= 0
  PROVE  \A A \in SUBSET K : Net(P, amt, snd, rcv, A) \in Nat
  <1> DEFINE net(A) == Net(P, amt, snd, rcv, A)
             G == {A \in SUBSET K : net(A) \in Nat}
  <1>1. {} \in G
    <2>1. {p \in P : rcv[p] \in {}} = {} /\ {p \in P : snd[p] \in {}} = {}
      OBVIOUS
    <2>2. net({}) = SumFunctionOnSet(amt, {}) - SumFunctionOnSet(amt, {})
      BY <2>1, Zenon DEF Net
    <2> HIDE DEF net
    <2> QED BY <2>2, SumEmpty
  <1>2. ASSUME NEW A \in G, NEW b \in K \ A PROVE A \cup {b} \in G
    <2>1. A \cap {b} = {}
      OBVIOUS
    <2>2. net(A) \in Int /\ net({b}) \in Int /\ net(A \cup {b}) = net(A) + net({b})
      BY <2>1, NetAdds
    <2>3. net({b}) >= 0 /\ net(A) \in Nat
      OBVIOUS
    <2> HIDE DEF net
    <2> QED BY <2>2, <2>3
  <1>3. G \in SUBSET (SUBSET K)
    OBVIOUS
  <1> HIDE DEF G
  <1>4. G = SUBSET K
    BY <1>1, <1>2, <1>3, SetGrows
  <1> QED BY <1>4 DEF G

\* A chain holds finitely many transactions.
LEMMA TxsOfFinite ==
  ASSUME NEW c \in Chain, NEW first \in Nat \ {0}
  PROVE  IsFiniteSet(TxsOf(c, first))
  <1> DEFINE here(i) == {<<i, j>> : j \in DOMAIN c[i].tl}
             those(J) == UNION {here(i) : i \in J}
             I == first .. Len(c)
             G == {J \in SUBSET I : IsFiniteSet(those(J))}
  <1>1. Len(c) \in Nat /\ \A i \in I : c[i].tl \in Seq(Transaction)
    <2>1. \A i \in 1 .. Len(c) : c[i] \in Block
      BY ElementOfSeq DEF Chain
    <2> QED BY <2>1, LenProperties DEF Chain, Block
  <1>2. ASSUME NEW i \in I PROVE IsFiniteSet(here(i))
    <2>1. IsFiniteSet({i}) /\ IsFiniteSet(1 .. Len(c[i].tl))
      <3>1. Len(c[i].tl) \in Nat
        <4>1. c[i].tl \in Seq(Transaction)
          BY <1>1
        <4> HIDE DEF I
        <4> QED BY <4>1, LenProperties
      <3>2. IsFiniteSet({i})
        BY FS_Singleton
      <3>3. IsFiniteSet(1 .. Len(c[i].tl))
        <4> DEFINE n == Len(c[i].tl)
        <4>1. n \in Nat
          BY <3>1
        <4> HIDE DEF n
        <4>2. IsFiniteSet(1 .. n)
          BY <4>1, FS_Interval
        <4> QED BY <4>2 DEF n
      <3> QED BY <3>2, <3>3
    <2> DEFINE D == 1 .. Len(c[i].tl)
    <2>2. DOMAIN c[i].tl = D
      BY <1>1, LenProperties
    <2>3. here(i) \in SUBSET ({i} \X D)
      BY <2>2
    <2>4. IsFiniteSet({i} \X D)
      <3> HIDE DEF D
      <3>1. IsFiniteSet({i}) /\ IsFiniteSet(D)
        BY <2>1 DEF D
      <3> QED BY <3>1, FS_Product
    <2> HIDE DEF here, D
    <2> QED BY <2>3, <2>4, FS_Subset
  <1>3. {} \in G
    <2>1. those({}) = {}
      OBVIOUS
    <2> QED BY <2>1, FS_EmptySet
  <1>4. ASSUME NEW J \in G, NEW x \in I \ J PROVE J \cup {x} \in G
    <2>1. those(J \cup {x}) = those(J) \cup here(x)
      <3> HIDE DEF here
      <3> QED OBVIOUS
    <2>2. IsFiniteSet(those(J)) /\ IsFiniteSet(here(x))
      BY <1>2
    <2>3. IsFiniteSet(those(J) \cup here(x))
      <3> HIDE DEF those, here
      <3> QED BY <2>2, FS_Union
    <2> QED BY <2>1, <2>3
  <1>5. G \in SUBSET (SUBSET I) /\ IsFiniteSet(I)
    BY <1>1, FS_Interval
  <1> HIDE DEF G, I
  <1>6. G = SUBSET I
    BY <1>3, <1>4, <1>5, SetGrows
  <1>7. IsFiniteSet(those(I))
    BY <1>6 DEF G
  <1> QED BY <1>7, Zenon DEF TxsOf, I

\* Where nobody is in debt, enoughMoney lets an address pay what it and the keys it begins
\* have: their funds are what amountMoney counts modulo the width, and no more than was
\* minted, since the keys of all others have no less than nothing.
THEOREM JudgedByFunds == Growth => []JudgesByFunds
  <1>1. ASSUME GrowthInv PROVE JudgesByFunds
    <2> DEFINE none == ""
               P == TxsOf(chain, 1)
               M == Modulus
               K == Address \ {none}
               amt == [p \in P |-> chain[p[1]].tl[p[2]].amount]
               snd == [p \in P |-> chain[p[1]].tl[p[2]].sender]
               rcv == [p \in P |-> chain[p[1]].tl[p[2]].receiver]
               net(A) == Net(P, amt, snd, rcv, A)
    <2> SUFFICES ASSUME MintedIn < M, \A b \in K : Funds({b}) >= 0,
                        NEW a \in Address, NEW x \in 0 .. M - 1
                 PROVE  EnoughMoney(a, x, chain) <=> x <= Funds({b \in Address : Matches(a, b)})
      BY Zenon DEF JudgesByFunds
    <2>16. /\ none \in Address /\ IsFiniteSet(Address)
           /\ \A b \in Address \ {none} : <<none, b>> \in PrefixOf /\ <<b, none>> \notin PrefixOf
      BY ChainsAssumption, KeysAssumption, Zenon
    <2>17. MintedIn = SumFunctionOnSet([p \in P |-> chain[p[1]].tl[p[2]].amount],
                                       {p \in P : chain[p[1]].tl[p[2]].sender = none})
      BY Zenon DEF MintedIn
    <2> HIDE DEF none
    <2> DEFINE F == {b \in Address : Matches(a, b)}
    <2>1. M \in Nat \ {0} /\ IsFiniteSet(P) /\ IsFiniteSet(K)
      <3>1. IsFiniteSet(K)
        BY <2>16, FS_Subset
      <3>2. IsFiniteSet(P)
        BY <1>1, TxsOfFinite DEF GrowthInv
      <3> QED BY <3>1, <3>2, LedgerAssumption
    <2>2. ASSUME NEW p \in P
          PROVE  amt[p] \in Nat /\ snd[p] \in Address /\ rcv[p] \in Address
      <3>1. PICK i \in 1 .. Len(chain) : \E j \in DOMAIN chain[i].tl : p = <<i, j>>
        BY TxsAt
      <3>2. PICK j \in DOMAIN chain[i].tl : p = <<i, j>>
        BY <3>1
      <3>3. /\ amt[p] = chain[i].tl[j].amount /\ snd[p] = chain[i].tl[j].sender
            /\ rcv[p] = chain[i].tl[j].receiver
        BY <3>2
      <3>4. chain[i] \in Block
        BY <1>1, ElementOfSeq DEF GrowthInv, Chain
      <3>5. chain[i].tl[j] \in Transaction
        BY <3>4 DEF Block
      <3> QED BY <3>3, <3>5 DEF Transaction
    <2>3. amt \in [P -> Nat]
      BY <2>2
    <2>4. \A A : Funds(A) = net(A)
      <3> SUFFICES ASSUME NEW A PROVE Funds(A) = net(A)
        OBVIOUS
      <3>1. /\ {p \in P : rcv[p] \in A} = {p \in P : chain[p[1]].tl[p[2]].receiver \in A}
            /\ {p \in P : snd[p] \in A} = {p \in P : chain[p[1]].tl[p[2]].sender \in A}
        OBVIOUS
      <3> QED BY <3>1, ZenonT(30) DEF Funds, Net
    <2>5. MintedIn = SumFunctionOnSet(amt, {p \in P : snd[p] \in {none}})
      <3>1. {p \in P : snd[p] \in {none}} = {p \in P : chain[p[1]].tl[p[2]].sender = none}
        OBVIOUS
      <3> QED BY <2>17, <3>1, Zenon
    <2>6. AmountMoney(a, chain) = net(F) % M
      <3>1. /\ {p \in P : rcv[p] \in F} = {p \in P : Matches(a, chain[p[1]].tl[p[2]].receiver)}
            /\ {p \in P : snd[p] \in F} = {p \in P : Matches(a, chain[p[1]].tl[p[2]].sender)}
        <4>1. \A p \in P : /\ rcv[p] = chain[p[1]].tl[p[2]].receiver /\ rcv[p] \in Address
                           /\ snd[p] = chain[p[1]].tl[p[2]].sender /\ snd[p] \in Address
          BY <2>2
        <4> HIDE DEF snd, rcv, P
        <4> QED BY <4>1
      <3> QED BY <3>1, Zenon DEF AmountMoney, Net
    <2>7. IsFiniteSet({p \in P : snd[p] \in {none}}) /\ IsFiniteSet({p \in P : rcv[p] \in {none}})
      <3> HIDE DEF P
      <3> QED BY <2>1, FS_Subset
    <2> HIDE DEF P, M, amt, snd, rcv, F, net
    <2>8. \A A \in SUBSET K : net(A) \in Nat
      <3>1. \A b \in K : Net(P, amt, snd, rcv, {b}) >= 0
        BY <2>4, Zenon DEF net
      <3> HIDE DEF K
      <3>2. \A A \in SUBSET K : Net(P, amt, snd, rcv, A) \in Nat
        BY <2>1, <2>3, <3>1, GroupSolvent
      <3> QED BY <3>2 DEF net
    <2>9. ASSUME NEW A, NEW B, A \cap B = {}
          PROVE  net(A) \in Int /\ net(B) \in Int /\ net(A \cup B) = net(A) + net(B)
      <3>1. IsFiniteSet(P) /\ amt \in [P -> Nat] /\ A \cap B = {}
        BY <2>1, <2>3, <2>9
      <3>2. /\ Net(P, amt, snd, rcv, A) \in Int /\ Net(P, amt, snd, rcv, B) \in Int
            /\ Net(P, amt, snd, rcv, A \cup B)
                 = Net(P, amt, snd, rcv, A) + Net(P, amt, snd, rcv, B)
        BY <3>1, NetAdds
      <3> QED BY <3>2, Zenon DEF net
    <2>10. net(Address) = 0
      <3>1. {p \in P : rcv[p] \in Address} = P /\ {p \in P : snd[p] \in Address} = P
        BY <2>2
      <3>2. net(Address) = SumFunctionOnSet(amt, P) - SumFunctionOnSet(amt, P)
        BY <3>1, Zenon DEF net, Net
      <3>3. SumFunctionOnSet(amt, P) \in Int
        <4>1. \A p \in P : amt[p] \in Int
          BY <2>3
        <4> QED BY <2>1, <4>1, SumType
      <3> QED BY <3>2, <3>3
    <2>11. net(F) \in 0 .. M - 1
      <3>1. CASE a = none
        <4>1. F = Address
          BY <2>16, <3>1 DEF F, Matches
        <4> QED BY <2>1, <2>10, <4>1
      <3>2. CASE a # none
        <4>1. F \in SUBSET K
          BY <2>16, <3>2 DEF F, Matches
        <4> DEFINE R == K \ F
                   got == SumFunctionOnSet(amt, {p \in P : rcv[p] \in {none}})
                   gave == SumFunctionOnSet(amt, {p \in P : snd[p] \in {none}})
        <4>2. F \cup R = K /\ F \cap R = {} /\ R \in SUBSET K
          BY <4>1
        <4>3. K \cup {none} = Address /\ K \cap {none} = {}
          BY <2>16
        <4>4. net({none}) = got - gave
          BY DEF net, Net
        <4>5. got \in Nat /\ gave \in Nat
          <5>1. \A p \in P : amt[p] \in Nat
            BY <2>3
          <5> QED BY <2>7, <5>1, SumNat
        <4>6. gave < M
          BY <2>5
        <4> HIDE DEF K, R, got, gave
        <4>7. net(K) = net(F) + net(R) /\ net(F) \in Nat /\ net(R) \in Nat
          BY <2>8, <2>9, <4>1, <4>2
        <4>8. net(K) + net({none}) = 0
          BY <2>9, <2>10, <4>3
        <4> QED BY <2>1, <4>4, <4>5, <4>6, <4>7, <4>8
      <3> QED BY <3>1, <3>2
    <2>12. AmountMoney(a, chain) = net(F)
      <3> DEFINE n == net(F)
      <3>1. n \in 0 .. M - 1 /\ M \in Nat \ {0}
        BY <2>1, <2>11
      <3> HIDE DEF n
      <3>2. n = M * 0 + n
        BY <3>1
      <3>3. n % M = n
        BY <3>1, <3>2
      <3> QED BY <2>6, <3>3, Zenon DEF n
    <2>13. EnoughMoney(a, x, chain) <=> net(F) >= x
      BY <2>12, Zenon DEF EnoughMoney
    <2>14. Funds({b \in Address : Matches(a, b)}) = net(F)
      BY <2>4, Zenon DEF F
    <2>15. net(F) \in Int /\ x \in Int
      BY <2>1, <2>11 DEF M
    <2> QED BY <2>13, <2>14, <2>15
  <1> QED BY <1>1, GrowthInvHolds, PTL

===============================================================================
