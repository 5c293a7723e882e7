# A TLA+ model of Tek

Tek (`src/Projet`) is a peer-to-peer currency in C: every program is a node that keeps a
chain of blocks, may mine, and may serve an HTTP API. This directory models the parts of
the node where threads, messages and money meet, checks them with TLC and proves the
central results with TLAPS. File names below are relative to `src/Projet`.

## 1. Inventory

| Component | State | Operations | Talks to | Hard part | What makes it correct |
|---|---|---|---|---|---|
| Ledger data and rules (`Block/transactions.c`, `block.c`, `blockchain.c`) | chain, pending list | `hasSendedTxs`, `addTx`, `removeTxsList`, `getHash`, `addBlock`, `checkBlockchain`, `amountMoney`, `enoughMoney`, `updateTlWithBc` | called by gestion and API | unsigned money, tests between neighbours in two separate loops | the tests accept exactly unbroken chains; who is not in debt can pay what they have and no more; the filter keeps what it should |
| Management node (`Noeud_de_gestion/gestion.c`) | `bc_m`, `txs_temp_m` and their mutexes, three queues, save file | loop of `gestion`; threads `mining`, `send_data`, `save_worker` | queues from network, API, miner; queue to network | two mutexes taken in both orders, a list cut by position seconds after it was copied, a pointer used after the unlock, messages late, repeated or lost | the chain is unbroken and only ever replaced by a better one; nothing pending is doubled or lost; no deadlock |
| Known servers and gossip (`Network/network_tools.c`, `client.c`, `network.c`, `server.c`) | `KnownServers`, `status`, queue of lists | join, share, note, send and prune | other nodes, over TCP | several readers at once, crashes, stale lists, a walk that removes while it counts | each server listed once, knowledge kept, only unreachable servers removed, everyone found |
| Transport of a message (`message.c`, `client.c` `Send`, `server.c` `read_thread`) | one connection | framing, partial sends and reads | gossip, gestion | partial reads, a length that is too long, connection lost midway, no time limit on reads | a message is delivered whole and once, or not at all |
| Queues (`Tools/queue`) | ring of elements, two semaphores | push, pop, isEmpty, destroy | every thread | semaphore order, isEmpty then pop | FIFO, nothing lost, the only consumer never waits in pop |
| API server (`API/API.c`) | accept loop, workers, descriptors | list, post | bc_m, txs_temp_m, api_txs | argument shared between workers, descriptors used again, clients that leave | each connection is served by its own worker, answered and closed; no request is posted twice |
| Mining pool (`Noeud_de_minage/minage.c`) | flag, one result per thread | `mine_from_string`, `thread_mining`, `testproof` | mining | flag read without a lock, results of threads that found nothing | what is returned is a proof; something is returned if there is one |
| Start and end (`main.c`, `network.c`, `server.c`) | `status`, threads | LaunchTEK, Network, Server, freeServer | all | waits on a status that can be overwritten or missed; threads that were never created | what is freed was joined; gestion serves only where Server listens; the program ends, serves, or hangs only where it is known to |
| Persistence (`blockchain.c`) | `bcsave.data` | save, load | gestion | a stop inside a save, a load that checks nothing | a start with `-l` takes up the chain saved last |
| Codec and JSON (`Block/*.c`) | none | to bytes and back, to hashed texts, to JSON | ledger, transport, API | offsets recomputed while decoding, texts without separators, sizes reckoned item by item | decode inverts encode; different blocks hash different texts; texts fit the memory allocated, or exceed it by what is known |
| SHA-256, accounts and RSA, build files | none | | | | not modelled, see section 6 |

`PROJECT.json` gives the status of each ("modelled", "partly", "not_modelled") and, under
"hazards", every place where this code is hard to test, at its line, with the property
that covers it or the reason why none does yet.

## 2. Modules

| Module | What it is |
|---|---|
| `Lists` | what is left of a list when some of its entries go |
| `Ledger` | the data and the pure functions over chains and pending lists |
| `ForkChoice` | abstract specification: what a node promises about the chain it keeps, saves and sends |
| `Gestion` | one node after start-up: gestion, mining, send_data, save_worker, an API worker, two mutexes, queues, peers |
| `KnownServers` | the list of known servers and the walk of `SendMessage`, as pure operators |
| `Gossip` | the network threads of several nodes over those lists |
| `SharedQueue`, `Fifo` | the ring and semaphores that carry every queue; what a queue promises |
| `Bytes` | memory as `memcpy` sees it, words in it |
| `Transport`, `Datagram` | one message over one connection, from `SendMessageForOneClient` to the end of `read_thread`; what the rest of the program takes that for |
| `Codec` | transactions, blocks and chains to bytes, hashed texts and JSON |
| `Chains` | chains grown block by block, sound or tampered with, and what the functions of `Ledger` are for on them |
| `Encodings` | those chains in the terms of `Codec`, and what its conversions are for |
| `Lifecycle` | the program from its start to its end, and `bcsave.data` across stops |
| `MiningPool` | `mine_from_string` and its threads |
| `ApiServer` | the accept loop of the API, its workers, their descriptors |
| `MCGestion`, `MCGossip`, `MCTransport`, `MCMiningPool`, `MCApiServer` | instances for TLC |
| `MCLedger` | an instance of `Encodings`, and so of `Chains` |
| `GestionProofs` | theorems about the functions of `Ledger`, `Chains` and `Gestion`, with their proofs |
| `BytesProofs` | theorems and proofs about what is written as bytes or text: `Bytes`, `Transport`, `Codec` and `Encodings` |
| `GossipProofs`, `SharedQueueProofs`, `LifecycleProofs`, `MiningPoolProofs`, `ApiServerProofs` | theorems and proofs about the module each is named after |
| `ListLemmas` | what the proofs share: what `Lists` picks, the least element of a set of naturals, sets that grow or shrink element by element in place of induction, functions defined by recursion and by folds, sums |

`Ledger` and `KnownServers` extend `Lists`; `Transport` and `Codec` extend `Bytes`; `Chains`
extends `Ledger`, and `Encodings` both `Chains` and `Codec`; `Gestion` extends `Ledger` and refines `ForkChoice`; `Gossip` extends `KnownServers`; `SharedQueue` refines `Fifo`, which is what lets the modules
above it use sequences; `Transport` refines `Datagram`, which is what lets `Gossip` and `Gestion`
use messages that arrive or are lost, in any order. `Lifecycle` has the same threads as these
modules but only their starts, ends and waits.

Each definition that models code is mapped to its lines in `PROJECT.json`. Definitions
that no specification uses (`PopChainUnchecked`, `NoteBlindly`, `JoinUntested`, ...) are
faulty variants of the definition that follows them; each property is known to fail when
its variant takes the place of the original.

### Gestion and the code

`bc`, `tl`, `incoming`, `apiTxs`, `miningBlocks` are the shared data of `gestion`; `bcLock`
and `tlLock` name the holder of each mutex. Each thread has a program counter (`gpc`, `mpc`,
`spc`, `wpc`, `apc`). An action ends where another thread could see the difference: taking a
lock and working under it is one step, releasing it another, because the code calls nothing
in between that reads state outside the lock. `hand` is what gestion popped. `mprev`, `mtl`,
`mtime` are the parts of the block mining builds.

- `gestion.c:36-40` (`SeePending`): the size of the pending list is read without its lock.
- `gestion.c:42-46` (`PointToLastBlock` to `CopyHash`): `last_block` is used after the
  unlock. `stale` records that gestion has since freed or reallocated the blocks; the hash
  copied is then the old one, that of any block of the chain as it is by now, or anything
  (`GarbageHash`, which no block has). That the read may also end the program is left out:
  nothing follows it.
- `gestion.c:79` (`RemovePending`): the first `nb_transactions` entries go, whatever they
  are by then.
- `gestion.c:226-252` and `264-299`: the two nests of locks, list then chain and chain then
  list, with every refusal path.
- `accepted` is a history variable; nothing reads it but properties.

Messages: `wire` holds what the node pushed to `OutgoingMessages` and has not come back. A
node lists itself among its servers (`network.c:251`), so its messages return (`Loopback`),
in any order, or are lost. Peers may send every message of `PeerTxs` and `RemoteChains`
again and again, valid or forged.

Abstractions. A hash is the content it was computed from, so hashes do not collide and
commit to the history; this is what SHA-256 is used for, and `Codec` says which texts are
hashed. The proof of work is dropped: no test in the node looks at it once a block is made
(`checkBlockchain`, `addBlock`); `MiningPool` says what it is. A save is one step under the
chain's mutex, as in the code; `Lifecycle` cuts it in two. `ull_t` money is modulo `Modulus`.
`amountMoney` compares only as many characters as the address it is asked about has, so the
money of every key that begins with that address counts too; `PrefixOf` says which addresses
are prefixes of which.

### Gossip and the code

`servers[n]` is the list of node n from `sentinel->next` on. `outgoing[n]` holds the lists
among its outgoing messages, which are the list *as it was* when `sendNetwork` ran;
`SendOutGoinMessages` sends the oldest to the list *as it is by then*. `reading[n][s]` is
what a `read_thread` of n has left to note of the last list of s: one entry per step, each
under `lockKnownServers`, interleaved with the readers of other lists. `AddClient` connects
before it adds, hence the set of nodes that listen as a parameter.

`Walks` follows `client.c:96-135` literally: the walk that joins threads and removes servers
advances twice per removal while the index of the results advances once. It yields which
entries may be removed and which threads were joined while their arguments were allocated;
beyond the end of the array, and for a thread whose entry was freed before it was joined,
either outcome is possible. A message may be lost for a server
whose thread was not joined in time.

`Crash` stops a program at any step; it loses everything and may start again. A node whose
first server does not answer goes to "exiting", as in `network.c:255` and `277-281`.

Simplified: one reader per sender at a time (a sender's next list waits for the last to be
read); other kinds of messages prune the list exactly as an empty list does and are left
out; failures of `malloc`, `pthread_create`, `socket` are not modelled here.

### SharedQueue and the code

`heap` holds the allocated elements, `queue` points to the last one as `sq->queue` does, and
`lock` and `size` are the semaphores. Each call of `shared_queue_push` and `shared_queue_pop`
is cut at its semaphore operations. The consumer is the loop of gestion and
`SendOutGoinMessages`: `isEmpty`, which takes no lock, then `pop`. `Fifo` is refined by
reading the ring along `next`: `Ring` is the order of the elements that `IsRing` accepts. It is
chosen, not computed by a recursion along the pointers, so that the proofs can speak of it;
`RingUnique` shows that there is one.

### Transport and the code

`spc`, `reste`, `sent` and `res` are `SendMessageForOneClient` and the `Send` it calls; `rpc`,
`buff` and `nbCharToRead` the `read_thread` of the other side; `wire` the bytes in between.
`SendSome` offers `send` the rest of the message *with the length of the whole*, as
`client.c:19` does, so it may take bytes beyond the message (`Memory`); when it takes as many
as are left or more, `Send` ends. Whether that harms anybody is what `ReadsTheMessage` asks.
`ReadSome` is one turn of either loop of `read_thread`; the size is decoded from the header
when its last byte is there, and a message without data is handed over at once. The
connection stands, was closed or reset, or went silent (`link`). `Close` answers "success"
whatever `Send` returned, as `client.c:78` does. `Break`, `StopSender`, `StopReader`,
`Refused`, `SendFails` and `NoThread` are the faults the code can meet.

A byte is a digit of base `Base` and an `ull_t` has `Word` of them; `power` says what they hold.

### Lifecycle and the code

`mpc` is `LaunchTEK`, `npc` `Network`, and `server`, `send`, `share` the three threads that
Network creates; each `pthread_create` may fail, that of Network's own thread too, at which
nobody looks (`Start`). `TestArguments` is `network.c:132-172`: where a port is longer than an
address holds, which `ProcessingArgs` does not test, or memory is short, Network returns with
the status still STARTING and LaunchTEK polls for ever (`main.c:76`). The server and the
hostname are never null there. `Listen` writes ONLINE whatever the status
was, and `TestOnline` lets gestion return at once if it is started when the status is no
longer ONLINE. `readers` counts detached `read_threads`, which nobody joins. `End` is the
code from `network.c:277` on: which threads are joined depends on `problem`. A save is
`OpenFile`, which truncates, and `WriteFile`; a stop in between leaves `Torn`. `LoadBlockchain`
tests only whether there is a file; what it makes of a torn one is `Garbage`. `saved` and
`interrupted` are history.

### MiningPool and the code

Each thread tests the candidates `n`, `n + nbthread`, ... modulo `Modulus` (2^64 in the
program): `ReadFlag` looks at `ismining`, `HashMiss` and `HashHit` are one test, `RaiseFlag`
the write. `Join` takes over the candidate of a thread if `testproof` accepts it, since a
thread that the flag stopped gives back one that it did not test. `Passes` tests bytes and a
half byte, as the code does; the property speaks of the hexadecimal text. The hash function
is any function.

### ApiServer and the code

`sock` says which connection is behind which descriptor; a descriptor is free again as soon
as it is closed, and `accept` returns the smallest. `work_arg` is the one variable of the
loop to which every worker is given a pointer (`API.c:380`): `ReadArg` reads what it holds by
then. `overtaken` records that it was written again before a worker had read it, which can
happen and after which workers serve connections of others. Requests come in pieces; a client may leave at any time, and
then the answer ends the program, by SIGPIPE or `err`. The commands are abstracted to whether
they answer and whether they push a transaction.

### Codec and the code

`TxsToBin`, `BlockToBin`, `BlockchainToBin` and their inverses follow the offsets of the code,
including those that the decoders recompute from what they have decoded. A cell is a byte, but
also a whole hash, and in a JSON text a literal. `HashText` is what `getHash` hashes,
`MinedText` what the miner hashes. The `...Room` operators are the cells each function
allocates, and `Before` the text printed when an item is due. Two of the rooms are too small:
`RestxsRoom` (`block.c:95`) has none for the comma that follows each transaction but the last,
`TestproofRoom` (`minage.c:78`) none for the time. `TextsFitButTwo` says by how much these two
are exceeded, and that no other is. `ItemsOf` is no code of the
repository but what any reader of the JSON does: it counts what opens and closes, and cuts at
the commas one level in. `Encodings` writes the chains of
`Chains` in these terms (`Raw`): any keys, any amounts and proofs that an `ull_t` holds, the
lengths of hashes in place of hashes. The code tests neither the length nor the characters of
a key, nor the digits of an amount (the API takes any strings, and `checkBlockchain` looks at
no transaction), so what a conversion needs of them is a premise in the property, not an
assumption about constants: `InDigits` and `KeysAlign` in `HashTextCommits`, `FlatKeys` in
`JsonReadsBack`. Chains in which a premise holds and chains in which it does not are both
among those that are checked.

### Chains

A chain grows by any block of `TxLists`, sound or tampered with, among them transactions sent by
nobody (`""`), which mint money in any block, transactions to nobody, and debts. `JudgesByFunds`
compares `enoughMoney`, which adds and subtracts in unsigned words and compares keys by their
beginnings, with `Funds`, what keys have in whole numbers: an address can pay what it and all
the keys that it begins have together. That a key can spend the money of the longer keys it
begins is what the code does, and the property says it. Its premises are that nobody is in
debt and that less was minted than an `ull_t` holds; a debt wraps, and is what `NoOverdraft`
is violated by.

## 3. Runs

| Run | Bounds | Shows |
|---|---|---|
| `GestionPeers` | no API; 1 message in each queue and on the wire, clock 0..1; the node starts from its genesis block, from one dated ahead of its clock, or from a saved chain of 3 blocks; peers send T1 and the chains Twin (longer, a tie that is better by time or not, or shorter) and Forged; save_worker; mining up to 2 blocks; a miner that may overtake gestion | types, one pending transaction per sender, every chain valid, nothing saved or sent outranks the chain held, refinement of `ForkChoice`; `LockOwners` and `GestionKeepsServing` through both nests of locks, list then chain and chain then list, and every refusal in them; no deadlock |
| `GestionSolo` | API and mining, two senders, chains of up to 4 blocks, send_data, nothing on the wire | no accepted transaction is lost and each is mined, no empty block, no deadlock; cuts by position interleave with arrivals |
| `Ledger` | chains of up to 4 blocks, sound and tampered, with lists of up to 2, a sender and a receiver `""`, a debt, a key that begins another, keys of 0, 2 and 3 characters with a comma and a bracket among them, an amount that exceeds its digits, proofs of 0; cells of base 4, words of 3 | the functions agree with their reference definitions; decoding inverts encoding; different contents hash different texts, the proof that was looked for is the proof of the block, JSON reads back, all texts but two fit |
| `Gossip` | 2 nodes, one stop and restart, 1 list queued per node | types, `ListedOnce`, `KnowledgeStays`, `EveryoneLearns` |
| `SharedQueue` | 2 producers of 2 values each, 1 consumer, 4 elements | types and no dangling pointer, `SizeCountsRing`, `PopNeverWaits`, refinement of `Fifo`, `EverythingTaken` |
| `Transport` | 1 connection; a message of 5 cells of data, whose size takes both cells of a word, and one of 1 cell | `ReadsTheMessage`, refinement of `Datagram`, `ArrivesUnlessExcused`, `ReadersEnd` |
| `Lifecycle` | 3 chains, 2 stops from outside, 1 read_thread at a time, ports that fit an address or not | `FreedIsJoined`, `ServesWhatListens`, `ResumesFromSave`, `EndsOrServes` |
| `MiningPool` | 2 threads, 4 candidates, 4 hashes (all assignments), difficulties 1 to 3 | `ReturnsAProof`, `ReturnsIfThereIsAProof` |
| `ApiServer` | 2 clients, one of which posts in two pieces; 2 descriptors | `ServesItsOwn`, `EveryoneIsServed` |
| `GestionReplay`, `GestionOverdraft`, `GossipSend` | small | one disagreement each, below |

Why the bounds are enough. One message per queue suffices because no thread looks at more
than the head of a queue, and order among messages is covered by letting the wire and peers
choose every order. Two transactions in the pending list are needed for a cut by position to
hit the wrong one, and two senders for both to be pending: `GestionSolo` has them. For the
locks one transaction that is accepted, then refused as pending or unpaid, and one chain that
is adopted, then refused as no better, take every path. Twin and the three chains a node starts
from decide every branch of the fork choice: longer, as long and earlier or not, shorter, and
refused by the check; a clock of two values lets a tie be decided either way. In `Gossip`
two nodes already meet all list lengths up to three, since both the own address and the first
server can be there twice; one stop is what it takes for a removal, a return with an empty
list, and lists still queued from before. `GossipSend` needs three nodes: a stopped one and a
running one behind it. The gossip of three nodes without such a target has too many states
for a complete run. `SleepIsLong` (below) is false in `GestionPeers`, which therefore also
covers a miner that overtakes gestion.

`Transport` has one connection because the threads of different connections share nothing
before the message is handed over; the theorems are for any number. A message of 8 cells is cut
up by `send` and `read` in every way, with cuts inside the header, inside the size, at the end
of the header and one byte before the end. `Lifecycle` needs a start that saves, a stop inside
the next save and a start that loads: two stops. One read_thread is enough, since they only
matter by being there. In `MiningPool` two threads already give every order of the flag; four
candidates let each stride wrap around, and the four hashes end in none, one, two and three
zeros, on either side of odd and even difficulties. In `ApiServer` two connections are what it
takes to overtake a worker or to take over a descriptor; a second closes the descriptor of the
first only if both have had the same one.

Deadlock is checked in every run of `Gestion` and `SharedQueue`. It is not in `Ledger`, whose
chains stop at their bound, nor where the programs or the threads may all have ended: `Gossip`,
`GossipSend`, `Transport`, `Lifecycle`, `MiningPool`, `ApiServer`. There the liveness
properties say what must not be waited for.

### What disagrees with the documents

- `GestionReplay` (`MinedOnce`): a transaction that comes back after it was mined is mined
  again; only adopting a chain compares transactions with the chain.
- `GestionOverdraft` (`NoOverdraft`): a block waiting in `mining_blocks` hides its payments
  from both tests of the next transaction, and the same money is spent again.
- `GossipSend` (`OnlyUnreachableRemoved`): with an unreachable server in the list, the
  misaligned walk also removes servers that answered.

The quotations are in `PROJECT.json` under "findings". One more was met and has no run of its
own: mining reads the size of the pending list without its lock (`gestion.c:40`), and a chain
adopted before the copy may empty the list, so that a block without transactions is mined,
where the report says "s'il y a au moins une transaction". `GestionSolo` shows that it takes an
adopted chain: without one, `NoEmptyBlock` holds.

## 4. Fairness

`Gestion`: weak fairness of send_data, save_worker and the API worker, which only ever have
to release what they hold; strong fairness of gestion and mining, because a thread that
keeps asking for a mutex gets it: its other users sleep for seconds between two short
sections. Nothing is assumed of the clock, of peers, of clients or of the wire.
`SleepIsLong` says that gestion deals with a mined block, a matter of microseconds, before
mining's `sleep(10)` ends. `GestionPeers` does without it, and of the theorems only
`AcceptedIsKept` uses it. `AcceptedNeverLost` and `AcceptedGetsMined` need it, since a miner that overtakes gestion
builds on an old block and loses its transactions; the other runs take it to stay small.

`SharedQueue`: weak fairness of a consumer, whose loop never ends, and of a push that was
called; nobody has to call one. Pushes are bounded, so no producer can keep the lock from a
consumer for ever; in the program producers sleep for seconds between pushes.

`Gossip`: weak fairness of each thread of a running program; nobody has to start or stop
one. A connection to a node that listens succeeds; this is an assumption about the network
that `EveryoneLearns` needs and the code retries for every two seconds.

`Transport`: weak fairness of the sender's thread and of the read_thread, each as a whole. A
thread that could send is not made to: it may fail instead, and `ArrivesUnlessExcused` names
every excuse. Nothing has to break, and a silent connection never wakes its reader, which is
what `ReadersEnd` has to except.

`Lifecycle`: weak fairness of LaunchTEK, Network, Server, SendOutGoinMessages, sendNetwork and
gestion. Nobody has to start or stop the program, `bind` may fail for ever, and read_threads
need not end. `EndsOrServes` names the states in which a program stays that neither ends nor
serves; each is reachable and belongs to a hazard of `PROJECT.json`. A gestion that serves on
after a problem of Network, or because Server wrote ONLINE over its EXITING, serves.

`MiningPool`: weak fairness of `mine_from_string` and of each thread, which share no lock.

`ApiServer`: weak fairness of the accept loop and of each worker, and of a client that has
connected and has not sent all of its request; one that never does keeps its worker for ever.

## 5. Proofs

The theorems hold for all constants that satisfy the named assumptions of the modules: the
chains a node starts from pass `checkBlockchain`; peers' messages are well typed, otherwise
arbitrary; types of messages fit a byte and sizes a word; difficulties do not exceed the text
of a hash; there are finitely many threads, and memory for what producers push; clients and
descriptors are finitely many, with a descriptor for each client (otherwise `accept` fails and
the node exits; `Stop` in `Lifecycle`). Of the chains in `Chains` they ask that keys are
finitely many and that the empty one begins every other (`KeysAssumption`); of what is written,
that what the code counts as an `ull_t` fits one (`WordsAssumption`). Everything else that a
conversion needs, of keys, amounts and times, is a premise in the property that needs it, since
nothing in the code tests it. Two theorems about a node that hears no other chain
say so in their statement (`RemoteChains = {}`), and `AcceptedIsKept` also that `SleepIsLong`
and that the node's clock starts no earlier than the last block of its chain, so that the
block it builds first is not dated before it.

| Theorem | Argument |
|---|---|
| `TypeCorrect` : Spec => []TypeOK | one lemma per thread, one step per action; lemmas on the list functions (`PickType`, `RemoveTxsListType`, `UpdateTlWithBcType`, `SealBlockType`) |
| `LocksAccountedFor` : Spec => []LockOwners | inductive as it stands: who holds what is determined by the program counters |
| `NeverTwoPending` : Spec => []OnePendingPerSender | strengthened by `PendingInv`: while gestion is between the test of the sender and the append, it holds the list's lock and the sender has nothing pending; filters and cuts keep distinctness |
| `AlwaysValid` : Spec => []ChainsAreValid | strengthened by `ChainInv`: the chain gestion has in hand before adopting it has passed the check; `AddBlockKeepsValid` for a mined block, wherever its parent hash was read |
| `RefinesForkChoice` : Spec => KeepsBestChain | `CheckImpliesUnbroken` (tests between neighbours give ascending times and hashes that commit to the whole history, by least counterexample over the naturals), `BetterIsOutranks`, then each action is a step of `ForkChoice` or stutters |
| `NeverBehindItself` : Spec => []SnapshotsNeverAhead | from the refined steps alone: whatever a kept chain was not outranked by, its successor is not outranked by (`OutrankedStays`) |
| `MinesNoEmptyBlock` : Spec => []NoEmptyBlock, given `RemoteChains = {}` | `EchoInv`: every chain queued or in hand is not better than the node's own, from `NeverBehindItself` for what comes back and `OutrankedStays` for what waits, so gestion never adopts and never filters; then `FullInv`: from mining's unguarded look to its copy the list is not empty, because only mining shortens it, and what it copied and sealed is not empty |
| `AcceptedIsKept` : Spec => []AcceptedNeverLost, given also `SleepIsLong` | `EchoInv` and four more: `OneBlockInv` (one block is on its way at a time), `FitInv` (what mining read of the last block stays true of it, so gestion appends the block), `CopyInv` (what was copied is still the head of the list), `KeptInv` (each accepted transaction is in the list, in the copy, in a queued block, in hand or in the chain); each step leaves it in its place or takes it to the next |
| `CheckIsUnbrokenLine`, `AddBlockIsCheck`, `UpdateFilters`, `BetterIsStrictOrder` | for every chain and list: what `checkBlockchain`, `addBlock` and `updateTlWithBc` accept and keep is what it should be, neither more nor less; the preference among chains has no circles. `HistoryGrows`, `TimesAscend`, `NthOrder`; the theorems of the next row rest on them |
| `CheckedIsUnbroken`, `AddedAgreesWithChecked`, `UpdatedIsFiltered` : Growth => []CheckIsUnbroken, []AddAgreesWithCheck, []UpdateIsFilter | `GrowthInv`: a chain grows from its genesis block by blocks of the lists given, sound or tampered with |
| `JudgedByFunds` : Growth => []JudgesByFunds | `GrowthInv`, then `NetAdds`: the balance that `amountMoney` reckons is, modulo the width, the sum over the keys an address begins of what each has, by sums over sets that grow one element at a time; `GroupSolvent`: if no key is in debt, what a group of keys has lies between nothing and what was minted, so modulo the width it is itself |
| `ChainReadsBack`, `ChainIsReadBack` : Growth => []DecodeInvertsEncode | `WordReadsBack`: reading the cells of a word from the last to the first rebuilds the number divided by lower and lower powers, down to the number. `Holds` says which cells are where; `FlattenHolds`: of lists written in a row each is behind the lengths of those before it. The readers recompute these lengths from what they have decoded, so the places at which they read are those at which was written, one item after the other (`TxsHeld`, `BlockHeld`). `EncodedInv`: everything counted in a chain that grows fits a word |
| `ProofsAreForTheirBlocks` : Growth => []ProofIsForTheBlock | `EncodedInv` and `DigitsType`; the two texts differ in how the length of the proof is found |
| `TextsHaveRoomButTwo` : Growth => []TextsFitButTwo | `DigitsFit`: what is below a power has no more digits than it; `CommasType`: where each item of a list begins in the printed text; `MinedTextLen` for the text of `testproof` |
| `HashesCommit` : Growth => []HashTextCommits | `DigitsTell` (numbers with the same digits are the same), `ConcatSplit` (two lists in a row, the second of known length, tell both), so that a text tells its parts from the last to the first; lists with the same text have the same length because, where keys align, each transaction takes as many cells (`TlTextTells`, `AlignedTextTells`) |
| `JsonIsReadBack` : Growth => []JsonReadsBack | `Level` (a text closes what it opens, and never more) and `Whole` (within an item every comma is enclosed), which what is printed of a transaction and of a block has (`TxsIsWhole`, `BlockIsWhole`); `CutsLaid`: the commas of a list are then just those that a reader counting depth takes for its own; `AscendsNth`: and in their order |
| `GossipTypeCorrect` : Spec => []TypeOK | `NoteKeeps`, `WithoutKeeps`, `AddClientAdds` on lists; `SendChanges`, which says only that a walk removes some entries, whatever `Walks` yields |
| `ListedNoMore` : Spec => []ListedOnce, `NothingForgotten` : Spec => KnowledgeStays | `ListChanges`: for every node, a step leaves its list, takes entries out, notes one, adds the two of Network or empties it. `Note` looks before it adds, in the same step; `Join` adds what the allowance counts, once. Knowledge is kept because the entry that knows is the one `FindClient` updates only with knowledge, and a removal that leaves the count leaves the entries |
| `QueueTypeOK` : Spec => []TypeOK, `SizeMatchesRing` : Spec => []SizeCountsRing | `QueueInv`: who may be at which place, one thread between lock and unlock, and a ring `R` with `Len(R) = size + Cardinality(Holding) + Cardinality(Counting)`, where `Holding` are the threads that took a unit of `size` and no element yet, `Counting` those that inserted an element and have not raised `size` yet. `InsertAppends` and `TakeRemoves` rewrite the ring; a taker finds it non-empty because it counts in `Holding` |
| `LookedIsEnough` : Spec => []PopNeverWaits | `WaitInv`: only the consumer itself lowers `size`, between its look and its wait nobody else does |
| `QueueIsFifo` : Spec => IsFifo | `RingUnique` (two readings of a ring agree, by the least place where they do not), so that the abstract queue is the ring before and after each step; `Insert` and `Take` are its steps, the others stutter |
| `TransportTypeOK` : Spec => []TypeOK | part of `TransInv`; `reste` stays positive because `Send` ends when `send` takes the rest, `nbCharToRead` because `read` is never asked for more than it |
| `ReadsWhatWasSent` : Spec => []ReadsTheMessage | `TransInv`: what was read followed by what is on the way is the sender's memory from its start (`Stream`), as long as what `Send` has behind it (`SenderInv`), and `read_thread` asks for exactly what its header, then its data lacks (`ReaderInv`); `HeaderRead`: a complete header tells the true size, by `WordReadsBack` |
| `RefinesDatagram` : Spec => IsDatagram | `RoundTrip` (`BinToMessage` inverts `MessageToBin`) and `DoneStays` (a read_thread hands over once), then every step but `Deliver` stutters |
| `LifecycleTypeOK`, `FreesWhatIsJoined` : Spec => []FreedIsJoined, `GestionServesWhatListens` : Spec => []ServesWhatListens | an invariant that says, for each place of Network and each value of `problem`, which threads exist and which have ended, and that ONLINE was written by a Server past its `listen` |
| `GestionResumesFromSave` : Spec => ResumesFromSave | unless a save was interrupted, the file is the chain saved last, or is being written |
| `PoolTypeOK`, `MiningReturnsAProof` : Spec => []ReturnsAProof | a raised flag means that a thread keeps a candidate that passes, so that one of the joins finds one; `Passes` on bytes is zeros at the end of the text |
| `WorkersKeepApart` : Spec => []ServesItsOwn | `OwnInv`, as long as nobody was overtaken: `work_arg` leads to the connection of the one worker that has not read it, and a worker's descriptor is its own until it closes it. `ConnInv`: a connection is behind one descriptor at most. `ReadInv` and `PostInv`, overtaken or not: each piece of a request is read once and in order, and only the worker that read the first has posted it |

The invariants the theorems state are not all inductive alone, which is why the second
column names what was added. TLC checked the strengthened invariants before they were proved:
those of `Transport`, `Lifecycle`, `MiningPool`, `SharedQueue`, `ApiServer` and of the growing
chains on the runs above, those of the node that hears no other chain on `GestionSolo` with its messages coming
back and a clock that moves.

Only model-checked:

- liveness, which is out of the prover's reach, as is ENABLED: `GestionKeepsServing`,
  `AcceptedGetsMined`, `EveryoneLearns`, `EverythingTaken`, `ArrivesUnlessExcused`,
  `ReadersEnd`, `EndsOrServes`, `ReturnsIfThereIsAProof`, `EveryoneIsServed`;
- what `Walks` yields: the proofs about `Gossip` hold whatever it removes.

The provers cannot instantiate the induction theorems of the library, which take a formula as
their parameter. Where the model counts, sums, concatenates or reads item by item, the proofs
use sets instead: a set of naturals that has 0 and, with each number, the next is the set of
naturals (`NatGrows`); a finite set that loses its elements one by one comes to the empty set
(`SetShrinks`). From these follows that the functions which the definitions choose, by recursion
on a number or by a fold over a set, exist and are what their equations say
(`RecursionExists`, `FoldExists`), and what they compute is then proved along the same sets. A
recursion in these modules is therefore always a function, never a RECURSIVE operator.

## 6. What is left

Open: a composition of `Lifecycle` with `Gestion`, so that a chain loaded from a torn file
meets the tests of gestion; what is true of the pending list when a chain is adopted while
mining works (`gestion.c:275`): the block built on the old chain is refused, and the cut by
position then removes transactions that are in no block.

### Not modelled

- SHA-256, third-party code of a published algorithm. RSA and accounts, which nothing calls.
  Printing. The JSON of the list of servers. The spelling of command-line options.
- `shared_queue_destroy`, which runs when the program ends. Failing allocations.
- What was met while reading and no module covers: the socket left open after a failed connect
  (`client.c:46-51`); the retry of `bind`, which never goes on to the next address
  (`server.c:106`; in `Lifecycle`, `bind` merely may fail for ever); a difficulty taken from the
  command line without a limit, with which the tests read beyond the hash (`main.c:156`,
  `minage.c:57`; an assumption of `MiningPool`); `strlen` of a null pointer when the list of
  servers is empty (`network_tools.c:395`); a save file that could not be opened but is reported
  as saved (`blockchain.c:303`); the text of the request that is not freed (`API.c:258`) and the
  comparison of its end with 1 (`API.c:244`; either outcome in `ApiServer`); the join of a
  thread for gestion that could not be created (`main.c:81-84`, undefined; the thread of Network
  is in `Lifecycle`). What follows from the cells that `restxs` and `testproof` write beyond
  their memory is not modelled either, only how many they are.
- Two nodes whose chains tie in length and time each keep their own until one grows
  (`gestion.c:270`): `ForkChoice` is about one node.
