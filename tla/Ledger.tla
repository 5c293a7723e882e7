-------------------------------- MODULE Ledger --------------------------------
(***************************************************************************)
(* The data a node keeps and the pure functions over it: transactions,     *)
(* pending lists, blocks and chains (src/Projet/Block).                    *)
(*                                                                         *)
(* SHA-256 is ideal here: a block's hash is the history it commits to, the *)
(* parent's hash followed by the block's own content, so that two blocks   *)
(* have one hash exactly when they have one content and one parent hash.   *)
(* The proof of work is not part of a block: no function of the chain      *)
(* looks at it.                                                            *)
(***************************************************************************)
EXTENDS Lists, FiniteSetsExt

CONSTANTS
  Address,     \* the public keys; "" (the sender of the genesis transaction) too
  PrefixOf,    \* pairs <<a, b>>: the text of a is a proper prefix of the text of b
  Modulus      \* 2^w for the width w of ull_t, the type of amounts and balances

ASSUME LedgerAssumption == /\ PrefixOf \subseteq Address \X Address
                           /\ Modulus \in Nat \ {0}

-------------------------------------------------------------------------------
(* Types.                                                                  *)

Transaction == [sender : Address, receiver : Address, amount : Nat, time : Nat]
Content     == [tl : Seq(Transaction), time : Nat]
Hash        == Seq(Content)
Block       == [previusHash : Hash, tl : Seq(Transaction), time : Nat,
                blockHash : Hash]
Chain       == Seq(Block)

\* What memory that was freed may hold in place of a hash: no block of a chain
\* hashes to it, since the first block of every chain has a transaction.
GarbageHash == << [tl |-> << >>, time |-> 0] >>

-------------------------------------------------------------------------------
(* Pending lists (transactions.c).                                         *)

HasSendedTxsLast(address, tl) == tl # << >> /\ tl[Len(tl)].sender = address

\* Does the list hold a transaction of this sender?
HasSendedTxs(address, tl) == \E i \in DOMAIN tl : tl[i].sender = address

\* Cuts the positions start .. end-1 (counted from 0) out of the list, whatever
\* the list holds there by now.
RemoveTxsList(tl, start, end) ==
  SubSeq(tl, 1, start) \o SubSeq(tl, end + 1, Len(tl))

-------------------------------------------------------------------------------
(* Blocks and chains (block.c, blockchain.c).                              *)

GetHash(b) == Append(b.previusHash, [tl |-> b.tl, time |-> b.time])

GetLastBlock(bc) == bc[Len(bc)]

\* A block whose hash is computed, as the mining thread builds it.
SealBlock(prev, tl, time) ==
  [previusHash |-> prev, tl |-> tl, time |-> time,
   blockHash |-> Append(prev, [tl |-> tl, time |-> time])]

\* The first block gives its owner money that nobody had: the sender has no key.
CreateGenesis(owner, amount, time) ==
  SealBlock(<< >>, <<[sender |-> "", receiver |-> owner, amount |-> amount,
                      time |-> time]>>, time)

InitBlockchain(owner, amount, time) == <<CreateGenesis(owner, amount, time)>>

AddBlockAnyParent(bc, b) == /\ b.time >= GetLastBlock(bc).time
                            /\ b.blockHash = GetHash(b)

\* The conditions under which addBlock appends b.
AddBlockOk(bc, b) == /\ b.time >= GetLastBlock(bc).time
                     /\ b.previusHash = GetLastBlock(bc).blockHash
                     /\ b.blockHash = GetHash(b)

CheckBlockchainSkipsOne(bc) ==
  \A i \in 3 .. Len(bc) :
     /\ bc[i].time >= bc[i - 1].time
     /\ bc[i].previusHash = bc[i - 1].blockHash
     /\ bc[i].blockHash = GetHash(bc[i])

\* checkBlockchain returns 0: the first block and every proof go unchecked.
CheckBlockchain(bc) ==
  \A i \in 2 .. Len(bc) :
     /\ bc[i].time >= bc[i - 1].time
     /\ bc[i].previusHash = bc[i - 1].blockHash
     /\ bc[i].blockHash = GetHash(bc[i])

BetterOrTied(new, cur) ==
  \/ Len(new) > Len(cur)
  \/ Len(new) = Len(cur) /\ GetLastBlock(new).time <= GetLastBlock(cur).time

BetterByTime(new, cur) == GetLastBlock(new).time < GetLastBlock(cur).time

\* gestion adopts a received chain only if it is longer, or as long and its last
\* block is older.
Better(new, cur) ==
  \/ Len(new) > Len(cur)
  \/ Len(new) = Len(cur) /\ GetLastBlock(new).time < GetLastBlock(cur).time

-------------------------------------------------------------------------------
(* Balances.                                                               *)

\* memcmp over strlen(address) bytes: true of every text that starts with it.
Matches(address, text) == address = text \/ <<address, text>> \in PrefixOf

\* The positions <<block, index>> of the transactions from block first on.
TxsOf(bc, first) ==
  UNION { {<<i, j>> : j \in DOMAIN bc[i].tl} : i \in first .. Len(bc) }

AmountMoneySkipsGenesis(address, bc) ==
  LET amount   == [p \in TxsOf(bc, 2) |-> bc[p[1]].tl[p[2]].amount]
      sent     == {p \in TxsOf(bc, 2) : Matches(address, bc[p[1]].tl[p[2]].sender)}
      received == {p \in TxsOf(bc, 2) : Matches(address, bc[p[1]].tl[p[2]].receiver)}
  IN  (SumFunctionOnSet(amount, received) - SumFunctionOnSet(amount, sent)) % Modulus

AmountMoney(address, bc) ==
  LET amount   == [p \in TxsOf(bc, 1) |-> bc[p[1]].tl[p[2]].amount]
      sent     == {p \in TxsOf(bc, 1) : Matches(address, bc[p[1]].tl[p[2]].sender)}
      received == {p \in TxsOf(bc, 1) : Matches(address, bc[p[1]].tl[p[2]].receiver)}
  IN  (SumFunctionOnSet(amount, received) - SumFunctionOnSet(amount, sent)) % Modulus

EnoughMoney(address, amount, bc) == AmountMoney(address, bc) >= amount

\* The genesis block is not searched.
FindTxsInBc(t, bc) == \E p \in TxsOf(bc, 2) : bc[p[1]].tl[p[2]] = t

UpdateTlKeepsAll(tl, bc) == tl

\* What stays pending beside an adopted chain.
UpdateTlWithBc(tl, bc) ==
  Pick(tl, {i \in DOMAIN tl : /\ ~ FindTxsInBc(tl[i], bc)
                              /\ EnoughMoney(tl[i].sender, tl[i].amount, bc)})

===============================================================================
