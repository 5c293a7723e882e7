-------------------------------- MODULE Chains --------------------------------
(***************************************************************************)
(* The functions of Ledger against what they are for, over chains grown    *)
(* block by block from a genesis block, sound blocks and tampered ones     *)
(* alike: what may reach a node in a message or in a save file.            *)
(***************************************************************************)
EXTENDS Ledger

CONSTANTS
  Owner, Minted, Birth,   \* who gets how much in the genesis block, and when
  TxLists, Times,         \* what a block may hold, and when it may be built
  OtherHashes,            \* hashes a block may give beside its parent's and its own
  PendingLists,           \* what a node may have pending beside the chain
  MaxLen

ASSUME ChainsAssumption ==
  /\ {"", Owner} \subseteq Address /\ Owner # ""
  /\ {Minted, Birth, MaxLen} \cup Times \subseteq Nat
  /\ TxLists \cup PendingLists \subseteq Seq(Transaction)
  /\ OtherHashes \subseteq Hash

\* Keys are finitely many texts; the empty one begins every text. Nothing else is asked of
\* them: some may begin others, and "" may send and receive, as in what the API takes.
ASSUME KeysAssumption ==
  /\ IsFiniteSet(Address)
  /\ \A a \in Address \ {""} : <<"", a>> \in PrefixOf /\ <<a, "">> \notin PrefixOf

VARIABLE chain

Line == INSTANCE ForkChoice WITH saved <- << >>, published <- {}

Blocks(c) ==
  { [SealBlock(prev, tl, time) EXCEPT !.blockHash = hash] :
      prev \in {GetLastBlock(c).blockHash} \cup OtherHashes,
      tl \in TxLists, time \in Times, hash \in OtherHashes }
  \cup { SealBlock(prev, tl, time) :
           prev \in {GetLastBlock(c).blockHash} \cup OtherHashes, tl \in TxLists, time \in Times }

Start == chain = InitBlockchain(Owner, Minted, Birth)

Grow == /\ Len(chain) < MaxLen
        /\ \E b \in Blocks(chain) : chain' = Append(chain, b)

Growth == Start /\ [][Grow]_chain

-------------------------------------------------------------------------------
\* What checkBlockchain accepts is what an unbroken line of blocks is: local tests
\* between neighbours add up to a last hash that commits to the whole history, and
\* a change anywhere in a chain that passes breaks it.
CheckIsUnbroken ==
  CheckBlockchain(chain)
    <=> /\ Line!Unbroken(chain)
        /\ \A i \in 2 .. Len(chain) : chain[i].previusHash = Line!History(chain, i - 1)

\* addBlock and checkBlockchain, written apart, agree: a node appends to a sound
\* chain exactly the blocks with which its peers still accept it.
AddAgreesWithCheck ==
  CheckBlockchain(chain) =>
    \A b \in Blocks(chain) : AddBlockOk(chain, b) <=> CheckBlockchain(Append(chain, b))

\* What a set of keys has, in whole numbers: all they received less all they sent.
Funds(keys) ==
  LET amount   == [p \in TxsOf(chain, 1) |-> chain[p[1]].tl[p[2]].amount]
      sent     == {p \in TxsOf(chain, 1) : chain[p[1]].tl[p[2]].sender \in keys}
      received == {p \in TxsOf(chain, 1) : chain[p[1]].tl[p[2]].receiver \in keys}
  IN  SumFunctionOnSet(amount, received) - SumFunctionOnSet(amount, sent)

\* What was sent by nobody: in the genesis block and, since checkBlockchain does not look
\* at transactions, in any other.
MintedIn ==
  LET amount == [p \in TxsOf(chain, 1) |-> chain[p[1]].tl[p[2]].amount]
  IN  SumFunctionOnSet(amount, {p \in TxsOf(chain, 1) : chain[p[1]].tl[p[2]].sender = ""})

\* As long as no key holder is in debt and less was minted than an ull_t holds, enoughMoney,
\* which counts in one and compares only the beginnings of keys, lets an address pay exactly
\* what it and the keys it begins have together, whoever else they traded with. In debt the
\* balance wraps: that is what NoOverdraft of Gestion is violated by.
JudgesByFunds ==
  (MintedIn < Modulus /\ \A b \in Address \ {""} : Funds({b}) >= 0) =>
    \A a \in Address : \A x \in 0 .. Modulus - 1 :
      EnoughMoney(a, x, chain) <=> x <= Funds({b \in Address : Matches(a, b)})

\* Filtering a pending list keeps, each once and in their order, exactly the transactions
\* that the chain does not hold and the sender can still pay.
UpdateIsFilter ==
  \A list \in PendingLists :
    LET kept  == UpdateTlWithBc(list, chain)
        stays == {i \in DOMAIN list :
                    /\ \A k \in 2 .. Len(chain) : \A j \in DOMAIN chain[k].tl :
                         chain[k].tl[j] # list[i]
                    /\ AmountMoney(list[i].sender, chain) >= list[i].amount}
    IN  \E at \in [DOMAIN kept -> stays] :
          /\ \A k \in DOMAIN kept : kept[k] = list[at[k]]
          /\ \A k, l \in DOMAIN kept : k < l => at[k] < at[l]
          /\ \A i \in stays : \E k \in DOMAIN kept : at[k] = i

===============================================================================
