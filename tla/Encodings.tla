------------------------------- MODULE Encodings -------------------------------
(***************************************************************************)
(* The chains of Chains in the codec's terms, and what its conversions are *)
(* for: bytes and JSON are read back as they were written, a hash commits  *)
(* to a block, and texts have the room they need, but for two.             *)
(***************************************************************************)
EXTENDS Chains, Codec

CONSTANTS
  Characters,       \* what a key is written as
  RawAmount(_),     \* what an amount is written as
  RawProof(_)       \* the proof of a block of this time

\* What ull_t holds, as everything in the code that is counted is one. A key is any text.
ASSUME WordsAssumption ==
  /\ Characters \in [Address -> WrittenText]
  /\ RawAmount(Minted) \in Number /\ MaxLen \in Number
  /\ \A time \in Times \cup {Birth} : {time, RawProof(time)} \subseteq Number
  /\ \A list \in TxLists :
       /\ Len(list) \in Number
       /\ \A i \in DOMAIN list : {RawAmount(list[i].amount), list[i].time} \subseteq Number

-------------------------------------------------------------------------------
RawTxs(t) == [sender |-> Characters[t.sender], receiver |-> Characters[t.receiver],
              amount |-> RawAmount(t.amount), time |-> t.time]

RawHash(h) == IF h = GarbageHash THEN 0 ELSE Len(h)

RawBlock(b) == [previusHash |-> RawHash(b.previusHash), blockHash |-> RawHash(b.blockHash),
                proof |-> RawProof(b.time), time |-> b.time,
                tl |-> [i \in DOMAIN b.tl |-> RawTxs(b.tl[i])]]

Raw == [k \in DOMAIN chain |-> RawBlock(chain[k])]
Newest == Raw[Len(Raw)]

-------------------------------------------------------------------------------
\* What a peer or the next start of the program reads is the chain that was written: the
\* sizes by which the reader moves on are those by which the writer did.
DecodeInvertsEncode == BinToBlockchain(BlockchainToBin(Raw)) = Raw

\* The newest block with another first transaction: any amount that a text holds, at a
\* time of one digit or of two.
FirstTxsWith(b, a, t) == [b EXCEPT !.tl[1] = [@ EXCEPT !.amount = a, !.time = t]]

Retouched ==
  {FirstTxsWith(Newest, a, t) :
     a \in 0 .. power[AmountDigits] - 1, t \in {0, Base} \cap (0 .. power[TimeDigits] - 1)}

\* Nothing in the code keeps a transaction's numbers within the widths of the texts, or keys
\* to one length: a transaction, and a block, of which that is true.
TxsInDigits(t) == t.amount < power[AmountDigits] /\ t.time < power[TimeDigits]

InDigits(b) == b.time < power[TimeDigits] /\ \A i \in DOMAIN b.tl : TxsInDigits(b.tl[i])

OneLength(texts) == \A s, t \in texts : Len(s) = Len(t)

Senders(b)   == {b.tl[i].sender : i \in DOMAIN b.tl}
Receivers(b) == {b.tl[i].receiver : i \in DOMAIN b.tl}

KeysAlign(b, c) == /\ OneLength(Senders(b) \cup Senders(c))
                   /\ OneLength(Receivers(b) \cup Receivers(c))

\* A hash commits to all of a block, although the strings that are hashed are joined
\* without a separator: among blocks whose senders have keys of one length, whose
\* receivers have, and whose numbers the widths hold, no other has the same text.
HashTextCommits ==
  \A b \in {RawBlock(c) : c \in Blocks(chain)}
             \cup (IF Newest.tl = << >> THEN {} ELSE Retouched) :
    InDigits(b) /\ InDigits(Newest) /\ KeysAlign(b, Newest) /\ HashText(b) = HashText(Newest)
      => [b EXCEPT !.blockHash = Newest.blockHash] = Newest

\* The text a proof was found for and the text the block's hash is taken from, built
\* apart, are one text (unless the proof is 0).
ProofIsForTheBlock == Newest.proof > 0 => MinedText(Newest) = HashText(Newest)

\* How deep a reader of this JSON is after each cell.
Opening == {Lit("{sender:"), Lit("{transactions:["), Lit("{previousHash:"), Lit("{blocks:[")}
Closing == {Lit("}"), Lit("]}")}

Turn(c) == IF c \in Opening THEN 1 ELSE IF c \in Closing THEN -1 ELSE 0

Depth(text) ==
  LET depth[k \in 0 .. Len(text)] == IF k = 0 THEN 0 ELSE depth[k - 1] + Turn(text[k])
  IN  depth

\* The items it finds in the list that begins after an opening cell: what lies between
\* the commas that nothing encloses but the list.
ItemsOf(text, opening) ==
  LET before == SelectInSeq(text, LAMBDA c : c = opening)
      depth  == Depth(text)
      cuts   == {k \in before .. Len(text) :
                   k \in {before, Len(text)} \/ (text[k] = Lit(",") /\ depth[k] = 1)}
  IN  IF before = Len(text) - 1 THEN << >>
      ELSE [i \in 1 .. Cardinality(cuts) - 1 |->
              SubSeq(text, Nth(cuts, i) + 1, Nth(cuts, i + 1) - 1)]

\* Nothing escapes the text of a key: keys in which nothing opens or closes (a comma may be).
Flat(text) == \A k \in DOMAIN text : Turn(text[k]) = 0

FlatKeys(b) == \A i \in DOMAIN b.tl : Flat(b.tl[i].sender) /\ Flat(b.tl[i].receiver)

\* A client of the API reads back as many blocks and transactions as were printed, and
\* each as it was, as long as keys are flat.
JsonReadsBack ==
  /\ (\A k \in DOMAIN Raw : FlatKeys(Raw[k]))
       => ItemsOf(BlockchainToJson(Raw), Lit("{blocks:[")) = BlockItems(Raw)
  /\ FlatKeys(Newest)
       => /\ ItemsOf(BlockToJson(Newest), Lit(",transactions:[")) = TxsItems(Newest.tl)
          /\ ItemsOf(TlToJson(Newest.tl), Lit("{transactions:[")) = TxsItems(Newest.tl)

\* Every text fits where it is printed, with the 0 that ends it, but two. Those of numbers
\* do where the widths hold the numbers (blockToJson has no room for the digit of a proof
\* of 0 but one that the time leaves). The text of restxs exceeds its room by one cell for
\* each transaction but the last, and that of testproof by the digits of the time, and by
\* that of a proof of 0.
TextsFitButTwo ==
  LET items == TxsItems(Newest.tl)
  IN  /\ \A i \in DOMAIN Newest.tl :
           /\ TxsInDigits(Newest.tl[i]) =>
                /\ Len(TxsToString(Newest.tl[i])) < TxsToStringRoom(Newest.tl[i])
                /\ Len(TxsToJson(Newest.tl[i])) < TxsToJsonRoom(Newest.tl[i])
           /\ Before(items, i) + Len(Item(items, i)) < TlToJsonRoom(items, i)
           /\ Before(items, i) + Len(Item(items, i)) + 1
                = RestxsRoom(items, i) + IF i = Len(items) THEN 0 ELSE 1
      /\ Newest.time < power[TimeDigits] =>
           /\ Newest.proof > 0 \/ Len(Digits(Newest.time)) < TimeDigits
                => Len(BlockToJson(Newest)) < BlockToJsonRoom(Newest)
           /\ Len(MinedText(Newest)) + 1
                = TestproofRoom(Newest.proof) + TimeDigits + IF Newest.proof = 0 THEN 1 ELSE 0
      /\ \A i \in DOMAIN Raw : Before(BlockItems(Raw), i) + Len(Item(BlockItems(Raw), i))
                                  < BlockchainToJsonRoom(BlockItems(Raw), i)

===============================================================================
