--------------------------------- MODULE Codec ---------------------------------
(***************************************************************************)
(* How transactions, blocks and chains are turned into bytes for the       *)
(* network and the save file and back, and into the texts that are hashed  *)
(* and served (src/Projet/Block).                                          *)
(*                                                                         *)
(* A cell of memory is here also a whole hash, and in a JSON text a        *)
(* literal, as a negative number; characters are positive, as in the       *)
(* strings of C. A time takes as many cells as an ull_t.                   *)
(***************************************************************************)
EXTENDS Bytes

CONSTANTS AmountDigits, TimeDigits    \* the widths 14 and 11 of the texts

ASSUME CodecAssumption == {AmountDigits, TimeDigits} \subseteq Nat \ {0}

-------------------------------------------------------------------------------
(* What is written: numbers that an ull_t holds, and as many cells as one  *)
(* counts.                                                                 *)

Number == 0 .. power[Word] - 1

WrittenText == {s \in Seq(Int) : Len(s) \in Number}

WrittenTxs == [sender : WrittenText, receiver : WrittenText, amount : Number, time : Number]

WrittenBlock == [previusHash : Int, blockHash : Int, proof : Number, time : Number,
                 tl : {tl \in Seq(WrittenTxs) : Len(tl) \in Number}]

WrittenChain == {bc \in Seq(WrittenBlock) : Len(bc) \in Number}

-------------------------------------------------------------------------------
(* The binary form.                                                        *)

GetSizeOfTxsbin(t) == Len(t.sender) + Len(t.receiver) + 5 * Word

TxsToBinTimeFirst(t) ==
  Filled(ToWord(GetSizeOfTxsbin(t) - Word)
           \o ToWord(Len(t.sender)) \o t.sender
           \o ToWord(Len(t.receiver)) \o t.receiver
           \o ToWord(t.time) \o ToWord(t.amount),
         GetSizeOfTxsbin(t))

\* The first word, which no one reads, is the size of what follows it.
TxsToBin(t) ==
  Filled(ToWord(GetSizeOfTxsbin(t) - Word)
           \o ToWord(Len(t.sender)) \o t.sender
           \o ToWord(Len(t.receiver)) \o t.receiver
           \o ToWord(t.amount) \o ToWord(t.time),
         GetSizeOfTxsbin(t))

BinToTxs(bin, at) ==
  LET sender   == at + 2 * Word
      receiver == sender + WordAt(bin, at + Word) + Word
      amount   == receiver + WordAt(bin, receiver - Word)
  IN  [sender   |-> Cut(bin, sender, WordAt(bin, at + Word)),
       receiver |-> Cut(bin, receiver, WordAt(bin, receiver - Word)),
       amount   |-> WordAt(bin, amount),
       time     |-> WordAt(bin, amount + Word)]

GetSizeOfBlockbin(b) ==
  2 + 3 * Word + SumFunction([i \in DOMAIN b.tl |-> GetSizeOfTxsbin(b.tl[i])])

BlockToBin(b) ==
  Filled(ToWord(Len(b.tl)) \o <<b.previusHash, b.blockHash>>
           \o ToWord(b.proof) \o ToWord(b.time)
           \o FlattenSeq([i \in DOMAIN b.tl |-> TxsToBin(b.tl[i])]),
         GetSizeOfBlockbin(b))

\* Each transaction is read where the size of the one before it, taken from its decoded
\* strings, says that it begins.
BinToBlock(bin, at) ==
  LET nbTxs == WordAt(bin, at)
      begin[i \in 1 .. nbTxs + 1] ==
        IF i = 1 THEN at + 3 * Word + 2
        ELSE begin[i - 1] + GetSizeOfTxsbin(BinToTxs(bin, begin[i - 1]))
  IN  [previusHash |-> bin[at + Word + 1],
       blockHash   |-> bin[at + Word + 2],
       proof       |-> WordAt(bin, at + Word + 2),
       time        |-> WordAt(bin, at + 2 * Word + 2),
       tl          |-> [i \in 1 .. nbTxs |-> BinToTxs(bin, begin[i])]]

BlockchainToBin(bc) ==
  ToWord(Len(bc)) \o FlattenSeq([i \in DOMAIN bc |-> BlockToBin(bc[i])])

BinToBlockchain(bin) ==
  LET nbBlocks == WordAt(bin, 0)
      begin[i \in 1 .. nbBlocks + 1] ==
        IF i = 1 THEN Word
        ELSE begin[i - 1] + GetSizeOfBlockbin(BinToBlock(bin, begin[i - 1]))
  IN  [i \in 1 .. nbBlocks |-> BinToBlock(bin, begin[i])]

-------------------------------------------------------------------------------
(* The texts that are hashed. Strings have no separator between them.      *)

Digits(n) ==
  LET size == CHOOSE k \in 1 .. n + 1 : n < power[k] /\ (k = 1 \/ n >= power[k - 1])
  IN  [k \in 1 .. size |-> (n \div power[size - k]) % Base]

\* printf's %0<width>: more digits than the width are all written.
Padded(n, width) ==
  LET digits == Digits(n)
      zeros  == IF Len(digits) < width THEN width - Len(digits) ELSE 0
  IN  [k \in 1 .. zeros |-> 0] \o digits

TxsToStringUnpadded(t) == t.sender \o t.receiver \o Digits(t.amount) \o Digits(t.time)

TxsToString(t) ==
  t.sender \o t.receiver \o Padded(t.amount, AmountDigits) \o Padded(t.time, TimeDigits)

TlToString(tl) == FlattenSeq([i \in DOMAIN tl |-> TxsToString(tl[i])])

LenOfProofShort(proof) == Len(Digits(proof)) - 1

\* A proof of 0 has no length, and its digit is written over.
LenOfProof(proof) == IF proof = 0 THEN 0 ELSE Len(Digits(proof))

\* SHA-256 of a text is ideal and takes one cell: the text itself.
MerkleHash(b) == TlToString(b.tl)

\* What getHash hashes.
HashText(b) ==
  SubSeq(Digits(b.proof), 1, LenOfProof(b.proof))
    \o Padded(b.time, TimeDigits) \o <<b.previusHash, MerkleHash(b)>>

\* What thread_mining and testproof hash, for the block mining builds and for the
\* genesis block.
MinedText(b) ==
  Digits(b.proof) \o Padded(b.time, TimeDigits) \o <<b.previusHash, MerkleHash(b)>>

-------------------------------------------------------------------------------
(* JSON.                                                                   *)

Literals == <<",", "}", "]}", "{sender:", ",receiver:", ",amount:", ",time:",
              "{previousHash:", ",currentHash:", ",proof:", ",transactions:[",
              "{transactions:[", "{blocks:[">>

Lit(s) == - (CHOOSE i \in DOMAIN Literals : Literals[i] = s)

\* The i-th item of a list as it is printed: with a comma, but for the last.
Item(items, i) == IF i = Len(items) THEN items[i] ELSE Append(items[i], Lit(","))

WithCommasBetweenAll(items) == FlattenSeq([i \in DOMAIN items |-> Append(items[i], Lit(","))])

WithCommas(items) == FlattenSeq([i \in DOMAIN items |-> Item(items, i)])

TxsToJson(t) ==
  <<Lit("{sender:")>> \o t.sender \o <<Lit(",receiver:")>> \o t.receiver
    \o <<Lit(",amount:")>> \o Digits(t.amount) \o <<Lit(",time:")>> \o Digits(t.time)
    \o <<Lit("}")>>

TxsItems(tl) == [i \in DOMAIN tl |-> TxsToJson(tl[i])]

TlToJson(tl) == <<Lit("{transactions:[")>> \o WithCommas(TxsItems(tl)) \o <<Lit("]}")>>

BlockToJson(b) ==
  <<Lit("{previousHash:"), b.previusHash, Lit(",currentHash:"), b.blockHash, Lit(",proof:")>>
    \o Digits(b.proof) \o <<Lit(",time:")>> \o Digits(b.time)
    \o <<Lit(",transactions:[")>> \o WithCommas(TxsItems(b.tl)) \o <<Lit("]}")>>

BlockItems(bc) == [i \in DOMAIN bc |-> BlockToJson(bc[i])]

BlockchainToJson(bc) == <<Lit("{blocks:[")>> \o WithCommas(BlockItems(bc)) \o <<Lit("]}")>>

-------------------------------------------------------------------------------
(* The cells these functions allocate for a text and the 0 that ends it.   *)

TxsToStringRoom(t) == Len(t.sender) + Len(t.receiver) + AmountDigits + TimeDigits + 1

TxsToJsonRoom(t) == 5 + Len(t.sender) + Len(t.receiver) + AmountDigits + TimeDigits + 1

BlockToJsonRoom(b) ==
  6 + 2 + LenOfProof(b.proof) + TimeDigits + Len(WithCommas(TxsItems(b.tl))) + 1

\* testproof reckons with two hashes, of a cell each here, and the proof, not with the time.
TestproofRoom(proof) == 2 + LenOfProof(proof) + 1

Before(items, i) == Len(FlattenSeq([j \in 1 .. i - 1 |-> Item(items, j)]))

\* While item i of a list is printed: blockToJson has room in restxs for no comma after it.
RestxsRoom(items, i) == Before(items, i) + Len(items[i]) + 1

\* tlToJson has room for a comma after every item.
TlToJsonRoom(items, i) == Before(items, i) + Len(items[i]) + 2

BlockchainToJsonNoComma(items, i) == Before(items, i) + Len(items[i]) + 1

\* blockchainToJson has it for every item but the last.
BlockchainToJsonRoom(items, i) ==
  Before(items, i) + Len(items[i]) + IF i = Len(items) THEN 1 ELSE 2

===============================================================================
