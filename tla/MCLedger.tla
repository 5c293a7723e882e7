------------------------------- MODULE MCLedger -------------------------------
(***************************************************************************)
(* Chains and Encodings for TLC: key holders pass on 5 TEK, modulo 8.      *)
(***************************************************************************)
EXTENDS Encodings

\* The key of anne begins with the key of ann.
MCAddress  == {"", "bank", "ann", "anne", "bob"}
MCPrefixOf == {""} \X {"bank", "ann", "anne", "bob"} \cup {<<"ann", "anne">>}

Tx(sender, receiver, amount) ==
  [sender |-> sender, receiver |-> receiver, amount |-> amount, time |-> 0]

\* Money is passed on, is sent by nobody and to nobody, and is owed: bob has none at first,
\* nor has the bank after two payments.
MCTxLists ==
  {<< >>, <<Tx("bank", "ann", 4)>>, <<Tx("ann", "bob", 2), Tx("bank", "ann", 4)>>,
   <<Tx("", "anne", 2), Tx("bob", "", 1)>>}

Txs == {Tx("bank", "ann", 4), Tx("ann", "bob", 2), Tx("bob", "bob", 1)}

MCPendingLists == {<< >>} \cup {<<t>> : t \in Txs} \cup (Txs \X Txs)

MCTimes == 1 .. 2

MCOtherHashes == {GarbageHash}

-------------------------------------------------------------------------------
(* Keys of two characters and of three; one has a comma, one a bracket.   *)
(* Amounts are the largest that a text holds, one that it does not hold    *)
(* and one whose last digit is the first of the time Base; some proofs     *)
(* are 0.                                                                  *)

MCCharacters == [a \in MCAddress |-> CASE a = ""     -> << >>
                                        [] a = "bank" -> <<1, 2>>
                                        [] a = "ann"  -> <<1, 1>>
                                        [] a = "anne" -> <<1, 1, Lit("}")>>
                                        [] a = "bob"  -> <<Lit(","), 1>>]

MCRawAmount(amount) == power[AmountDigits] + 1 - amount
MCRawProof(time) == (time - 1) * Base

===============================================================================
