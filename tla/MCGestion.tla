------------------------------ MODULE MCGestion ------------------------------
(***************************************************************************)
(* Instances of Gestion for TLC: two key holders, a genesis block of 3 TEK *)
(* for the bank, and the chains another node may send.                     *)
(***************************************************************************)
EXTENDS Gestion

Tx(sender, receiver, amount, time) ==
  [sender |-> sender, receiver |-> receiver, amount |-> amount, time |-> time]

MCAddress  == {"", "bank", "ann"}
MCPrefixOf == {"" } \X {"bank", "ann"}

\* The bank can pay one of T1 and T2, and ann can pay T3 once T1 or T2 is mined.
T1 == Tx("bank", "ann", 2, 0)
T2 == Tx("bank", "ann", 2, 1)
T3 == Tx("ann", "bank", 1, 0)
\* The bank can pay T4 three times over.
T4 == Tx("bank", "ann", 1, 0)

Then(c, tl_, time) == Append(c, SealBlock(GetLastBlock(c).blockHash, tl_, time))

Genesis == InitBlockchain("bank", 3, 0)
\* Of another genesis, made by a clock that was ahead of the node's.
Ahead   == InitBlockchain("bank", 3, 1)

\* A peer that started from the same saved chain mined T1 at once.
Rival == Then(Genesis, <<T1>>, 0)
\* It mined more: a block that ties with the node's own, or beats it by its time.
Twin == Then(Genesis, <<T1, T3>>, 0)
\* A saved chain that is longer than what peers send.
Longer == Then(Then(Genesis, <<T1>>, 1), <<T3>>, 2)
\* A chain whose second block is sealed but hangs on another history.
Forged == <<Genesis[1], SealBlock(GarbageHash, <<T1>>, 0)>>
\* A saved chain in which the bank and ann each have money to spend.
Funded == Rival

SavedChains  == {Genesis, Ahead, Longer}
GenesisOnly  == {Genesis}
FundedOnly   == {Funded}
PeerChains   == {Twin, Forged}
NoChains     == {}
Sends        == {"send"}
Saves        == {"save"}
Nothing      == {}
NoTxs        == {}
T1Only       == {T1}
T3T4         == {T3, T4}
T4Only       == {T4}
T1T2         == {T1, T2}

===============================================================================
