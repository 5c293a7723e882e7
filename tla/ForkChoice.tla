------------------------------ MODULE ForkChoice ------------------------------
(***************************************************************************)
(* What a node promises about the chain it keeps, whatever its threads,    *)
(* its queues and its peers do: the chain is always an unbroken line of    *)
(* blocks, it is exchanged only for one that outranks it, and what the     *)
(* node saves or sends is a chain it has held.                             *)
(*                                                                         *)
(* Nothing here refers to the code's own tests (CheckBlockchain, Better,   *)
(* AddBlockOk): Gestion refines this module, so they have to imply it.     *)
(***************************************************************************)
EXTENDS Integers, Sequences

VARIABLES
  chain,       \* the chain the node keeps
  saved,       \* the chain in the save file, << >> if there is none
  published    \* the chains the node has put on the wire and that still travel

vars == <<chain, saved, published>>

-------------------------------------------------------------------------------
\* The history a chain's block i has to commit to: the hash of the first block
\* and the contents of the blocks 2 .. i.
History(c, i) ==
  c[1].blockHash \o [k \in 1 .. i - 1 |-> [tl |-> c[k + 1].tl, time |-> c[k + 1].time]]

\* An unbroken line of blocks: block times do not decrease along it, and each
\* hash commits to everything before it, back to the first block.
Unbroken(c) ==
  /\ Len(c) > 0
  /\ \A i, j \in 1 .. Len(c) : i < j => c[i].time <= c[j].time
  /\ \A i \in 2 .. Len(c) : c[i].blockHash = History(c, i)

\* d outranks c: longer, or as long and finished earlier.
Outranks(d, c) ==
  \/ Len(d) > Len(c)
  \/ Len(d) = Len(c) /\ d[Len(d)].time < c[Len(c)].time

-------------------------------------------------------------------------------
Init == /\ Unbroken(chain)
        /\ saved = << >>
        /\ published = {}

\* The node extends its chain or adopts another; it may announce the new chain.
Advance == /\ Unbroken(chain')
           /\ Outranks(chain', chain)
           /\ saved' = saved
           /\ published' \in {published, published \cup {chain'}}

Publish == /\ published' = published \cup {chain}
           /\ UNCHANGED <<chain, saved>>

\* A travelling chain arrives or is lost.
Arrive == /\ \E c \in published : published' = published \ {c}
          /\ UNCHANGED <<chain, saved>>

Save == /\ saved' = chain
        /\ UNCHANGED <<chain, published>>

Next == Advance \/ Publish \/ Arrive \/ Save

Spec == Init /\ [][Next]_vars

===============================================================================
