--------------------------------- MODULE Lists ---------------------------------
(***************************************************************************)
(* What is left of a list when some of its entries go: updateTlWithBc      *)
(* copies the others to a new list by addTx, removeClient unlinks one.     *)
(***************************************************************************)
EXTENDS Integers, Sequences, FiniteSets

\* The k-th smallest number of K, and the elements of s at the positions in K,
\* in the order of s.
Nth(K, k) == CHOOSE i \in K : Cardinality({j \in K : j <= i}) = k
Pick(s, K) == [k \in 1 .. Cardinality(K) |-> s[Nth(K, k)]]

================================================================================
