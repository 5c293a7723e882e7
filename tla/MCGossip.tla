------------------------------- MODULE MCGossip -------------------------------
(* Instances of Gossip for TLC: n1 starts the network, the others are given *)
(* its address.                                                            *)
EXTENDS Gossip

CONSTANTS n1, n2, n3

Star == [n \in Node |-> IF n = n1 THEN NoServer ELSE n1]
Same == [n \in Node |-> "both"]

===============================================================================
