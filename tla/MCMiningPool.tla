----------------------------- MODULE MCMiningPool -----------------------------
(* Instances of MiningPool for TLC: hashes of two bytes whose texts end in *)
(* none, one, two and three zeros.                                         *)
EXTENDS MiningPool

MCHash == {<<7, 1>>, <<7, 16>>, <<7, 0>>, <<48, 0>>}

===============================================================================
