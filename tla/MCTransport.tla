------------------------------ MODULE MCTransport ------------------------------
(* An instance of Transport for TLC: a list of servers whose size takes    *)
(* two bytes, and a short message of another type.                         *)
EXTENDS Transport

MCMessage == {[type |-> 1, data |-> <<3, 2, 1, 3, 2>>], [type |-> 2, data |-> <<1>>]}

===============================================================================
