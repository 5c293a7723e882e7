------------------------------ MODULE MCApiServer ------------------------------
(* An instance of ApiServer for TLC: one client posts, in two pieces, the  *)
(* other one asks for something.                                           *)
EXTENDS ApiServer

CONSTANTS c1, c2

MCKind   == [c \in Conn |-> IF c = c1 THEN "post" ELSE "get"]
MCPieces == [c \in Conn |-> IF c = c1 THEN 2 ELSE 1]

===============================================================================
