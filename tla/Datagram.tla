------------------------------- MODULE Datagram -------------------------------
(***************************************************************************)
(* What the rest of the program takes the transport of messages for: each  *)
(* message that is sent arrives once and as it was, or never; messages may *)
(* overtake each other.                                                    *)
(***************************************************************************)
EXTENDS Sequences

CONSTANTS Conn, Message

VARIABLES
  msg,         \* the message sent on each connection
  delivered    \* what was delivered, and the connection it came by

vars == <<msg, delivered>>

Init == msg \in [Conn -> Message] /\ delivered = << >>

Deliver(c) ==
  /\ \A i \in DOMAIN delivered : delivered[i].by # c
  /\ delivered' = Append(delivered, [by |-> c, msg |-> msg[c]])
  /\ UNCHANGED msg

Next == \E c \in Conn : Deliver(c)

Spec == Init /\ [][Next]_vars

===============================================================================
