--------------------------------- MODULE Fifo ---------------------------------
(***************************************************************************)
(* What a queue promises to the threads that use it: values come out in    *)
(* the order in which they went in, each of them once.                     *)
(***************************************************************************)
EXTENDS Sequences

CONSTANT Value

VARIABLES
  items,   \* what is in the queue
  taken    \* everything that was taken from it so far

vars == <<items, taken>>

Init == items = << >> /\ taken = << >>

Put == /\ \E v \in Value : items' = Append(items, v)
       /\ UNCHANGED taken

Take == /\ items # << >>
        /\ taken' = Append(taken, Head(items))
        /\ items' = Tail(items)

Next == Put \/ Take

Spec == Init /\ [][Next]_vars

===============================================================================
