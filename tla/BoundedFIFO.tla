---------------------------- MODULE BoundedFIFO ----------------------------
(***************************************************************************)
(* What a bounded queue promises its two sides: items leave in the order   *)
(* in which they entered, each exactly once, and there are never more than *)
(* Capacity of them inside.  Both steps are atomic here.                   *)
(***************************************************************************)
EXTENDS Naturals, Sequences

CONSTANTS Items,     \* the values that can be queued
          Capacity   \* how many of them fit

VARIABLES queue,     \* the items inside, oldest first
          taken      \* every item handed to the consumer so far

vars == <<queue, taken>>

Init == queue = << >> /\ taken = << >>

Put(x) ==
  /\ Len(queue) < Capacity
  /\ queue' = Append(queue, x)
  /\ UNCHANGED taken

Take ==
  /\ queue # << >>
  /\ queue' = Tail(queue)
  /\ taken' = Append(taken, Head(queue))

Next == Take \/ \E x \in Items : Put(x)

Spec == Init /\ [][Next]_vars
=============================================================================
