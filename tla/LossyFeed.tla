----------------------------- MODULE LossyFeed ------------------------------
(***************************************************************************)
(* What the engine promises a subscriber, with no threads and no queues:   *)
(* packets are sent, and a subscriber is called with messages of packets   *)
(* sent, later ones only after earlier ones and none twice.  Any message   *)
(* may be lost.                                                            *)
(***************************************************************************)
EXTENDS Naturals, Sequences

CONSTANT PerPacket   \* the most messages a packet gives

VARIABLES
  sent,   \* packets sent so far
  got     \* per subscriber: the last message it was called with

feedVars == <<sent, got>>

Nothing == [num |-> 0, idx |-> 0]

Later(a, b) == a.num > b.num \/ (a.num = b.num /\ a.idx > b.idx)

Init == sent = 0 /\ got = << >>

Send == sent' = sent + 1 /\ UNCHANGED got

Subscribe == got' = Append(got, Nothing) /\ UNCHANGED sent

Call(s) ==
  \E n \in 1 .. sent, k \in 1 .. PerPacket :
    LET m == [num |-> n, idx |-> k]
    IN  /\ Later(m, got[s])
        /\ got' = [got EXCEPT ![s] = m]
        /\ UNCHANGED sent

Next == Send \/ Subscribe \/ \E s \in DOMAIN got : Call(s)

Spec == Init /\ [][Next]_feedVars
=============================================================================
