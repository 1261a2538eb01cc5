------------------------ MODULE CoreEngineFlowProofs ------------------------
(***************************************************************************)
(* What flows through the engine, for every number of packets, messages,   *)
(* subscribers and starts and every capacity of the queues: messages move  *)
(* from the socket to the subscribers without overtaking one another.  A   *)
(* subscriber is called with each at most once and in order, as LossyFeed  *)
(* says.                                                                   *)
(***************************************************************************)
EXTENDS CoreEngineProofs

(***************************************************************************)
(* dispatch() pushes the first pending message to the next queue, or drops *)
(* it: either way the subscriber now waits for the second.                 *)
(***************************************************************************)
LEMMA ParsePushLines ==
  ASSUME TypeOK, Lines, AllGenuine, ParsePush
  PROVE  /\ Lines' /\ AllGenuine'
         /\ \A w \in Nat : Ahead(w) => Ahead(w)'
<1> Bounds
  BY BoundsHold
<1> USE DEF Bounds
<1> DEFINE s == p_thread.q
           P == p_thread.pending
           Q == queues[s]
<1>1. /\ P # << >> /\ s \in Subs /\ DispatchPush(s, Head(P))
      /\ p_thread' = [p_thread EXCEPT !.q = s + 1]
      /\ UNCHANGED <<subscribers, delivered, d_thread>>
  BY DEF ParsePush, DispatchPush
<1>2. p_thread'.pending = P /\ p_thread'.q = s + 1
  BY <1>1 DEF ParserRecord
<1>3. Head(P) = P[1] /\ 1 \in 1 .. Len(P) /\ P[1] \in Messages /\ Len(P) \in Nat
  BY <1>1, TailFacts
<1>4. Subs' = Subs
  BY <1>1 DEF Subs
<1>5. queues' = queues \/ queues' = [queues EXCEPT ![s] = Append(Q, P[1])]
  BY <1>1, <1>3 DEF DispatchPush, PushInto
<1>6. \A t \in Subs : t # s => queues'[t] = queues[t]
  <2> HIDE DEF s, P, Q
  <2> QED BY <1>5
<1>7. queues'[s] = Q \/ queues'[s] = Append(Q, P[1])
  <2>1. s \in Subs
    BY <1>1
  <2> HIDE DEF s, P, Q
  <2> QED BY <1>5, <2>1 DEF Q
<1>8. /\ Append(Q, P[1]) \in Seq(Messages) /\ Len(Q) \in Nat /\ Len(Append(Q, P[1])) = Len(Q) + 1
      /\ Append(Q, P[1])[Len(Q) + 1] = P[1]
      /\ \A k \in 1 .. Len(Q) : Append(Q, P[1])[k] = Q[k]
  BY SMTT(30), <1>1, <1>3, AppendFacts
<1> HIDE DEF s, P, Q
<1>9. \A k \in 1 .. Len(queues'[s]) :
        (k \in 1 .. Len(Q) /\ queues'[s][k] = Q[k]) \/ (k = Len(Q) + 1 /\ queues'[s][k] = P[1])
  <2>1. CASE queues'[s] = Q
    BY <2>1
  <2>2. CASE queues'[s] = Append(Q, P[1])
    <3> SUFFICES ASSUME NEW k \in 1 .. Len(Q) + 1
                 PROVE  (k \in 1 .. Len(Q) /\ Append(Q, P[1])[k] = Q[k])
                        \/ (k = Len(Q) + 1 /\ Append(Q, P[1])[k] = P[1])
      BY <1>8, <2>2
    <3> QED BY <1>8
  <2> QED BY <1>7, <2>1, <2>2
<1>10. \A t \in Subs : t # s => First(t)' = First(t)
  BY <1>1, <1>2 DEF First, s
<1>11. \A t \in Subs : t = s => First(t) = 1 /\ First(t)' = 2
  BY <1>1, <1>2 DEF First, s
<1>12. /\ \A j, k \in 1 .. Len(P) : j < k => Before(P[j], P[k])
       /\ \A k \in 1 .. Len(P) : P[k] \in Genuine
  BY DEF Lines, Sorted, AllGenuine, P
<1>13. ASSUME NEW t \in Subs PROVE InQueue(t)' /\ InDelivery(t)'
  <2>1. InQueue(t) /\ InDelivery(t)
    BY DEF Lines
  <2>2. CASE t # s
    <3>1. First(t)' = First(t) /\ queues'[t] = queues[t] /\ p_thread'.pending = p_thread.pending
      BY <1>2, <1>6, <1>10, <2>2 DEF P
    <3>2. InQueue(t)'
      BY <1>1, <2>1, <3>1 DEF InQueue, Sorted
    <3>3. InDelivery(t)'
      BY <1>1, <2>1, <3>1 DEF InDelivery
    <3> QED BY <3>2, <3>3
  <2>3. CASE t = s
    <3> DEFINE D == delivered[s].msg
               R == queues'[s]
    <3>1. /\ \A j, k \in 1 .. Len(Q) : j < k => Before(Q[j], Q[k])
          /\ \A k \in 1 .. Len(Q) : Before(D, Q[k]) /\ \A l \in 1 .. Len(P) : Before(Q[k], P[l])
          /\ \A l \in 1 .. Len(P) : Before(D, P[l])
      BY Zenon, <1>11, <2>1, <2>3 DEF InQueue, Sorted, P, Q
    <3>2. d_thread.pc = "deliver" /\ d_thread.i = s =>
            /\ Before(D, d_thread.msg)
            /\ \A k \in 1 .. Len(Q) : Before(d_thread.msg, Q[k])
            /\ \A l \in 1 .. Len(P) : Before(d_thread.msg, P[l])
      BY <1>11, <2>1, <2>3 DEF InDelivery, P, Q
    <3>3. Len(R) \in Nat
      BY <1>7, <1>8
    <3> HIDE DEF D, R
    <3>4. \A j, k \in 1 .. Len(R) : j < k => Before(R[j], R[k])
      <4> SUFFICES ASSUME NEW j \in 1 .. Len(R), NEW k \in 1 .. Len(R), j < k PROVE Before(R[j], R[k])
        OBVIOUS
      <4>1. j \in 1 .. Len(Q) /\ R[j] = Q[j]
        <5>1. k \in 1 .. Len(Q) \/ k = Len(Q) + 1
          BY <1>9 DEF R
        <5>2. j # Len(Q) + 1
          BY <1>8, <5>1
        <5> QED BY <1>9, <5>2 DEF R
      <4>2. CASE k \in 1 .. Len(Q) /\ R[k] = Q[k]
        BY <3>1, <4>1, <4>2
      <4>3. CASE R[k] = P[1]
        BY <1>3, <3>1, <4>1, <4>3
      <4> QED BY <1>9, <4>2, <4>3 DEF R
    <3>5. \A k \in 1 .. Len(R) : Before(D, R[k]) /\ \A l \in 2 .. Len(P) : Before(R[k], P[l])
      <4> SUFFICES ASSUME NEW k \in 1 .. Len(R)
                   PROVE  Before(D, R[k]) /\ \A l \in 2 .. Len(P) : Before(R[k], P[l])
        OBVIOUS
      <4>1. \A l \in 2 .. Len(P) : l \in 1 .. Len(P) /\ Before(P[1], P[l])
        BY <1>3, <1>12
      <4>2. CASE k \in 1 .. Len(Q) /\ R[k] = Q[k]
        BY <3>1, <4>1, <4>2
      <4>3. CASE R[k] = P[1]
        BY <1>3, <3>1, <4>1, <4>3
      <4> QED BY <1>9, <4>2, <4>3 DEF R
    <3>6. \A l \in 2 .. Len(P) : l \in 1 .. Len(P)
      BY <1>3
    <3>7. InQueue(t)'
      <4>1. queues'[t] = R /\ delivered'[t].msg = D /\ First(t)' = 2 /\ p_thread'.pending = P
        BY <1>1, <1>2, <1>11, <2>3 DEF R, D
      <4> QED BY <3>1, <3>4, <3>5, <3>6, <4>1 DEF InQueue, Sorted
    <3>8. ASSUME d_thread.pc = "deliver", d_thread.i = s
          PROVE  /\ Before(D, d_thread.msg)
                 /\ \A k \in 1 .. Len(R) : Before(d_thread.msg, R[k])
                 /\ \A l \in 2 .. Len(P) : Before(d_thread.msg, P[l])
      BY Zenon, <1>3, <1>9, <3>2, <3>6, <3>8 DEF R
    <3>9. InDelivery(t)'
      <4>1. queues'[t] = R /\ delivered'[t].msg = D /\ First(t)' = 2 /\ p_thread'.pending = P
            /\ d_thread' = d_thread
        BY <1>1, <1>2, <1>11, <2>3 DEF R, D
      <4> QED BY <2>3, <3>8, <4>1 DEF InDelivery
    <3> QED BY <3>7, <3>9
  <2> QED BY <2>2, <2>3
<1>14. Sorted(p_thread.pending)'
  BY Zenon, <1>2, <1>12 DEF Sorted
<1>15. \A t \in Subs : \A k \in 1 .. Len(queues'[t]) :
         queues'[t][k] = P[1] \/ (k \in 1 .. Len(queues[t]) /\ queues'[t][k] = queues[t][k])
  BY Zenon, <1>6, <1>9 DEF Q
<1>16. UNCHANGED <<delivered, d_thread>>
  BY <1>1
<1>17. AllGenuine'
  <2>1. \A t \in Subs : \A k \in 1 .. Len(queues'[t]) : queues'[t][k] \in Genuine
    BY ZenonT(40), <1>3, <1>12, <1>15 DEF AllGenuine
  <2> QED BY <1>2, <1>4, <1>12, <1>16, <2>1 DEF AllGenuine
<1>18. ASSUME NEW w \in Nat, Ahead(w) PROVE Ahead(w)'
  <2>1. P[1].num <= w
    BY <1>3, <1>18 DEF Ahead, P
  <2>2. \A t \in Subs : \A k \in 1 .. Len(queues'[t]) : queues'[t][k].num <= w
    BY ZenonT(40), <1>15, <1>18, <2>1 DEF Ahead
  <2>3. p_thread'.pending = p_thread.pending
    BY <1>2 DEF P
  <2> QED BY <1>4, <1>16, <1>18, <2>2, <2>3 DEF Ahead
<1> QED BY Zenon, <1>4, <1>13, <1>14, <1>17, <1>18 DEF Lines

(***************************************************************************)
(* dispatch() returns, every queue served: the second message is now the   *)
(* first.                                                                  *)
(***************************************************************************)
LEMMA ParseDispatchedLines ==
  ASSUME TypeOK, Rest, Lines, AllGenuine, ParseDispatched
  PROVE  /\ Lines' /\ AllGenuine'
         /\ \A w \in Nat : Ahead(w) => Ahead(w)'
<1> Bounds
  BY BoundsHold
<1> USE DEF Bounds
<1> DEFINE P == p_thread.pending
           R == Tail(P)
<1>1. /\ P # << >> /\ p_thread.q \notin Subs
      /\ p_thread' = [p_thread EXCEPT !.q = 1, !.pending = R]
      /\ UNCHANGED <<subscribers, queues, delivered, d_thread>>
  BY DEF ParseDispatched, DispatchCount
<1>2. p_thread'.pending = R /\ p_thread'.q = 1
  BY <1>1 DEF ParserRecord
<1>3. /\ Len(P) \in Nat /\ Len(R) = Len(P) - 1
      /\ \A k \in 1 .. Len(R) : R[k] = P[k + 1] /\ k + 1 \in 1 .. Len(P)
  BY <1>1, TailFacts
<1>4. Subs' = Subs /\ UNCHANGED <<queues, delivered, d_thread>>
  BY <1>1 DEF Subs
<1>5. \A t \in Subs : First(t) = 2 /\ First(t)' = 1
  <2> TAKE t \in Subs
  <2>1. p_thread.q = Len(subscribers) + 1
    BY <1>1 DEF Rest
  <2> QED BY <1>2, <2>1 DEF First
<1>6. /\ \A j, k \in 1 .. Len(P) : j < k => Before(P[j], P[k])
      /\ \A k \in 1 .. Len(P) : P[k] \in Genuine
  BY DEF Lines, Sorted, AllGenuine
<1> HIDE DEF P, R
<1>7. \A l \in 1 .. Len(R) : R[l] = P[l + 1] /\ l + 1 \in 2 .. Len(P)
  <2> TAKE l \in 1 .. Len(R)
  <2>1. R[l] = P[l + 1] /\ l + 1 \in 1 .. Len(P)
    BY ONLY <1>3
  <2>2. l \in Nat /\ l >= 1
    BY <1>3
  <2> QED BY <1>3, <2>1, <2>2
<1>8. ASSUME NEW t \in Subs PROVE InQueue(t)' /\ InDelivery(t)'
  <2>1. InQueue(t) /\ InDelivery(t)
    BY DEF Lines
  <2>2. InQueue(t)'
    <3>1. /\ Sorted(queues[t])
          /\ \A k \in 1 .. Len(queues[t]) :
               /\ Before(delivered[t].msg, queues[t][k])
               /\ \A l \in 2 .. Len(P) : Before(queues[t][k], P[l])
          /\ \A l \in 2 .. Len(P) : Before(delivered[t].msg, P[l])
      BY Zenon, <1>5, <2>1 DEF InQueue, P
    <3>2. /\ \A k \in 1 .. Len(queues[t]) : \A l \in 1 .. Len(R) : Before(queues[t][k], R[l])
          /\ \A l \in 1 .. Len(R) : Before(delivered[t].msg, R[l])
      BY Zenon, <1>7, <3>1
    <3> QED BY <1>2, <1>4, <1>5, <3>1, <3>2 DEF InQueue, Sorted
  <2>3. InDelivery(t)'
    <3>1. d_thread.pc = "deliver" /\ d_thread.i = t =>
            /\ Before(delivered[t].msg, d_thread.msg)
            /\ \A k \in 1 .. Len(queues[t]) : Before(d_thread.msg, queues[t][k])
            /\ \A l \in 2 .. Len(P) : Before(d_thread.msg, P[l])
      BY <1>5, <2>1 DEF InDelivery, P
    <3>2. d_thread.pc = "deliver" /\ d_thread.i = t =>
            \A l \in 1 .. Len(R) : Before(d_thread.msg, R[l])
      BY Zenon, <1>7, <3>1
    <3> QED BY SMTT(30), <1>2, <1>4, <1>5, <3>1, <3>2 DEF InDelivery
  <2> QED BY <2>2, <2>3
<1>9. \A j, k \in 1 .. Len(R) : j < k => Before(R[j], R[k])
  <2> TAKE j, k \in 1 .. Len(R)
  <2>1. j < k => j + 1 < k + 1
    BY <1>3
  <2> QED BY Zenon, <1>3, <1>6, <2>1
<1>10. AllGenuine'
  BY Zenon, <1>2, <1>3, <1>4, <1>6 DEF AllGenuine
<1>11. ASSUME NEW w \in Nat, Ahead(w) PROVE Ahead(w)'
  <2>1. \A k \in 1 .. Len(R) : R[k].num <= w
    BY Zenon, <1>3, <1>11 DEF Ahead, P
  <2> QED BY <1>2, <1>4, <1>11, <2>1 DEF Ahead
<1> QED BY <1>2, <1>4, <1>8, <1>9, <1>10, <1>11 DEF Lines, Sorted

(***************************************************************************)
(* The parser thread reads and parses a packet: its messages come after    *)
(* all that went before, and the packet leaves the ring.                   *)
(***************************************************************************)
LEMMA ParsePacketLines ==
  ASSUME TypeOK, Rest, Lines, AllGenuine, ParsePacket, NEW w \in Nat, NEW a \in Nat,
         Ahead(w), InRing(w, a)
  PROVE  /\ Lines' /\ AllGenuine'
         /\ \E v \in w + 1 .. a : Ahead(v)' /\ InRing(v, a)'
<1> Bounds
  BY BoundsHold
<1> USE DEF Bounds
<1> DEFINE Ring == packet_queue
           n == Ring[1].num
           R == Parsed(Ring[1])
<1>1. /\ Ring # << >> /\ p_thread.pc = "read" /\ packet_queue' = Tail(Ring)
      /\ p_thread' = [pc |-> "dispatch", pending |-> Parsed(Head(Ring)), q |-> 1,
                      count |-> Len(Parsed(Head(Ring)))]
      /\ UNCHANGED <<subscribers, queues, delivered, d_thread>>
  BY Zenon DEF ParsePacket, ReadPacket, dVars
<1>2. /\ Len(Ring) \in Nat /\ Len(Tail(Ring)) = Len(Ring) - 1 /\ Head(Ring) \in Packets
      /\ Head(Ring) = Ring[1] /\ 1 \in 1 .. Len(Ring)
      /\ \A k \in 1 .. Len(Ring) - 1 : Tail(Ring)[k] = Ring[k + 1] /\ k + 1 \in 1 .. Len(Ring)
  BY <1>1, TailFacts
<1>3. p_thread'.pending = R /\ p_thread'.q = 1
  BY <1>1, <1>2
<1>4. Subs' = Subs /\ UNCHANGED <<queues, delivered, d_thread>>
  BY <1>1 DEF Subs
<1>5. \A t \in Subs : First(t)' = 1
  BY <1>3 DEF First
<1>6. n \in w + 1 .. a /\ n \in Nat /\ n > w /\ n # 0
  BY <1>2 DEF InRing
<1>7. /\ Len(R) \in 0 .. max_messages_per_packet
      /\ \A k \in 1 .. Len(R) : R[k] = [num |-> n, idx |-> k]
  <2>1. Ring[1] \in Packets
    BY <1>2
  <2> DEFINE c == ParseCountOf(Ring[1])
  <2>2. c \in 0 .. max_messages_per_packet /\ Len(R) = c
        /\ \A k \in 1 .. c : R[k] = [num |-> n, idx |-> k]
    BY Zenon, <2>1, ParsedFacts
  <2> HIDE DEF c, n, R
  <2> QED BY <2>2
<1> HIDE DEF n, R
<1>8. \A k \in 1 .. Len(R) : R[k].num = n /\ R[k].idx = k /\ R[k] \in Genuine
  <2> TAKE k \in 1 .. Len(R)
  <2>1. k \in 1 .. max_messages_per_packet
    BY <1>7
  <2>2. R[k] = [num |-> n, idx |-> k] /\ n \in Nat \ {0}
    BY <1>6, <1>7
  <2>3. [num |-> n, idx |-> k] \in Genuine
    BY <2>1, <2>2 DEF Genuine
  <2> QED BY <2>2, <2>3
<1>9. \A m \in Messages : m.num <= w => \A l \in 1 .. Len(R) : Before(m, R[l])
  <2> TAKE m \in Messages
  <2>1. m.num \in Nat
    BY DEF Messages
  <2> QED BY ONLY SMTT(30), <1>6, <1>8, <2>1 DEF Before
<1>10. ASSUME NEW t \in Subs PROVE InQueue(t)' /\ InDelivery(t)'
  <2>1. InQueue(t) /\ InDelivery(t)
    BY DEF Lines
  <2>2. \A k \in 1 .. Len(queues[t]) : queues[t][k] \in Messages
    OBVIOUS
  <2>3. /\ \A k \in 1 .. Len(queues[t]) : \A l \in 1 .. Len(R) : Before(queues[t][k], R[l])
        /\ \A l \in 1 .. Len(R) : Before(delivered[t].msg, R[l])
        /\ \A l \in 1 .. Len(R) : Before(d_thread.msg, R[l])
    BY Zenon, <1>9, <2>2 DEF Ahead
  <2>4. InQueue(t)'
    BY Zenon, <1>3, <1>4, <1>5, <2>1, <2>3 DEF InQueue, Sorted
  <2>5. InDelivery(t)'
    BY Zenon, <1>3, <1>4, <1>5, <2>1, <2>3 DEF InDelivery
  <2> QED BY <2>4, <2>5
<1>11. Sorted(p_thread.pending)'
  <2>1. \A j, k \in 1 .. Len(R) : j < k => Before(R[j], R[k])
    BY <1>8 DEF Before
  <2> QED BY Zenon, <1>3, <2>1 DEF Sorted
<1>12. Lines'
  BY <1>4, <1>10, <1>11 DEF Lines
<1>13. AllGenuine'
  BY <1>3, <1>4, <1>8 DEF AllGenuine
<1>14. PICK v \in w + 1 .. a : v = n
  BY <1>6
<1>15. Ahead(v)'
  <2>1. \A m \in Messages : m.num <= w => m.num <= v
    BY DEF Messages
  <2>2. \A t \in Subs : \A k \in 1 .. Len(queues[t]) : queues[t][k] \in Messages
    OBVIOUS
  <2>3. \A k \in 1 .. Len(R) : R[k].num <= v
    BY ONLY <1>8, <1>14
  <2> QED BY Zenon, <1>3, <1>4, <2>1, <2>2, <2>3 DEF Ahead
<1>16. InRing(v, a)'
  <2> DEFINE T == packet_queue'
  <2>1. Len(T) = Len(Ring) - 1 /\ \A k \in 1 .. Len(T) : T[k] = Ring[k + 1] /\ k + 1 \in 1 .. Len(Ring)
    BY <1>1, <1>2
  <2>2. \A k \in 1 .. Len(Ring) : Ring[k].num \in w + 1 .. a
    BY DEF InRing
  <2>3. \A j, k \in 1 .. Len(Ring) : j < k => Ring[j].num < Ring[k].num
    BY DEF InRing
  <2> HIDE DEF T
  <2>4. \A k \in 1 .. Len(T) : T[k].num \in v + 1 .. a
    <3> TAKE k \in 1 .. Len(T)
    <3>1. 1 < k + 1 /\ 1 \in 1 .. Len(Ring)
      BY <1>2, <2>1
    <3>2. Ring[1].num < T[k].num /\ T[k].num \in w + 1 .. a
      BY Zenon, <2>1, <2>2, <2>3, <3>1
    <3>3. v < T[k].num
      BY <1>14, <3>2 DEF n
    <3> QED BY <3>2, <3>3
  <2>5. \A j, k \in 1 .. Len(T) : j < k => T[j].num < T[k].num
    <3> TAKE j, k \in 1 .. Len(T)
    <3>1. j < k => j + 1 < k + 1
      BY <1>2, <2>1
    <3> QED BY Zenon, <2>1, <2>3, <3>1
  <2> QED BY Zenon, <2>4, <2>5 DEF InRing, T
<1> QED BY <1>12, <1>13, <1>15, <1>16

(***************************************************************************)
(* A subscriber is added while nothing is on its way: its queue is empty.  *)
(***************************************************************************)
LEMMA AddSubscriberLines ==
  ASSUME TypeOK, Control, Rest, Lines, AllGenuine, add_subscriber
  PROVE  /\ Lines' /\ AllGenuine'
         /\ \A w \in Nat : Ahead(w) => Ahead(w)'
<1> Bounds
  BY BoundsHold
<1> USE DEF Bounds
<1> DEFINE L == Len(subscribers)
           new == [msg |-> NoMessage, n |-> 0, since |-> d_stats.dispatched]
<1>1. /\ subscribers' = Append(subscribers, "new") /\ queues' = Append(queues, << >>)
      /\ delivered' = Append(delivered, new)
      /\ UNCHANGED <<d_thread, p_thread>>
  BY DEF add_subscriber, AddSubscriber, eVars
<1>2. d_thread.pc = "none" /\ p_thread.pc = "none"
  BY DEF add_subscriber, Control, ParserAt, DispatcherAt
<1>3. p_thread.pending = << >>
  BY <1>2 DEF Rest
<1>4. new \in Delivered /\ << >> \in Seq(Messages)
      /\ subscribers \in Seq({"new", "initialized", "shutdown"})
  BY TypesSplit DEF DispatcherTypes, NoMessage, Messages, Delivered
<1>5. Subs' = 1 .. L + 1
  BY <1>1, <1>4, AppendFacts DEF Subs
<1>6. queues'[L + 1] = << >> /\ \A t \in 1 .. L : queues'[t] = queues[t]
  BY <1>1, <1>4, AppendFacts
<1>7. delivered'[L + 1] = new /\ \A t \in 1 .. L : delivered'[t] = delivered[t]
  BY <1>1, <1>4, AppendFacts
<1>8. delivered'[L + 1].msg = NoMessage
  BY <1>7
<1>9. Len(<< >>) = 0 /\ \A j : j \notin 1 .. 0 /\ j \notin 2 .. 0
  OBVIOUS
<1> HIDE DEF L, new
<1>10. \A t \in Subs' : t = L + 1 \/ t \in 1 .. L
  BY <1>5 DEF L
<1>11. 1 .. L = Subs
  BY DEF L
<1>12. \A t : First(t)' = First(t) /\ First(t) \in {1, 2}
  BY <1>1 DEF First
<1>13. \A t : \A l \in First(t) .. Len(p_thread.pending) : FALSE
  BY Zenon, <1>3, <1>9, <1>12
<1>14. ASSUME NEW t \in Subs' PROVE InQueue(t)' /\ InDelivery(t)'
  <2>1. InDelivery(t)'
    BY <1>1, <1>2 DEF InDelivery
  <2>2. CASE t = L + 1
    <3>1. \A k \in 1 .. Len(queues'[t]) : FALSE
      BY <1>6, <1>9, <2>2
    <3> QED BY Zenon, <1>1, <1>12, <1>13, <2>1, <3>1 DEF InQueue, Sorted
  <2>3. CASE t \in 1 .. L
    <3>1. InQueue(t) /\ queues'[t] = queues[t] /\ delivered'[t] = delivered[t]
      BY Zenon, <1>6, <1>7, <1>11, <2>3 DEF Lines
    <3> QED BY Zenon, <1>1, <1>12, <2>1, <3>1 DEF InQueue, Sorted
  <2> QED BY ONLY <1>10, <2>2, <2>3
<1>15. Lines'
  BY SMTT(30), <1>1, <1>14 DEF Lines, Sorted
<1>16. AllGenuine'
  <2>1. ASSUME NEW t \in Subs', NEW k \in 1 .. Len(queues'[t]) PROVE queues'[t][k] \in Genuine
    <3>1. t # L + 1
      BY <1>6, <1>9, <2>1
    <3> QED BY Zenon, <1>6, <1>10, <1>11, <2>1, <3>1 DEF AllGenuine
  <2> QED BY Zenon, <1>1, <2>1 DEF AllGenuine
<1>17. ASSUME NEW w \in Nat, Ahead(w) PROVE Ahead(w)'
  <2>1. ASSUME NEW t \in Subs'
        PROVE  delivered'[t].msg.num <= w /\ \A k \in 1 .. Len(queues'[t]) : queues'[t][k].num <= w
    <3>1. CASE t = L + 1
      <4>1. NoMessage.num <= w
        BY DEF NoMessage
      <4>2. \A k \in 1 .. Len(queues'[t]) : FALSE
        BY <1>6, <1>9, <3>1
      <4> QED BY <1>8, <3>1, <4>1, <4>2
    <3>2. CASE t \in 1 .. L
      BY Zenon, <1>6, <1>7, <1>11, <1>17, <3>2 DEF Ahead
    <3> QED BY Zenon, <1>10, <3>1, <3>2
  <2> QED BY Zenon, <1>1, <1>17, <2>1 DEF Ahead
<1> QED BY <1>15, <1>16, <1>17
-----------------------------------------------------------------------------
(***************************************************************************)
(* Every step but ParsePacket keeps the lines and the range of what has    *)
(* been parsed: the steps that move no message, and the five that do.      *)
(***************************************************************************)
LEMMA MessagesStep ==
  ASSUME TypeOK, Control, Rest, Lines, AllGenuine, [Next]_vars, ~ParsePacket
  PROVE  /\ Lines' /\ AllGenuine'
         /\ \A w \in Nat : Ahead(w) => Ahead(w)'
<1> DEFINE Quiet == /\ ~add_subscriber /\ queues' = queues /\ delivered' = delivered
                    /\ p_thread'.pending = p_thread.pending /\ p_thread'.q = p_thread.q
                    /\ d_thread'.msg = d_thread.msg
                    /\ d_thread'.pc = "deliver" => d_thread.pc = "deliver" /\ d_thread' = d_thread
<1>1. CASE Quiet
  <2>1. Subs' = Subs
    BY <1>1, SubscribersKept
  <2>2. \A s \in Subs : delivered'[s].msg = delivered[s].msg
    BY <1>1
  <2>3. Lines' /\ AllGenuine'
    BY <1>1, <2>1, <2>2, LinesQuiet
  <2>4. ASSUME NEW w \in Nat, Ahead(w) PROVE Ahead(w)'
    BY <1>1, <2>1, <2>2, <2>4, AheadQuiet
  <2> QED BY <2>3, <2>4
<1>2. CASE add_subscriber
  BY <1>2, AddSubscriberLines
<1>3. CASE ParsePush
  BY <1>3, ParsePushLines
<1>4. CASE ParseDispatched
  BY <1>4, ParseDispatchedLines
<1>5. CASE LoopPop /\ UNCHANGED p_thread
  BY <1>5, LoopPopLines
<1>6. CASE Deliver /\ UNCHANGED p_thread
  BY <1>6, DeliverLines
<1>7. Quiet \/ add_subscriber \/ ParsePush \/ ParseDispatched
      \/ (LoopPop /\ UNCHANGED p_thread) \/ (Deliver /\ UNCHANGED p_thread)
  <2> SUFFICES ASSUME ~add_subscriber, ~ParsePush, ~ParseDispatched,
                      ~(LoopPop /\ UNCHANGED p_thread), ~(Deliver /\ UNCHANGED p_thread)
               PROVE  Quiet
    OBVIOUS
  <2>1. /\ d_thread \in [pc : {"none", "test", "pop", "deliver", "done"}, i : Nat, msg : Messages]
        /\ p_thread \in ParserRecord
    BY BoundsHold DEF Bounds
  <2> HIDE DEF Quiet
  <2>2. CASE Application
    <3>1. UNCHANGED <<queues, delivered, d_thread, p_thread>>
      BY Zenon, <2>2 DEF Application, set_parser, initialize, StartFlag, StopFlag, dVars
    <3> QED BY <3>1 DEF Quiet
  <2>3. CASE MainStep
    <3>1. UNCHANGED <<queues, delivered>>
      BY Zenon, <2>3 DEF MainStep, StartReceiver, StartDispatcher, DispatcherStart, StartParser,
                  StopJoinParser, StopDispatcher, DispatcherStopFlag, JoinDispatcher,
                  DispatcherStopJoin, StopReceiver, JoinReceiver, dVars
    <3>2. \/ UNCHANGED p_thread
          \/ \E pc \in {"none", "test"} : p_thread' = [p_thread EXCEPT !.pc = pc]
      BY Zenon, <2>3 DEF MainStep, StartReceiver, StartDispatcher, StartParser,
                  StopJoinParser, StopDispatcher, JoinDispatcher, StopReceiver, JoinReceiver
    <3>3. \/ UNCHANGED d_thread
          \/ d_thread' = [d_thread EXCEPT !.pc = "test", !.i = 1]
          \/ d_thread' = [d_thread EXCEPT !.pc = "none"]
      BY Zenon, <2>3 DEF MainStep, StartReceiver, StartDispatcher, DispatcherStart, StartParser,
                  StopJoinParser, StopDispatcher, DispatcherStopFlag, JoinDispatcher,
                  DispatcherStopJoin, StopReceiver, JoinReceiver, dVars
    <3>4. p_thread'.pending = p_thread.pending /\ p_thread'.q = p_thread.q
      BY <2>1, <3>2 DEF ParserRecord
    <3>5. d_thread'.msg = d_thread.msg /\ (d_thread'.pc = "deliver" => d_thread' = d_thread)
      BY Zenon, <2>1, <3>3
    <3> QED BY <3>1, <3>4, <3>5 DEF Quiet
  <2>4. CASE ParserThread
    <3>1. UNCHANGED <<queues, delivered, d_thread>>
      BY <2>4 DEF ParserThread, ParseTest, ParseNothing, ParseCount, dVars
    <3>2. \/ \E pc \in {"read", "done", "test"} : p_thread' = [p_thread EXCEPT !.pc = pc]
          \/ p_thread' = [p_thread EXCEPT !.pc = "test", !.count = 0]
      BY <2>4 DEF ParserThread, ParseTest, ParseNothing, ParseCount
    <3>3. p_thread'.pending = p_thread.pending /\ p_thread'.q = p_thread.q
      BY Zenon, <2>1, <3>2 DEF ParserRecord
    <3> QED BY <3>1, <3>3 DEF Quiet
  <2>5. CASE Dispatching
    <3>1. UNCHANGED p_thread
      BY <2>5 DEF Dispatching, eVars
    <3>2. LoopTest \/ LoopNextSubscriber \/ LoopAgain
      BY <2>5, <3>1 DEF Dispatching, DispatcherThread
    <3>3. UNCHANGED <<queues, delivered>>
      BY <3>2 DEF LoopTest, LoopNextSubscriber, LoopAgain
    <3>4. d_thread'.msg = d_thread.msg /\ (d_thread'.pc = "deliver" => d_thread' = d_thread)
      <4>1. CASE LoopTest
        BY <2>1, <4>1 DEF LoopTest
      <4>2. CASE LoopNextSubscriber
        BY <2>1, <4>2 DEF LoopNextSubscriber
      <4>3. CASE LoopAgain
        BY ONLY SMTT(30), <2>1, <4>3 DEF LoopAgain
      <4> QED BY <3>2, <4>1, <4>2, <4>3
    <3> QED BY <3>1, <3>3, <3>4 DEF Quiet
  <2>6. CASE Receiving \/ Failing \/ Network \/ UNCHANGED vars
    <3>1. UNCHANGED <<queues, delivered, d_thread, p_thread>>
      BY <2>6 DEF Receiving, Failing, Network, vars, dVars, eVars
    <3> QED BY <3>1 DEF Quiet
  <2> QED BY <2>2, <2>3, <2>4, <2>5, <2>6 DEF Next
<1> HIDE DEF Quiet
<1> QED BY <1>1, <1>2, <1>3, <1>4, <1>5, <1>6, <1>7

(***************************************************************************)
(* How a step other than ParsePacket changes the ring and the socket.      *)
(***************************************************************************)
SocketStill ==
  /\ packet_queue' = packet_queue /\ arrivals' = arrivals
  /\ inbox' = inbox \/ inbox' = << >>
  /\ r_thread'.pc = "push" => r_thread.pc = "push" /\ r_thread' = r_thread

(***************************************************************************)
(* Only the network, recvfrom and the push into the ring move a packet     *)
(* towards the parser; a step that is not one of them leaves it in place.  *)
(***************************************************************************)
LEMMA SocketMoves ==
  ASSUME TypeOK, [Next]_vars, ~ParsePacket
  PROVE  \/ SocketStill \/ Network
         \/ ReceiveDatagram /\ arrivals' = arrivals
         \/ ReceivePush /\ arrivals' = arrivals
<1> USE DEF SocketStill, rVars
<1>1. r_thread \in [pc : {"none", "test", "recv", "push", "count", "done"}, packet : Packets]
  BY BoundsHold DEF Bounds
<1>2. \A pc : [r_thread EXCEPT !.pc = pc].pc = pc
  BY <1>1
<1>3. CASE Application
  BY Zenon, <1>3 DEF Application, set_parser, add_subscriber, initialize, ReceiverInitialize,
              StartFlag, StopFlag
<1>4. CASE MainStep
  <2>1. CASE StartReceiver
    BY Zenon, <1>2, <2>1 DEF StartReceiver, ReceiverStart
  <2>2. CASE StopReceiver
    BY Zenon, <2>2 DEF StopReceiver, ReceiverStopFlag
  <2>3. CASE JoinReceiver
    BY Zenon, <1>2, <2>3 DEF JoinReceiver, ReceiverStopJoin
  <2>4. CASE StartDispatcher \/ StartParser \/ StopJoinParser \/ StopDispatcher \/ JoinDispatcher
    BY Zenon, <2>4 DEF StartDispatcher, StartParser, StopJoinParser, StopDispatcher, JoinDispatcher
  <2> QED BY <1>4, <2>1, <2>2, <2>3, <2>4 DEF MainStep
<1>5. CASE ParserThread
  BY <1>5 DEF ParserThread, ParseTest, ParseNothing, ParsePush, ParseDispatched, ParseCount
<1>6. CASE Receiving
  <2>1. CASE ReceiveTest
    BY <1>2, <1>6, <2>1 DEF Receiving, ReceiveTest
  <2>2. CASE ReceiveDrop
    BY <1>6, <2>2 DEF Receiving, ReceiveDrop
  <2>3. CASE ReceiveCount
    BY <1>2, <1>6, <2>3 DEF Receiving, ReceiveCount
  <2> QED BY <1>6, <2>1, <2>2, <2>3 DEF Receiving, ReceiverThread
<1>7. CASE Failing
  BY <1>2, <1>7 DEF Failing, ReceiveFails
<1>8. CASE Dispatching \/ UNCHANGED vars
  BY <1>8 DEF Dispatching, vars
<1> QED BY <1>3, <1>4, <1>5, <1>6, <1>7, <1>8 DEF Next

(***************************************************************************)
(* Packets move from the socket to the receiver's hand to the ring, in     *)
(* order; a datagram that arrives has a number larger than all before.     *)
(***************************************************************************)
LEMMA SocketStep ==
  ASSUME Numbered, TypeOK, [Next]_vars, ~ParsePacket, NEW w \in Nat, NEW a \in Nat, NEW b \in Nat,
         w <= a, a <= b, b <= arrivals, InRing(w, a), InSocket(a, b)
  PROVE  \E c, d \in Nat : w <= c /\ c <= d /\ d <= arrivals' /\ InRing(w, c)' /\ InSocket(c, d)'
<1> Bounds
  BY BoundsHold
<1> USE DEF Bounds
<1>1. CASE SocketStill
  <2>1. InRing(w, a)'
    BY <1>1 DEF SocketStill, InRing
  <2>2. r_thread'.pc = "push" => r_thread'.packet.num \in a + 1 .. b
    BY <1>1 DEF SocketStill, InSocket
  <2>3. CASE inbox' = inbox
    BY Zenon, <1>1, <2>1, <2>2, <2>3 DEF SocketStill, InSocket
  <2>4. CASE inbox' = << >>
    <3>1. \A k \in 1 .. Len(inbox') : FALSE
      BY ONLY <2>4
    <3>2. InSocket(a, b)'
      BY ONLY <2>2, <3>1 DEF InSocket
    <3> QED BY <1>1, <2>1, <3>2 DEF SocketStill
  <2> QED BY ONLY <1>1, <2>3, <2>4 DEF SocketStill
<1>2. CASE Network
  <2>1. arrivals' = arrivals + 1
    BY <1>2, CountToAssumption, EngineAssumption, CounterExact DEF Network, Numbered, Bump
  <2>2. PICK e \in Packets : DatagramArrives(e) /\ (e = NoPacket \/ e.num = arrivals + 1)
    <3>1. CASE DatagramArrives(NoPacket)
      BY Zenon, <3>1 DEF NoPacket, Packets
    <3>2. ASSUME NEW k \in Holds, DatagramArrives([num |-> arrivals + 1, holds |-> k])
          PROVE  \E e \in Packets : DatagramArrives(e) /\ e.num = arrivals + 1
      <4>1. [num |-> arrivals + 1, holds |-> k] \in Packets
        BY EngineAssumption DEF Packets
      <4> QED BY <3>2, <4>1
    <3> QED BY Zenon, <1>2, <3>1, <3>2 DEF Network
  <2>3. UNCHANGED <<packet_queue, r_thread>> /\ (inbox' = inbox \/ inbox' = Append(inbox, e))
    BY <2>2 DEF DatagramArrives
  <2>4. InRing(w, a)'
    BY <2>3 DEF InRing
  <2>5. r_thread'.pc = "push" => r_thread'.packet.num \in a + 1 .. b
    BY <2>3 DEF InSocket
  <2>6. /\ \A k \in 1 .. Len(inbox) : inbox[k] # NoPacket => inbox[k].num \in b + 1 .. arrivals
        /\ \A j, k \in 1 .. Len(inbox) :
             j < k /\ inbox[j] # NoPacket /\ inbox[k] # NoPacket => inbox[j].num < inbox[k].num
    BY Zenon DEF InSocket
  <2>7. CASE inbox' = inbox
    <3>1. \A k \in 1 .. Len(inbox') : inbox'[k] # NoPacket => inbox'[k].num \in b + 1 .. arrivals'
      BY SMTT(30), <2>1, <2>6, <2>7
    <3> QED BY SMTT(30), <2>1, <2>4, <2>5, <2>6, <2>7, <3>1 DEF InSocket
  <2>8. CASE inbox' = Append(inbox, e)
    <3> DEFINE T == inbox'
    <3>1. /\ Len(inbox) \in Nat /\ Len(T) = Len(inbox) + 1 /\ T[Len(inbox) + 1] = e
          /\ \A k \in 1 .. Len(inbox) : T[k] = inbox[k]
      BY <2>8, AppendFacts
    <3> HIDE DEF T
    <3>2. \A k \in 1 .. Len(T) : \/ k \in 1 .. Len(inbox) /\ T[k] = inbox[k]
                                 \/ k = Len(inbox) + 1 /\ T[k] = e
      <4> SUFFICES ASSUME NEW k \in 1 .. Len(inbox) + 1
                   PROVE  (k \in 1 .. Len(inbox) /\ T[k] = inbox[k]) \/ (k = Len(inbox) + 1 /\ T[k] = e)
        BY ONLY <3>1
      <4> HIDE DEF Bounds
      <4> QED BY ONLY <3>1
    <3>3. \A k \in 1 .. Len(T) : T[k] # NoPacket => T[k].num \in b + 1 .. arrivals + 1
      <4> SUFFICES ASSUME NEW k \in 1 .. Len(T), T[k] # NoPacket PROVE T[k].num \in b + 1 .. arrivals + 1
        OBVIOUS
      <4>1. CASE k \in 1 .. Len(inbox) /\ T[k] = inbox[k]
        <5>1. T[k].num \in b + 1 .. arrivals
          BY Zenon, <2>6, <4>1
        <5>2. arrivals \in Nat /\ b \in Nat
          OBVIOUS
        <5> QED BY ONLY <5>1, <5>2
      <4>2. CASE T[k] = e
        BY SMTT(30), <2>2, <4>2
      <4> QED BY <3>2, <4>1, <4>2
    <3>4. ASSUME NEW j \in 1 .. Len(T), NEW k \in 1 .. Len(T), j < k, T[j] # NoPacket, T[k] # NoPacket
          PROVE  T[j].num < T[k].num
      <4>1. j \in 1 .. Len(inbox) /\ T[j] = inbox[j]
        BY SMTT(30), <3>1, <3>2, <3>4
      <4>2. CASE k \in 1 .. Len(inbox) /\ T[k] = inbox[k]
        BY Zenon, <2>6, <3>4, <4>1, <4>2
      <4>3. CASE T[k] = e
        <5>1. inbox[j].num \in b + 1 .. arrivals
          BY Zenon, <2>6, <3>4, <4>1
        <5>2. T[k].num = arrivals + 1
          BY ONLY <2>2, <3>4, <4>3
        <5> QED BY SMTT(30), <4>1, <5>1, <5>2
      <4> QED BY ONLY <3>2, <4>2, <4>3
    <3>5. InSocket(a, b)'
      BY Zenon, <2>1, <2>5, <3>3, <3>4 DEF InSocket, T
    <3> QED BY <2>1, <2>4, <3>5
  <2> QED BY ONLY <2>3, <2>7, <2>8
<1>3. CASE ReceiveDatagram /\ arrivals' = arrivals
  <2> DEFINE T == inbox'
  <2>1. inbox # << >> /\ inbox' = Tail(inbox) /\ UNCHANGED packet_queue
    BY <1>3 DEF ReceiveDatagram
  <2>2. /\ Len(inbox) \in Nat /\ Len(T) = Len(inbox) - 1 /\ Head(inbox) = inbox[1]
        /\ 1 \in 1 .. Len(inbox)
        /\ \A k \in 1 .. Len(T) : T[k] = inbox[k + 1] /\ k + 1 \in 1 .. Len(inbox)
    BY <2>1, TailFacts
  <2>3. /\ \A k \in 1 .. Len(inbox) : inbox[k] # NoPacket => inbox[k].num \in b + 1 .. arrivals
        /\ \A j, k \in 1 .. Len(inbox) :
             j < k /\ inbox[j] # NoPacket /\ inbox[k] # NoPacket => inbox[j].num < inbox[k].num
    BY DEF InSocket
  <2> HIDE DEF T
  <2>4. /\ \A k \in 1 .. Len(T) : T[k] # NoPacket => T[k].num \in b + 1 .. arrivals
        /\ \A j, k \in 1 .. Len(T) :
             j < k /\ T[j] # NoPacket /\ T[k] # NoPacket => T[j].num < T[k].num
    <3>1. \A j, k \in 1 .. Len(T) : j < k => j + 1 < k + 1
      BY <2>2
    <3> QED BY Zenon, <2>2, <2>3, <3>1
  <2>5. InRing(w, a)'
    BY <2>1 DEF InRing
  <2>6. CASE inbox[1] = NoPacket
    <3>1. r_thread'.pc = "test"
      BY <1>3, <2>2, <2>6 DEF ReceiveDatagram
    <3>2. InSocket(a, b)'
      BY Zenon, <1>3, <2>4, <3>1 DEF InSocket, T
    <3> QED BY <1>3, <2>5, <3>2
  <2>7. CASE inbox[1] # NoPacket
    <3>1. r_thread'.packet = inbox[1]
      BY Zenon, <1>3, <2>2, <2>7 DEF ReceiveDatagram
    <3>2. inbox[1].num \in b + 1 .. arrivals
      BY ONLY <2>2, <2>3, <2>7
    <3>3. PICK d \in b + 1 .. arrivals : d = inbox[1].num
      BY <3>2
    <3>4. \A k \in 1 .. Len(T) : T[k] # NoPacket => T[k].num \in d + 1 .. arrivals
      <4> SUFFICES ASSUME NEW k \in 1 .. Len(T), T[k] # NoPacket PROVE T[k].num \in d + 1 .. arrivals
        OBVIOUS
      <4>1. 1 < k + 1 /\ T[k] = inbox[k + 1] /\ k + 1 \in 1 .. Len(inbox)
        BY ONLY <2>2
      <4>2. inbox[1].num < T[k].num
        BY Zenon, <2>2, <2>3, <2>7, <4>1
      <4>3. T[k].num \in b + 1 .. arrivals
        BY <2>4
      <4>4. d < T[k].num
        BY <3>3, <4>2
      <4> QED BY ONLY <4>3, <4>4
    <3>5. d \in a + 1 .. d /\ d \in Nat /\ a <= d /\ d <= arrivals
      BY SMTT(30), <3>3
    <3>6. InSocket(a, d)'
      BY Zenon, <1>3, <2>4, <3>1, <3>3, <3>4, <3>5 DEF InSocket, T
    <3> QED BY <1>3, <2>5, <3>5, <3>6
  <2> QED BY <2>6, <2>7
<1>4. CASE ReceivePush /\ arrivals' = arrivals
  <2> DEFINE T == packet_queue'
             e == r_thread.packet
             Ring == packet_queue
  <2>1. /\ r_thread.pc = "push" /\ T = Append(Ring, e) /\ inbox' = inbox
        /\ r_thread' = [pc |-> "count", packet |-> NoPacket]
    BY <1>4 DEF ReceivePush
  <2>2. r_thread'.pc = "count" /\ e \in Packets
    BY <2>1
  <2>3. /\ Len(Ring) \in Nat /\ Len(T) = Len(Ring) + 1 /\ T[Len(Ring) + 1] = e
        /\ \A k \in 1 .. Len(Ring) : T[k] = Ring[k]
    BY ONLY <2>1, <2>2, AppendFacts
  <2>4. PICK c \in a + 1 .. b : c = e.num
    BY <2>1 DEF InSocket
  <2>5. /\ \A k \in 1 .. Len(Ring) : Ring[k].num \in w + 1 .. a
        /\ \A j, k \in 1 .. Len(Ring) : j < k => Ring[j].num < Ring[k].num
    BY DEF InRing
  <2> HIDE DEF T, e, Bounds
  <2>6. \A k \in 1 .. Len(T) : \/ k \in 1 .. Len(Ring) /\ T[k] = Ring[k]
                               \/ k = Len(Ring) + 1 /\ T[k] = e
    BY <2>3
  <2>7. ASSUME NEW k \in 1 .. Len(T) PROVE T[k].num \in w + 1 .. c
    <3>1. CASE k \in 1 .. Len(Ring) /\ T[k] = Ring[k]
      <4>1. T[k].num \in w + 1 .. a
        BY <2>5, <3>1
      <4> QED BY <2>4, <4>1
    <3>2. CASE T[k] = e
      <4>1. T[k].num = c
        BY <2>4, <3>2
      <4> QED BY <2>4, <4>1
    <3> QED BY <2>6, <3>1, <3>2
  <2>8. ASSUME NEW j \in 1 .. Len(T), NEW k \in 1 .. Len(T), j < k PROVE T[j].num < T[k].num
    <3>1. j \in 1 .. Len(Ring) /\ T[j] = Ring[j]
      BY <2>3, <2>6, <2>8
    <3>2. CASE k \in 1 .. Len(Ring) /\ T[k] = Ring[k]
      BY Zenon, <2>5, <2>8, <3>1, <3>2
    <3>3. CASE T[k] = e
      <4>1. Ring[j].num \in w + 1 .. a
        BY <2>5, <3>1
      <4>2. T[k].num = c /\ T[j].num = Ring[j].num
        BY Zenon, <2>4, <3>1, <3>3
      <4> QED BY <2>4, <4>1, <4>2
    <3> QED BY ONLY <2>6, <3>2, <3>3
  <2>9. InRing(w, c)'
    BY Zenon, <2>7, <2>8 DEF InRing, T
  <2>10. InSocket(c, b)'
    BY Zenon, <1>4, <2>1, <2>2 DEF InSocket
  <2>11. c \in Nat /\ w <= c /\ c <= b
    BY <2>4
  <2> QED BY Zenon, <1>4, <2>9, <2>10, <2>11
<1> QED BY <1>1, <1>2, <1>3, <1>4, SocketMoves

(***************************************************************************)
(* Together.                                                               *)
(***************************************************************************)
LEMMA FlowStep ==
  ASSUME Numbered, TypeOK, Control, Rest, Lines, AllGenuine, Flow, [Next]_vars
  PROVE  Lines' /\ AllGenuine' /\ Flow'
<1>1. PICK w, a, b \in 0 .. arrivals :
        w <= a /\ a <= b /\ Ahead(w) /\ InRing(w, a) /\ InSocket(a, b)
  BY DEF Flow
<1>2. arrivals \in Nat
  BY BoundsHold DEF Bounds
<1>3. w \in Nat /\ a \in Nat /\ b \in Nat /\ b <= arrivals
  BY <1>2
<1>4. CASE ParsePacket
  <2>1. /\ Lines' /\ AllGenuine'
        /\ \E v \in w + 1 .. a : Ahead(v)' /\ InRing(v, a)'
    BY <1>1, <1>3, <1>4, ParsePacketLines
  <2>2. PICK v \in w + 1 .. a : Ahead(v)' /\ InRing(v, a)'
    BY <2>1
  <2>3. UNCHANGED <<r_thread, inbox, arrivals>>
    BY <1>4 DEF ParsePacket, ReadPacket
  <2>4. InSocket(a, b)'
    BY Zenon, <1>1, <2>3 DEF InSocket
  <2>5. v \in 0 .. arrivals /\ v <= a
    BY <1>2, <1>3, <2>2
  <2>6. Flow'
    BY <1>1, <2>2, <2>3, <2>4, <2>5 DEF Flow
  <2> QED BY <2>1, <2>6
<1>5. CASE ~ParsePacket
  <2>1. Lines' /\ AllGenuine' /\ Ahead(w)'
    BY <1>1, <1>3, <1>5, MessagesStep
  <2>2. PICK c, d \in Nat : w <= c /\ c <= d /\ d <= arrivals' /\ InRing(w, c)' /\ InSocket(c, d)'
    BY <1>1, <1>3, <1>5, SocketStep
  <2>3. arrivals' \in Nat
    BY Zenon, EngineTypesStep, TypesSplit, CounterType, <1>2 DEF EngineTypes
  <2>4. w \in 0 .. arrivals' /\ c \in 0 .. arrivals' /\ d \in 0 .. arrivals'
    BY <1>3, <2>2, <2>3
  <2>5. Flow'
    BY <2>1, <2>2, <2>4 DEF Flow
  <2> QED BY <2>1, <2>5
<1> QED BY <1>4, <1>5

(***************************************************************************)
(* The inductive invariant of the flow.                                    *)
(***************************************************************************)
THEOREM FlowHolds ==
  ASSUME Numbered
  PROVE  Spec => [](TypeOK /\ Control /\ Rest /\ Lines /\ AllGenuine /\ Flow)
<1>1. Init => Lines /\ AllGenuine /\ Flow
  <2> SUFFICES ASSUME Init PROVE Lines /\ AllGenuine /\ Flow
    BY Zenon
  <2>1. /\ Subs = {} /\ p_thread.pending = << >> /\ d_thread.pc = "none" /\ d_thread.msg = NoMessage
        /\ packet_queue = << >> /\ inbox = << >> /\ r_thread.pc = "none" /\ arrivals = 0
    <3>1. /\ subscribers = << >> /\ p_thread.pending = << >> /\ d_thread.pc = "none"
          /\ d_thread.msg = NoMessage /\ packet_queue = << >> /\ inbox = << >>
          /\ r_thread.pc = "none" /\ arrivals = 0
      BY Zenon DEF Init, ReceiverInit, DispatcherInit
    <3>2. Subs = {}
      BY ONLY <3>1 DEF Subs
    <3> QED BY Zenon, <3>1, <3>2
  <2>2. \A k : k \notin 1 .. Len(<< >>)
    OBVIOUS
  <2>3. Lines /\ AllGenuine
    BY Zenon, <2>1, <2>2 DEF Lines, AllGenuine, Sorted
  <2>4. Ahead(0)
    BY ONLY <2>1, <2>2 DEF Ahead, NoMessage
  <2>5. InRing(0, 0) /\ InSocket(0, 0)
    BY <2>1, <2>2 DEF InRing, InSocket
  <2>6. 0 \in 0 .. arrivals /\ 0 <= 0
    BY <2>1
  <2> QED BY <2>3, <2>4, <2>5, <2>6 DEF Flow
<1>2. (TypeOK /\ Control /\ Rest) /\ (Lines /\ AllGenuine /\ Flow) /\ [Next]_vars
        => (Lines /\ AllGenuine /\ Flow)'
  BY FlowStep
<1> QED BY <1>1, <1>2, TypesHold, PTL DEF Spec
-----------------------------------------------------------------------------
(***************************************************************************)
(* Two sequences of messages in order, the second after the first.         *)
(***************************************************************************)
LEMMA SortedConcat ==
  ASSUME NEW s \in Seq(Messages), NEW t \in Seq(Messages), Sorted(s), Sorted(t),
         \A j \in 1 .. Len(s), k \in 1 .. Len(t) : Before(s[j], t[k])
  PROVE  /\ s \o t \in Seq(Messages) /\ Sorted(s \o t)
         /\ \A k \in 1 .. Len(s \o t) : \/ \E j \in 1 .. Len(s) : (s \o t)[k] = s[j]
                                        \/ \E j \in 1 .. Len(t) : (s \o t)[k] = t[j]
<1> DEFINE u == s \o t
<1>1. /\ u \in Seq(Messages) /\ Len(u) = Len(s) + Len(t)
      /\ \A i \in 1 .. Len(s) + Len(t) : u[i] = IF i <= Len(s) THEN s[i] ELSE t[i - Len(s)]
  OBVIOUS
<1>2. Len(s) \in Nat /\ Len(t) \in Nat
  OBVIOUS
<1> HIDE DEF u
<1>3. ASSUME NEW k \in 1 .. Len(u)
      PROVE  \/ k \in 1 .. Len(s) /\ u[k] = s[k]
             \/ k > Len(s) /\ k - Len(s) \in 1 .. Len(t) /\ u[k] = t[k - Len(s)]
  BY <1>1, <1>2
<1>4. ASSUME NEW j \in 1 .. Len(u), NEW k \in 1 .. Len(u), j < k PROVE Before(u[j], u[k])
  <2>1. CASE k \in 1 .. Len(s) /\ u[k] = s[k]
    <3>1. j \in 1 .. Len(s) /\ u[j] = s[j]
      BY <1>1, <1>2, <1>4, <2>1
    <3> QED BY Zenon, <1>4, <2>1, <3>1 DEF Sorted
  <2>2. CASE k > Len(s) /\ k - Len(s) \in 1 .. Len(t) /\ u[k] = t[k - Len(s)]
    <3>1. CASE j \in 1 .. Len(s) /\ u[j] = s[j]
      BY Zenon, <2>2, <3>1
    <3>2. CASE j > Len(s) /\ j - Len(s) \in 1 .. Len(t) /\ u[j] = t[j - Len(s)]
      <4>1. j - Len(s) < k - Len(s)
        BY ONLY SMTT(30), <1>2, <1>4
      <4> QED BY <2>2, <3>2, <4>1 DEF Sorted
    <3> QED BY Zenon, <1>3, <3>1, <3>2
  <2> QED BY Zenon, <1>3, <2>1, <2>2
<1> QED BY Zenon, <1>1, <1>3, <1>4 DEF Sorted, u

(***************************************************************************)
(* The part of the pending messages that is still to come for a            *)
(* subscriber.                                                             *)
(***************************************************************************)
LEMMA PendingFacts ==
  ASSUME TypeOK, Lines, NEW s \in Subs
  PROVE  /\ Pending(s) \in Seq(Messages) /\ Sorted(Pending(s))
         /\ \A k \in 1 .. Len(Pending(s)) :
              \E l \in First(s) .. Len(p_thread.pending) :
                l \in 1 .. Len(p_thread.pending) /\ Pending(s)[k] = p_thread.pending[l]
<1> DEFINE P == p_thread.pending
           R == Tail(P)
<1>1. P \in Seq(Messages) /\ Len(P) \in Nat
  BY BoundsHold DEF Bounds
<1>2. \A j, k \in 1 .. Len(P) : j < k => Before(P[j], P[k])
  BY DEF Lines, Sorted
<1>3. CASE P = << >>
  <2>1. Pending(s) = << >> /\ \A k : k \notin 1 .. Len(<< >>)
    BY <1>3 DEF Pending
  <2> QED BY <1>1, <1>3, <2>1 DEF Sorted
<1>4. CASE P # << >> /\ p_thread.q > s
  <2>1. Pending(s) = R /\ First(s) = 2
    BY <1>4 DEF Pending, First
  <2>2. /\ R \in Seq(Messages) /\ Len(R) = Len(P) - 1
        /\ \A k \in 1 .. Len(R) : R[k] = P[k + 1] /\ k + 1 \in 1 .. Len(P)
    BY <1>1, <1>4, TailFacts
  <2> HIDE DEF P, R
  <2>3. \A j, k \in 1 .. Len(R) : j < k => j + 1 < k + 1
    BY <1>1, <2>2
  <2>4. Sorted(R)
    BY <1>2, <2>2, <2>3 DEF Sorted
  <2>5. ASSUME NEW k \in 1 .. Len(R)
        PROVE  \E l \in 2 .. Len(P) : l \in 1 .. Len(P) /\ R[k] = P[l]
    <3>1. k + 1 \in 2 .. Len(P)
      BY ONLY <1>1, <2>2
    <3> QED BY <2>2, <3>1
  <2> QED BY <2>1, <2>2, <2>4, <2>5 DEF P
<1>5. CASE ~(p_thread.q > s)
  <2>1. Pending(s) = P /\ First(s) = 1
    BY Zenon, <1>5 DEF Pending, First
  <2> QED BY <1>1, <1>2, <2>1 DEF Sorted
<1> QED BY <1>3, <1>4, <1>5

(***************************************************************************)
(* What is on its way to a subscriber, in order: last delivered, in hand,  *)
(* queued, pending.                                                        *)
(***************************************************************************)
LEMMA StreamSorted ==
  ASSUME TypeOK, Lines, AllGenuine, NEW s \in Subs, NEW w \in Nat, Ahead(w)
  PROVE  /\ \A j, k \in 1 .. Len(Stream(s)) : j < k => Before(Stream(s)[j], Stream(s)[k])
         /\ \A k \in 1 .. Len(Stream(s)) : Stream(s)[k].num \in Nat /\ Stream(s)[k].num <= w
<1> Bounds
  BY BoundsHold
<1> DEFINE d == delivered[s].msg
           Q == queues[s]
           P == p_thread.pending
           H == InHand(s)
           R == Pending(s)
<1>1. d \in Messages /\ Q \in Seq(Messages) /\ d_thread.msg \in Messages
  BY DEF Bounds
<1>2. InQueue(s) /\ InDelivery(s)
  BY DEF Lines
<1>3. /\ R \in Seq(Messages) /\ Sorted(R)
      /\ \A k \in 1 .. Len(R) :
           \E l \in First(s) .. Len(P) : l \in 1 .. Len(P) /\ R[k] = P[l]
  BY PendingFacts
<1>4. \A k \in 1 .. Len(R) : /\ Before(d, R[k]) /\ R[k].num <= w
                             /\ \A j \in 1 .. Len(Q) : Before(Q[j], R[k])
  BY Zenon, <1>2, <1>3 DEF InQueue, Ahead
<1>5. Sorted(Q) /\ \A k \in 1 .. Len(Q) : Before(d, Q[k]) /\ Q[k].num <= w
  BY Zenon, <1>2 DEF InQueue, Ahead
<1>6. d.num <= w /\ d_thread.msg.num <= w
  BY DEF Ahead
<1>7. /\ H \in Seq(Messages) /\ Sorted(H)
      /\ \A j \in 1 .. Len(H) : /\ Before(d, H[j]) /\ H[j].num <= w
                                /\ \A k \in 1 .. Len(Q) : Before(H[j], Q[k])
                                /\ \A k \in 1 .. Len(R) : Before(H[j], R[k])
  <2>1. CASE d_thread.pc = "deliver" /\ d_thread.i = s
    <3> DEFINE m == d_thread.msg
    <3>1. /\ Before(d, m) /\ \A k \in 1 .. Len(Q) : Before(m, Q[k])
          /\ \A l \in First(s) .. Len(P) : Before(m, P[l])
      BY <1>2, <2>1 DEF InDelivery
    <3>2. \A k \in 1 .. Len(R) : Before(m, R[k])
      BY Zenon, <1>3, <3>1
    <3>3. H = <<m>>
      BY <2>1 DEF InHand
    <3> HIDE DEF m, Bounds, d, Q, P, R, H
    <3>4. H \in Seq(Messages) /\ Len(H) = 1 /\ H[1] = m
      BY <1>1, <3>3 DEF m
    <3>5. \A j \in 1 .. Len(H) : j = 1
      BY <3>4
    <3>6. Sorted(H)
      BY <3>5 DEF Sorted
    <3> QED BY ZenonT(30), <1>6, <3>1, <3>2, <3>4, <3>5, <3>6 DEF m
  <2>2. CASE ~(d_thread.pc = "deliver" /\ d_thread.i = s)
    <3>1. H = << >> /\ \A j : j \notin 1 .. Len(<< >>)
      BY <2>2 DEF InHand
    <3> QED BY <3>1 DEF Sorted
  <2> QED BY Zenon, <2>1, <2>2
<1> DEFINE D == <<d>>
           A == D \o H
           B == A \o Q
           C == B \o R
<1>8. D \in Seq(Messages) /\ Sorted(D) /\ \A k \in 1 .. Len(D) : D[k] = d
  <2> HIDE DEF d, Bounds
  <2>1. D \in Seq(Messages) /\ Len(D) = 1 /\ D[1] = d
    BY <1>1
  <2>2. \A k \in 1 .. Len(D) : k = 1
    BY <2>1
  <2> QED BY <2>1, <2>2 DEF Sorted
<1>9. Stream(s) = C
  BY DEF Stream
<1> HIDE DEF Bounds, d, Q, P, R, H, D
<1>10. /\ A \in Seq(Messages) /\ Sorted(A)
       /\ \A k \in 1 .. Len(A) : A[k] = d \/ \E j \in 1 .. Len(H) : A[k] = H[j]
  <2>1. \A j \in 1 .. Len(D), k \in 1 .. Len(H) : Before(D[j], H[k])
    BY <1>7, <1>8
  <2>2. /\ D \o H \in Seq(Messages) /\ Sorted(D \o H)
        /\ \A k \in 1 .. Len(D \o H) : \/ \E j \in 1 .. Len(D) : (D \o H)[k] = D[j]
                                       \/ \E j \in 1 .. Len(H) : (D \o H)[k] = H[j]
    BY Zenon, <1>7, <1>8, <2>1, SortedConcat
  <2> QED BY Zenon, <1>8, <2>2
<1> HIDE DEF A
<1>11. /\ B \in Seq(Messages) /\ Sorted(B)
       /\ \A k \in 1 .. Len(B) : \/ \E j \in 1 .. Len(A) : B[k] = A[j]
                                 \/ \E j \in 1 .. Len(Q) : B[k] = Q[j]
  <2>1. \A j \in 1 .. Len(A), k \in 1 .. Len(Q) : Before(A[j], Q[k])
    BY Zenon, <1>5, <1>7, <1>10
  <2> QED BY Zenon, <1>1, <1>5, <1>10, <2>1, SortedConcat
<1> HIDE DEF B
<1>12. \A k \in 1 .. Len(B) : \/ B[k] = d \/ \E j \in 1 .. Len(H) : B[k] = H[j]
                              \/ \E j \in 1 .. Len(Q) : B[k] = Q[j]
  BY <1>10, <1>11
<1>13. /\ C \in Seq(Messages) /\ Sorted(C)
       /\ \A k \in 1 .. Len(C) : \/ \E j \in 1 .. Len(B) : C[k] = B[j]
                                 \/ \E j \in 1 .. Len(R) : C[k] = R[j]
  <2>1. \A j \in 1 .. Len(B), k \in 1 .. Len(R) : Before(B[j], R[k])
    BY Zenon, <1>4, <1>7, <1>12
  <2> QED BY Zenon, <1>3, <1>11, <2>1, SortedConcat
<1> HIDE DEF C
<1>14. \A k \in 1 .. Len(B) : B[k].num <= w
  BY Zenon, <1>5, <1>6, <1>7, <1>12
<1>15. \A k \in 1 .. Len(C) : C[k].num <= w
  BY Zenon, <1>4, <1>13, <1>14
<1>16. \A k \in 1 .. Len(C) : C[k].num \in Nat
  <2>1. \A k \in 1 .. Len(C) : C[k] \in Messages
    BY <1>13
  <2> QED BY <2>1 DEF Messages
<1> QED BY <1>9, <1>13, <1>15, <1>16 DEF Sorted

(***************************************************************************)
(* Every subscriber gets messages in the order in which the packets came   *)
(* and each at most once: the queues, the hands of the threads and the     *)
(* order of dispatch() never let a later one overtake, across drops,       *)
(* stop() and restart, for any number of subscribers and any capacities.   *)
(***************************************************************************)
THEOREM MessagesInOrder == ASSUME Numbered PROVE Spec => []InOrder
<1>1. TypeOK /\ Control /\ Rest /\ Lines /\ AllGenuine /\ Flow => InOrder
  <2> SUFFICES ASSUME TypeOK, Lines, AllGenuine, Flow, NEW s \in Subs
               PROVE  /\ \A j, k \in 1 .. Len(Stream(s)) : j < k => Before(Stream(s)[j], Stream(s)[k])
                      /\ \A j \in 1 .. Len(Stream(s)), e \in Incoming : Stream(s)[j].num < e.num
    BY Zenon DEF InOrder
  <2>1. PICK w, a, b \in 0 .. arrivals :
          w <= a /\ a <= b /\ Ahead(w) /\ InRing(w, a) /\ InSocket(a, b)
    BY DEF Flow
  <2>2. Bounds
    BY BoundsHold
  <2>3. arrivals \in Nat
    BY <2>2 DEF Bounds
  <2>4. w \in Nat /\ a \in Nat /\ b \in Nat
    BY <2>3
  <2>5. /\ \A j, k \in 1 .. Len(Stream(s)) : j < k => Before(Stream(s)[j], Stream(s)[k])
        /\ \A k \in 1 .. Len(Stream(s)) : Stream(s)[k].num \in Nat /\ Stream(s)[k].num <= w
    BY Zenon, <2>1, <2>4, StreamSorted
  <2>6. ASSUME NEW e \in Incoming PROVE e.num \in Nat /\ e.num > w
    <3>1. CASE \E k \in DOMAIN packet_queue : e = packet_queue[k]
      <4>1. PICK k \in DOMAIN packet_queue : e = packet_queue[k]
        BY <3>1
      <4>2. k \in 1 .. Len(packet_queue)
        BY <2>2, <4>1 DEF Bounds
      <4>3. e.num \in w + 1 .. a
        BY <2>1, <4>1, <4>2 DEF InRing
      <4> QED BY <2>4, <4>3
    <3>2. CASE r_thread.pc = "push" /\ e = r_thread.packet
      <4>1. e.num \in a + 1 .. b
        BY <2>1, <3>2 DEF InSocket
      <4> QED BY <2>1, <2>4, <4>1
    <3>3. CASE e # NoPacket /\ \E k \in DOMAIN inbox : e = inbox[k]
      <4>1. PICK k \in DOMAIN inbox : e = inbox[k]
        BY <3>3
      <4>2. k \in 1 .. Len(inbox)
        BY SMTT(30), <2>2, <4>1 DEF Bounds
      <4>3. e.num \in b + 1 .. arrivals
        BY <2>1, <3>3, <4>1, <4>2 DEF InSocket
      <4> QED BY <2>1, <2>3, <2>4, <4>3
    <3> QED BY <2>6, <3>1, <3>2, <3>3 DEF Incoming
  <2>7. ASSUME NEW j \in 1 .. Len(Stream(s)), NEW e \in Incoming PROVE Stream(s)[j].num < e.num
    <3>1. Stream(s)[j].num \in Nat /\ Stream(s)[j].num <= w
      BY <2>5
    <3> QED BY <2>4, <2>6, <3>1
  <2> QED BY Zenon, <2>5, <2>7
<1> QED BY <1>1, FlowHolds, PTL

(***************************************************************************)
(* The engine implements the lossy feed: a call of on_message is a call of *)
(* the feed with a message of a packet sent that is later than the last    *)
(* one this subscriber got; add_subscriber and the network are the feed's  *)
(* other steps, and every other step of the five threads changes nothing   *)
(* that it speaks of.                                                      *)
(***************************************************************************)
LEMMA FeedStep ==
  ASSUME Numbered, TypeOK, Control, Rest, Lines, AllGenuine, Flow, [Next]_vars
  PROVE  Feed!Next \/ UNCHANGED <<arrivals, [s \in Subs |-> delivered[s].msg]>>
<1> Bounds
  BY BoundsHold
<1> USE DEF Bounds
<1> DEFINE got == [s \in Subs |-> delivered[s].msg]
           L == Len(subscribers)
<1>1. got \in Seq(Messages) /\ Len(got) = L /\ \A s \in 1 .. L : got[s] = delivered[s].msg
  OBVIOUS
<1>2. CASE add_subscriber
  <2> DEFINE new == [msg |-> NoMessage, n |-> 0, since |-> d_stats.dispatched]
             g == got'
  <2>1. /\ subscribers' = Append(subscribers, "new") /\ delivered' = Append(delivered, new)
        /\ arrivals' = arrivals
    BY <1>2 DEF add_subscriber, AddSubscriber
  <2>2. /\ new \in Delivered /\ subscribers \in Seq({"new", "initialized", "shutdown"})
        /\ NoMessage \in Messages
    BY Zenon, TypesSplit DEF DispatcherTypes, NoMessage, Messages, Delivered
  <2>3. Subs' = 1 .. L + 1
    BY ONLY SMTT(30), <2>1, <2>2, AppendFacts DEF Subs
  <2>4. delivered'[L + 1] = new /\ \A t \in 1 .. L : delivered'[t] = delivered[t]
    <3>1. delivered \in Seq(Delivered) /\ Len(delivered) = L
      OBVIOUS
    <3> QED BY ONLY <2>1, <2>2, <3>1, AppendFacts
  <2>5. delivered'[L + 1].msg = NoMessage
    BY ONLY <2>4
  <2>6. g = [s \in 1 .. L + 1 |-> delivered'[s].msg]
    BY <2>3
  <2>7. \A s \in 1 .. L + 1 : s \in 1 .. L \/ s = L + 1
    OBVIOUS
  <2>8. \A s \in 1 .. L + 1 : delivered'[s].msg = (IF s = L + 1 THEN NoMessage ELSE got[s])
                              /\ delivered'[s].msg \in Messages
    BY Zenon, <1>1, <2>2, <2>4, <2>5, <2>7
  <2> HIDE DEF got, L, g, new
  <2>9. L \in Nat
    BY DEF L
  <2>10. g \in Seq(Messages) /\ Len(g) = L + 1
         /\ \A s \in 1 .. L + 1 : g[s] = (IF s = L + 1 THEN NoMessage ELSE got[s])
    <3>1. \A s \in 1 .. L + 1 : g[s] = (IF s = L + 1 THEN NoMessage ELSE got[s]) /\ g[s] \in Messages
      BY Zenon, <2>6, <2>8
    <3>2. g = [s \in 1 .. L + 1 |-> g[s]]
      BY Zenon, <2>6
    <3>3. g \in Seq(Messages) /\ Len(g) = L + 1
      BY ONLY SMTT(30), <2>9, <3>1, <3>2
    <3> QED
      BY Zenon, <3>1, <3>3
  <2>11. /\ Append(got, NoMessage) \in Seq(Messages) /\ Len(Append(got, NoMessage)) = L + 1
         /\ Append(got, NoMessage)[L + 1] = NoMessage
         /\ \A s \in 1 .. L : Append(got, NoMessage)[s] = got[s]
    BY SMTT(30), <1>1, <2>2, AppendFacts
  <2>12. \A s \in 1 .. L + 1 : g[s] = Append(got, NoMessage)[s]
    BY Zenon, <2>7, <2>10, <2>11
  <2>13. g = Append(got, NoMessage)
    BY ONLY <2>10, <2>11, <2>12, SequencesEqual
  <2>14. Feed!Nothing = NoMessage
    BY DEF Feed!Nothing, NoMessage
  <2> QED BY Zenon, <2>1, <2>13, <2>14 DEF Feed!Next, Feed!Subscribe, got, g
<1>3. CASE Deliver /\ UNCHANGED arrivals
  <2> DEFINE i == d_thread.i
             m == d_thread.msg
  <2>1. /\ d_thread.pc = "deliver" /\ i \in Subs /\ UNCHANGED subscribers
        /\ delivered' = [delivered EXCEPT ![i] = [delivered[i] EXCEPT !.msg = m]]
    BY <1>3 DEF Deliver, Control, SubscribersAt
  <2>2. delivered'[i].msg = m /\ \A t \in Subs : t # i => delivered'[t] = delivered[t]
    <3>1. delivered[i] \in Delivered /\ DOMAIN delivered = Subs
      BY <2>1
    <3> QED BY <2>1, <3>1 DEF Delivered
  <2>3. Subs' = Subs
    BY <2>1 DEF Subs
  <2>4. m \in Genuine /\ Before(delivered[i].msg, m)
    BY <2>1 DEF AllGenuine, Lines, InDelivery
  <2>5. m.num <= arrivals
    <3>1. PICK w \in 0 .. arrivals : Ahead(w)
      BY DEF Flow
    <3>2. m.num <= w /\ m.num \in Nat
      BY Zenon, <2>4, <3>1 DEF Ahead, Genuine
    <3> QED BY <3>1, <3>2
  <2>6. m = [num |-> m.num, idx |-> m.idx] /\ m.num \in 1 .. arrivals
        /\ m.idx \in 1 .. max_messages_per_packet
    BY ONLY <2>4, <2>5 DEF Genuine
  <2>7. got[i] = delivered[i].msg
    BY <2>1
  <2>8. Feed!Later(m, got[i])
    <3>1. delivered[i].msg \in Messages /\ m \in Messages
      BY <2>1
    <3> QED BY Zenon, <2>4, <2>7, <3>1 DEF Feed!Later, Before, Messages
  <2>9. got' = [got EXCEPT ![i] = m]
    <3>1. got' = [s \in Subs |-> delivered'[s].msg]
      BY <2>3
    <3>2. \A s \in Subs : delivered'[s].msg = IF s = i THEN m ELSE delivered[s].msg
      BY <2>2
    <3> HIDE DEF i, m
    <3> QED BY Zenon, <3>1, <3>2
  <2>10. i \in DOMAIN got
    BY <2>1
  <2>11. \E n \in 1 .. arrivals, k \in 1 .. max_messages_per_packet :
           LET e == [num |-> n, idx |-> k]
           IN  Feed!Later(e, got[i]) /\ got' = [got EXCEPT ![i] = e] /\ UNCHANGED arrivals
    <3>1. UNCHANGED arrivals
      BY <1>3
    <3> HIDE DEF i, m, got
    <3> QED BY Zenon, <2>6, <2>8, <2>9, <3>1
  <2>12. PICK t \in DOMAIN got : t = i
    BY <2>10
  <2>13. Feed!Call(t)
    <3>1. \E n \in 1 .. arrivals, k \in 1 .. max_messages_per_packet :
           LET e == [num |-> n, idx |-> k]
           IN  Feed!Later(e, got[t]) /\ got' = [got EXCEPT ![t] = e] /\ UNCHANGED arrivals
      <4> HIDE DEF i, m, got, Bounds
      <4> QED BY Zenon, <2>11, <2>12
    <3> HIDE DEF Bounds
    <3> QED BY Zenon, <3>1 DEF Feed!Call
  <2> HIDE DEF Bounds
  <2> QED BY <2>13 DEF Feed!Next
<1>4. CASE Network
  <2>1. arrivals' = arrivals + 1
    BY SMTT(30), <1>4, CountToAssumption, EngineAssumption, CounterExact DEF Network, Numbered, Bump
  <2>2. UNCHANGED <<subscribers, delivered>>
    BY Zenon, <1>4 DEF Network, dVars
  <2> QED BY Zenon, <2>1, <2>2 DEF Feed!Next, Feed!Send, Subs
<1>5. ASSUME arrivals' = arrivals, Subs' = Subs,
             \A s \in Subs : delivered'[s].msg = delivered[s].msg
      PROVE  UNCHANGED <<arrivals, got>>
  BY <1>5
<1>6. CASE LoopPop /\ UNCHANGED arrivals
  <2>1. /\ d_thread.i \in Subs /\ UNCHANGED subscribers
        /\ delivered' = [delivered EXCEPT ![d_thread.i] = [delivered[d_thread.i] EXCEPT !.n = Bump(@)]]
    BY <1>6 DEF LoopPop
  <2>2. \A s \in Subs : delivered'[s].msg = delivered[s].msg
    <3> TAKE s \in Subs
    <3>1. delivered[d_thread.i] \in Delivered /\ d_thread.i \in DOMAIN delivered /\ s \in DOMAIN delivered
      BY <2>1
    <3> QED BY <2>1, <3>1 DEF Delivered
  <2> QED BY <1>5, <1>6, <2>1, <2>2 DEF Subs
<1>7. CASE ~add_subscriber /\ UNCHANGED <<arrivals, delivered>>
  BY <1>5, <1>7, SubscribersKept
<1>8. \/ add_subscriber \/ Network \/ (Deliver /\ UNCHANGED arrivals)
      \/ (LoopPop /\ UNCHANGED arrivals) \/ (~add_subscriber /\ UNCHANGED <<arrivals, delivered>>)
  <2> HIDE DEF Bounds
  <2> USE DEF dVars
  <2>1. CASE Application
    BY Zenon, <2>1 DEF Application, set_parser, initialize, StartFlag, StopFlag
  <2>2. CASE MainStep
    BY Zenon, <2>2 DEF MainStep, StartReceiver, StartDispatcher, DispatcherStart, StartParser, StopJoinParser,
                StopDispatcher, DispatcherStopFlag, JoinDispatcher, DispatcherStopJoin,
                StopReceiver, JoinReceiver
  <2>3. CASE ParserThread
    BY <2>3 DEF ParserThread, ParseTest, ParseNothing, ParsePacket, ParsePush, DispatchPush,
                ParseDispatched, DispatchCount, ParseCount
  <2>4. CASE Receiving \/ Failing \/ Dispatching \/ UNCHANGED vars
    BY <2>4 DEF Receiving, Failing, Dispatching, DispatcherThread, LoopTest,
                LoopNextSubscriber, LoopAgain, vars
  <2> QED BY <2>1, <2>2, <2>3, <2>4 DEF Next
<1> QED BY <1>2, <1>3, <1>4, <1>6, <1>7, <1>8

(***************************************************************************)
(* The engine, with its threads, queues and drops, implements the lossy    *)
(* ordered feed: what its subscribers see is a behaviour of LossyFeed.     *)
(***************************************************************************)
THEOREM EngineImplementsFeed == ASSUME Numbered PROVE Spec => ImplementsFeed
<1>1. Init => Feed!Init
  <2> SUFFICES ASSUME Init PROVE arrivals = 0 /\ [s \in Subs |-> delivered[s].msg] = << >>
    BY DEF Feed!Init
  <2>1. subscribers = << >> /\ arrivals = 0
    BY Zenon DEF Init, DispatcherInit
  <2>2. Subs = {} /\ arrivals = 0
    BY ONLY <2>1 DEF Subs
  <2> QED BY ONLY <2>2
<1>2. (TypeOK /\ Control /\ Rest /\ Lines /\ AllGenuine /\ Flow) /\ [Next]_vars
        => [Feed!Next]_(Feed!feedVars)
  BY FeedStep DEF Feed!feedVars
<1> QED BY <1>1, <1>2, FlowHolds, PTL DEF Spec, ImplementsFeed, Feed!Spec
=============================================================================
