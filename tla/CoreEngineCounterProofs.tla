---------------------- MODULE CoreEngineCounterProofs -----------------------
(***************************************************************************)
(* The counters that get_stats() and its components report: those of the   *)
(* receiver, the parser and the dispatcher agree with each other, with     *)
(* what recvfrom returned and with what the subscribers were called with.  *)
(***************************************************************************)
EXTENDS CoreEngineProofs, FiniteSetTheorems

(***************************************************************************)
(* The counters count what they say, as long as they do not reach CountTo. *)
(***************************************************************************)
Countable == Numbered /\ MaxArrivals * max_messages_per_packet <= CountTo

Flag(condition) == IF condition THEN 1 ELSE 0

PacketsCounted ==
  /\ arrivals <= MaxArrivals
  /\ taken + Len(inbox) <= arrivals
  /\ taken = sequence_ + Len(packet_queue) + r_stats.dropped + Flag(r_thread.pc = "push")
  /\ r_stats.received + Flag(r_thread.pc = "count") = sequence_ + Len(packet_queue)

MessagesCounted ==
  /\ d_stats.dispatched = e_stats.parsed + (p_thread.count - Len(p_thread.pending))
  /\ e_stats.parsed + p_thread.count <= sequence_ * max_messages_per_packet
  /\ e_stats.errors + Flag(p_thread.pc = "dispatch") <= sequence_

ErrorsCounted ==
  /\ p_thread.count <= max_messages_per_packet
  /\ sequence_ <= e_stats.parsed + e_stats.errors + Flag(p_thread.pc = "dispatch")
  /\ e_stats.parsed <= Fruitful * max_messages_per_packet
-----------------------------------------------------------------------------
(***************************************************************************)
(* What the counters count, as numbers.                                    *)
(***************************************************************************)
LEMMA CounterTypes ==
  ASSUME TypeOK
  PROVE  /\ sequence_ \in Nat /\ Len(packet_queue) \in Nat /\ Len(inbox) \in Nat /\ arrivals \in Nat
         /\ taken \in Nat
         /\ r_stats \in [received : Nat, dropped : Nat] /\ d_stats \in [dispatched : Nat, dropped : Nat]
         /\ e_stats \in [parsed : Nat, errors : Nat]
         /\ p_thread.count \in Nat /\ Len(p_thread.pending) \in Nat
         /\ p_thread \in ParserRecord
         /\ r_thread \in [pc : {"none", "test", "recv", "push", "count", "done"}, packet : Packets]
         /\ packet_queue \in Seq(Packets) /\ inbox \in Seq(Packets) /\ p_thread.pending \in Seq(Messages)
<1>1. ReceiverTypes /\ DispatcherTypes /\ EngineTypes
  BY TypesSplit
<1>2. p_thread \in ParserRecord /\ p_thread.count \in Nat /\ p_thread.pending \in Seq(Messages)
  BY Zenon, <1>1 DEF EngineTypes, ParserRecord
<1>3. packet_queue \in Seq(Packets) /\ inbox \in Seq(Packets)
  BY <1>1 DEF ReceiverTypes
<1>4. Len(packet_queue) \in Nat /\ Len(inbox) \in Nat /\ Len(p_thread.pending) \in Nat
  BY <1>2, <1>3
<1> QED BY Zenon, <1>1, <1>2, <1>3, <1>4 DEF ReceiverTypes, DispatcherTypes, EngineTypes

(***************************************************************************)
(* A step that changes none of the receiver's counts, except to lose what  *)
(* the socket holds.                                                       *)
(***************************************************************************)
PacketsStill ==
  /\ UNCHANGED <<sequence_, packet_queue, arrivals, taken, r_stats>>
  /\ inbox' = inbox \/ inbox' = << >>
  /\ r_thread'.pc = "push" <=> r_thread.pc = "push"
  /\ r_thread'.pc = "count" <=> r_thread.pc = "count"

(***************************************************************************)
(* The steps that touch a count of packets.                                *)
(***************************************************************************)
LEMMA PacketMoves ==
  ASSUME TypeOK, Control, [Next]_vars
  PROVE  \/ PacketsStill \/ Network \/ ParsePacket
         \/ (ReceiveDatagram \/ ReceivePush \/ ReceiveDrop \/ ReceiveCount) /\ UNCHANGED arrivals
<1> USE DEF PacketsStill, rVars
<1>1. r_thread \in [pc : {"none", "test", "recv", "push", "count", "done"}, packet : Packets]
  BY CounterTypes
<1>2. \A pc : [r_thread EXCEPT !.pc = pc].pc = pc
  BY <1>1
<1>3. CASE Application
  BY Zenon, <1>3 DEF Application, set_parser, add_subscriber, initialize, ReceiverInitialize,
              StartFlag, StopFlag
<1>4. CASE MainStep
  <2>1. CASE StartReceiver
    <3>1. r_running \/ r_thread.pc = "none"
      BY Zenon, <2>1 DEF StartReceiver, Control, ReceiverAt
    <3> QED BY Zenon, <1>2, <2>1, <3>1 DEF StartReceiver, ReceiverStart
  <2>2. CASE StopReceiver
    BY Zenon, <2>2 DEF StopReceiver, ReceiverStopFlag
  <2>3. CASE JoinReceiver
    BY Zenon, <1>2, <2>3 DEF JoinReceiver, ReceiverStopJoin
  <2>4. CASE StartDispatcher \/ StartParser \/ StopJoinParser \/ StopDispatcher \/ JoinDispatcher
    BY Zenon, <2>4 DEF StartDispatcher, StartParser, StopJoinParser, StopDispatcher, JoinDispatcher
  <2> QED BY Zenon, <1>4, <2>1, <2>2, <2>3, <2>4 DEF MainStep
<1>5. CASE ParserThread
  BY <1>5 DEF ParserThread, ParseTest, ParseNothing, ParsePush, ParseDispatched, ParseCount
<1>6. CASE Receiving
  <2>1. CASE ReceiveTest
    BY <1>2, <1>6, <2>1 DEF Receiving, ReceiveTest
  <2> QED BY Zenon, <1>6, <2>1 DEF Receiving, ReceiverThread
<1>7. CASE Failing
  BY <1>2, <1>7 DEF Failing, ReceiveFails
<1>8. CASE Dispatching \/ UNCHANGED vars
  BY <1>8 DEF Dispatching, vars
<1> QED BY Zenon, <1>3, <1>4, <1>5, <1>6, <1>7, <1>8 DEF Next

(***************************************************************************)
(* Packets are counted where they are; no counter is at its bound.         *)
(***************************************************************************)
LEMMA PacketsCountedStep ==
  ASSUME Numbered, TypeOK, Control, PacketsCounted, [Next]_vars
  PROVE  PacketsCounted'
<1> DEFINE S == sequence_
           R == Len(packet_queue)
           I == Len(inbox)
           A == arrivals
           T == taken
           U == Flag(r_thread.pc = "push")
           K == Flag(r_thread.pc = "count")
           V == r_stats.received
           W == r_stats.dropped
<1>1. /\ S \in Nat /\ R \in Nat /\ I \in Nat /\ A \in Nat /\ T \in Nat /\ V \in Nat /\ W \in Nat
      /\ r_stats \in [received : Nat, dropped : Nat]
  BY CounterTypes
<1>2. U \in {0, 1} /\ K \in {0, 1}
  BY DEF Flag
<1>3. A <= MaxArrivals /\ T + I <= A /\ T = S + R + W + U /\ V + K = S + R
  BY DEF PacketsCounted
<1>4. MaxArrivals \in Nat /\ MaxArrivals <= CountTo /\ CountTo \in Nat
  BY EngineAssumption, CountToAssumption DEF Numbered
<1>5. \A c \in Nat : c + 1 <= CountTo => Bump(c) = c + 1
  BY CounterExact DEF Bump
<1>6. r_thread \in [pc : {"none", "test", "recv", "push", "count", "done"}, packet : Packets]
  BY CounterTypes
<1>7. SUFFICES A' <= MaxArrivals /\ T' + I' <= A' /\ T' = S' + R' + W' + U' /\ V' + K' = S' + R'
  BY DEF PacketsCounted
<1> HIDE DEF S, R, I, A, T, U, K, V, W
<1>8. CASE PacketsStill
  <2>1. S' = S /\ R' = R /\ A' = A /\ T' = T /\ V' = V /\ W' = W /\ K' = K /\ U' = U
    BY Zenon, <1>8 DEF PacketsStill, S, R, A, T, V, W, K, U
  <2>2. I' = I \/ I' = 0
    BY <1>8 DEF PacketsStill, I
  <2> QED BY <1>1, <1>3, <2>1, <2>2
<1>9. CASE Network
  <2>1. arrivals < MaxArrivals /\ arrivals' = Bump(arrivals)
    BY <1>9 DEF Network, Numbered
  <2>2. A' = A + 1 /\ A < MaxArrivals
    BY <1>1, <1>4, <1>5, <2>1 DEF A
  <2>3. S' = S /\ R' = R /\ T' = T /\ U' = U /\ K' = K /\ V' = V /\ W' = W
    BY Zenon, <1>9 DEF Network, DatagramArrives, S, R, T, U, K, V, W
  <2>4. PICK e \in Packets : DatagramArrives(e)
    <3>1. NoPacket \in Packets /\ \A k \in Holds : [num |-> arrivals + 1, holds |-> k] \in Packets
      BY <1>1, EngineAssumption DEF NoPacket, Packets, A
    <3> QED BY Zenon, <1>9, <3>1 DEF Network
  <2>5. inbox \in Seq(Packets) /\ (inbox' = inbox \/ inbox' = Append(inbox, e))
    BY <2>4, CounterTypes DEF DatagramArrives
  <2>6. I' = I \/ I' = I + 1
    BY <2>5, AppendFacts DEF I
  <2> QED BY <1>1, <1>3, <1>4, <2>2, <2>3, <2>6
<1>10. CASE ParsePacket
  <2>1. /\ packet_queue # << >> /\ packet_queue' = Tail(packet_queue) /\ sequence_' = Bump(sequence_)
        /\ UNCHANGED <<inbox, r_thread, r_stats, arrivals, taken>> /\ packet_queue \in Seq(Packets)
    BY <1>10, CounterTypes DEF ParsePacket, ReadPacket
  <2>2. A' = A /\ T' = T /\ U' = U /\ K' = K /\ V' = V /\ W' = W /\ I' = I
    BY <2>1 DEF A, T, U, K, V, W, I
  <2>3. R' = R - 1 /\ R > 0
    BY <2>1, TailFacts DEF R
  <2>4. S + 1 <= CountTo
    BY <1>1, <1>2, <1>3, <1>4, <2>3
  <2>5. S' = S + 1
    BY <1>1, <1>5, <2>1, <2>4 DEF S
  <2> QED BY <1>1, <1>2, <1>3, <1>4, <2>2, <2>3, <2>5
<1>11. CASE ReceiveDatagram /\ UNCHANGED arrivals
  <2>1. /\ inbox # << >> /\ inbox' = Tail(inbox) /\ inbox \in Seq(Packets) /\ r_thread.pc = "recv"
        /\ UNCHANGED <<packet_queue, sequence_, r_stats>>
    BY <1>11, CounterTypes DEF ReceiveDatagram
  <2>2. \/ r_thread'.pc = "test" /\ taken' = taken
        \/ r_thread'.pc = "push" /\ taken' = Bump(taken)
    BY <1>6, <1>11 DEF ReceiveDatagram
  <2>3. A' = A /\ S' = S /\ R' = R /\ V' = V /\ W' = W
    BY <1>11, <2>1 DEF A, S, R, V, W
  <2>4. K = 0 /\ K' = 0
    BY <2>1, <2>2 DEF K, Flag
  <2>5. I' = I - 1 /\ I > 0
    BY <2>1, TailFacts DEF I
  <2>6. T + 1 <= CountTo
    BY <1>1, <1>3, <1>4, <2>5
  <2>7. U = 0
    BY <2>1 DEF U, Flag
  <2>8. Bump(T) = T + 1
    BY <1>1, <1>5, <2>6
  <2>9. CASE r_thread'.pc = "test" /\ taken' = taken
    <3>1. U' = 0 /\ T' = T
      BY <2>9 DEF U, T, Flag
    <3> QED BY <1>1, <1>3, <2>3, <2>4, <2>5, <2>7, <3>1
  <2>10. CASE r_thread'.pc = "push" /\ taken' = Bump(taken)
    <3>1. U' = 1 /\ T' = Bump(T)
      BY <2>10 DEF U, T, Flag
    <3> QED BY <1>1, <1>3, <2>3, <2>4, <2>5, <2>7, <2>8, <3>1
  <2> QED BY Zenon, <2>2, <2>9, <2>10
<1>12. CASE ReceivePush /\ UNCHANGED arrivals
  <2>1. /\ r_thread.pc = "push" /\ packet_queue' = Append(packet_queue, r_thread.packet)
        /\ r_thread' = [pc |-> "count", packet |-> NoPacket]
        /\ UNCHANGED <<inbox, sequence_, r_stats, taken>> /\ packet_queue \in Seq(Packets)
    BY <1>12, CounterTypes DEF ReceivePush
  <2>2. U = 1 /\ U' = 0 /\ K = 0 /\ K' = 1
    BY <2>1 DEF U, K, Flag
  <2>3. A' = A /\ S' = S /\ T' = T /\ V' = V /\ W' = W /\ I' = I
    BY <1>12, <2>1 DEF A, S, T, V, W, I
  <2>4. R' = R + 1
    BY <1>6, <2>1, AppendFacts DEF R
  <2> QED BY <1>1, <1>3, <2>2, <2>3, <2>4
<1>13. CASE ReceiveDrop /\ UNCHANGED arrivals
  <2>1. /\ r_thread.pc = "push" /\ r_stats' = [r_stats EXCEPT !.dropped = Bump(@)]
        /\ r_thread' = [pc |-> "test", packet |-> NoPacket]
        /\ UNCHANGED <<inbox, sequence_, packet_queue, taken>>
    BY <1>13 DEF ReceiveDrop
  <2>2. r_stats'.received = r_stats.received /\ r_stats'.dropped = Bump(r_stats.dropped)
    BY <1>1, <2>1
  <2>3. U = 1 /\ U' = 0 /\ K = 0 /\ K' = 0
    BY <2>1 DEF U, K, Flag
  <2>4. A' = A /\ S' = S /\ R' = R /\ T' = T /\ I' = I /\ V' = V
    BY <1>13, <2>1, <2>2 DEF A, S, R, T, I, V
  <2>5. W + 1 <= CountTo
    BY <1>1, <1>3, <1>4, <2>3
  <2>6. W' = W + 1
    BY <1>1, <1>5, <2>2, <2>5 DEF W
  <2> QED BY <1>1, <1>3, <2>3, <2>4, <2>6
<1>14. CASE ReceiveCount /\ UNCHANGED arrivals
  <2>1. /\ r_thread.pc = "count" /\ r_stats' = [r_stats EXCEPT !.received = Bump(@)]
        /\ r_thread' = [r_thread EXCEPT !.pc = "test"]
        /\ UNCHANGED <<inbox, sequence_, packet_queue, taken>>
    BY <1>14 DEF ReceiveCount
  <2>2. /\ r_thread'.pc = "test" /\ r_stats'.received = Bump(r_stats.received)
        /\ r_stats'.dropped = r_stats.dropped
    BY <1>1, <1>6, <2>1
  <2>3. U = 0 /\ U' = 0 /\ K = 1 /\ K' = 0
    BY <2>1, <2>2 DEF U, K, Flag
  <2>4. A' = A /\ S' = S /\ R' = R /\ T' = T /\ I' = I /\ W' = W
    BY <1>14, <2>1, <2>2 DEF A, S, R, T, I, W
  <2>5. V + 1 <= CountTo
    BY ONLY <1>1, <1>3, <1>4, <2>3
  <2>6. V' = V + 1
    BY <1>1, <1>5, <2>2, <2>5 DEF V
  <2> QED BY <1>1, <1>3, <2>3, <2>4, <2>6
<1> QED BY Zenon, <1>8, <1>9, <1>10, <1>11, <1>12, <1>13, <1>14, PacketMoves

(***************************************************************************)
(* No more packets are read than were sent.                                *)
(***************************************************************************)
LEMMA ReadBound ==
  ASSUME TypeOK, PacketsCounted
  PROVE  sequence_ <= MaxArrivals
<1>1. /\ taken + Len(inbox) <= arrivals /\ arrivals <= MaxArrivals
      /\ taken = sequence_ + Len(packet_queue) + r_stats.dropped + Flag(r_thread.pc = "push")
  BY DEF PacketsCounted
<1>2. /\ sequence_ \in Nat /\ Len(packet_queue) \in Nat /\ Len(inbox) \in Nat /\ taken \in Nat
      /\ arrivals \in Nat /\ r_stats.dropped \in Nat /\ Flag(r_thread.pc = "push") \in Nat
  BY CounterTypes DEF Flag
<1> QED BY <1>1, <1>2, EngineAssumption

(***************************************************************************)
(* A step that changes nothing the parser thread counts.                   *)
(***************************************************************************)
MessagesStill ==
  /\ sequence_' = sequence_ /\ d_stats'.dispatched = d_stats.dispatched /\ e_stats' = e_stats
  /\ p_thread'.count = p_thread.count /\ p_thread'.pending = p_thread.pending
  /\ p_thread'.pc = "dispatch" <=> p_thread.pc = "dispatch"

(***************************************************************************)
(* The steps that touch a count of messages.                               *)
(***************************************************************************)
LEMMA MessageMoves ==
  ASSUME TypeOK, Control, [Next]_vars
  PROVE  MessagesStill \/ ParsePacket \/ ParseDispatched \/ ParseCount
<1> USE DEF MessagesStill
<1>1. p_thread \in ParserRecord /\ d_stats \in [dispatched : Nat, dropped : Nat]
  BY CounterTypes
<1>2. \A pc : /\ [p_thread EXCEPT !.pc = pc].pc = pc
              /\ [p_thread EXCEPT !.pc = pc].count = p_thread.count
              /\ [p_thread EXCEPT !.pc = pc].pending = p_thread.pending
  BY <1>1 DEF ParserRecord
<1>3. CASE Application
  BY Zenon, <1>3 DEF Application, set_parser, add_subscriber, AddSubscriber, initialize, ReceiverInitialize,
              StartFlag, StopFlag, rVars, dVars, eVars
<1>4. CASE MainStep
  <2>1. UNCHANGED <<sequence_, d_stats, e_stats>>
    BY Zenon, <1>4 DEF MainStep, StartReceiver, ReceiverStart, StartDispatcher, DispatcherStart, StartParser,
                StopJoinParser, StopDispatcher, DispatcherStopFlag, JoinDispatcher,
                DispatcherStopJoin, StopReceiver, ReceiverStopFlag, JoinReceiver, ReceiverStopJoin,
                rVars, dVars
  <2>2. CASE StartParser
    <3>1. p_thread.pc = "none"
      BY Zenon, <2>2 DEF StartParser, Control, ParserAt
    <3> QED BY Zenon, <1>2, <2>1, <2>2, <3>1 DEF StartParser
  <2>3. CASE StopJoinParser
    BY Zenon, <1>2, <2>1, <2>3 DEF StopJoinParser
  <2>4. CASE UNCHANGED p_thread
    BY <2>1, <2>4
  <2> QED BY Zenon, <1>4, <2>2, <2>3, <2>4 DEF MainStep, StartReceiver, StartDispatcher, StopDispatcher,
                                        JoinDispatcher, StopReceiver, JoinReceiver
<1>5. CASE ParserThread
  <2>1. CASE ParseTest
    BY <1>2, <2>1 DEF ParseTest, rVars, dVars
  <2>2. CASE ParseNothing
    BY <1>2, <2>2 DEF ParseNothing, rVars, dVars
  <2>3. CASE ParsePush
    <3>1. d_stats'.dispatched = d_stats.dispatched
      BY <1>1, <2>3 DEF ParsePush, DispatchPush
    <3>2. p_thread' = [p_thread EXCEPT !.q = @ + 1] /\ UNCHANGED <<sequence_, e_stats>>
      BY <2>3 DEF ParsePush, rVars
    <3>3. p_thread'.pc = p_thread.pc /\ p_thread'.count = p_thread.count
          /\ p_thread'.pending = p_thread.pending
      BY <1>1, <3>2 DEF ParserRecord
    <3> QED BY <3>1, <3>2, <3>3
  <2> QED BY Zenon, <1>5, <2>1, <2>2, <2>3 DEF ParserThread
<1>6. CASE Receiving \/ Failing \/ Network
  BY Zenon, <1>6 DEF Receiving, ReceiverThread, ReceiveTest, ReceiveDatagram, ReceivePush, ReceiveDrop,
              ReceiveCount, Failing, ReceiveFails, Network, DatagramArrives, dVars, eVars
<1>7. CASE Dispatching
  BY <1>7 DEF Dispatching, DispatcherThread, LoopTest, LoopPop, LoopNextSubscriber, LoopAgain,
              Deliver, rVars, eVars
<1>8. CASE UNCHANGED vars
  BY <1>8 DEF vars, rVars, dVars, eVars
<1> QED BY Zenon, <1>3, <1>4, <1>5, <1>6, <1>7, <1>8 DEF Next

(***************************************************************************)
(* What the packets read can give is below the bound of the counters.      *)
(***************************************************************************)
LEMMA Product == \A a, b, c \in Nat : a <= b => a * c <= b * c
<1> TAKE a, b, c \in Nat
<1> SUFFICES ASSUME a <= b PROVE a * c <= b * c
  OBVIOUS
<1>1. PICK d \in Nat : b = a + d
  <2>1. b - a \in Nat /\ b = a + (b - a)
    OBVIOUS
  <2> QED BY <2>1
<1>2. b * c = a * c + d * c
  BY <1>1
<1>3. a * c \in Nat /\ d * c \in Nat
  OBVIOUS
<1> QED BY <1>2, <1>3

(***************************************************************************)
(* Messages are counted as they are dispatched and, per packet, parsed.    *)
(***************************************************************************)
LEMMA MessagesCountedStep ==
  ASSUME Countable, TypeOK, Control, Rest, PacketsCounted, MessagesCounted, ErrorsCounted, [Next]_vars
  PROVE  MessagesCounted' /\ ErrorsCounted'
<1> DEFINE S == sequence_
           M == max_messages_per_packet
           D == d_stats.dispatched
           E == e_stats.parsed
           X == e_stats.errors
           C == p_thread.count
           P == Len(p_thread.pending)
           F == Flag(p_thread.pc = "dispatch")
           G == S - F - X
<1>1. /\ S \in Nat /\ D \in Nat /\ E \in Nat /\ X \in Nat /\ C \in Nat /\ P \in Nat /\ M \in Nat
      /\ p_thread \in ParserRecord
  BY CounterTypes, EngineAssumption
<1>2. F \in Nat /\ F <= 1
  BY DEF Flag
<1>3. /\ D = E + (C - P) /\ E + C <= S * M /\ X + F <= S
      /\ C <= M /\ S <= E + X + F /\ E <= G * M
  BY DEF MessagesCounted, ErrorsCounted, Fruitful, Flag
<1>4. S <= MaxArrivals /\ MaxArrivals \in Nat /\ CountTo \in Nat /\ S <= CountTo
      /\ sequence_' \in Nat
  <2>1. MaxArrivals \in Nat /\ MaxArrivals <= CountTo /\ CountTo \in Nat
    BY EngineAssumption, CountToAssumption DEF Countable, Numbered
  <2>2. sequence_ <= MaxArrivals
    BY Zenon, ReadBound
  <2>3. ReceiverTypes'
    BY Zenon, TypesSplit, ReceiverTypesStep DEF EngineTypes
  <2>4. sequence_' \in Nat
    BY <2>3 DEF ReceiverTypes
  <2> QED BY <1>1, <2>1, <2>2, <2>4
<1>5. E + C <= CountTo
  <2>1. S * M <= MaxArrivals * M /\ MaxArrivals * M <= CountTo
    BY <1>1, <1>4, Product DEF Countable
  <2>2. S * M \in Nat /\ MaxArrivals * M \in Nat
    BY <1>1, <1>4
  <2> HIDE DEF S, M, E, C
  <2> QED BY <1>1, <1>3, <1>4, <2>1, <2>2
<1>6. SUFFICES /\ D' = E' + (C' - P') /\ E' + C' <= S' * M /\ X' + F' <= S'
               /\ C' <= M /\ S' <= E' + X' + F' /\ E' <= G' * M
  BY DEF MessagesCounted, ErrorsCounted, Fruitful, Flag
<1> HIDE DEF S, M, D, E, X, C, P, F
<1>7. CASE MessagesStill
  <2>1. S' = S /\ D' = D /\ E' = E /\ X' = X /\ C' = C /\ P' = P /\ F' = F
    BY <1>7 DEF MessagesStill, S, D, E, X, C, P, F
  <2> QED BY Zenon, <1>3, <2>1
<1>8. CASE ParsePacket
  <2> DEFINE R == Parsed(Head(packet_queue))
  <2>1. /\ packet_queue # << >> /\ sequence_' = Bump(sequence_) /\ p_thread.pc = "read"
        /\ p_thread' = [pc |-> "dispatch", pending |-> R, q |-> 1, count |-> Len(R)]
        /\ UNCHANGED <<d_stats, e_stats>> /\ packet_queue \in Seq(Packets)
    BY Zenon, <1>8, CounterTypes DEF ParsePacket, ReadPacket, dVars
  <2>2. Len(R) \in 0 .. M
    <3>1. Head(packet_queue) \in Packets
      BY <2>1, TailFacts
    <3> QED BY <3>1, ParsedFacts DEF M
  <2>3. D' = D /\ E' = E /\ X' = X /\ C' = Len(R) /\ P' = Len(R) /\ F = 0 /\ F' = 1
    BY <2>1 DEF D, E, X, C, P, F, Flag
  <2>4. C = 0 /\ P = 0
    BY Zenon, <2>1 DEF Rest, C, P
  <2>5. S' = S + 1
    <3>1. PacketsCounted'
      BY PacketsCountedStep DEF Countable
    <3>2. /\ packet_queue' = Tail(packet_queue) /\ UNCHANGED <<r_stats, r_thread>>
      BY <1>8 DEF ParsePacket, ReadPacket
    <3>3. Len(packet_queue') = Len(packet_queue) - 1 /\ Len(packet_queue) \in Nat
      BY <2>1, <3>2, TailFacts
    <3>4. /\ r_stats.received + Flag(r_thread.pc = "count") = sequence_ + Len(packet_queue)
          /\ r_stats.received + Flag(r_thread.pc = "count") = sequence_' + Len(packet_queue')
      BY <3>1, <3>2 DEF PacketsCounted
    <3> QED BY <1>1, <1>4, <3>3, <3>4 DEF S
  <2>6. S' * M = S * M + M /\ S * M \in Nat
    BY <1>1, <2>5
  <2>7. E + Len(R) <= S * M + M
    BY <1>1, <1>3, <2>2, <2>4, <2>6
  <2> HIDE DEF R
  <2>8. G' = G
    BY <1>1, <2>3, <2>5
  <2>9. D' = E' + (C' - P') /\ E' + C' <= S' * M /\ X' + F' <= S'
    BY SMTT(30), <1>1, <1>2, <1>3, <2>2, <2>3, <2>4, <2>5, <2>6, <2>7
  <2>10. C' <= M /\ S' <= E' + X' + F'
    BY <1>1, <1>3, <2>2, <2>3, <2>5
  <2>11. E' <= G' * M
    BY Zenon, <1>3, <2>3, <2>8
  <2> QED BY Zenon, <2>9, <2>10, <2>11
<1>9. CASE ParseDispatched
  <2>1. /\ p_thread.pending # << >> /\ p_thread.pending \in Seq(Messages)
        /\ d_stats' = [d_stats EXCEPT !.dispatched = Bump(@)]
        /\ d_stats \in [dispatched : Nat, dropped : Nat]
        /\ p_thread' = [p_thread EXCEPT !.q = 1, !.pending = Tail(@)]
        /\ UNCHANGED <<sequence_, e_stats>>
    BY <1>9, CounterTypes DEF ParseDispatched, DispatchCount, rVars
  <2>2. p_thread'.pending = Tail(p_thread.pending) /\ p_thread'.count = p_thread.count
        /\ p_thread'.pc = p_thread.pc
    BY <1>1, <2>1 DEF ParserRecord
  <2>3. S' = S /\ E' = E /\ X' = X /\ C' = C /\ F' = F
    BY <2>1, <2>2 DEF S, E, X, C, F
  <2>4. P' = P - 1 /\ P > 0
    BY <2>1, <2>2, TailFacts DEF P
  <2>5. D + 1 <= CountTo
    BY ONLY <1>1, <1>3, <1>4, <1>5, <2>4
  <2>6. D' = D + 1
    <3>1. d_stats'.dispatched = Bump(d_stats.dispatched)
      BY <2>1
    <3> QED BY ONLY <1>1, <2>5, <3>1, CounterExact DEF D, Bump
  <2>7. D' = E' + (C' - P')
    BY <1>1, <1>3, <2>3, <2>4, <2>6
  <2> QED BY Zenon, <1>3, <2>3, <2>7
<1>10. CASE ParseCount
  <2>1. /\ p_thread.pending = << >> /\ p_thread.pc = "dispatch"
        /\ e_stats' = [parsed |-> Plus(e_stats.parsed, p_thread.count),
                       errors |-> IF p_thread.count = 0 THEN Bump(e_stats.errors) ELSE e_stats.errors]
        /\ p_thread' = [p_thread EXCEPT !.pc = "test", !.count = 0]
        /\ UNCHANGED <<sequence_, d_stats>>
    BY <1>10 DEF ParseCount, rVars, dVars
  <2>2. p_thread'.pending = << >> /\ p_thread'.count = 0 /\ p_thread'.pc = "test"
    BY <1>1, <2>1 DEF ParserRecord
  <2>3. S' = S /\ D' = D /\ C' = 0 /\ P = 0 /\ P' = 0 /\ F = 1 /\ F' = 0
    BY <2>1, <2>2 DEF S, D, C, P, F, Flag
  <2>4. E' = E + C
    <3>1. e_stats'.parsed = Plus(e_stats.parsed, p_thread.count)
      BY <2>1
    <3> QED BY <1>1, <1>5, <3>1, CounterExact DEF E, C
  <2>5. X' = IF C = 0 THEN X + 1 ELSE X
    <3>1. X + 1 <= CountTo
      BY <1>1, <1>3, <1>4, <2>3
    <3>2. Bump(X) = X + 1
      BY <1>1, <3>1, CounterExact DEF Bump
    <3>3. e_stats'.errors = IF p_thread.count = 0 THEN Bump(e_stats.errors) ELSE e_stats.errors
      BY <2>1
    <3>4. X' = IF C = 0 THEN Bump(X) ELSE X
      BY Zenon, <3>3 DEF C, X
    <3> QED BY Zenon, <3>2, <3>4
  <2>6. D' = E' + (C' - P')
    BY <1>1, <1>3, <2>3, <2>4
  <2>7. E' + C' <= S' * M
    <3>1. E' + C' = E + C
      BY <1>1, <2>3, <2>4
    <3> QED BY Zenon, <1>3, <2>3, <3>1
  <2>8. X' + F' <= S' /\ C' <= M /\ S' <= E' + X' + F'
    BY <1>1, <1>3, <2>3, <2>4, <2>5
  <2>9. E' <= G' * M
    <3>1. G \in Nat
      BY <1>1, <1>3, <2>3
    <3>2. CASE C = 0
      <4>1. E' = E /\ G' = G
        BY <1>1, <2>3, <2>4, <2>5, <3>2
      <4> QED BY Zenon, <1>3, <4>1
    <3>3. CASE C # 0
      <4>1. E' = E + C /\ G' = G + 1
        BY <1>1, <2>3, <2>4, <2>5, <3>3
      <4> HIDE DEF G
      <4>2. (G + 1) * M = G * M + M /\ G * M \in Nat
        BY <1>1, <3>1
      <4> QED BY <1>1, <1>3, <4>1, <4>2
    <3> QED BY <3>2, <3>3
  <2> QED BY Zenon, <2>6, <2>7, <2>8, <2>9
<1> QED BY Zenon, <1>7, <1>8, <1>9, <1>10, MessageMoves

(***************************************************************************)
(* The counters are exact at every moment.                                 *)
(***************************************************************************)
THEOREM CountsHold ==
  ASSUME Countable
  PROVE  Spec => []((TypeOK /\ Control /\ Rest) /\ PacketsCounted /\ MessagesCounted /\ ErrorsCounted)
<1>1. Init => PacketsCounted /\ MessagesCounted /\ ErrorsCounted
  <2> SUFFICES ASSUME Init PROVE PacketsCounted /\ MessagesCounted /\ ErrorsCounted
    OBVIOUS
  <2>1. /\ sequence_ = 0 /\ Len(packet_queue) = 0 /\ Len(inbox) = 0 /\ arrivals = 0
        /\ taken = 0 /\ r_stats.received = 0 /\ r_stats.dropped = 0 /\ r_thread.pc = "none"
    BY DEF Init, ReceiverInit
  <2>2. /\ d_stats.dispatched = 0 /\ e_stats.parsed = 0 /\ e_stats.errors = 0
        /\ p_thread.count = 0 /\ Len(p_thread.pending) = 0 /\ p_thread.pc = "none"
    BY DEF Init, DispatcherInit
  <2>3. Flag("none" = "push") = 0 /\ Flag("none" = "count") = 0 /\ Flag("none" = "dispatch") = 0
    BY DEF Flag
  <2>4. MaxArrivals \in Nat /\ max_messages_per_packet \in Nat
    BY EngineAssumption
  <2>5. Fruitful = 0
    BY <2>1, <2>2 DEF Fruitful
  <2> QED BY <2>1, <2>2, <2>3, <2>4, <2>5 DEF PacketsCounted, MessagesCounted, ErrorsCounted
<1>2. (TypeOK /\ Control /\ Rest) /\ (PacketsCounted /\ MessagesCounted /\ ErrorsCounted) /\ [Next]_vars
        => (PacketsCounted /\ MessagesCounted /\ ErrorsCounted)'
  BY PacketsCountedStep, MessagesCountedStep DEF Countable
<1> QED BY <1>1, <1>2, TypesHold, PTL DEF Spec

(***************************************************************************)
(* The counters of the three components agree with what is in the rings    *)
(* and in the threads' hands, while packets flow: for any number of        *)
(* packets that the 64 bits of a counter can count.                        *)
(***************************************************************************)
THEOREM CountersAlwaysAgree == ASSUME Countable PROVE Spec => []CountersAgree
<1>1. (TypeOK /\ Control /\ Rest) /\ PacketsCounted /\ MessagesCounted => CountersAgree
  BY DEF PacketsCounted, MessagesCounted, CountersAgree, Flag
<1> QED BY <1>1, CountsHold, PTL

(***************************************************************************)
(* No datagram that recvfrom returned is lost untold: packets_dropped is   *)
(* what the ring refused, while threads are started, stopped and joined.   *)
(***************************************************************************)
THEOREM PacketsAlwaysAccounted == ASSUME Countable PROVE Spec => []PacketsAccounted
<1>1. PacketsCounted => PacketsAccounted
  BY DEF PacketsCounted, PacketsAccounted, Flag
<1> QED BY <1>1, CountsHold, PTL

(***************************************************************************)
(* Every packet read is counted once, as a parse error or by the messages  *)
(* it gave, while parsers are replaced between runs.                       *)
(***************************************************************************)
THEOREM ErrorsAlwaysAccounted == ASSUME Countable PROVE Spec => []ErrorsAccounted
<1>1. (TypeOK /\ Control /\ Rest) /\ MessagesCounted /\ ErrorsCounted => ErrorsAccounted
  <2> SUFFICES ASSUME TypeOK, MessagesCounted, ErrorsCounted PROVE ErrorsAccounted
    OBVIOUS
  <2>1. sequence_ \in Nat /\ e_stats.parsed \in Nat /\ e_stats.errors \in Nat
    BY CounterTypes
  <2>2. Fruitful <= e_stats.parsed
    BY <2>1 DEF ErrorsCounted, Fruitful, Flag
  <2> QED BY Zenon, <2>2 DEF ErrorsAccounted, ErrorsCounted
<1> QED BY <1>1, CountsHold, PTL

-----------------------------------------------------------------------------
(***************************************************************************)
(* The drop counter.  A subscriber's gap is the number of messages it      *)
(* missed; the counter is the sum of the gaps, here the number of pairs of *)
(* a subscriber and one of the messages it missed.                         *)
(***************************************************************************)
CountableDrops ==
  Countable /\ MaxSubscribers * (MaxArrivals * max_messages_per_packet) <= CountTo

Pairs(gap) == UNION {{s} \X (1 .. gap[s]) : s \in DOMAIN gap}

Gap == [s \in Subs |-> Served(s) - Reached(s)]

DropsCounted ==
  /\ Len(subscribers) <= MaxSubscribers
  /\ \A s \in Subs : delivered[s].since <= d_stats.dispatched
  /\ Gap \in [Subs -> Nat]
  /\ d_stats.dropped = Cardinality(Pairs(Gap))

(***************************************************************************)
(* What the pairs are.                                                     *)
(***************************************************************************)
LEMMA PairsMember ==
  ASSUME NEW gap
  PROVE  /\ \A s, k : <<s, k>> \in Pairs(gap) <=> s \in DOMAIN gap /\ k \in 1 .. gap[s]
         /\ \A y : y \in Pairs(gap) => \E s, k : y = <<s, k>>
<1>1. \A y : y \in Pairs(gap) <=> \E s \in DOMAIN gap : y \in {s} \X (1 .. gap[s])
  BY DEF Pairs
<1>2. \A s, k : <<s, k>> \in Pairs(gap) <=> s \in DOMAIN gap /\ k \in 1 .. gap[s]
  BY <1>1
<1>3. \A y : y \in Pairs(gap) => \E s, k : y = <<s, k>>
  BY <1>1
<1> QED BY <1>2, <1>3

(***************************************************************************)
(* There are no more pairs than subscribers times the largest gap.         *)
(***************************************************************************)
LEMMA PairsBound ==
  ASSUME NEW L \in Nat, NEW K \in Nat, NEW gap \in [1 .. L -> Nat], \A s \in 1 .. L : gap[s] <= K
  PROVE  IsFiniteSet(Pairs(gap)) /\ Cardinality(Pairs(gap)) \in Nat
         /\ Cardinality(Pairs(gap)) <= L * K
<1> DEFINE S == 1 .. L
           T == 1 .. K
<1>1. IsFiniteSet(S) /\ Cardinality(S) = L /\ IsFiniteSet(T) /\ Cardinality(T) = K
  BY FS_Interval
<1>2. IsFiniteSet(S \X T) /\ Cardinality(S \X T) = L * K
  <2> HIDE DEF S, T
  <2> QED BY ONLY <1>1, FS_Product
<1>3. Pairs(gap) \in SUBSET (S \X T)
  <2>1. ASSUME NEW s \in S PROVE {s} \X (1 .. gap[s]) \subseteq S \X T
    BY <2>1
  <2> QED BY <2>1 DEF Pairs
<1>4. IsFiniteSet(Pairs(gap)) /\ Cardinality(Pairs(gap)) <= Cardinality(S \X T)
  BY <1>2, <1>3, FS_Subset
<1> QED BY <1>2, <1>4, FS_CardinalityType

(***************************************************************************)
(* One more message missed is one more pair.                               *)
(***************************************************************************)
LEMMA PairsAdd ==
  ASSUME NEW L \in Nat, NEW K \in Nat, NEW gap \in [1 .. L -> Nat], \A s \in 1 .. L : gap[s] <= K,
         NEW q \in 1 .. L
  PROVE  Cardinality(Pairs([gap EXCEPT ![q] = @ + 1])) = Cardinality(Pairs(gap)) + 1
<1> DEFINE more == [gap EXCEPT ![q] = @ + 1]
           x == <<q, gap[q] + 1>>
<1>1. /\ more \in [1 .. L -> Nat] /\ more[q] = gap[q] + 1 /\ gap[q] \in Nat
      /\ \A s \in 1 .. L : s # q => more[s] = gap[s]
  OBVIOUS
<1>2. DOMAIN more = 1 .. L /\ DOMAIN gap = 1 .. L
  OBVIOUS
<1> HIDE DEF more
<1>3. 1 .. gap[q] + 1 = (1 .. gap[q]) \cup {gap[q] + 1}
  BY <1>1
<1>4. \A s, k : <<s, k>> \in Pairs(more) <=> <<s, k>> \in Pairs(gap) \/ (s = q /\ k = gap[q] + 1)
  <2>1. \A s, k : <<s, k>> \in Pairs(more) <=> s \in 1 .. L /\ k \in 1 .. more[s]
    BY Zenon, <1>2, PairsMember
  <2>2. \A s, k : <<s, k>> \in Pairs(gap) <=> s \in 1 .. L /\ k \in 1 .. gap[s]
    BY Zenon, <1>2, PairsMember
  <2>3. \A k : k \in 1 .. more[q] <=> k \in 1 .. gap[q] \/ k = gap[q] + 1
    BY <1>1, <1>3
  <2> QED BY Zenon, <1>1, <2>1, <2>2, <2>3
<1>5. Pairs(more) = Pairs(gap) \cup {x}
  BY <1>4, PairsMember
<1>6. x \notin Pairs(gap)
  <2>1. gap[q] + 1 \notin 1 .. gap[q]
    BY <1>1
  <2> QED BY Zenon, <2>1, PairsMember
<1>7. IsFiniteSet(Pairs(gap))
  BY PairsBound
<1> QED BY Zenon, <1>5, <1>6, <1>7, FS_AddElement DEF more

(***************************************************************************)
(* A new subscriber has missed nothing.                                    *)
(***************************************************************************)
LEMMA PairsNew ==
  ASSUME NEW L \in Nat, NEW gap \in [1 .. L -> Nat], NEW more \in [1 .. L + 1 -> Nat],
         more[L + 1] = 0, \A s \in 1 .. L : more[s] = gap[s]
  PROVE  Pairs(more) = Pairs(gap)
<1>1. DOMAIN more = (1 .. L) \cup {L + 1} /\ DOMAIN gap = 1 .. L
  OBVIOUS
<1>2. 1 .. 0 = {}
  OBVIOUS
<1>3. \A s, k : <<s, k>> \in Pairs(more) <=> <<s, k>> \in Pairs(gap)
  BY ZenonT(30), <1>1, <1>2, PairsMember
<1>4. ASSUME NEW y PROVE y \in Pairs(more) <=> y \in Pairs(gap)
  <2>1. y \in Pairs(more) \/ y \in Pairs(gap) => \E s, k : y = <<s, k>>
    BY PairsMember
  <2> QED BY Zenon, <1>3, <2>1
<1> QED BY Zenon, <1>4

(***************************************************************************)
(* A step that brings no message to a subscriber and takes none.           *)
(***************************************************************************)
DropsStill ==
  /\ UNCHANGED <<d_stats, queues>> /\ p_thread'.q = p_thread.q
  /\ \A s \in Subs : delivered'[s].n = delivered[s].n /\ delivered'[s].since = delivered[s].since

(***************************************************************************)
(* The steps that do.                                                      *)
(***************************************************************************)
LEMMA DropMoves ==
  ASSUME TypeOK, Control, Rest, [Next]_vars, ~add_subscriber
  PROVE  DropsStill \/ (LoopPop /\ UNCHANGED eVars) \/ ParsePush \/ ParseDispatched
<1> USE DEF DropsStill
<1>1. p_thread \in ParserRecord /\ delivered \in Seq(Delivered)
  BY BoundsHold DEF Bounds
<1>2. \A pc : [p_thread EXCEPT !.pc = pc].q = p_thread.q
  BY <1>1 DEF ParserRecord
<1>3. CASE Application
  BY Zenon, <1>3 DEF Application, set_parser, initialize, StartFlag, StopFlag, dVars
<1>4. CASE MainStep
  <2>1. UNCHANGED <<d_stats, queues, delivered>>
    BY Zenon, <1>4 DEF MainStep, StartReceiver, StartDispatcher, DispatcherStart, StartParser,
                StopJoinParser, StopDispatcher, DispatcherStopFlag, JoinDispatcher,
                DispatcherStopJoin, StopReceiver, JoinReceiver, dVars
  <2>2. p_thread'.q = p_thread.q
    <3>1. UNCHANGED p_thread \/ (\E pc : p_thread' = [p_thread EXCEPT !.pc = pc])
      BY Zenon, <1>4 DEF MainStep, StartReceiver, StartDispatcher, StartParser, StopJoinParser,
                  StopDispatcher, JoinDispatcher, StopReceiver, JoinReceiver
    <3> QED BY Zenon, <1>2, <3>1
  <2> QED BY Zenon, <2>1, <2>2
<1>5. CASE ParserThread
  <2>1. CASE ParseTest \/ ParseNothing
    BY Zenon, <1>2, <2>1 DEF ParseTest, ParseNothing, dVars
  <2>2. CASE ParsePacket
    <3>1. p_thread.q = 1
      BY <2>2 DEF ParsePacket, Rest
    <3>2. p_thread'.q = 1 /\ UNCHANGED dVars
      BY <2>2 DEF ParsePacket
    <3> QED BY Zenon, <3>1, <3>2 DEF dVars
  <2>3. CASE ParseCount
    <3>1. [p_thread EXCEPT !.pc = "test", !.count = 0].q = p_thread.q
      BY <1>1 DEF ParserRecord
    <3> QED BY Zenon, <2>3, <3>1 DEF ParseCount, dVars
  <2> QED BY Zenon, <1>5, <2>1, <2>2, <2>3 DEF ParserThread
<1>6. CASE Receiving \/ Failing \/ Network \/ UNCHANGED vars
  BY Zenon, <1>6 DEF Receiving, Failing, Network, vars, dVars, eVars
<1>7. CASE Dispatching
  <2>1. UNCHANGED eVars /\ UNCHANGED p_thread
    BY Zenon, <1>7 DEF Dispatching, eVars
  <2>2. CASE LoopTest \/ LoopNextSubscriber \/ LoopAgain
    BY Zenon, <2>1, <2>2 DEF LoopTest, LoopNextSubscriber, LoopAgain
  <2>3. CASE Deliver
    <3>1. /\ delivered' = [delivered EXCEPT ![d_thread.i].msg = d_thread.msg]
          /\ UNCHANGED <<d_stats, queues>>
      BY <2>3 DEF Deliver
    <3>2. ASSUME NEW s \in Subs
          PROVE  delivered'[s].n = delivered[s].n /\ delivered'[s].since = delivered[s].since
      <4>1. delivered[s] \in Delivered /\ s \in DOMAIN delivered
        BY <1>1, TypesSplit, EntryTypes DEF DispatcherTypes
      <4> QED BY ONLY <3>1, <4>1 DEF Delivered
    <3> QED BY Zenon, <2>1, <3>1, <3>2
  <2> QED BY Zenon, <1>7, <2>1, <2>2, <2>3 DEF Dispatching, DispatcherThread
<1> QED BY Zenon, <1>3, <1>4, <1>5, <1>6, <1>7 DEF Next

(***************************************************************************)
(* No subscriber is ever owed more than the packets sent can hold.         *)
(***************************************************************************)
LEMMA ServedBound ==
  ASSUME Countable, TypeOK, Rest, PacketsCounted, MessagesCounted
  PROVE  /\ MaxArrivals * max_messages_per_packet \in Nat /\ d_stats.dispatched \in Nat
         /\ d_stats.dispatched <= MaxArrivals * max_messages_per_packet
         /\ p_thread.pending # << >> => d_stats.dispatched + 1 <= MaxArrivals * max_messages_per_packet
         /\ \A s \in Subs : Served(s) \in Int /\ Served(s) <= MaxArrivals * max_messages_per_packet
<1> DEFINE B == MaxArrivals * max_messages_per_packet
           D == d_stats.dispatched
           P == Len(p_thread.pending)
           SM == sequence_ * max_messages_per_packet
<1>1. /\ D \in Nat /\ P \in Nat /\ e_stats.parsed \in Nat /\ p_thread.count \in Nat /\ sequence_ \in Nat
      /\ MaxArrivals \in Nat /\ max_messages_per_packet \in Nat
  BY CounterTypes, EngineAssumption
<1>2. sequence_ <= MaxArrivals
  BY Zenon, ReadBound
<1>3. SM <= B /\ SM \in Nat /\ B \in Nat
  BY <1>1, <1>2, Product
<1>4. D = e_stats.parsed + (p_thread.count - P) /\ e_stats.parsed + p_thread.count <= SM
  BY DEF MessagesCounted
<1>5. p_thread.pending # << >> => P > 0
  BY CounterTypes
<1> HIDE DEF B, D, P, SM
<1>6. D <= B /\ (p_thread.pending # << >> => D + 1 <= B)
  BY <1>1, <1>3, <1>4, <1>5
<1>7. ASSUME NEW s \in Subs PROVE Served(s) \in Int /\ Served(s) <= B
  <2>1. s \in Nat /\ s >= 1 /\ delivered[s].since \in Nat
    BY TypesSplit, EntryTypes DEF Delivered
  <2>2. CASE p_thread.pending = << >>
    <3>1. p_thread.q = 1
      BY <2>2 DEF Rest
    <3> QED BY <1>1, <1>3, <1>6, <2>1, <3>1 DEF Served, Owed, D
  <2>3. CASE p_thread.pending # << >>
    <3>1. p_thread.q \in Nat
      BY BoundsHold DEF Bounds
    <3> QED BY SMTT(30), <1>1, <1>3, <1>6, <2>1, <2>3, <3>1 DEF Served, Owed, D
  <2> QED BY <2>2, <2>3
<1> QED BY Zenon, <1>1, <1>3, <1>6, <1>7 DEF B, D

(***************************************************************************)
(* The gaps, as long as the counters are exact.                            *)
(***************************************************************************)
LEMMA GapFacts ==
  ASSUME CountableDrops, TypeOK, Rest, PacketsCounted, MessagesCounted, DropsCounted
  PROVE  /\ Subs = 1 .. Len(subscribers) /\ Len(subscribers) \in Nat
         /\ p_thread.q \in 1 .. Len(subscribers) + 1
         /\ \A s \in Subs :
              /\ delivered[s].n \in Nat /\ delivered[s].since \in Nat /\ Len(queues[s]) \in Nat
              /\ Gap[s] = Served(s) - Reached(s) /\ Gap[s] \in Nat
              /\ Gap[s] <= MaxArrivals * max_messages_per_packet
              /\ delivered[s].n + Len(queues[s]) <= CountTo
<1>1. Subs = 1 .. Len(subscribers) /\ Len(subscribers) \in Nat
  BY TypesSplit, EntryTypes
<1>2. p_thread.q \in 1 .. Len(subscribers) + 1
  BY DEF Rest
<1>3. ASSUME NEW s \in Subs
      PROVE  /\ delivered[s].n \in Nat /\ delivered[s].since \in Nat /\ Len(queues[s]) \in Nat
             /\ Gap[s] = Served(s) - Reached(s) /\ Gap[s] \in Nat
             /\ Gap[s] <= MaxArrivals * max_messages_per_packet
             /\ delivered[s].n + Len(queues[s]) <= CountTo
  <2>1. delivered[s] \in Delivered /\ queues[s] \in Seq(Messages)
    BY TypesSplit, EntryTypes
  <2>2. delivered[s].n \in Nat /\ delivered[s].since \in Nat /\ Len(queues[s]) \in Nat
    BY <2>1 DEF Delivered
  <2>3. Gap[s] = Served(s) - Reached(s)
    BY DEF Gap
  <2>4. Gap[s] \in Nat
    BY DEF DropsCounted
  <2>5. PICK b \in Nat : b = MaxArrivals * max_messages_per_packet /\ Served(s) \in Int /\ Served(s) <= b
                         /\ b <= CountTo
    BY ServedBound DEF CountableDrops, Countable
  <2>6. Reached(s) = delivered[s].n + Len(queues[s]) /\ Reached(s) \in Nat
    BY <2>2 DEF Reached
  <2>7. Gap[s] <= b /\ Reached(s) <= CountTo
    BY <2>3, <2>4, <2>5, <2>6, CountToAssumption
  <2> QED BY <2>2, <2>3, <2>4, <2>5, <2>6, <2>7
<1> QED BY <1>1, <1>2, <1>3

(***************************************************************************)
(* A step that leaves the subscribers and every gap as they are, and the   *)
(* drop counter too.                                                       *)
(***************************************************************************)
LEMMA GapsKept ==
  ASSUME CountableDrops, TypeOK, Rest, PacketsCounted, MessagesCounted, DropsCounted,
         Subs' = Subs, Len(subscribers') = Len(subscribers),
         d_stats'.dropped = d_stats.dropped, d_stats'.dispatched \in Nat,
         d_stats'.dispatched >= d_stats.dispatched,
         \A s \in Subs : /\ Served(s)' - Reached(s)' = Served(s) - Reached(s)
                         /\ delivered'[s].since = delivered[s].since
  PROVE  DropsCounted'
<1>1. Gap' = Gap
  BY DEF Gap
<1>2. ASSUME NEW s \in Subs' PROVE delivered'[s].since <= d_stats'.dispatched
  <2>1. s \in Subs /\ delivered'[s].since = delivered[s].since
    OBVIOUS
  <2>2. delivered[s].since \in Nat /\ d_stats.dispatched \in Nat /\ delivered[s].since <= d_stats.dispatched
    BY Zenon, <2>1, GapFacts, CounterTypes DEF DropsCounted
  <2> QED BY <2>1, <2>2
<1> QED BY <1>1, <1>2 DEF DropsCounted

(***************************************************************************)
(* A pop moves a message from the queue to the subscriber.                 *)
(***************************************************************************)
LEMMA PopKeepsDrops ==
  ASSUME CountableDrops, TypeOK, Rest, PacketsCounted, MessagesCounted, DropsCounted,
         Subs' = Subs, Len(subscribers') = Len(subscribers), LoopPop, UNCHANGED eVars
  PROVE  DropsCounted'
<1> DEFINE i == d_thread.i
<1>1. /\ i \in Subs /\ queues[i] # << >> /\ UNCHANGED <<d_stats, p_thread>>
      /\ queues' = [queues EXCEPT ![i] = Tail(queues[i])]
      /\ delivered' = [delivered EXCEPT ![i].n = Bump(delivered[i].n)]
  BY DEF LoopPop, eVars
<1>2. /\ queues \in Seq(Seq(Messages)) /\ Len(queues) = Len(subscribers)
      /\ delivered \in Seq(Delivered) /\ Len(delivered) = Len(subscribers)
      /\ queues[i] \in Seq(Messages) /\ Subs = 1 .. Len(subscribers) /\ Len(subscribers) \in Nat
  BY <1>1, BoundsHold DEF Bounds
<1>3. Len(Tail(queues[i])) = Len(queues[i]) - 1 /\ Len(queues[i]) > 0
  BY Zenon, <1>1, <1>2, TailFacts
<1>4. Bump(delivered[i].n) = delivered[i].n + 1
  <2>1. delivered[i].n \in Nat /\ Len(queues[i]) \in Nat /\ delivered[i].n + Len(queues[i]) <= CountTo
    BY Zenon, <1>1, GapFacts
  <2>2. delivered[i].n + 1 <= CountTo
    BY ONLY <1>3, <2>1, CountToAssumption
  <2> QED BY Zenon, <2>1, <2>2, CounterExact DEF Bump
<1> HIDE DEF i
<1>5. ASSUME NEW s \in Subs
      PROVE  /\ Served(s)' - Reached(s)' = Served(s) - Reached(s)
             /\ delivered'[s].since = delivered[s].since
  <2>1. Served(s)' = Served(s) /\ delivered'[s].since = delivered[s].since
    <3>1. delivered[s] \in Delivered /\ s \in DOMAIN delivered
      BY <1>2
    <3>2. delivered'[s].since = delivered[s].since
      BY <1>1, <3>1 DEF Delivered
    <3> QED BY <1>1, <3>2 DEF Served, Owed
  <2>2. Reached(s)' = Reached(s)
    <3>1. CASE s = i
      <4>1. delivered[i] \in Delivered /\ i \in DOMAIN delivered /\ i \in DOMAIN queues
        BY <1>1, <1>2
      <4>2. delivered'[i].n = delivered[i].n + 1
        BY <1>1, <1>4, <4>1 DEF Delivered
      <4>3. Len(queues'[i]) = Len(queues[i]) - 1
        BY <1>1, <1>3, <4>1
      <4>4. delivered[i].n \in Nat /\ Len(queues[i]) \in Nat
        BY <1>1, GapFacts
      <4>5. Reached(s) = delivered[i].n + Len(queues[i]) /\ Reached(s)' = delivered'[i].n + Len(queues'[i])
        BY <3>1 DEF Reached
      <4> QED BY ONLY <4>2, <4>3, <4>4, <4>5
    <3>2. CASE s # i
      <4>1. delivered'[s] = delivered[s] /\ queues'[s] = queues[s]
        BY <1>1, <1>2, <3>2
      <4> QED BY <4>1 DEF Reached
    <3> QED BY <3>1, <3>2
  <2> QED BY <2>1, <2>2
<1>6. d_stats'.dropped = d_stats.dropped /\ d_stats'.dispatched = d_stats.dispatched
      /\ d_stats.dispatched \in Nat
  BY <1>1, CounterTypes
<1>7. d_stats'.dispatched \in Nat /\ d_stats'.dispatched >= d_stats.dispatched
  BY <1>6
<1> QED BY Zenon, <1>5, <1>6, <1>7, GapsKept

(***************************************************************************)
(* At the end of dispatch() the message counts for every subscriber, each  *)
(* of which it has been to.                                                *)
(***************************************************************************)
LEMMA CountKeepsDrops ==
  ASSUME CountableDrops, TypeOK, Rest, PacketsCounted, MessagesCounted, DropsCounted,
         Subs' = Subs, Len(subscribers') = Len(subscribers), ParseDispatched
  PROVE  DropsCounted'
<1>1. /\ p_thread.pending # << >> /\ p_thread.q \notin Subs
      /\ d_stats' = [d_stats EXCEPT !.dispatched = Bump(@)]
      /\ p_thread' = [p_thread EXCEPT !.q = 1, !.pending = Tail(@)]
      /\ UNCHANGED <<queues, delivered>>
  BY DEF ParseDispatched, DispatchCount
<1>2. d_stats \in [dispatched : Nat, dropped : Nat] /\ p_thread \in ParserRecord
  BY CounterTypes
<1>3. p_thread'.q = 1
  BY <1>1, <1>2 DEF ParserRecord
<1>4. d_stats'.dispatched = d_stats.dispatched + 1 /\ d_stats'.dropped = d_stats.dropped
  <2>1. PICK b \in Nat : d_stats.dispatched + 1 <= b /\ b <= CountTo
    BY <1>1, ServedBound DEF CountableDrops, Countable
  <2>2. d_stats.dispatched + 1 <= CountTo
    BY <1>2, <2>1, CountToAssumption
  <2>3. Bump(d_stats.dispatched) = d_stats.dispatched + 1
    BY <1>2, <2>2, CounterExact DEF Bump
  <2> QED BY <1>1, <1>2, <2>3
<1>5. ASSUME NEW s \in Subs
      PROVE  /\ Served(s)' - Reached(s)' = Served(s) - Reached(s)
             /\ delivered'[s].since = delivered[s].since
  <2>1. /\ Subs = 1 .. Len(subscribers) /\ Len(subscribers) \in Nat
        /\ p_thread.q \in 1 .. Len(subscribers) + 1
        /\ delivered[s].n \in Nat /\ delivered[s].since \in Nat /\ Len(queues[s]) \in Nat
    BY GapFacts
  <2>2. p_thread.q > s /\ ~(1 > s)
    BY <1>1, <2>1
  <2>3. Served(s) = d_stats.dispatched - delivered[s].since + 1
    BY <2>2 DEF Served, Owed
  <2>4. Served(s)' = ((d_stats.dispatched + 1) - delivered[s].since) + 0
    <3>1. PICK d, c, f : /\ d = d_stats'.dispatched /\ c = delivered'[s].since
                         /\ f = (IF p_thread'.q > s THEN 1 ELSE 0)
                         /\ Served(s)' = d - c + f
      BY DEF Served, Owed
    <3>2. c = delivered[s].since
      BY <1>1, <3>1
    <3>3. f = 0
      BY Zenon, <1>3, <2>2, <3>1
    <3>4. d = d_stats.dispatched + 1
      BY <1>4, <3>1
    <3> QED BY Zenon, <3>1, <3>2, <3>3, <3>4
  <2>5. Reached(s)' = Reached(s)
    BY <1>1 DEF Reached
  <2> QED BY SMTT(30), <1>1, <1>2, <2>1, <2>3, <2>4, <2>5
<1>6. d_stats'.dispatched \in Nat /\ d_stats'.dispatched >= d_stats.dispatched
  BY <1>2, <1>4
<1> QED BY Zenon, <1>4, <1>5, <1>6, GapsKept

(***************************************************************************)
(* A push of dispatch() reaches the subscriber, or is one more message it  *)
(* missed and one more drop.                                               *)
(***************************************************************************)
LEMMA PushKeepsDrops ==
  ASSUME CountableDrops, TypeOK, Rest, PacketsCounted, MessagesCounted, DropsCounted,
         Subs' = Subs, Len(subscribers') = Len(subscribers), ParsePush
  PROVE  DropsCounted'
<1> DEFINE q == p_thread.q
           msg == Head(p_thread.pending)
           L == Len(subscribers)
           B == MaxArrivals * max_messages_per_packet
<1>1. /\ q \in Subs /\ p_thread.pending # << >> /\ p_thread' = [p_thread EXCEPT !.q = @ + 1]
      /\ UNCHANGED delivered
      /\ \/ queues' = [queues EXCEPT ![q] = Append(queues[q], msg)] /\ UNCHANGED d_stats
         \/ d_stats' = [d_stats EXCEPT !.dropped = Bump(@)] /\ UNCHANGED queues
  BY Zenon DEF ParsePush, DispatchPush, PushInto
<1>2. d_stats \in [dispatched : Nat, dropped : Nat] /\ p_thread \in ParserRecord
      /\ p_thread.pending \in Seq(Messages)
  BY CounterTypes
<1>3. p_thread'.q = q + 1
  BY <1>1, <1>2 DEF ParserRecord
<1>4. /\ Subs = 1 .. L /\ L \in Nat /\ q \in Nat /\ B \in Nat
      /\ queues \in Seq(Seq(Messages)) /\ Len(queues) = L
  BY <1>1, BoundsHold, ServedBound DEF Bounds, CountableDrops
<1>5. d_stats'.dispatched = d_stats.dispatched /\ d_stats.dispatched \in Nat
  BY Zenon, <1>1, <1>2
<1> HIDE DEF q, msg, L, B
<1>6. ASSUME NEW s \in Subs
      PROVE  /\ Served(s) \in Int /\ Reached(s) \in Nat /\ delivered'[s].since = delivered[s].since
             /\ Served(s)' = Served(s) + (IF s = q THEN 1 ELSE 0)
  <2>1. s \in Nat /\ delivered[s].n \in Nat /\ delivered[s].since \in Nat /\ Len(queues[s]) \in Nat
    BY <1>4, GapFacts
  <2>2. /\ Served(s) = d_stats.dispatched - delivered[s].since + (IF q > s THEN 1 ELSE 0)
        /\ Served(s)' = d_stats'.dispatched - delivered'[s].since + (IF p_thread'.q > s THEN 1 ELSE 0)
    BY DEF Served, Owed, q
  <2>3. delivered'[s].since = delivered[s].since
    BY <1>1
  <2>4. Served(s)' = d_stats.dispatched - delivered[s].since + (IF q + 1 > s THEN 1 ELSE 0)
    BY Zenon, <1>3, <1>5, <2>2, <2>3
  <2>5. Reached(s) \in Nat
    BY ONLY <2>1 DEF Reached
  <2> QED BY SMTT(30), <1>4, <1>5, <2>1, <2>2, <2>3, <2>4, <2>5
<1>7. CASE queues' = [queues EXCEPT ![q] = Append(queues[q], msg)] /\ UNCHANGED d_stats
  <2>1. queues[q] \in Seq(Messages) /\ msg \in Messages
    BY Zenon, <1>1, <1>2, BoundsHold, TailFacts DEF Bounds, msg, q
  <2>2. Len(Append(queues[q], msg)) = Len(queues[q]) + 1 /\ Len(queues[q]) \in Nat
    BY <2>1, AppendFacts
  <2>3. ASSUME NEW s \in Subs PROVE Reached(s)' = Reached(s) + (IF s = q THEN 1 ELSE 0)
    <3>1. delivered'[s].n = delivered[s].n /\ delivered[s].n \in Nat
      BY <1>1, GapFacts
    <3>2. CASE s = q
      <4>1. Len(queues'[s]) = Len(queues[s]) + 1
        BY SMTT(30), <1>1, <1>4, <1>7, <2>2, <3>2 DEF q
      <4> QED BY <2>2, <3>1, <3>2, <4>1 DEF Reached
    <3>3. CASE s # q
      <4>1. queues'[s] = queues[s]
        BY <1>4, <1>7, <3>3
      <4>2. Reached(s)' = Reached(s)
        BY Zenon, <3>1, <4>1 DEF Reached
      <4> QED BY <1>6, <3>3, <4>2
    <3> QED BY <3>2, <3>3
  <2>4. ASSUME NEW s \in Subs
        PROVE  /\ Served(s)' - Reached(s)' = Served(s) - Reached(s)
               /\ delivered'[s].since = delivered[s].since
    <3>1. PICK a \in Int, b \in Nat : a = Served(s) /\ b = Reached(s)
      BY Zenon, <1>6
    <3>2. \/ Served(s)' = a + 1 /\ Reached(s)' = b + 1
          \/ Served(s)' = a + 0 /\ Reached(s)' = b + 0
      BY Zenon, <1>6, <2>3, <3>1
    <3> QED BY <1>6, <3>1, <3>2
  <2>5. d_stats'.dropped = d_stats.dropped /\ d_stats'.dispatched \in Nat
        /\ d_stats'.dispatched >= d_stats.dispatched
    BY <1>5, <1>7
  <2> QED BY <2>4, <2>5, GapsKept
<1>8. CASE d_stats' = [d_stats EXCEPT !.dropped = Bump(@)] /\ UNCHANGED queues
  <2>1. ASSUME NEW s \in Subs PROVE Reached(s)' = Reached(s)
    BY Zenon, <1>1, <1>8 DEF Reached
  <2>2. PICK g \in [1 .. L -> Nat] : g = Gap /\ \A s \in 1 .. L : g[s] <= B
    BY Zenon, <1>4, GapFacts DEF DropsCounted, B
  <2> DEFINE more == [g EXCEPT ![q] = @ + 1]
  <2>3. Gap' = more
    <3>1. ASSUME NEW s \in 1 .. L PROVE Served(s)' - Reached(s)' = more[s]
      <4>1. PICK a \in Int, b \in Nat : a = Served(s) /\ b = Reached(s)
        BY Zenon, <1>4, <1>6
      <4>2. g[s] = a - b /\ Reached(s)' = b /\ Served(s)' = a + (IF s = q THEN 1 ELSE 0)
        BY Zenon, <1>4, <1>6, <2>1, <2>2, <4>1, GapFacts
      <4>3. more[s] = IF s = q THEN g[s] + 1 ELSE g[s]
        BY <2>2
      <4> QED BY <4>1, <4>2, <4>3
    <3>2. Gap' = [s \in 1 .. L |-> Served(s)' - Reached(s)']
      BY <1>4 DEF Gap
    <3>3. more = [s \in 1 .. L |-> more[s]]
      BY Zenon, <2>2
    <3> HIDE DEF more
    <3> QED BY Zenon, <3>1, <3>2, <3>3
  <2>4. Cardinality(Pairs(more)) = Cardinality(Pairs(g)) + 1
    <3>1. q \in 1 .. L
      BY <1>1, <1>4 DEF q
    <3> QED BY Zenon, <1>4, <2>2, <3>1, PairsAdd
  <2>5. more \in [1 .. L -> Nat] /\ \A s \in 1 .. L : more[s] <= B
    <3>1. g[q] + 1 <= B
      <4>1. q \in Subs /\ Reached(q) \in Nat
        BY Zenon, <1>1, <1>6 DEF q
      <4>2. Served(q) = d_stats.dispatched - delivered[q].since
        <5>1. Served(q) = Owed(q) + (IF q > q THEN 1 ELSE 0) /\ Owed(q) = d_stats.dispatched - delivered[q].since
          BY DEF Served, Owed, q
        <5>2. delivered[q].since \in Nat
          BY <4>1, GapFacts
        <5> QED BY <1>4, <1>5, <5>1, <5>2
      <4>3. d_stats.dispatched + 1 <= B /\ delivered[q].since \in Nat
        BY Zenon, <1>1, <4>1, ServedBound, GapFacts DEF B, CountableDrops
      <4>4. g[q] = Served(q) - Reached(q)
        BY Zenon, <2>2, <4>1, GapFacts
      <4>5. PICK d, c, r \in Nat : d = d_stats.dispatched /\ c = delivered[q].since /\ r = Reached(q)
        BY Zenon, <1>5, <4>1, <4>3
      <4>6. g[q] = (d - c) - r /\ d + 1 <= B
        BY SMTT(30), <4>2, <4>3, <4>4, <4>5
      <4>7. \A b, dd, cc, rr \in Nat : dd + 1 <= b => ((dd - cc) - rr) + 1 <= b
        OBVIOUS
      <4> QED BY <1>4, <4>6, <4>7
    <3>2. more \in [1 .. L -> Nat]
      <4>1. q \in 1 .. L
        BY <1>1, <1>4 DEF q
      <4>2. g[q] + 1 \in Nat
        BY <2>2, <4>1
      <4> QED BY Zenon, <2>2, <4>1, <4>2
    <3> QED BY Zenon, <2>2, <3>1, <3>2
  <2> HIDE DEF more
  <2>6. d_stats'.dropped = d_stats.dropped + 1
    <3>1. Cardinality(Pairs(more)) <= L * B /\ Cardinality(Pairs(more)) \in Nat
      BY Zenon, <1>4, <2>5, PairsBound
    <3>2. L * B <= MaxSubscribers * B /\ MaxSubscribers * B <= CountTo
          /\ L * B \in Nat /\ MaxSubscribers * B \in Nat
      <4>1. MaxSubscribers * B <= CountTo
        BY DEF CountableDrops, B
      <4>2. L <= MaxSubscribers /\ MaxSubscribers \in Nat
        BY Zenon, EngineAssumption DEF DropsCounted, L
      <4> QED BY <1>4, <4>1, <4>2, Product
    <3>3. d_stats.dropped + 1 = Cardinality(Pairs(more))
      BY Zenon, <2>2, <2>4 DEF DropsCounted
    <3>4. d_stats.dropped + 1 <= CountTo
      BY <1>2, <3>1, <3>2, <3>3, CountToAssumption
    <3>5. Bump(d_stats.dropped) = d_stats.dropped + 1
      BY Zenon, <1>2, <3>4, CounterExact DEF Bump
    <3> QED BY Zenon, <1>2, <1>8, <3>5
  <2>7. ASSUME NEW s \in Subs PROVE delivered'[s].since <= d_stats'.dispatched
    BY Zenon, <1>5, <1>6 DEF DropsCounted
  <2>8. Len(subscribers') <= MaxSubscribers
    BY Zenon DEF DropsCounted
  <2>9. d_stats'.dropped = Cardinality(Pairs(Gap')) /\ Gap' \in [Subs -> Nat]
    BY SMTT(30), <1>4, <2>2, <2>3, <2>4, <2>5, <2>6 DEF DropsCounted
  <2> QED BY Zenon, <2>7, <2>8, <2>9 DEF DropsCounted
<1> QED BY Zenon, <1>1, <1>7, <1>8

(***************************************************************************)
(* A subscriber is added between runs, with nothing owed to it.            *)
(***************************************************************************)
LEMMA AddKeepsDrops ==
  ASSUME CountableDrops, TypeOK, Rest, PacketsCounted, MessagesCounted, DropsCounted, add_subscriber
  PROVE  DropsCounted'
<1> DEFINE L == Len(subscribers)
           D == d_stats.dispatched
           new == [msg |-> NoMessage, n |-> 0, since |-> D]
<1>1. /\ L < MaxSubscribers /\ subscribers' = Append(subscribers, "new")
      /\ queues' = Append(queues, << >>) /\ delivered' = Append(delivered, new)
      /\ UNCHANGED <<d_stats, p_thread>>
  BY DEF add_subscriber, AddSubscriber, eVars
<1>2. /\ queues \in Seq(Seq(Messages)) /\ Len(queues) = L
      /\ delivered \in Seq(Delivered) /\ Len(delivered) = L
      /\ Subs = 1 .. L /\ L \in Nat
  BY BoundsHold DEF Bounds
<1>3. subscribers \in Seq({"new", "initialized", "shutdown"})
  BY TypesSplit DEF DispatcherTypes
<1>4. Len(subscribers') = L + 1 /\ Subs' = 1 .. L + 1
  BY ONLY <1>1, <1>3 DEF Subs
<1>5. D \in Nat /\ p_thread.q \in 1 .. L + 1
  BY CounterTypes DEF Rest
<1> HIDE DEF L, D
<1>6. /\ \A s \in 1 .. L : queues'[s] = queues[s] /\ delivered'[s] = delivered[s]
      /\ queues'[L + 1] = << >> /\ delivered'[L + 1] = new
  <2>1. new \in Delivered /\ << >> \in Seq(Messages)
    BY <1>5 DEF Delivered, NoMessage, Messages
  <2> HIDE DEF new
  <2> QED BY ONLY <1>1, <1>2, <2>1
<1>7. PICK g \in [1 .. L -> Nat] : g = Gap
  BY Zenon, <1>2 DEF DropsCounted
<1>8. ASSUME NEW s \in 1 .. L PROVE Gap'[s] = g[s] /\ delivered'[s].since <= D
  <2>1. s \in Subs /\ s \in Subs'
    BY <1>2, <1>4
  <2>2. Served(s)' = Served(s) /\ Reached(s)' = Reached(s)
    BY Zenon, <1>1, <1>6 DEF Served, Owed, Reached
  <2>3. Gap'[s] = Served(s)' - Reached(s)' /\ Gap[s] = Served(s) - Reached(s)
    BY <2>1 DEF Gap
  <2>4. delivered[s].since <= D
    BY Zenon, <2>1 DEF DropsCounted, D
  <2> QED BY <1>6, <1>7, <2>2, <2>3, <2>4
<1>9. Gap'[L + 1] = 0 /\ delivered'[L + 1].since <= D
  <2>1. L + 1 \in Subs' /\ L + 1 \in Nat
    BY <1>2, <1>4
  <2>2. PICK t \in Nat : t = L + 1 /\ t \in Subs'
    BY <2>1
  <2>3. Len(<< >>) = 0 /\ new.n = 0 /\ new.since = D
    OBVIOUS
  <2> HIDE DEF new
  <2>4. Reached(t)' = 0
    BY <1>6, <2>2, <2>3 DEF Reached
  <2>5. Served(t)' = (D - D) + 0
    <3>1. ~(p_thread'.q > t)
      BY <1>1, <1>2, <1>5, <2>2
    <3>2. d_stats'.dispatched = D /\ delivered'[t].since = D
      BY Zenon, <1>1, <1>6, <2>2, <2>3 DEF D
    <3> QED BY <3>1, <3>2 DEF Served, Owed
  <2>6. Gap'[t] = Served(t)' - Reached(t)'
    BY <2>2 DEF Gap
  <2> QED BY <1>5, <1>6, <2>2, <2>3, <2>4, <2>5, <2>6
<1>10. PICK h : h = Gap' /\ DOMAIN h = 1 .. L + 1 /\ h \in [1 .. L + 1 -> Nat]
  <2>1. Gap' = [s \in 1 .. L + 1 |-> Gap'[s]]
    BY <1>4 DEF Gap
  <2>2. ASSUME NEW s \in 1 .. L + 1 PROVE Gap'[s] \in Nat
    <3>1. CASE s \in 1 .. L
      BY Zenon, <1>7, <1>8, <3>1
    <3>2. CASE s = L + 1
      BY <1>9, <3>2
    <3> QED BY <1>2, <3>1, <3>2
  <2> QED BY <2>1, <2>2
<1>11. Pairs(h) = Pairs(g)
  <2>1. h[L + 1] = 0 /\ \A s \in 1 .. L : h[s] = g[s]
    BY ONLY <1>8, <1>9, <1>10
  <2> QED BY Zenon, <1>2, <1>7, <1>10, <2>1, PairsNew
<1>12. ASSUME NEW s \in Subs' PROVE delivered'[s].since <= d_stats'.dispatched
  <2>1. d_stats'.dispatched = D
    BY <1>1 DEF D
  <2>2. s \in 1 .. L \/ s = L + 1
    BY ONLY <1>2, <1>4
  <2> QED BY <1>8, <1>9, <2>1, <2>2
<1>13. Len(subscribers') <= MaxSubscribers
  BY SMTT(30), <1>1, <1>2, <1>4, EngineAssumption DEF L
<1>14. d_stats'.dropped = Cardinality(Pairs(Gap'))
  BY <1>1, <1>7, <1>10, <1>11 DEF DropsCounted
<1> QED BY SMTT(30), <1>4, <1>10, <1>12, <1>13, <1>14 DEF DropsCounted

(***************************************************************************)
(* Every step of the engine keeps the drop counter exact.                  *)
(***************************************************************************)
LEMMA DropsCountedStep ==
  ASSUME CountableDrops, TypeOK, Control, Rest, PacketsCounted, MessagesCounted, DropsCounted, [Next]_vars
  PROVE  DropsCounted'
<1>1. CASE add_subscriber
  BY <1>1, AddKeepsDrops
<1>2. CASE ~add_subscriber
  <2>1. Len(subscribers') = Len(subscribers) /\ Subs' = Subs
    BY Zenon, <1>2, SubscribersKept
  <2>2. CASE DropsStill
    <3>1. UNCHANGED <<d_stats, queues>> /\ p_thread'.q = p_thread.q
      BY Zenon, <2>2 DEF DropsStill
    <3>2. ASSUME NEW s \in Subs
          PROVE  /\ Served(s)' - Reached(s)' = Served(s) - Reached(s)
                 /\ delivered'[s].since = delivered[s].since
      <4>1. delivered'[s].n = delivered[s].n /\ delivered'[s].since = delivered[s].since
        BY Zenon, <2>2 DEF DropsStill
      <4> QED BY Zenon, <3>1, <4>1 DEF Served, Owed, Reached
    <3>3. d_stats'.dropped = d_stats.dropped /\ d_stats'.dispatched = d_stats.dispatched
          /\ d_stats.dispatched \in Nat
      BY <3>1, CounterTypes
    <3>4. d_stats'.dispatched \in Nat /\ d_stats'.dispatched >= d_stats.dispatched
      BY <3>3
    <3> QED BY <2>1, <3>2, <3>3, <3>4, GapsKept
  <2>3. CASE LoopPop /\ UNCHANGED eVars
    BY <2>1, <2>3, PopKeepsDrops
  <2>4. CASE ParsePush
    BY <2>1, <2>4, PushKeepsDrops
  <2>5. CASE ParseDispatched
    BY <2>1, <2>5, CountKeepsDrops
  <2> QED BY <1>2, <2>2, <2>3, <2>4, <2>5, DropMoves
<1> QED BY <1>1, <1>2

(***************************************************************************)
(* The dispatcher's drop counter is exact in every state, for any number   *)
(* of subscribers: no message is lost untold, none is given twice.  That   *)
(* the engine does not report it is another matter (NoDropUnreported).     *)
(***************************************************************************)
THEOREM DropsAlwaysAccounted == ASSUME CountableDrops PROVE Spec => []DropsAccounted
<1> DEFINE Counts == (TypeOK /\ Control /\ Rest) /\ PacketsCounted /\ MessagesCounted
<1>1. Init => DropsCounted
  <2> SUFFICES ASSUME Init PROVE DropsCounted
    BY Zenon
  <2>1. Subs = {} /\ Len(subscribers) = 0 /\ d_stats.dropped = 0
    BY DEF Init, DispatcherInit, Subs
  <2>2. Gap \in [Subs -> Nat] /\ Pairs(Gap) = {}
    BY <2>1 DEF Gap, Pairs
  <2> QED BY <2>1, <2>2, EngineAssumption, FS_EmptySet DEF DropsCounted
<1>2. Counts /\ DropsCounted /\ [Next]_vars => DropsCounted'
  BY DropsCountedStep
<1>3. Counts /\ DropsCounted => DropsAccounted
  <2> SUFFICES ASSUME Counts, DropsCounted PROVE DropsAccounted
    OBVIOUS
  <2>1. ASSUME NEW s \in Subs PROVE Reached(s) <= Served(s)
    <3>1. PICK a, b \in Int : a = Served(s) /\ b = Reached(s)
      BY ServedBound, GapFacts DEF CountableDrops, Reached
    <3>2. a - b \in Nat
      BY <3>1, GapFacts
    <3> QED BY <3>1, <3>2
  <2>2. Missed = Pairs(Gap)
    <3>1. DOMAIN Gap = Subs /\ \A s \in Subs : Gap[s] = Served(s) - Reached(s)
      BY DEF Gap
    <3> QED BY <3>1 DEF Missed, Pairs
  <2> QED BY <2>1, <2>2 DEF DropsAccounted, DropsCounted
<1>4. Spec => []Counts
  BY CountsHold DEF CountableDrops
<1> HIDE DEF Counts
<1> QED BY <1>1, <1>2, <1>3, <1>4, PTL DEF Spec
=============================================================================
