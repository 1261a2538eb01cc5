-------------------------- MODULE CoreEngineProofs --------------------------
(***************************************************************************)
(* The life cycle of the engine's threads, the parser registry and the     *)
(* types of the engine's variables, for every number of starts,            *)
(* subscribers, packets and registrations and every capacity of the        *)
(* queues.  Then the invariant about what flows through the engine, and    *)
(* that the dispatcher thread keeps it.                                    *)
(***************************************************************************)
EXTENDS CoreEngine, RingArithmetic, TLAPS

(***************************************************************************)
(* The records keep their fields.                                          *)
(***************************************************************************)
Shape ==
  /\ r_thread = [pc |-> r_thread.pc, packet |-> r_thread.packet]
  /\ d_thread = [pc |-> d_thread.pc, i |-> d_thread.i, msg |-> d_thread.msg]
  /\ p_thread = [pc |-> p_thread.pc, pending |-> p_thread.pending,
                 q |-> p_thread.q, count |-> p_thread.count]
  /\ parser = [kind |-> parser.kind, state |-> parser.state]
  /\ e_running \in BOOLEAN /\ d_running \in BOOLEAN /\ r_running \in BOOLEAN

(***************************************************************************)
(* Which threads exist, and which flags are set, at each step of main.     *)
(***************************************************************************)
ReceiverAt ==
  /\ r_running => r_thread.pc \notin {"none", "done"}
  /\ main # "join receiver" /\ ~r_running => r_thread.pc = "none"
  /\ main = "join receiver" => ~r_running
  /\ main \in {"idle", "start receiver"} /\ (main = "idle" => ~e_running) => ~r_running

DispatcherAt ==
  /\ main \in {"start parser", "join parser", "stop dispatcher"} \/ (main = "idle" /\ e_running)
       => d_running
  /\ main \in {"start receiver", "start dispatcher", "join dispatcher", "stop receiver",
               "join receiver"} \/ (main = "idle" /\ ~e_running)
       => ~d_running
  /\ d_running => d_thread.pc \notin {"none", "done"}
  /\ ~d_running /\ main # "join dispatcher" => d_thread.pc = "none"

ParserAt ==
  /\ main = "join parser" \/ (main = "idle" /\ e_running) <=> p_thread.pc # "none"
  /\ e_running => parser.kind # NoParser
  /\ p_thread.pc # "none" => parser.kind # NoParser

MainAt ==
  /\ main \in {"idle", "start receiver", "start dispatcher", "start parser", "join parser",
               "stop dispatcher", "join dispatcher", "stop receiver", "join receiver"}
  /\ main \in {"start receiver", "start dispatcher", "start parser"} => e_running
  /\ main \in {"join parser", "stop dispatcher", "join dispatcher", "stop receiver", "join receiver"}
       => ~e_running

SubscribersAt ==
  /\ d_thread.pc # "none" => \A s \in Subs : subscribers[s] = "initialized"
  /\ d_thread.pc = "deliver" => d_thread.i \in Subs

(***************************************************************************)
(* The inductive invariant.  The properties speak of a few steps of main;  *)
(* what holds there follows from what every other step leaves behind.      *)
(***************************************************************************)
Control == Shape /\ MainAt /\ ReceiverAt /\ DispatcherAt /\ ParserAt /\ SubscribersAt
-----------------------------------------------------------------------------
(***************************************************************************)
(* Before the first call nothing runs.                                     *)
(***************************************************************************)
LEMMA ControlInit ==
  ASSUME Init
  PROVE  Control
<1> USE DEF Init, ReceiverInit, DispatcherInit
<1>1. Shape
  BY Zenon DEF Shape
<1>2. MainAt
  BY DEF MainAt
<1>3. ReceiverAt
  BY DEF ReceiverAt
<1>4. DispatcherAt
  BY DEF DispatcherAt
<1>5. ParserAt
  BY DEF ParserAt, NoParser
<1>6. SubscribersAt
  BY DEF SubscribersAt
<1>7. QED
  BY <1>1, <1>2, <1>3, <1>4, <1>5, <1>6 DEF Control

(***************************************************************************)
(* The calls of the application that leave the threads alone.              *)
(***************************************************************************)
LEMMA CallsKeepControl ==
  ASSUME Control, Application
  PROVE  Control'
<1> USE DEF Control, Shape, MainAt, ReceiverAt, DispatcherAt, ParserAt, SubscribersAt,
            rVars, dVars, eVars, Subs
<1>1. ASSUME NEW kind, set_parser(kind) PROVE Control'
  BY <1>1 DEF set_parser
<1>2. CASE add_subscriber
  BY <1>2 DEF add_subscriber, AddSubscriber
<1>3. ASSUME NEW ok \in BOOLEAN, initialize(ok) PROVE Control'
  BY <1>3 DEF initialize, ReceiverInitialize
<1>4. CASE StartFlag
  BY Zenon, <1>4 DEF StartFlag
<1>5. CASE StopFlag
  BY ZenonT(40), <1>5 DEF StopFlag
<1>6. QED
  BY Zenon, <1>1, <1>2, <1>3, <1>4, <1>5 DEF Application

(***************************************************************************)
(* The steps of start() and stop(), where threads come and go.             *)
(***************************************************************************)
LEMMA MainKeepsControl ==
  ASSUME Control, MainStep
  PROVE  Control'
<1> USE DEF Control, Shape, MainAt, ReceiverAt, DispatcherAt, ParserAt, SubscribersAt,
            rVars, dVars, eVars, Subs
<1>1. CASE StartReceiver
  BY Zenon, <1>1 DEF StartReceiver, ReceiverStart
<1>2. CASE StartDispatcher
  BY Zenon, <1>2 DEF StartDispatcher, DispatcherStart
<1>3. CASE StartParser
  BY Zenon, <1>3 DEF StartParser
<1>4. CASE StopJoinParser
  BY Zenon, <1>4 DEF StopJoinParser
<1>5. CASE StopDispatcher
  BY Zenon, <1>5 DEF StopDispatcher, DispatcherStopFlag
<1>6. CASE JoinDispatcher
  BY Zenon, <1>6 DEF JoinDispatcher, DispatcherStopJoin
<1>7. CASE StopReceiver
  BY Zenon, <1>7 DEF StopReceiver, ReceiverStopFlag, ResetParser
<1>8. CASE JoinReceiver
  BY ZenonT(40), <1>8 DEF JoinReceiver, ReceiverStopJoin, ResetParser
<1>9. QED
  BY Zenon, <1>1, <1>2, <1>3, <1>4, <1>5, <1>6, <1>7, <1>8 DEF MainStep

(***************************************************************************)
(* The parser thread moves within its loop.                                *)
(***************************************************************************)
LEMMA ParserKeepsControl ==
  ASSUME Control, ParserThread
  PROVE  Control'
<1> USE DEF Control, Shape, MainAt, ReceiverAt, DispatcherAt, ParserAt, SubscribersAt,
            rVars, dVars, eVars, Subs
<1>1. CASE ParseTest
  BY Zenon, <1>1 DEF ParseTest
<1>2. CASE ParseNothing
  BY Zenon, <1>2 DEF ParseNothing
<1>3. CASE ParsePacket
  BY Zenon, <1>3 DEF ParsePacket, ReadPacket
<1>4. CASE ParsePush
  BY Zenon, <1>4 DEF ParsePush, DispatchPush
<1>5. CASE ParseDispatched
  BY Zenon, <1>5 DEF ParseDispatched, DispatchCount
<1>6. CASE ParseCount
  BY ZenonT(40), <1>6 DEF ParseCount
<1>7. QED
  BY Zenon, <1>1, <1>2, <1>3, <1>4, <1>5, <1>6 DEF ParserThread

(***************************************************************************)
(* The receiver thread, whose flag is cleared only on the way to its join. *)
(***************************************************************************)
LEMMA ReceiverKeepsControl ==
  ASSUME Control, Receiving \/ Failing
  PROVE  Control'
<1> USE DEF Control, Shape, MainAt, ReceiverAt, DispatcherAt, ParserAt, SubscribersAt,
            rVars, dVars, eVars, Subs
<1>1. UNCHANGED <<dVars, eVars>>
  BY Zenon DEF Receiving, Failing
<1>2. CASE ReceiveTest
  BY Zenon, <1>1, <1>2 DEF ReceiveTest
<1>3. CASE ReceiveDatagram
  BY Zenon, <1>1, <1>3 DEF ReceiveDatagram
<1>4. CASE ReceivePush
  BY Zenon, <1>1, <1>4 DEF ReceivePush
<1>5. CASE ReceiveDrop
  BY Zenon, <1>1, <1>5 DEF ReceiveDrop
<1>6. CASE ReceiveCount
  BY Zenon, <1>1, <1>6 DEF ReceiveCount
<1>7. CASE ReceiveFails
  BY ZenonT(40), <1>1, <1>7 DEF ReceiveFails
<1>8. QED
  BY Zenon, <1>2, <1>3, <1>4, <1>5, <1>6, <1>7 DEF Receiving, Failing, ReceiverThread

(***************************************************************************)
(* The dispatcher thread, which delivers only to a subscriber there is.    *)
(***************************************************************************)
LEMMA DispatcherKeepsControl ==
  ASSUME Control, Dispatching
  PROVE  Control'
<1> USE DEF Control, Shape, MainAt, ReceiverAt, DispatcherAt, ParserAt, SubscribersAt,
            rVars, dVars, eVars, Subs
<1>1. UNCHANGED <<rVars, eVars>>
  BY Zenon DEF Dispatching
<1>2. CASE LoopTest
  BY Zenon, <1>1, <1>2 DEF LoopTest
<1>3. CASE LoopPop
  BY Zenon, <1>1, <1>3 DEF LoopPop
<1>4. CASE LoopNextSubscriber
  BY Zenon, <1>1, <1>4 DEF LoopNextSubscriber
<1>5. CASE LoopAgain
  BY Zenon, <1>1, <1>5 DEF LoopAgain
<1>6. CASE Deliver
  BY Zenon, <1>1, <1>6 DEF Deliver
<1>7. QED
  BY Zenon, <1>2, <1>3, <1>4, <1>5, <1>6 DEF Dispatching, DispatcherThread

(***************************************************************************)
(* No step breaks the invariant; a datagram reaches only the socket.       *)
(***************************************************************************)
LEMMA ControlStep ==
  ASSUME Control, [Next]_vars
  PROVE  Control'
<1>1. CASE Network
  <2>1. UNCHANGED <<r_running, r_thread, dVars, eVars>>
    BY Zenon, <1>1 DEF Network, DatagramArrives
  <2>2. QED
    BY Zenon, <2>1 DEF Control, Shape, MainAt, ReceiverAt, DispatcherAt, ParserAt, SubscribersAt,
                dVars, eVars, Subs
<1>2. CASE UNCHANGED vars
  BY Zenon, <1>2 DEF Control, Shape, MainAt, ReceiverAt, DispatcherAt, ParserAt, SubscribersAt,
              vars, rVars, dVars, eVars, Subs
<1>3. QED
  BY <1>1, <1>2, CallsKeepControl, MainKeepsControl, ParserKeepsControl, ReceiverKeepsControl,
     DispatcherKeepsControl DEF Next

(***************************************************************************)
(* The invariant holds throughout.                                         *)
(***************************************************************************)
THEOREM ControlHolds == Spec => []Control
  BY ControlInit, ControlStep, PTL DEF Spec

-----------------------------------------------------------------------------
(***************************************************************************)
(* However often the engine is started and stopped, start() finds no       *)
(* joinable thread and stop() leaves none (core_engine.hpp, start, stop).  *)
(***************************************************************************)
THEOREM EngineThreadLifecycle == Spec => []ThreadLifecycle
<1>1. Control => ThreadLifecycle
  BY Zenon DEF Control, MainAt, ReceiverAt, DispatcherAt, ParserAt, ThreadLifecycle
<1>2. QED
  BY <1>1, ControlHolds, PTL

(***************************************************************************)
(* For any number of subscribers, on_message is called only on one that    *)
(* start() initialized and stop() has not shut down (dispatch_loop).       *)
(***************************************************************************)
THEOREM EngineSubscribersReady == Spec => []SubscribersReady
<1>1. Control => SubscribersReady
  BY DEF Control, SubscribersAt, SubscribersReady
<1>2. QED
  BY <1>1, ControlHolds, PTL

(***************************************************************************)
(* The dispatcher thread exists as long as the parser thread does, which   *)
(* is what the order of the joins in stop() is for.                        *)
(***************************************************************************)
THEOREM EngineDispatcherOutlivesParser == Spec => []DispatcherOutlivesParser
<1>1. Control => DispatcherOutlivesParser
  BY Zenon DEF Control, MainAt, DispatcherAt, ParserAt, DispatcherOutlivesParser
<1>2. QED
  BY <1>1, ControlHolds, PTL

(***************************************************************************)
(* parse_loop never runs with a null parser_, for any set of registrations *)
(* and of names asked for.                                                 *)
(***************************************************************************)
THEOREM EngineParserPresent == Spec => []ParserPresent
<1>1. Control => ParserPresent
  BY Zenon DEF Control, ParserAt, ParserPresent
<1>2. QED
  BY <1>1, ControlHolds, PTL

(***************************************************************************)
(* set_parser and the reset at the end of stop() touch the parser only     *)
(* while there is no parser thread.  That initialize(), which has no test  *)
(* of the engine's flag, does so too is not claimed.                       *)
(***************************************************************************)
THEOREM EngineParserUnshared == Spec => ParserUnshared
<1>1. ASSUME Control, [Next]_vars, parser' # parser, parser'.state # "initialized"
      PROVE  p_thread.pc = "none"
  <2>1. CASE Application
    <3>1. ASSUME NEW ok \in BOOLEAN, initialize(ok) PROVE FALSE
      <4>1. [parser EXCEPT !.state = "initialized"].state = "initialized"
        BY Zenon, <1>1 DEF Control, Shape
      <4> QED BY Zenon, <1>1, <3>1, <4>1 DEF initialize
    <3> QED BY Zenon, <1>1, <2>1, <3>1 DEF Application, set_parser, add_subscriber, StartFlag, StopFlag,
                      eVars, Control, ParserAt
  <2>2. CASE MainStep
    BY Zenon, <1>1, <2>2 DEF MainStep, StartReceiver, StartDispatcher, StartParser, StopJoinParser,
                      StopDispatcher, JoinDispatcher, StopReceiver, JoinReceiver,
                      Control, ParserAt
  <2>3. CASE ParserThread
    BY <1>1, <2>3 DEF ParserThread, ParseTest, ParseNothing, ParsePacket, ParsePush,
                      ParseDispatched, ParseCount
  <2>4. CASE Receiving \/ Failing \/ Dispatching \/ Network \/ UNCHANGED vars
    BY <1>1, <2>4 DEF Receiving, Failing, Dispatching, Network, vars, eVars
  <2>5. QED
    BY <1>1, <2>1, <2>2, <2>3, <2>4 DEF Next
<1>2. Control /\ [Next]_vars
        => [parser' # parser /\ parser'.state # "initialized" => p_thread.pc = "none"]_vars
  BY Zenon, <1>1
<1>3. QED
  BY <1>2, ControlHolds, PTL DEF Spec, ParserUnshared
-----------------------------------------------------------------------------
(***************************************************************************)
(* Between two packets the parser thread holds nothing, and between two    *)
(* calls of on_message neither does the dispatcher thread.                 *)
(***************************************************************************)
Rest ==
  /\ p_thread.q \in 1 .. Len(subscribers) + 1
  /\ p_thread.pending = << >> => p_thread.q = 1
  /\ p_thread.pc # "dispatch" => p_thread.pending = << >> /\ p_thread.count = 0
  /\ Len(p_thread.pending) <= p_thread.count
  /\ d_thread.pc # "deliver" => d_thread.msg = NoMessage

(***************************************************************************)
(* Counters stay numbers.                                                  *)
(***************************************************************************)
LEMMA CounterType == \A c, k \in Nat : Plus(c, k) \in Nat /\ Bump(c) \in Nat
  BY CountToAssumption DEF Plus, Bump

(***************************************************************************)
(* Below CountTo they are exact.                                           *)
(***************************************************************************)
LEMMA CounterExact == \A c, k \in Nat : c + k <= CountTo => Plus(c, k) = c + k
  BY CountToAssumption DEF Plus

(***************************************************************************)
(* The sequences of the model under Append and Tail.                       *)
(***************************************************************************)
LEMMA AppendFacts ==
  ASSUME NEW S, NEW seq \in Seq(S), NEW e \in S
  PROVE  /\ Append(seq, e) \in Seq(S) /\ Len(seq) \in Nat /\ Len(Append(seq, e)) = Len(seq) + 1
         /\ Append(seq, e)[Len(seq) + 1] = e
         /\ \A k \in 1 .. Len(seq) : Append(seq, e)[k] = seq[k]
  OBVIOUS

(***************************************************************************)
(* A sequence that is not empty has a head, and its tail moves up by one.  *)
(***************************************************************************)
LEMMA TailFacts ==
  ASSUME NEW S, NEW seq \in Seq(S), seq # << >>
  PROVE  /\ Tail(seq) \in Seq(S) /\ Len(seq) \in Nat /\ Len(seq) > 0 /\ Len(Tail(seq)) = Len(seq) - 1
         /\ Head(seq) \in S /\ Head(seq) = seq[1] /\ 1 \in 1 .. Len(seq)
         /\ \A k \in 1 .. Len(seq) - 1 : Tail(seq)[k] = seq[k + 1] /\ k + 1 \in 1 .. Len(seq)
  OBVIOUS

(***************************************************************************)
(* Every operation of the receiver keeps its types.                        *)
(***************************************************************************)
LEMMA ReceiverTyped ==
  ASSUME ReceiverTypes,
         \/ UNCHANGED rVars \/ \E ok \in BOOLEAN : ReceiverInitialize(ok) \/ ReceiverStart
         \/ ReceiverStopFlag \/ ReceiverStopJoin \/ ReceiverThread \/ ReceiveFails \/ ReadPacket
  PROVE  ReceiverTypes'
<1> DEFINE Rec == [pc : {"none", "test", "recv", "push", "count", "done"}, packet : Packets]
<1> USE DEF ReceiverTypes, rVars
<1>1. NoPacket \in Packets /\ << >> \in Seq(Packets) /\ Len(<< >>) = 0
  BY DEF NoPacket, Packets
<1>2. r_thread \in Rec /\ SocketBuffer \in Nat /\ RingCapacity \in Nat
  BY RingAssumption
<1>3. \A pc \in {"none", "test", "recv", "push", "count", "done"} : [r_thread EXCEPT !.pc = pc] \in Rec
  BY <1>2
<1>4. CASE UNCHANGED rVars
  BY <1>4
<1>5. ASSUME NEW ok \in BOOLEAN, ReceiverInitialize(ok) PROVE ReceiverTypes'
  BY <1>1, <1>2, <1>5 DEF ReceiverInitialize
<1>6. CASE ReceiverStart
  BY Zenon, <1>3, <1>6 DEF ReceiverStart
<1>7. CASE ReceiverStopFlag
  BY Zenon, <1>7 DEF ReceiverStopFlag
<1>8. CASE ReceiverStopJoin
  <2>1. r_thread' \in Rec
    BY <1>3, <1>8 DEF ReceiverStopJoin
  <2>2. inbox' = << >> /\ socket_open' = FALSE
    BY <1>8 DEF ReceiverStopJoin
  <2>3. inbox' \in Seq(Packets) /\ Len(inbox') <= SocketBuffer
    BY ONLY <1>1, <1>2, <2>2
  <2> QED BY Zenon, <2>3, <1>8, <2>1, <2>2 DEF ReceiverStopJoin
<1>9. CASE ReceiveTest
  BY <1>3, <1>9 DEF ReceiveTest
<1>10. CASE ReceiveDatagram
  <2>1. inbox # << >> /\ inbox \in Seq(Packets)
    BY <1>10 DEF ReceiveDatagram
  <2>2. Tail(inbox) \in Seq(Packets) /\ Len(Tail(inbox)) <= SocketBuffer /\ Head(inbox) \in Packets
    BY <1>2, <2>1, TailFacts
  <2>3. r_thread' \in Rec
    BY <1>3, <1>10, <2>2 DEF ReceiveDatagram
  <2>4. taken' \in Nat
    BY Zenon, <1>10, CounterType DEF ReceiveDatagram
  <2> QED BY Zenon, <1>10, <2>2, <2>3, <2>4 DEF ReceiveDatagram
<1>11. CASE ReceivePush
  <2>1. /\ Append(packet_queue, r_thread.packet) \in Seq(Packets)
        /\ Len(Append(packet_queue, r_thread.packet)) = Len(packet_queue) + 1
        /\ Len(packet_queue) \in Nat
    BY <1>2, AppendFacts
  <2> QED BY <1>1, <1>2, <1>11, <2>1 DEF ReceivePush
<1>12. CASE ReceiveDrop
  BY Zenon, <1>1, <1>12, CounterType DEF ReceiveDrop
<1>13. CASE ReceiveCount
  BY Zenon, <1>3, <1>13, CounterType DEF ReceiveCount
<1>14. CASE ReceiveFails
  BY <1>3, <1>14 DEF ReceiveFails
<1>15. CASE ReadPacket
  <2>1. Tail(packet_queue) \in Seq(Packets) /\ Len(Tail(packet_queue)) <= RingCapacity
    BY <1>2, <1>15, TailFacts DEF ReadPacket
  <2> QED BY <1>15, <2>1, CounterType DEF ReadPacket
<1> QED BY <1>4, <1>5, <1>6, <1>7, <1>8, <1>9, <1>10, <1>11, <1>12, <1>13, <1>14, <1>15
        DEF ReceiverThread

(***************************************************************************)
(* What a change of one subscriber's entry does to queues and delivered.   *)
(***************************************************************************)
LEMMA EntryUpdate ==
  ASSUME NEW S, NEW seq \in Seq(S), NEW t \in 1 .. Len(seq), NEW e \in S
  PROVE  /\ [seq EXCEPT ![t] = e] \in Seq(S)
         /\ Len([seq EXCEPT ![t] = e]) = Len(seq)
         /\ [seq EXCEPT ![t] = e][t] = e
         /\ \A u \in 1 .. Len(seq) : u # t => [seq EXCEPT ![t] = e][u] = seq[u]
  OBVIOUS

(***************************************************************************)
(* The entries of the dispatcher's sequences.                              *)
(***************************************************************************)
Delivered == [msg : Messages, n : Nat, since : Nat]

(***************************************************************************)
(* Each subscriber has a queue of messages and a record of deliveries.     *)
(***************************************************************************)
LEMMA EntryTypes ==
  ASSUME DispatcherTypes
  PROVE  /\ Subs = 1 .. Len(subscribers) /\ Len(subscribers) \in Nat /\ QueueCapacity \in Nat
         /\ \A t \in Subs : queues[t] \in Seq(Messages) /\ delivered[t] \in Delivered
<1>1. Subs = 1 .. Len(subscribers) /\ Len(subscribers) \in Nat
  BY DEF DispatcherTypes, Subs
<1>2. queues \in Seq(Seq(Messages)) /\ Len(queues) = Len(subscribers)
      /\ delivered \in Seq(Delivered) /\ Len(delivered) = Len(subscribers)
  BY DEF DispatcherTypes, Delivered
<1>3. ASSUME NEW t \in Subs PROVE queues[t] \in Seq(Messages) /\ delivered[t] \in Delivered
  BY <1>1, <1>2
<1> QED BY <1>1, <1>3, QueueAssumption

(***************************************************************************)
(* A push of dispatch() into one queue keeps the dispatcher's types.       *)
(***************************************************************************)
LEMMA PushTyped ==
  ASSUME DispatcherTypes, NEW s \in Subs, NEW msg \in Messages, DispatchPush(s, msg)
  PROVE  DispatcherTypes'
<1>1. CASE PushInto(s, msg) /\ UNCHANGED d_stats
  <2> DEFINE e == Append(queues[s], msg)
  <2>1. e \in Seq(Messages) /\ Len(queues[s]) \in Nat /\ Len(e) = Len(queues[s]) + 1
    BY EntryTypes, AppendFacts
  <2>2. queues' = [queues EXCEPT ![s] = e] /\ Len(queues[s]) < QueueCapacity
    BY <1>1 DEF PushInto
  <2> HIDE DEF e
  <2>3. queues \in Seq(Seq(Messages)) /\ s \in 1 .. Len(queues) /\ Len(queues) = Len(subscribers)
    BY Zenon, EntryTypes DEF DispatcherTypes
  <2>4. /\ queues' \in Seq(Seq(Messages)) /\ Len(queues') = Len(queues) /\ queues'[s] = e
        /\ \A u \in 1 .. Len(queues) : u # s => queues'[u] = queues[u]
    BY ONLY <2>1, <2>2, <2>3, EntryUpdate
  <2>5. ASSUME NEW u \in Subs PROVE Len(queues'[u]) <= QueueCapacity
    <3>1. CASE u = s
      BY <2>1, <2>2, <2>4, <3>1, EntryTypes
    <3>2. CASE u # s
      BY Zenon, <2>3, <2>4, <3>2, EntryTypes DEF DispatcherTypes
    <3> QED BY <3>1, <3>2
  <2>6. UNCHANGED <<subscribers, delivered, d_running, d_thread, d_stats>>
    BY <1>1 DEF DispatchPush
  <2> QED BY <2>3, <2>4, <2>5, <2>6 DEF DispatcherTypes, Subs
<1>2. CASE d_stats' = [d_stats EXCEPT !.dropped = Bump(@)] /\ UNCHANGED queues
  <2>1. d_stats' \in [dispatched : Nat, dropped : Nat]
    BY Zenon, <1>2, CounterType DEF DispatcherTypes
  <2> QED BY <1>2, <2>1 DEF DispatchPush, DispatcherTypes, Subs
<1> QED BY <1>1, <1>2 DEF DispatchPush

(***************************************************************************)
(* So do its other operations; it delivers only to a subscriber there is.  *)
(***************************************************************************)
LEMMA DispatcherTyped ==
  ASSUME DispatcherTypes, d_thread.pc = "deliver" => d_thread.i \in Subs,
         \/ UNCHANGED dVars \/ AddSubscriber \/ DispatchCount
         \/ DispatcherStart \/ DispatcherStopFlag \/ DispatcherStopJoin \/ DispatcherThread
  PROVE  DispatcherTypes'
<1> DEFINE Rec == [pc : {"none", "test", "pop", "deliver", "done"}, i : Nat, msg : Messages]
           States == {"new", "initialized", "shutdown"}
           i == d_thread.i
<1>1. NoMessage \in Messages /\ << >> \in Seq(Messages) /\ Len(<< >>) = 0
  BY DEF NoMessage, Messages
<1>2. d_thread \in Rec /\ i \in Nat /\ QueueCapacity \in Nat /\ d_stats.dispatched \in Nat
  BY QueueAssumption DEF DispatcherTypes
<1>3. /\ subscribers \in Seq(States) /\ queues \in Seq(Seq(Messages)) /\ delivered \in Seq(Delivered)
      /\ Len(queues) = Len(subscribers) /\ Len(delivered) = Len(subscribers)
      /\ Subs = 1 .. Len(subscribers) /\ Len(subscribers) \in Nat
      /\ \A t \in Subs : Len(queues[t]) <= QueueCapacity
  BY EntryTypes DEF DispatcherTypes, Delivered
<1>4. \A v \in States : /\ [t \in Subs |-> v] \in Seq(States)
                        /\ Len([t \in Subs |-> v]) = Len(subscribers)
                        /\ DOMAIN [t \in Subs |-> v] = Subs
  BY <1>3
<1>5. \A pc \in {"none", "test", "pop", "deliver", "done"}, k \in Nat :
        [d_thread EXCEPT !.pc = pc] \in Rec /\ [d_thread EXCEPT !.pc = pc, !.i = k] \in Rec
  BY Zenon, <1>2
<1> HIDE DEF States, i, Rec
<1>6. ASSUME UNCHANGED <<queues, delivered, d_stats>>, d_thread' \in Rec, d_running' \in BOOLEAN,
             \/ UNCHANGED subscribers
             \/ subscribers' \in Seq(States) /\ Len(subscribers') = Len(subscribers)
                /\ DOMAIN subscribers' = Subs
      PROVE  DispatcherTypes'
  BY Zenon, <1>6 DEF DispatcherTypes, Subs, Rec, States
<1>7. d_running \in BOOLEAN /\ TRUE \in BOOLEAN /\ FALSE \in BOOLEAN
  BY DEF DispatcherTypes
<1>8. CASE UNCHANGED dVars
  BY <1>8 DEF dVars, DispatcherTypes, Subs
<1>9. CASE AddSubscriber
  <2> DEFINE e == [msg |-> NoMessage, n |-> 0, since |-> d_stats.dispatched]
  <2>1. e \in Delivered /\ "new" \in States
    BY <1>1, <1>2 DEF Delivered, States
  <2> HIDE DEF e
  <2>2. /\ subscribers' = Append(subscribers, "new") /\ queues' = Append(queues, << >>)
        /\ delivered' = Append(delivered, e) /\ UNCHANGED <<d_running, d_thread, d_stats>>
    BY <1>9 DEF AddSubscriber, e
  <2>3. subscribers' \in Seq(States) /\ Len(subscribers') = Len(subscribers) + 1
    BY <1>3, <2>1, <2>2, AppendFacts
  <2>4. delivered' \in Seq(Delivered) /\ Len(delivered') = Len(subscribers) + 1
    BY <1>3, <2>1, <2>2, AppendFacts
  <2>5. /\ queues' \in Seq(Seq(Messages)) /\ Len(queues') = Len(subscribers) + 1
        /\ queues'[Len(subscribers) + 1] = << >>
        /\ \A t \in 1 .. Len(subscribers) : queues'[t] = queues[t]
    BY <1>1, <1>3, <2>2, AppendFacts
  <2>6. Subs' = 1 .. Len(subscribers) + 1
    BY <2>3 DEF Subs
  <2>7. \A t \in Subs' : Len(queues'[t]) <= QueueCapacity
    <3> TAKE t \in Subs'
    <3>1. t = Len(subscribers) + 1 \/ t \in 1 .. Len(subscribers)
      BY <1>3, <2>6
    <3>2. CASE t = Len(subscribers) + 1
      <4>1. queues'[t] = << >>
        BY <2>5, <3>2
      <4> QED BY ONLY <1>1, <1>2, <4>1
    <3>3. CASE t \in 1 .. Len(subscribers)
      BY Zenon, <1>3, <2>5, <3>3
    <3> QED BY <3>1, <3>2, <3>3
  <2> QED BY Zenon, <2>2, <2>3, <2>4, <2>5, <2>7 DEF DispatcherTypes, States, Delivered
<1>10. CASE DispatchCount
  <2>1. d_stats' \in [dispatched : Nat, dropped : Nat]
    BY Zenon, <1>10, CounterType DEF DispatcherTypes, DispatchCount
  <2> QED BY <1>10, <2>1 DEF DispatchCount, DispatcherTypes, Subs
<1>11. CASE DispatcherStart
  <2>1. CASE d_running
    BY <1>8, <1>11, <2>1 DEF DispatcherStart
  <2>2. CASE ~d_running
    <3>1. d_thread' \in Rec
      BY Zenon, <1>5, <1>11, <2>2 DEF DispatcherStart
    <3>2. subscribers' = [t \in Subs |-> "initialized"] /\ "initialized" \in States
      BY <1>11, <2>2 DEF DispatcherStart, States
    <3> QED BY <1>4, <1>6, <1>11, <2>2, <3>1, <3>2 DEF DispatcherStart
  <2> QED BY <2>1, <2>2
<1>12. CASE DispatcherStopFlag
  BY Zenon, <1>2, <1>6, <1>12 DEF DispatcherStopFlag
<1>13. CASE DispatcherStopJoin
  <2>1. d_thread' \in Rec
    BY Zenon, <1>5, <1>13 DEF DispatcherStopJoin
  <2>2. subscribers' = [t \in Subs |-> "shutdown"] /\ "shutdown" \in States
    BY <1>13 DEF DispatcherStopJoin, States
  <2> QED BY <1>4, <1>6, <1>7, <1>13, <2>1, <2>2 DEF DispatcherStopJoin
<1>14. CASE LoopTest
  <2>1. d_thread' \in Rec
    BY Zenon, <1>5, <1>14 DEF LoopTest
  <2> QED BY <1>6, <1>7, <1>14, <2>1 DEF LoopTest
<1>15. CASE LoopPop
  <2> DEFINE e == [delivered[i] EXCEPT !.n = Bump(@)]
  <2>1. i \in Subs /\ queues[i] # << >> /\ queues[i] \in Seq(Messages)
    BY <1>15, EntryTypes DEF LoopPop, i
  <2>2. /\ Tail(queues[i]) \in Seq(Messages) /\ Head(queues[i]) \in Messages
        /\ Len(Tail(queues[i])) = Len(queues[i]) - 1 /\ Len(queues[i]) \in Nat
    BY <2>1, TailFacts
  <2>3. e \in Delivered
    <3>1. delivered[i] \in Delivered
      BY <2>1, EntryTypes
    <3> QED BY <3>1, CounterType DEF Delivered
  <2>4. /\ queues' = [queues EXCEPT ![i] = Tail(queues[i])]
        /\ delivered' = [delivered EXCEPT ![i] = e]
        /\ UNCHANGED <<subscribers, d_running, d_stats>>
    BY <1>15 DEF LoopPop, i
  <2> HIDE DEF e
  <2>5. /\ queues' \in Seq(Seq(Messages)) /\ Len(queues') = Len(queues) /\ queues'[i] = Tail(queues[i])
        /\ \A u \in 1 .. Len(queues) : u # i => queues'[u] = queues[u]
    BY <1>3, <2>1, <2>2, <2>4, EntryUpdate
  <2>6. delivered' \in Seq(Delivered) /\ Len(delivered') = Len(delivered)
    BY <1>3, <2>1, <2>3, <2>4, EntryUpdate
  <2>7. \A u \in Subs : Len(queues'[u]) <= QueueCapacity
    <3> TAKE u \in Subs
    <3>1. CASE u = i
      <4>1. Len(queues[i]) <= QueueCapacity /\ queues'[u] = Tail(queues[i])
        BY <1>3, <2>1, <2>5, <3>1
      <4>2. Len(queues'[u]) = Len(queues[i]) - 1
        BY <2>2, <4>1
      <4> QED BY ONLY <1>2, <2>2, <4>1, <4>2
    <3>2. CASE u # i
      BY <1>3, <2>5, <3>2
    <3> QED BY <3>1, <3>2
  <2>8. d_thread' \in Rec
    BY Zenon, <1>2, <1>15, <2>2 DEF LoopPop, i, Rec
  <2> QED BY <1>3, <2>4, <2>5, <2>6, <2>7, <2>8 DEF DispatcherTypes, Subs, Delivered, Rec
<1>16. CASE LoopNextSubscriber
  <2>1. d_thread' = [d_thread EXCEPT !.i = i + 1] /\ i + 1 \in Nat
    BY <1>2, <1>16 DEF LoopNextSubscriber, i
  <2>2. d_thread' \in Rec
    BY <1>2, <2>1 DEF Rec
  <2> QED BY <1>6, <1>7, <1>16, <2>2 DEF LoopNextSubscriber
<1>17. CASE LoopAgain
  <2>1. d_thread' \in Rec
    BY Zenon, <1>5, <1>17 DEF LoopAgain
  <2> QED BY <1>6, <1>7, <1>17, <2>1 DEF LoopAgain
<1>18. CASE Deliver
  <2> DEFINE e == [delivered[i] EXCEPT !.msg = d_thread.msg]
  <2>1. i \in Subs /\ d_thread.msg \in Messages
    BY <1>2, <1>18 DEF Deliver, i, Rec
  <2>2. e \in Delivered
    <3>1. delivered[i] \in Delivered
      BY <2>1, EntryTypes
    <3> QED BY <2>1, <3>1 DEF Delivered
  <2>3. delivered' = [delivered EXCEPT ![i] = e] /\ UNCHANGED <<subscribers, queues, d_running, d_stats>>
    BY <1>18 DEF Deliver, i
  <2> HIDE DEF e
  <2>4. delivered' \in Seq(Delivered) /\ Len(delivered') = Len(delivered)
    BY <1>3, <2>1, <2>2, <2>3, EntryUpdate
  <2>5. d_thread' \in Rec
    BY Zenon, <1>1, <1>2, <1>18 DEF Deliver, Rec
  <2> QED BY <1>3, <2>3, <2>4, <2>5 DEF DispatcherTypes, Subs, Delivered, Rec
<1> QED BY <1>8, <1>9, <1>10, <1>11, <1>12, <1>13, <1>14, <1>15, <1>16, <1>17, <1>18
        DEF DispatcherThread

-----------------------------------------------------------------------------
(***************************************************************************)
(* The registry after each of the first m registrations.                   *)
(***************************************************************************)
AfterFirst(m, at) ==
  /\ at = [i \in 0 .. m |-> at[i]]
  /\ at[0] = << >>
  /\ \A i \in 1 .. m :
       at[i] = register_parser(at[i - 1], Registrations[i].name, Registrations[i].kind)

(***************************************************************************)
(* The recursion of factories_ describes a function: by induction on how   *)
(* far it goes.                                                            *)
(***************************************************************************)
LEMMA RegistryExists == \E at : AfterFirst(Len(Registrations), at)
<1>1. PICK n : n = Len(Registrations)
  BY Zenon
<1>2. n \in Nat
  BY <1>1, RegistrationsAssumption
<1> DEFINE S == {m \in 0 .. n : \E at : AfterFirst(m, at)}
<1>3. 0 \in S
  <2>1. PICK at : at = [i \in 0 .. 0 |-> << >>]
    BY Zenon
  <2>2. at[0] = << >> /\ at = [i \in 0 .. 0 |-> at[i]] /\ 1 .. 0 = {}
    BY <2>1
  <2>3. AfterFirst(0, at)
    BY <2>2 DEF AfterFirst
  <2> QED
    BY <1>2, <2>3
<1>4. ASSUME NEW m \in 1 .. n, m - 1 \in S PROVE m \in S
  <2>1. PICK f : AfterFirst(m - 1, f)
    BY <1>4
  <2>2. PICK new : new = register_parser(f[m - 1], Registrations[m].name, Registrations[m].kind)
    OBVIOUS
  <2>3. PICK g : g = [i \in 0 .. m |-> IF i = m THEN new ELSE f[i]]
    BY Zenon
  <2>4. /\ g = [i \in 0 .. m |-> g[i]] /\ g[0] = f[0] /\ g[m] = new
        /\ \A i \in 0 .. m - 1 : g[i] = f[i]
    BY <2>3
  <2>5. ASSUME NEW i \in 1 .. m
        PROVE  g[i] = register_parser(g[i - 1], Registrations[i].name, Registrations[i].kind)
    <3>1. i - 1 \in 0 .. m - 1
      BY <1>2
    <3>2. g[i - 1] = f[i - 1]
      BY Zenon, <2>4, <3>1
    <3>3. CASE i = m
      BY <2>2, <2>4, <3>2, <3>3
    <3>4. CASE i # m
      <4>1. i \in 1 .. m - 1 /\ i \in 0 .. m - 1
        BY <3>4
      <4>2. f[i] = register_parser(f[i - 1], Registrations[i].name, Registrations[i].kind)
        BY Zenon, <2>1, <4>1 DEF AfterFirst
      <4> QED
        BY Zenon, <2>4, <3>2, <4>1, <4>2
    <3> QED
      BY <3>3, <3>4
  <2>6. g[0] = << >>
    BY Zenon, <2>1, <2>4 DEF AfterFirst
  <2>7. AfterFirst(m, g)
    BY Zenon, <2>4, <2>5, <2>6 DEF AfterFirst
  <2> QED
    BY <1>2, <2>7
<1> HIDE DEF S
<1>5. 0 .. n \subseteq S
  BY <1>2, <1>3, <1>4, IntervalInduction
<1>6. n \in S
  BY <1>2, <1>5
<1> QED
  BY Zenon, <1>1, <1>6 DEF S

(***************************************************************************)
(* factories_ is the registry after the last registration.                 *)
(***************************************************************************)
LEMMA RegistryIsLast ==
  \E at : AfterFirst(Len(Registrations), at) /\ factories_ = at[Len(Registrations)]
<1>1. PICK n : n = Len(Registrations)
  BY Zenon
<1>2. n \in Nat
  BY <1>1, RegistrationsAssumption
<1> DEFINE Step(f) ==
             [i \in 0 .. n |->
                IF i = 0 THEN << >>
                ELSE register_parser(f[i - 1], Registrations[i].name, Registrations[i].kind)]
<1>3. PICK f : AfterFirst(n, f)
  BY Zenon, <1>1, RegistryExists
<1>4. f = Step(f)
  <2>1. ASSUME NEW i \in 0 .. n PROVE f[i] = Step(f)[i]
    <3>1. CASE i = 0
      BY <1>3, <3>1 DEF AfterFirst
    <3>2. CASE i # 0
      <4>1. i \in 1 .. n
        BY <1>2, <3>2
      <4> QED
        BY Zenon, <1>3, <3>2, <4>1 DEF AfterFirst
    <3> QED
      BY <3>1, <3>2
  <2>2. f = [i \in 0 .. n |-> f[i]]
    BY <1>3 DEF AfterFirst
  <2>3. Step(f) = [i \in 0 .. n |-> Step(f)[i]]
    OBVIOUS
  <2> HIDE DEF Step
  <2> QED
    BY Zenon, <2>1, <2>2, <2>3
<1>5. PICK at : at = CHOOSE g : g = Step(g)
  OBVIOUS
<1>6. factories_ = at[n]
  BY Zenon, <1>1, <1>5 DEF factories_
<1>7. at = Step(at)
  <2> HIDE DEF Step
  <2> QED
    BY <1>4, <1>5
<1>8. AfterFirst(n, at)
  <2>1. at = [i \in 0 .. n |-> at[i]]
    BY <1>7
  <2>2. at[0] = << >>
    BY <1>2, <1>7
  <2>3. ASSUME NEW i \in 1 .. n
        PROVE  at[i] = register_parser(at[i - 1], Registrations[i].name, Registrations[i].kind)
    <3>1. i \in 0 .. n /\ i # 0
      BY <1>2
    <3>2. at[i] = Step(at)[i]
      BY Zenon, <1>7
    <3> QED
      BY Zenon, <3>1, <3>2
  <2> QED
    BY Zenon, <2>1, <2>2, <2>3 DEF AfterFirst
<1> QED
  BY Zenon, <1>1, <1>6, <1>8

(***************************************************************************)
(* What the registry holds after m registrations: the names among them,    *)
(* each with the kind of the first registration that gave it.              *)
(***************************************************************************)
FirstOf(j) == \A k \in 1 .. j - 1 : Registrations[k].name # Registrations[j].name

Holding(m, map) ==
  /\ DOMAIN map = {Registrations[j].name : j \in 1 .. m}
  /\ \A j \in 1 .. m : FirstOf(j) => map[Registrations[j].name] = Registrations[j].kind
  /\ \A n \in DOMAIN map : map[n] \in Kinds \ {NoParser}

(***************************************************************************)
(* One more registration keeps it so.                                      *)
(***************************************************************************)
LEMMA RegisterOne ==
  ASSUME NEW m \in Nat, m > 0, NEW map, Holding(m - 1, map),
         Registrations[m].kind \in Kinds \ {NoParser}
  PROVE  Holding(m, register_parser(map, Registrations[m].name, Registrations[m].kind))
<1>1. PICK name, kind, new : /\ name = Registrations[m].name /\ kind = Registrations[m].kind
                             /\ new = register_parser(map, name, kind)
  OBVIOUS
<1>2. DOMAIN map = {Registrations[j].name : j \in 1 .. m - 1}
  BY Zenon DEF Holding
<1>3. DOMAIN new = DOMAIN map \cup {name}
  BY <1>1 DEF register_parser
<1>4. \A x \in DOMAIN map : new[x] = map[x]
  BY <1>1 DEF register_parser
<1>5. name \notin DOMAIN map => new[name] = kind
  BY <1>1 DEF register_parser
<1>6. 1 .. m = (1 .. m - 1) \cup {m}
  OBVIOUS
<1>7. DOMAIN new = {Registrations[j].name : j \in 1 .. m}
  BY Zenon, <1>1, <1>2, <1>3, <1>6
<1>8. ASSUME NEW j \in 1 .. m, FirstOf(j) PROVE new[Registrations[j].name] = Registrations[j].kind
  <2>1. CASE j \in 1 .. m - 1
    <3>1. Registrations[j].name \in DOMAIN map
      BY Zenon, <1>2, <2>1
    <3>2. map[Registrations[j].name] = Registrations[j].kind
      BY Zenon, <1>8, <2>1 DEF Holding
    <3> QED
      BY Zenon, <1>4, <3>1, <3>2
  <2>2. CASE j = m
    <3>1. name \notin DOMAIN map
      BY Zenon, <1>1, <1>2, <1>8, <2>2 DEF FirstOf
    <3> QED
      BY Zenon, <1>1, <1>5, <2>2, <3>1
  <2> QED
    BY Zenon, <1>6, <2>1, <2>2
<1>9. ASSUME NEW x \in DOMAIN new PROVE new[x] \in Kinds \ {NoParser}
  <2>1. \A y \in DOMAIN map : map[y] \in Kinds \ {NoParser}
    BY Zenon DEF Holding
  <2>2. CASE x \in DOMAIN map
    BY Zenon, <1>4, <2>1, <2>2
  <2>3. CASE x \notin DOMAIN map
    BY Zenon, <1>1, <1>3, <1>5, <2>3
  <2> QED
    BY <2>2, <2>3
<1> QED
  BY Zenon, <1>1, <1>7, <1>8, <1>9 DEF Holding

(***************************************************************************)
(* The registry as a whole.  A name that was registered makes the parser   *)
(* of its first registration, whichever registrations the linker put after *)
(* it (emplace), and a name that was not registered makes none.            *)
(***************************************************************************)
THEOREM FirstRegistrationWins ==
  /\ \A j \in 1 .. Len(Registrations) :
       /\ has_parser(Registrations[j].name)
       /\ (\A k \in 1 .. j - 1 : Registrations[k].name # Registrations[j].name) =>
            create_parser(Registrations[j].name) = Registrations[j].kind
  /\ \A name :
       /\ create_parser(name) \in Kinds
       /\ create_parser(name) = NoParser <=>
            \A j \in 1 .. Len(Registrations) : Registrations[j].name # name
<1>1. PICK n : n = Len(Registrations)
  BY Zenon
<1>2. /\ n \in Nat
      /\ \A i \in 1 .. n : Registrations[i].kind \in Kinds \ {NoParser}
  <2>1. PICK R : R = [name : STRING, kind : Kinds \ {NoParser}]
    BY Zenon
  <2>2. Registrations \in Seq(R)
    BY Zenon, <2>1, RegistrationsAssumption
  <2>3. n \in Nat /\ \A i \in 1 .. n : Registrations[i] \in R
    BY <1>1, <2>2
  <2>4. \A r \in R : r.kind \in Kinds \ {NoParser}
    BY <2>1
  <2> QED
    BY Zenon, <2>3, <2>4
<1>3. PICK at : AfterFirst(n, at) /\ factories_ = at[n]
  BY Zenon, <1>1, RegistryIsLast
<1> DEFINE S == {m \in 0 .. n : Holding(m, at[m])}
<1>4. 0 \in S
  <2>1. at[0] = << >> /\ 1 .. 0 = {} /\ DOMAIN << >> = {}
    BY <1>3 DEF AfterFirst
  <2>2. Holding(0, at[0])
    BY Zenon, <2>1 DEF Holding
  <2> QED
    BY <1>2, <2>2
<1>5. ASSUME NEW m \in 1 .. n, m - 1 \in S PROVE m \in S
  <2>1. m \in Nat /\ m > 0 /\ m \in 0 .. n
    BY <1>2
  <2>2. at[m] = register_parser(at[m - 1], Registrations[m].name, Registrations[m].kind)
    BY Zenon, <1>3 DEF AfterFirst
  <2>3. Holding(m - 1, at[m - 1])
    BY <1>5
  <2>4. Holding(m, at[m])
    BY Zenon, <1>2, <2>1, <2>2, <2>3, RegisterOne
  <2> QED
    BY <2>1, <2>4
<1> HIDE DEF S
<1>6. 0 .. n \subseteq S
  BY <1>2, <1>4, <1>5, IntervalInduction
<1>7. n \in S
  BY <1>2, <1>6
<1>8. Holding(n, factories_)
  BY Zenon, <1>3, <1>7 DEF S
<1>9. DOMAIN factories_ = {Registrations[j].name : j \in 1 .. n}
  BY Zenon, <1>8 DEF Holding
<1>10. \A x \in DOMAIN factories_ : factories_[x] \in Kinds /\ factories_[x] # NoParser
  BY Zenon, <1>8 DEF Holding
<1>11. ASSUME NEW j \in 1 .. n
       PROVE  /\ has_parser(Registrations[j].name)
              /\ (\A k \in 1 .. j - 1 : Registrations[k].name # Registrations[j].name) =>
                   create_parser(Registrations[j].name) = Registrations[j].kind
  <2>1. has_parser(Registrations[j].name)
    BY Zenon, <1>9 DEF has_parser
  <2>2. ASSUME \A k \in 1 .. j - 1 : Registrations[k].name # Registrations[j].name
        PROVE  create_parser(Registrations[j].name) = Registrations[j].kind
    <3>1. FirstOf(j)
      BY Zenon, <2>2 DEF FirstOf
    <3>2. factories_[Registrations[j].name] = Registrations[j].kind
      BY Zenon, <1>8, <3>1 DEF Holding
    <3> QED
      BY Zenon, <2>1, <3>2 DEF create_parser
  <2> QED
    BY Zenon, <2>1, <2>2
<1>12. ASSUME NEW name
       PROVE  /\ create_parser(name) \in Kinds
              /\ create_parser(name) = NoParser <=> \A j \in 1 .. n : Registrations[j].name # name
  <2>1. CASE has_parser(name)
    <3>1. name \in DOMAIN factories_ /\ create_parser(name) = factories_[name]
      BY Zenon, <2>1 DEF has_parser, create_parser
    <3> QED
      BY Zenon, <1>9, <1>10, <3>1
  <2>2. CASE ~ has_parser(name)
    <3>1. name \notin DOMAIN factories_ /\ create_parser(name) = NoParser
      BY Zenon, <2>2 DEF has_parser, create_parser
    <3>2. NoParser \in Kinds
      BY Zenon DEF Kinds
    <3> QED
      BY Zenon, <1>9, <3>1, <3>2
  <2> QED
    BY <2>1, <2>2
<1> QED
  BY Zenon, <1>1, <1>11, <1>12

-----------------------------------------------------------------------------
(***************************************************************************)
(* The types of the engine's own variables.                                *)
(***************************************************************************)
ParserRecord == [pc : {"none", "test", "read", "dispatch", "done"},
                 pending : Seq(Messages), q : Nat, count : Nat]

EngineTypes ==
  /\ e_running \in BOOLEAN
  /\ main \in {"idle", "start receiver", "start dispatcher", "start parser", "join parser",
               "stop dispatcher", "join dispatcher", "stop receiver", "join receiver"}
  /\ parser \in [kind : Kinds, state : {"new", "initialized", "reset"}]
  /\ p_thread \in ParserRecord
  /\ Len(p_thread.pending) <= max_messages_per_packet
  /\ e_stats \in [parsed : Nat, errors : Nat]
  /\ arrivals \in Nat /\ starts \in Nat

(***************************************************************************)
(* The types are those of the three components.                            *)
(***************************************************************************)
LEMMA TypesSplit == TypeOK <=> ReceiverTypes /\ DispatcherTypes /\ EngineTypes
  BY DEF TypeOK, EngineTypes, ParserRecord

(***************************************************************************)
(* What the parsers make of a packet: messages numbered from 1, no more    *)
(* than fit into the output array.                                         *)
(***************************************************************************)
LEMMA ParsedFacts ==
  ASSUME NEW packet \in Packets
  PROVE  /\ ParseCountOf(packet) \in 0 .. max_messages_per_packet
         /\ Parsed(packet) \in Seq(Messages) /\ Len(Parsed(packet)) = ParseCountOf(packet)
         /\ \A k \in 1 .. ParseCountOf(packet) : Parsed(packet)[k] = [num |-> packet.num, idx |-> k]
<1> DEFINE c == ParseCountOf(packet)
<1>1. max_messages_per_packet \in Nat /\ packet.num \in Nat /\ packet.holds \in Nat
  BY EngineAssumption DEF Packets
<1>2. c \in 0 .. max_messages_per_packet
  BY <1>1 DEF ParseCountOf, EchoParse, NullParse, ItchParse
<1>3. c \in Nat
  BY <1>1, <1>2
<1> HIDE DEF c
<1>4. \A k \in 1 .. c : [num |-> packet.num, idx |-> k] \in Messages
  BY <1>1, <1>3 DEF Messages
<1>5. Parsed(packet) = [k \in 1 .. c |-> [num |-> packet.num, idx |-> k]]
  BY DEF Parsed, c
<1>6. Parsed(packet) \in Seq(Messages) /\ Len(Parsed(packet)) = c
  BY <1>3, <1>4, <1>5
<1> QED BY <1>2, <1>5, <1>6 DEF c

(***************************************************************************)
(* Every step keeps the receiver's types.                                  *)
(***************************************************************************)
LEMMA ReceiverTypesStep ==
  ASSUME ReceiverTypes, arrivals \in Nat, [Next]_vars
  PROVE  ReceiverTypes'
<1>1. CASE Network
  <2>1. PICK d : DatagramArrives(d) /\ d \in Packets
    <3>1. \A k \in Holds : [num |-> arrivals + 1, holds |-> k] \in Packets
      BY EngineAssumption DEF Packets
    <3>2. NoPacket \in Packets
      BY DEF NoPacket, Packets
    <3> QED BY Zenon, <1>1, <3>1, <3>2 DEF Network
  <2>2. inbox' \in Seq(Packets) /\ Len(inbox') <= SocketBuffer
    <3>1. inbox \in Seq(Packets) /\ Len(inbox) <= SocketBuffer /\ SocketBuffer \in Nat /\ Len(inbox) \in Nat
      BY RingAssumption DEF ReceiverTypes
    <3>2. Append(inbox, d) \in Seq(Packets) /\ Len(Append(inbox, d)) = Len(inbox) + 1
      BY <2>1, <3>1, AppendFacts
    <3> QED BY <2>1, <3>1, <3>2 DEF DatagramArrives
  <2> QED BY <2>1, <2>2 DEF DatagramArrives, ReceiverTypes
<1>2. ASSUME ~Network
      PROVE  \/ UNCHANGED rVars \/ \E ok \in BOOLEAN : ReceiverInitialize(ok) \/ ReceiverStart
             \/ ReceiverStopFlag \/ ReceiverStopJoin \/ ReceiverThread \/ ReceiveFails \/ ReadPacket
  <2>1. CASE Application
    BY Zenon, <2>1 DEF Application, set_parser, add_subscriber, initialize, StartFlag, StopFlag
  <2>2. CASE MainStep
    BY Zenon, <2>2 DEF MainStep, StartReceiver, StartDispatcher, StartParser, StopJoinParser,
                StopDispatcher, JoinDispatcher, StopReceiver, JoinReceiver
  <2>3. CASE ParserThread
    BY <2>3 DEF ParserThread, ParseTest, ParseNothing, ParsePacket, ParsePush, ParseDispatched, ParseCount
  <2>4. CASE Receiving \/ Failing \/ Dispatching \/ UNCHANGED vars
    BY <2>4 DEF Receiving, Failing, Dispatching, vars
  <2> QED BY <1>2, <2>1, <2>2, <2>3, <2>4 DEF Next
<1> QED BY <1>1, <1>2, ReceiverTyped

(***************************************************************************)
(* Every step keeps the dispatcher's types.                                *)
(***************************************************************************)
LEMMA DispatcherTypesStep ==
  ASSUME DispatcherTypes, EngineTypes, SubscribersAt, [Next]_vars
  PROVE  DispatcherTypes'
<1>1. CASE ParsePush
  <2>1. p_thread.pending \in Seq(Messages) /\ p_thread.pending # << >>
    BY Zenon, <1>1 DEF ParsePush, EngineTypes, ParserRecord
  <2>2. Head(p_thread.pending) \in Messages
    BY <2>1, TailFacts
  <2> QED BY <1>1, <2>2, PushTyped DEF ParsePush
<1>2. ASSUME ~ParsePush
      PROVE  \/ UNCHANGED dVars \/ AddSubscriber \/ DispatchCount
             \/ DispatcherStart \/ DispatcherStopFlag \/ DispatcherStopJoin \/ DispatcherThread
  <2>1. CASE Application
    BY Zenon, <2>1 DEF Application, set_parser, add_subscriber, initialize, StartFlag, StopFlag
  <2>2. CASE MainStep
    BY Zenon, <2>2 DEF MainStep, StartReceiver, StartDispatcher, StartParser, StopJoinParser,
                StopDispatcher, JoinDispatcher, StopReceiver, JoinReceiver
  <2>3. CASE ParserThread
    BY <1>2, <2>3 DEF ParserThread, ParseTest, ParseNothing, ParsePacket, ParseDispatched, ParseCount
  <2>4. CASE Receiving \/ Failing \/ Dispatching \/ Network \/ UNCHANGED vars
    BY <2>4 DEF Receiving, Failing, Dispatching, Network, vars
  <2> QED BY <2>1, <2>2, <2>3, <2>4 DEF Next
<1> QED BY <1>1, <1>2, DispatcherTyped DEF SubscribersAt

(***************************************************************************)
(* Every step keeps the types of the engine's own variables.               *)
(***************************************************************************)
LEMMA EngineTypesStep ==
  ASSUME TypeOK, [Next]_vars
  PROVE  EngineTypes'
<1> DEFINE Pcs == {"none", "test", "read", "dispatch", "done"}
           Parsers == [kind : Kinds, state : {"new", "initialized", "reset"}]
<1>1. EngineTypes /\ ReceiverTypes
  BY TypesSplit
<1>2. /\ p_thread \in ParserRecord /\ Len(p_thread.pending) <= max_messages_per_packet
      /\ parser \in Parsers
  BY Zenon, <1>1 DEF EngineTypes
<1>3. ASSUME UNCHANGED <<parser, p_thread, e_stats, arrivals>>,
             main' \in {"idle", "start receiver", "start dispatcher", "start parser", "join parser",
                        "stop dispatcher", "join dispatcher", "stop receiver", "join receiver"},
             e_running' \in BOOLEAN, starts' \in Nat
      PROVE  EngineTypes'
  BY Zenon, <1>1, <1>3 DEF EngineTypes
<1>4. ASSUME p_thread' \in ParserRecord, Len(p_thread'.pending) <= max_messages_per_packet,
             e_stats' \in [parsed : Nat, errors : Nat],
             UNCHANGED <<e_running, parser, arrivals, starts>>,
             main' = main \/ main' \in {"idle", "stop dispatcher"}
      PROVE  EngineTypes'
  BY Zenon, <1>1, <1>4 DEF EngineTypes
<1>5. ASSUME parser' \in Parsers, UNCHANGED <<e_running, p_thread, e_stats, arrivals, starts>>,
             main' = main \/ main' = "idle"
      PROVE  EngineTypes'
  BY Zenon, <1>1, <1>5 DEF EngineTypes
<1>6. /\ e_running \in BOOLEAN /\ starts \in Nat /\ arrivals \in Nat
      /\ e_stats \in [parsed : Nat, errors : Nat]
      /\ main \in {"idle", "start receiver", "start dispatcher", "start parser", "join parser",
                   "stop dispatcher", "join dispatcher", "stop receiver", "join receiver"}
  BY Zenon, <1>1 DEF EngineTypes
<1>14. starts + 1 \in Nat
  <2>1. starts \in Nat
    BY Zenon, <1>6
  <2> QED BY <2>1
<1>7. \A pc \in Pcs : /\ [p_thread EXCEPT !.pc = pc] \in ParserRecord
                      /\ [p_thread EXCEPT !.pc = pc].pending = p_thread.pending
  BY <1>2 DEF ParserRecord
<1>8. \A st \in {"new", "initialized", "reset"} : [parser EXCEPT !.state = st] \in Parsers
  BY <1>2
<1>9. CASE Application
  <2>1. ASSUME NEW name \in Names, set_parser(create_parser(name)) PROVE EngineTypes'
    <3>1. create_parser(name) \in Kinds
      BY Zenon, FirstRegistrationWins
    <3>2. parser' \in Parsers
      BY <2>1, <3>1 DEF set_parser
    <3> QED BY <1>5, <2>1, <3>2 DEF set_parser
  <2>2. CASE add_subscriber
    BY <1>3, <1>6, <2>2 DEF add_subscriber, eVars
  <2>3. ASSUME NEW ok \in BOOLEAN, initialize(ok) PROVE EngineTypes'
    <3>1. parser' \in Parsers
      BY <1>2, <1>8, <2>3 DEF initialize
    <3> QED BY <1>5, <2>3, <3>1 DEF initialize
  <2>4. CASE StartFlag
    <3>1. starts' \in Nat /\ main' = "start receiver"
      BY Zenon, <1>14, <2>4 DEF StartFlag
    <3> QED BY Zenon, <1>3, <2>4, <3>1 DEF StartFlag
  <2>5. CASE StopFlag
    BY Zenon, <1>3, <1>6, <2>5 DEF StopFlag
  <2> QED BY <1>9, <2>1, <2>2, <2>3, <2>4, <2>5 DEF Application
<1>10. CASE MainStep
  <2>1. CASE StartReceiver
    BY Zenon, <1>3, <1>6, <2>1 DEF StartReceiver
  <2>2. CASE StartDispatcher
    BY Zenon, <1>3, <1>6, <2>2 DEF StartDispatcher
  <2>3. CASE StartParser
    <3>1. p_thread' \in ParserRecord /\ p_thread'.pending = p_thread.pending
      BY Zenon, <1>7, <2>3 DEF StartParser
    <3> QED BY Zenon, <1>2, <1>4, <1>6, <2>3, <3>1 DEF StartParser
  <2>4. CASE StopJoinParser
    <3>1. p_thread' \in ParserRecord /\ p_thread'.pending = p_thread.pending
      BY Zenon, <1>7, <2>4 DEF StopJoinParser
    <3> QED BY Zenon, <1>2, <1>4, <1>6, <2>4, <3>1 DEF StopJoinParser
  <2>5. CASE StopDispatcher
    BY Zenon, <1>3, <1>6, <2>5 DEF StopDispatcher
  <2>6. CASE JoinDispatcher
    BY Zenon, <1>3, <1>6, <2>6 DEF JoinDispatcher
  <2>7. ResetParser => parser' \in Parsers
    BY <1>2, <1>8 DEF ResetParser
  <2>8. CASE StopReceiver
    <3>1. CASE r_running
      BY Zenon, <1>3, <1>6, <2>8, <3>1 DEF StopReceiver
    <3>2. CASE ~r_running
      BY Zenon, <1>5, <2>7, <2>8, <3>2 DEF StopReceiver
    <3> QED BY <3>1, <3>2
  <2>9. CASE JoinReceiver
    BY Zenon, <1>5, <2>7, <2>9 DEF JoinReceiver
  <2> QED BY <1>10, <2>1, <2>2, <2>3, <2>4, <2>5, <2>6, <2>8, <2>9 DEF MainStep
<1>11. CASE ParserThread
  <2>1. p_thread.pending \in Seq(Messages) /\ p_thread.q \in Nat /\ p_thread.count \in Nat
    BY <1>2 DEF ParserRecord
  <2>2. CASE ParseTest
    <3>1. p_thread' \in ParserRecord /\ p_thread'.pending = p_thread.pending
      BY <1>7, <2>2 DEF ParseTest
    <3> QED BY Zenon, <1>2, <1>4, <1>6, <2>2, <3>1 DEF ParseTest
  <2>3. CASE ParseNothing
    <3>1. p_thread' \in ParserRecord /\ p_thread'.pending = p_thread.pending
      BY <1>7, <2>3 DEF ParseNothing
    <3> QED BY Zenon, <1>2, <1>4, <1>6, <2>3, <3>1 DEF ParseNothing
  <2>4. CASE ParsePacket
    <3>1. packet_queue \in Seq(Packets) /\ packet_queue # << >>
      BY <1>1, <2>4 DEF ReceiverTypes, ParsePacket, ReadPacket
    <3> DEFINE packet == Head(packet_queue)
    <3>2. packet \in Packets
      BY <3>1, TailFacts
    <3> HIDE DEF packet
    <3>3. /\ p_thread' = [pc |-> "dispatch", pending |-> Parsed(packet), q |-> 1,
                          count |-> Len(Parsed(packet))]
          /\ UNCHANGED <<main, e_running, parser, e_stats, starts, arrivals>>
      BY <2>4 DEF ParsePacket, packet
    <3>4. /\ Parsed(packet) \in Seq(Messages) /\ Len(Parsed(packet)) \in Nat
          /\ Len(Parsed(packet)) <= max_messages_per_packet
      BY <3>2, ParsedFacts, EngineAssumption
    <3>5. p_thread' \in ParserRecord /\ p_thread'.pending = Parsed(packet)
      BY <3>3, <3>4 DEF ParserRecord
    <3> QED BY Zenon, <1>4, <1>6, <3>3, <3>4, <3>5
  <2>5. CASE ParsePush
    <3>1. p_thread' = [p_thread EXCEPT !.q = p_thread.q + 1] /\ p_thread.q + 1 \in Nat
      BY <2>1, <2>5 DEF ParsePush
    <3>2. p_thread' \in ParserRecord /\ p_thread'.pending = p_thread.pending
      BY <1>2, <3>1 DEF ParserRecord
    <3> QED BY Zenon, <1>2, <1>4, <1>6, <2>5, <3>2 DEF ParsePush
  <2>6. CASE ParseDispatched
    <3>1. Tail(p_thread.pending) \in Seq(Messages) /\ Len(p_thread.pending) \in Nat
          /\ Len(Tail(p_thread.pending)) = Len(p_thread.pending) - 1
      BY <2>1, <2>6, TailFacts DEF ParseDispatched
    <3>2. p_thread' = [p_thread EXCEPT !.q = 1, !.pending = Tail(p_thread.pending)]
      BY <2>6 DEF ParseDispatched
    <3>3. p_thread' \in ParserRecord /\ p_thread'.pending = Tail(p_thread.pending)
      BY Zenon, <1>2, <3>1, <3>2 DEF ParserRecord
    <3>4. Len(p_thread'.pending) <= max_messages_per_packet
      BY <1>2, <3>1, <3>3, EngineAssumption
    <3> QED BY Zenon, <1>4, <1>6, <2>6, <3>3, <3>4 DEF ParseDispatched
  <2>7. CASE ParseCount
    <3>1. p_thread' \in ParserRecord /\ p_thread'.pending = p_thread.pending
      BY Zenon, <1>2, <2>7 DEF ParseCount, ParserRecord
    <3>2. e_stats' \in [parsed : Nat, errors : Nat]
      BY Zenon, <1>6, <2>1, <2>7, CounterType DEF ParseCount
    <3> QED BY <1>2, <1>4, <2>7, <3>1, <3>2 DEF ParseCount
  <2> QED BY <1>11, <2>2, <2>3, <2>4, <2>5, <2>6, <2>7 DEF ParserThread
<1>12. CASE Network
  <2>1. arrivals' \in Nat /\ UNCHANGED eVars
    BY Zenon, <1>6, <1>12, CounterType DEF Network
  <2> QED BY Zenon, <1>1, <2>1 DEF EngineTypes, eVars
<1>13. CASE Receiving \/ Failing \/ Dispatching \/ UNCHANGED vars
  <2>1. UNCHANGED <<eVars, arrivals>>
    BY <1>13 DEF Receiving, Failing, Dispatching, vars
  <2> QED BY Zenon, <1>1, <2>1 DEF EngineTypes, eVars
<1> QED BY <1>9, <1>10, <1>11, <1>12, <1>13 DEF Next

(***************************************************************************)
(* dispatch_loop leaves no message in its hand but the one it delivers.    *)
(***************************************************************************)
LEMMA DispatcherAtRest ==
  ASSUME TypeOK, Control, d_thread.pc # "deliver" => d_thread.msg = NoMessage, [Next]_vars
  PROVE  d_thread'.pc # "deliver" => d_thread'.msg = NoMessage
<1>1. d_thread \in [pc : {"none", "test", "pop", "deliver", "done"}, i : Nat, msg : Messages]
  BY TypesSplit DEF DispatcherTypes
<1>2. CASE DispatcherThread
  BY Zenon, <1>1, <1>2 DEF DispatcherThread, LoopTest, LoopPop, LoopNextSubscriber, LoopAgain, Deliver
<1>3. CASE StartDispatcher
  <2>1. ~d_running => d_thread.pc = "none"
    BY Zenon, <1>3 DEF StartDispatcher, Control, DispatcherAt
  <2>2. d_thread' = d_thread \/ (~d_running /\ d_thread' = [d_thread EXCEPT !.pc = "test", !.i = 1])
    BY Zenon, <1>3 DEF StartDispatcher, DispatcherStart, dVars
  <2> QED BY Zenon, <1>1, <2>1, <2>2
<1>4. CASE DispatcherStopJoin
  BY <1>1, <1>4 DEF DispatcherStopJoin
<1>5. CASE UNCHANGED d_thread
  BY <1>5
<1>6. DispatcherThread \/ StartDispatcher \/ DispatcherStopJoin \/ UNCHANGED d_thread
  <2> USE DEF dVars
  <2>1. CASE Application
    BY Zenon, <2>1 DEF Application, set_parser, add_subscriber, AddSubscriber, initialize, StartFlag, StopFlag
  <2>2. CASE MainStep
    BY Zenon, <2>2 DEF MainStep, StartReceiver, StartParser, StopJoinParser,
                StopDispatcher, DispatcherStopFlag, JoinDispatcher, StopReceiver, JoinReceiver
  <2>3. CASE ParserThread
    BY <2>3 DEF ParserThread, ParseTest, ParseNothing, ParsePacket, ParsePush, DispatchPush,
                ParseDispatched, DispatchCount, ParseCount
  <2>4. CASE Receiving \/ Failing \/ Dispatching \/ Network \/ UNCHANGED vars
    BY <2>4 DEF Receiving, Failing, Dispatching, Network, vars
  <2> QED BY <2>1, <2>2, <2>3, <2>4 DEF Next
<1> QED BY <1>2, <1>3, <1>4, <1>5, <1>6

(***************************************************************************)
(* No step but add_subscriber changes how many subscribers there are.      *)
(***************************************************************************)
LEMMA SubscribersKept ==
  ASSUME TypeOK, [Next]_vars, ~add_subscriber
  PROVE  Len(subscribers') = Len(subscribers) /\ Subs' = Subs
<1>1. subscribers \in Seq({"new", "initialized", "shutdown"})
  BY TypesSplit DEF DispatcherTypes
<1>2. \A v : /\ Len([t \in Subs |-> v]) = Len(subscribers)
             /\ DOMAIN [t \in Subs |-> v] = DOMAIN subscribers
  BY <1>1 DEF Subs
<1>3. CASE DispatcherStart
  BY <1>2, <1>3 DEF DispatcherStart, dVars, Subs
<1>4. CASE DispatcherStopJoin
  BY <1>2, <1>4 DEF DispatcherStopJoin, Subs
<1>5. CASE UNCHANGED subscribers
  BY <1>5 DEF Subs
<1>6. DispatcherStart \/ DispatcherStopJoin \/ UNCHANGED subscribers
  <2> USE DEF dVars
  <2>1. CASE Application
    BY Zenon, <2>1 DEF Application, set_parser, initialize, StartFlag, StopFlag
  <2>2. CASE MainStep
    BY Zenon, <2>2 DEF MainStep, StartReceiver, StartDispatcher, StartParser, StopJoinParser,
                StopDispatcher, DispatcherStopFlag, JoinDispatcher, StopReceiver, JoinReceiver
  <2>3. CASE ParserThread
    BY <2>3 DEF ParserThread, ParseTest, ParseNothing, ParsePacket, ParsePush, DispatchPush,
                ParseDispatched, DispatchCount, ParseCount
  <2>4. CASE Receiving \/ Failing \/ Dispatching \/ Network \/ UNCHANGED vars
    BY <2>4 DEF Receiving, Failing, Dispatching, DispatcherThread, LoopTest, LoopPop,
                LoopNextSubscriber, LoopAgain, Deliver, Network, vars
  <2> QED BY <2>1, <2>2, <2>3, <2>4 DEF Next
<1> QED BY <1>3, <1>4, <1>5, <1>6

(***************************************************************************)
(* The parser thread takes a packet only with nothing left of the last.    *)
(***************************************************************************)
LEMMA RestStep ==
  ASSUME TypeOK, Control, Rest, [Next]_vars
  PROVE  Rest'
<1> DEFINE P == p_thread
           L == Len(subscribers)
<1>1. /\ P \in ParserRecord /\ P.pending \in Seq(Messages) /\ P.q \in Nat /\ P.count \in Nat
      /\ L \in Nat
  <2>1. P \in ParserRecord
    BY Zenon, TypesSplit DEF EngineTypes
  <2>2. L \in Nat
    BY TypesSplit, EntryTypes
  <2> QED BY <2>1, <2>2 DEF ParserRecord
<1>2. d_thread'.pc # "deliver" => d_thread'.msg = NoMessage
  BY DispatcherAtRest DEF Rest
<1> HIDE DEF L
<1>3. ASSUME Len(subscribers') = L, p_thread' \in ParserRecord, p_thread'.q \in 1 .. L + 1,
             p_thread'.pending = << >> => p_thread'.q = 1,
             p_thread'.pc # "dispatch" => p_thread'.pending = << >> /\ p_thread'.count = 0,
             Len(p_thread'.pending) <= p_thread'.count
      PROVE  Rest'
  BY <1>2, <1>3 DEF Rest
<1>4. CASE add_subscriber
  <2>1. Len(subscribers') = L + 1 /\ UNCHANGED p_thread
    <3>1. subscribers \in Seq({"new", "initialized", "shutdown"})
      BY TypesSplit DEF DispatcherTypes
    <3>2. subscribers' = Append(subscribers, "new")
      BY <1>4 DEF add_subscriber, AddSubscriber
    <3> QED BY <1>4, <3>1, <3>2, AppendFacts DEF add_subscriber, eVars, L
  <2>2. p_thread.q \in 1 .. (L + 1) + 1
    BY <1>1 DEF Rest, L
  <2> QED BY Zenon, <1>2, <2>1, <2>2 DEF Rest
<1>5. CASE ~add_subscriber
  <2>1. Len(subscribers') = L
    BY <1>5, SubscribersKept DEF L
  <2>2. CASE UNCHANGED p_thread
    BY <1>1, <1>3, <2>1, <2>2 DEF Rest, L
  <2>3. ASSUME NEW pc \in {"none", "test", "read", "done"}, p_thread' = [p_thread EXCEPT !.pc = pc],
               p_thread.pc # "dispatch"
        PROVE  Rest'
    <3>1. /\ p_thread' \in ParserRecord /\ p_thread'.pending = P.pending /\ p_thread'.q = P.q
          /\ p_thread'.count = P.count
      BY <1>1, <2>3 DEF ParserRecord
    <3> QED BY <1>3, <2>1, <2>3, <3>1 DEF Rest, L
  <2>4. CASE ParsePacket
    <3> DEFINE packet == Head(packet_queue)
    <3>1. packet \in Packets
      <4>1. packet_queue \in Seq(Packets) /\ packet_queue # << >>
        BY Zenon, <2>4, TypesSplit DEF ReceiverTypes, ParsePacket, ReadPacket
      <4> QED BY <4>1, TailFacts
    <3> HIDE DEF packet
    <3>2. p_thread' = [pc |-> "dispatch", pending |-> Parsed(packet), q |-> 1,
                       count |-> Len(Parsed(packet))]
      BY <2>4 DEF ParsePacket, packet
    <3>3. Parsed(packet) \in Seq(Messages) /\ Len(Parsed(packet)) \in Nat
      <4>1. Parsed(packet) \in Seq(Messages)
        BY Zenon, <3>1, ParsedFacts
      <4> QED BY ONLY <4>1
    <3>4. p_thread' \in ParserRecord
      BY Zenon, <3>2, <3>3 DEF ParserRecord
    <3> QED BY <1>1, <1>3, <2>1, <3>2, <3>3, <3>4
  <2>5. CASE ParsePush
    <3>1. p_thread.q \in 1 .. L /\ p_thread.pending # << >> /\ p_thread.pc = "dispatch"
      BY <2>5, TypesSplit, EntryTypes DEF ParsePush, L
    <3>2. p_thread' = [p_thread EXCEPT !.q = P.q + 1] /\ P.q + 1 \in Nat
      BY <1>1, <2>5 DEF ParsePush
    <3>3. /\ p_thread' \in ParserRecord /\ p_thread'.pending = P.pending /\ p_thread'.q = P.q + 1
          /\ p_thread'.count = P.count /\ p_thread'.pc = P.pc
      BY <1>1, <3>2 DEF ParserRecord
    <3> QED BY <1>1, <1>3, <2>1, <3>1, <3>3 DEF Rest
  <2>6. CASE ParseDispatched
    <3>1. Tail(P.pending) \in Seq(Messages) /\ Len(P.pending) \in Nat /\ Len(Tail(P.pending)) = Len(P.pending) - 1
      BY <1>1, <2>6, TailFacts DEF ParseDispatched
    <3>2. p_thread' = [p_thread EXCEPT !.q = 1, !.pending = Tail(P.pending)] /\ P.pc = "dispatch"
      BY <2>6 DEF ParseDispatched
    <3>3. /\ p_thread' \in ParserRecord /\ p_thread'.pending = Tail(P.pending) /\ p_thread'.q = 1
          /\ p_thread'.count = P.count /\ p_thread'.pc = "dispatch"
      BY Zenon, <1>1, <3>1, <3>2 DEF ParserRecord
    <3>4. Len(p_thread'.pending) <= p_thread'.count
      <4>1. Len(P.pending) <= P.count
        BY DEF Rest
      <4> QED BY <1>1, <3>1, <3>3, <4>1
    <3> QED BY <1>1, <1>3, <2>1, <3>3, <3>4
  <2>7. CASE ParseCount
    <3>1. p_thread' = [p_thread EXCEPT !.pc = "test", !.count = 0] /\ P.pending = << >>
      BY <2>7 DEF ParseCount
    <3>2. /\ p_thread' \in ParserRecord /\ p_thread'.pending = << >> /\ p_thread'.q = P.q
          /\ p_thread'.count = 0 /\ p_thread'.pc = "test"
      BY Zenon, <1>1, <3>1 DEF ParserRecord
    <3>3. P.q = 1 /\ Len(p_thread'.pending) <= p_thread'.count
      <4>1. Len(<< >>) = 0
        OBVIOUS
      <4> QED BY <3>1, <3>2, <4>1 DEF Rest
    <3> QED BY <1>1, <1>3, <2>1, <3>2, <3>3
  <2>8. CASE StartParser
    BY Zenon, <2>3, <2>8 DEF StartParser, Control, ParserAt
  <2>9. CASE StopJoinParser
    BY Zenon, <2>3, <2>9 DEF StopJoinParser
  <2>10. CASE ParseTest
    BY <2>3, <2>10 DEF ParseTest
  <2>11. CASE ParseNothing
    BY <2>3, <2>11 DEF ParseNothing
  <2>12. \/ UNCHANGED p_thread \/ ParsePacket \/ ParsePush \/ ParseDispatched \/ ParseCount
         \/ StartParser \/ StopJoinParser \/ ParseTest \/ ParseNothing
    <3> USE DEF eVars
    <3>1. CASE Application
      BY Zenon, <3>1 DEF Application, set_parser, add_subscriber, initialize, StartFlag, StopFlag
    <3>2. CASE MainStep
      BY Zenon, <3>2 DEF MainStep, StartReceiver, StartDispatcher, StopDispatcher, JoinDispatcher,
                  StopReceiver, JoinReceiver
    <3>3. CASE ParserThread
      BY <3>3 DEF ParserThread
    <3>4. CASE Receiving \/ Failing \/ Dispatching \/ Network \/ UNCHANGED vars
      BY Zenon, <3>4 DEF Receiving, Failing, Dispatching, Network, vars
    <3> QED BY <3>1, <3>2, <3>3, <3>4 DEF Next
  <2> QED BY <2>2, <2>4, <2>5, <2>6, <2>7, <2>8, <2>9, <2>10, <2>11, <2>12
<1> QED BY <1>4, <1>5

(***************************************************************************)
(* The engine starts with nothing in hand.                                 *)
(***************************************************************************)
LEMMA TypesInit ==
  ASSUME Init
  PROVE  TypeOK /\ Rest
<1> USE DEF Init, ReceiverInit, DispatcherInit
<1>1. ReceiverTypes
  <2>1. NoPacket \in Packets
    BY Zenon DEF NoPacket, Packets
  <2>2. inbox \in Seq(Packets) /\ Len(inbox) <= SocketBuffer
        /\ packet_queue \in Seq(Packets) /\ Len(packet_queue) <= RingCapacity
    BY SMTT(30), RingAssumption
  <2>3. r_thread \in [pc : {"none", "test", "recv", "push", "count", "done"}, packet : Packets]
    BY Zenon, <2>1
  <2>4. r_stats \in [received : Nat, dropped : Nat] /\ sequence_ \in Nat
    OBVIOUS
  <2> QED BY Zenon, <2>2, <2>3, <2>4 DEF ReceiverTypes
<1>2. DispatcherTypes
  <2>1. NoMessage \in Messages
    BY Zenon DEF NoMessage, Messages
  <2>2. d_thread \in [pc : {"none", "test", "pop", "deliver", "done"}, i : Nat, msg : Messages]
    BY <2>1
  <2>3. d_stats \in [dispatched : Nat, dropped : Nat]
    BY Zenon
  <2>4. /\ subscribers \in Seq({"new", "initialized", "shutdown"}) /\ queues \in Seq(Seq(Messages))
        /\ delivered \in Seq([msg : Messages, n : Nat, since : Nat])
    OBVIOUS
  <2>5. Subs = {} /\ Len(queues) = Len(subscribers) /\ Len(delivered) = Len(subscribers)
    BY DEF Subs
  <2> QED BY Zenon, <2>2, <2>3, <2>4, <2>5 DEF DispatcherTypes
<1>3. EngineTypes
  <2>1. p_thread \in ParserRecord /\ p_thread.pending = << >>
    BY DEF ParserRecord
  <2>2. Len(p_thread.pending) <= max_messages_per_packet
    BY SMTT(30), <2>1, EngineAssumption
  <2>3. parser \in [kind : Kinds, state : {"new", "initialized", "reset"}]
    BY Zenon DEF Kinds
  <2>4. e_stats \in [parsed : Nat, errors : Nat] /\ arrivals \in Nat /\ starts \in Nat
    BY SMTT(30)
  <2> QED BY Zenon, <2>1, <2>2, <2>3, <2>4 DEF EngineTypes
<1>4. Rest
  <2>1. p_thread = [pc |-> "none", pending |-> << >>, q |-> 1, count |-> 0] /\ subscribers = << >>
    BY Zenon
  <2>2. d_thread.msg = NoMessage
    BY Zenon
  <2>3. Len(subscribers) = 0 /\ Len(p_thread.pending) = 0 /\ p_thread.pending = << >>
        /\ p_thread.q = 1 /\ p_thread.count = 0
    BY ONLY Zenon, <2>1
  <2>4. 1 \in 1 .. 0 + 1 /\ 0 <= 0
    OBVIOUS
  <2> QED BY Zenon, <2>2, <2>3, <2>4 DEF Rest
<1> QED BY <1>1, <1>2, <1>3, <1>4, TypesSplit

(***************************************************************************)
(* The types, together with the control state they depend on: no delivery  *)
(* to a subscriber that is not there.                                      *)
(***************************************************************************)
THEOREM TypesHold == Spec => [](TypeOK /\ Control /\ Rest)
<1>1. Init => TypeOK /\ Control /\ Rest
  BY TypesInit, ControlInit
<1>2. ASSUME TypeOK, Control, Rest, [Next]_vars PROVE TypeOK' /\ Control' /\ Rest'
  <2>1. ReceiverTypes /\ DispatcherTypes /\ EngineTypes /\ arrivals \in Nat /\ SubscribersAt
    BY Zenon, <1>2, TypesSplit DEF Control, EngineTypes
  <2>2. ReceiverTypes' /\ DispatcherTypes' /\ EngineTypes'
    BY <1>2, <2>1, ReceiverTypesStep, DispatcherTypesStep, EngineTypesStep
  <2>3. TypeOK'
    BY Zenon, <2>2 DEF TypeOK, EngineTypes, ParserRecord
  <2> QED BY <1>2, <2>3, ControlStep, RestStep
<1>3. (TypeOK /\ Control /\ Rest) /\ [Next]_vars => (TypeOK /\ Control /\ Rest)'
  BY <1>2
<1> QED BY <1>1, <1>3, PTL DEF Spec

(***************************************************************************)
(* The engine's variables keep their types and no queue outgrows its ring, *)
(* whatever the application calls and the network sends.                   *)
(***************************************************************************)
THEOREM EngineTypeOK == Spec => []TypeOK
  BY TypesHold, PTL
-----------------------------------------------------------------------------
(***************************************************************************)
(* Datagrams are numbered 1, 2, ...: the bound on counters is not reached. *)
(***************************************************************************)
Numbered == ~Endless /\ MaxArrivals <= CountTo

(***************************************************************************)
(* The entries of the sequences, and what a message is.                    *)
(***************************************************************************)
Bounds ==
  /\ Subs = 1 .. Len(subscribers) /\ Len(subscribers) \in Nat
  /\ \A s \in Subs : queues[s] \in Seq(Messages) /\ delivered[s].msg \in Messages
  /\ queues \in Seq(Seq(Messages)) /\ Len(queues) = Len(subscribers)
  /\ delivered \in Seq(Delivered) /\ Len(delivered) = Len(subscribers)
  /\ p_thread \in ParserRecord /\ p_thread.pending \in Seq(Messages) /\ p_thread.q \in Nat
  /\ d_thread \in [pc : {"none", "test", "pop", "deliver", "done"}, i : Nat, msg : Messages]
  /\ packet_queue \in Seq(Packets) /\ inbox \in Seq(Packets)
  /\ r_thread \in [pc : {"none", "test", "recv", "push", "count", "done"}, packet : Packets]
  /\ arrivals \in Nat /\ max_messages_per_packet \in Nat

(***************************************************************************)
(* They are part of the types.                                             *)
(***************************************************************************)
LEMMA BoundsHold == TypeOK => Bounds
<1> SUFFICES ASSUME TypeOK PROVE Bounds
  OBVIOUS
<1>1. ReceiverTypes /\ DispatcherTypes /\ EngineTypes
  BY TypesSplit
<1>2. Subs = 1 .. Len(subscribers) /\ Len(subscribers) \in Nat
      /\ \A s \in Subs : queues[s] \in Seq(Messages) /\ delivered[s] \in Delivered
  BY <1>1, EntryTypes
<1>3. \A s \in Subs : queues[s] \in Seq(Messages) /\ delivered[s].msg \in Messages
  BY <1>2 DEF Delivered
<1>4. p_thread \in ParserRecord /\ p_thread.pending \in Seq(Messages) /\ p_thread.q \in Nat
  BY Zenon, <1>1 DEF EngineTypes, ParserRecord
<1>5. arrivals \in Nat
  BY Zenon, <1>1 DEF EngineTypes
<1> QED BY <1>1, <1>2, <1>3, <1>4, <1>5, EngineAssumption
        DEF DispatcherTypes, ReceiverTypes, Delivered, Bounds
-----------------------------------------------------------------------------
(***************************************************************************)
(* The messages on their way to a subscriber, in order.  The first pending *)
(* message is behind a subscriber that dispatch() has already served.      *)
(***************************************************************************)
Sorted(seq) == \A j, k \in 1 .. Len(seq) : j < k => Before(seq[j], seq[k])

First(s) == IF p_thread.q > s THEN 2 ELSE 1

InQueue(s) ==
  /\ Sorted(queues[s])
  /\ \A k \in 1 .. Len(queues[s]) :
       /\ Before(delivered[s].msg, queues[s][k])
       /\ \A l \in First(s) .. Len(p_thread.pending) : Before(queues[s][k], p_thread.pending[l])
  /\ \A l \in First(s) .. Len(p_thread.pending) : Before(delivered[s].msg, p_thread.pending[l])

InDelivery(s) ==
  d_thread.pc = "deliver" /\ d_thread.i = s =>
    /\ Before(delivered[s].msg, d_thread.msg)
    /\ \A k \in 1 .. Len(queues[s]) : Before(d_thread.msg, queues[s][k])
    /\ \A l \in First(s) .. Len(p_thread.pending) : Before(d_thread.msg, p_thread.pending[l])

Lines ==
  /\ Sorted(p_thread.pending)
  /\ \A s \in Subs : InQueue(s) /\ InDelivery(s)

(***************************************************************************)
(* Every message is one that a packet can give.                            *)
(***************************************************************************)
Genuine == [num : Nat \ {0}, idx : 1 .. max_messages_per_packet]

AllGenuine ==
  /\ \A k \in 1 .. Len(p_thread.pending) : p_thread.pending[k] \in Genuine
  /\ \A s \in Subs : \A k \in 1 .. Len(queues[s]) : queues[s][k] \in Genuine
  /\ d_thread.pc = "deliver" => d_thread.msg \in Genuine

(***************************************************************************)
(* The stages of the pipeline hold packets of separate ranges of numbers:  *)
(* parsed up to w, in the ring up to a, in the receiver's hand up to b,    *)
(* and in the socket.                                                      *)
(***************************************************************************)
Ahead(w) ==
  /\ \A k \in 1 .. Len(p_thread.pending) : p_thread.pending[k].num <= w
  /\ \A s \in Subs : /\ delivered[s].msg.num <= w
                     /\ \A k \in 1 .. Len(queues[s]) : queues[s][k].num <= w
  /\ d_thread.msg.num <= w

InRing(w, a) ==
  /\ \A k \in 1 .. Len(packet_queue) : packet_queue[k].num \in w + 1 .. a
  /\ \A j, k \in 1 .. Len(packet_queue) : j < k => packet_queue[j].num < packet_queue[k].num

InSocket(a, b) ==
  /\ r_thread.pc = "push" => r_thread.packet.num \in a + 1 .. b
  /\ \A k \in 1 .. Len(inbox) : inbox[k] # NoPacket => inbox[k].num \in b + 1 .. arrivals
  /\ \A j, k \in 1 .. Len(inbox) :
       j < k /\ inbox[j] # NoPacket /\ inbox[k] # NoPacket => inbox[j].num < inbox[k].num

Flow ==
  \E w, a, b \in 0 .. arrivals :
    w <= a /\ a <= b /\ Ahead(w) /\ InRing(w, a) /\ InSocket(a, b)
-----------------------------------------------------------------------------
(***************************************************************************)
(* A step that moves no message keeps the lines.                           *)
(***************************************************************************)
LEMMA LinesQuiet ==
  ASSUME Lines, AllGenuine, Subs' = Subs, queues' = queues,
         \A s \in Subs : delivered'[s].msg = delivered[s].msg,
         p_thread'.pending = p_thread.pending, p_thread'.q = p_thread.q,
         d_thread'.pc = "deliver" => d_thread.pc = "deliver" /\ d_thread' = d_thread
  PROVE  Lines' /\ AllGenuine'
<1>1. \A s \in Subs : First(s)' = First(s)
  BY DEF First
<1>2. ASSUME NEW s \in Subs PROVE InQueue(s)' /\ InDelivery(s)'
  <2>1. InQueue(s)'
    BY Zenon, <1>1 DEF Lines, InQueue, Sorted
  <2>2. InDelivery(s)'
    BY Zenon, <1>1 DEF Lines, InDelivery
  <2> QED BY Zenon, <2>1, <2>2
<1>3. Sorted(p_thread.pending)'
  BY Zenon DEF Lines, Sorted
<1>4. Lines'
  BY <1>2, <1>3 DEF Lines
<1>5. AllGenuine'
  BY DEF AllGenuine
<1> QED BY <1>4, <1>5

(***************************************************************************)
(* Such a step leaves the messages where they were.                        *)
(***************************************************************************)
LEMMA AheadQuiet ==
  ASSUME NEW w \in Nat, Ahead(w), Subs' = Subs, queues' = queues,
         \A s \in Subs : delivered'[s].msg = delivered[s].msg,
         p_thread'.pending = p_thread.pending, d_thread'.msg = d_thread.msg
  PROVE  Ahead(w)'
  BY DEF Ahead

(***************************************************************************)
(* The dispatcher thread takes the oldest message of a queue.              *)
(***************************************************************************)
LEMMA LoopPopLines ==
  ASSUME TypeOK, Lines, AllGenuine, LoopPop, UNCHANGED p_thread
  PROVE  /\ Lines' /\ AllGenuine'
         /\ \A w \in Nat : Ahead(w) => Ahead(w)'
<1> Bounds
  BY BoundsHold
<1> USE DEF Bounds
<1> DEFINE i == d_thread.i
           P == p_thread.pending
           D(t) == delivered[t].msg
<1>1. /\ i \in Subs /\ queues[i] # << >> /\ UNCHANGED subscribers
      /\ queues' = [queues EXCEPT ![i] = Tail(queues[i])]
      /\ delivered' = [delivered EXCEPT ![i] = [delivered[i] EXCEPT !.n = Bump(@)]]
      /\ d_thread' = [d_thread EXCEPT !.pc = "deliver", !.msg = Head(queues[i])]
  BY DEF LoopPop
<1>2. /\ Tail(queues[i]) \in Seq(Messages) /\ Len(queues[i]) \in Nat
      /\ Len(Tail(queues[i])) = Len(queues[i]) - 1
      /\ Head(queues[i]) = queues[i][1] /\ 1 \in 1 .. Len(queues[i]) /\ Head(queues[i]) \in Messages
      /\ \A k \in 1 .. Len(queues[i]) - 1 :
           Tail(queues[i])[k] = queues[i][k + 1] /\ k + 1 \in 1 .. Len(queues[i])
  BY Zenon, <1>1, TailFacts
<1>3. d_thread'.pc = "deliver" /\ d_thread'.i = i /\ d_thread'.msg = queues[i][1]
  BY <1>1, <1>2
<1>4. /\ queues'[i] = Tail(queues[i])
      /\ \A t \in Subs : t # i => queues'[t] = queues[t]
  BY <1>1
<1>5. \A t \in Subs : delivered'[t].msg = D(t)
  <2> TAKE t \in Subs
  <2>1. delivered[i] \in Delivered /\ i \in DOMAIN delivered /\ t \in DOMAIN delivered
    BY <1>1
  <2> QED BY <1>1, <2>1 DEF Delivered
<1>6. Subs' = Subs /\ UNCHANGED p_thread /\ \A t : First(t)' = First(t)
  BY <1>1 DEF Subs, First
<1> HIDE DEF i, P, D
<1>7. ASSUME NEW t \in Subs PROVE InQueue(t)' /\ InDelivery(t)'
  <2>1. InQueue(t) /\ InDelivery(t)
    BY DEF Lines
  <2>2. CASE t # i
    <3>1. InQueue(t)'
      BY Zenon, <1>4, <1>5, <1>6, <2>1, <2>2 DEF InQueue, Sorted, D
    <3>2. InDelivery(t)'
      BY Zenon, <1>3, <2>2 DEF InDelivery
    <3> QED BY <3>1, <3>2
  <2>3. CASE t = i
    <3> DEFINE Q == queues[i]
    <3>1. \A j, k \in 1 .. Len(Q) : j < k => Before(Q[j], Q[k])
      BY Zenon, <2>1, <2>3 DEF InQueue, Sorted
    <3>2. \A k \in 1 .. Len(Q) : /\ Before(D(i), Q[k])
                                 /\ \A l \in First(i) .. Len(P) : Before(Q[k], P[l])
      BY Zenon, <2>1, <2>3 DEF InQueue, D, P
    <3>3. \A l \in First(i) .. Len(P) : Before(D(i), P[l])
      BY Zenon, <2>1, <2>3 DEF InQueue, D, P
    <3> DEFINE R == Tail(Q)
    <3>4. Len(R) = Len(Q) - 1 /\ Len(Q) \in Nat
          /\ \A k \in 1 .. Len(R) : R[k] = Q[k + 1] /\ k + 1 \in 1 .. Len(Q)
      BY <1>2
    <3> HIDE DEF Q, R
    <3>5. \A j, k \in 1 .. Len(R) : j < k => Before(R[j], R[k])
      <4> TAKE j, k \in 1 .. Len(R)
      <4>1. j < k => j + 1 < k + 1
        BY <3>4
      <4> QED BY Zenon, <3>1, <3>4, <4>1
    <3>6. \A k \in 1 .. Len(R) : /\ Before(D(i), R[k])
                                 /\ \A l \in First(i) .. Len(P) : Before(R[k], P[l])
      BY Zenon, <3>2, <3>4
    <3>7. \A k \in 1 .. Len(R) : Before(Q[1], R[k])
      <4> TAKE k \in 1 .. Len(R)
      <4>1. 1 < k + 1 /\ 1 \in 1 .. Len(Q)
        BY <3>4
      <4> QED BY Zenon, <3>1, <3>4, <4>1
    <3>8. Before(D(i), Q[1]) /\ \A l \in First(i) .. Len(P) : Before(Q[1], P[l])
      BY Zenon, <1>2, <3>2 DEF Q
    <3>9. queues'[i] = R /\ d_thread'.msg = Q[1]
      BY <1>3, <1>4 DEF Q, R
    <3>10. InQueue(t)'
      BY ZenonT(40), <1>5, <1>6, <2>3, <3>3, <3>5, <3>6, <3>9 DEF InQueue, Sorted, P
    <3>11. InDelivery(t)'
      BY <1>5, <1>6, <2>3, <3>7, <3>8, <3>9 DEF InDelivery, P
    <3> QED BY <3>10, <3>11
  <2> QED BY <2>2, <2>3
<1>8. Sorted(p_thread.pending)'
  BY DEF Lines, Sorted
<1>9. AllGenuine'
  <2>1. \A t \in Subs : \A k \in 1 .. Len(queues'[t]) : queues'[t][k] \in Genuine
    <3> TAKE t \in Subs
    <3>1. CASE t # i
      BY Zenon, <1>4, <3>1 DEF AllGenuine
    <3>2. CASE t = i
      BY <1>1, <1>2, <1>4, <3>2 DEF AllGenuine
    <3> QED BY Zenon, <3>1, <3>2
  <2>2. d_thread'.msg \in Genuine
    BY Zenon, <1>1, <1>2, <1>3 DEF AllGenuine
  <2> QED BY Zenon, <1>6, <2>1, <2>2 DEF AllGenuine
<1>10. ASSUME NEW w \in Nat, Ahead(w) PROVE Ahead(w)'
  <2>1. ASSUME NEW t \in Subs, NEW k \in 1 .. Len(queues'[t]) PROVE queues'[t][k].num <= w
    <3>1. CASE t # i
      BY Zenon, <1>4, <1>10, <3>1 DEF Ahead
    <3>2. CASE t = i
      <4>1. k \in 1 .. Len(queues[i]) - 1
        BY Zenon, <1>2, <1>4, <2>1, <3>2
      <4>2. queues'[t][k] = queues[i][k + 1] /\ k + 1 \in 1 .. Len(queues[i])
        BY Zenon, <1>2, <1>4, <3>2, <4>1
      <4> QED BY Zenon, <1>1, <1>10, <4>2 DEF Ahead
    <3> QED BY <3>1, <3>2
  <2>2. d_thread'.msg.num <= w
    BY Zenon, <1>1, <1>2, <1>3, <1>10 DEF Ahead
  <2> QED BY Zenon, <1>5, <1>6, <1>10, <2>1, <2>2 DEF Ahead, D
<1> QED BY <1>6, <1>7, <1>8, <1>9, <1>10 DEF Lines

(***************************************************************************)
(* on_message returns: the message in hand is now the last one delivered.  *)
(***************************************************************************)
LEMMA DeliverLines ==
  ASSUME TypeOK, Control, Lines, AllGenuine, Deliver, UNCHANGED p_thread
  PROVE  /\ Lines' /\ AllGenuine'
         /\ \A w \in Nat : Ahead(w) => Ahead(w)'
<1> Bounds
  BY BoundsHold
<1> USE DEF Bounds
<1> DEFINE i == d_thread.i
           m == d_thread.msg
<1>1. /\ d_thread.pc = "deliver" /\ i \in Subs /\ UNCHANGED <<subscribers, queues>>
      /\ delivered' = [delivered EXCEPT ![i] = [delivered[i] EXCEPT !.msg = m]]
      /\ d_thread' = [d_thread EXCEPT !.pc = "pop", !.msg = NoMessage]
  BY DEF Deliver, Control, SubscribersAt
<1>2. d_thread'.pc = "pop" /\ d_thread'.msg = NoMessage
  BY <1>1
<1>3. delivered'[i].msg = m /\ \A t \in Subs : t # i => delivered'[t] = delivered[t]
  <2>1. delivered[i] \in Delivered /\ DOMAIN delivered = Subs
    BY <1>1
  <2> QED BY <1>1, <2>1 DEF Delivered
<1>4. Subs' = Subs /\ UNCHANGED <<p_thread, queues>> /\ \A t : First(t)' = First(t)
  BY <1>1 DEF Subs, First
<1> HIDE DEF i, m
<1>5. ASSUME NEW t \in Subs PROVE InQueue(t)' /\ InDelivery(t)'
  <2>1. InQueue(t) /\ InDelivery(t)
    BY DEF Lines
  <2>2. InDelivery(t)'
    BY Zenon, <1>2 DEF InDelivery
  <2>3. CASE t # i
    BY Zenon, <1>3, <1>4, <2>1, <2>2, <2>3 DEF InQueue, Sorted
  <2>4. CASE t = i
    <3>1. /\ \A k \in 1 .. Len(queues[t]) : Before(m, queues[t][k])
          /\ \A l \in First(t) .. Len(p_thread.pending) : Before(m, p_thread.pending[l])
      BY Zenon, <1>1, <2>1, <2>4 DEF InDelivery, i, m
    <3>2. delivered'[t].msg = m
      BY <1>3, <2>4
    <3> QED BY Zenon, <1>4, <2>1, <2>2, <3>1, <3>2 DEF InQueue, Sorted
  <2> QED BY <2>3, <2>4
<1>6. Sorted(p_thread.pending)'
  BY Zenon DEF Lines, Sorted
<1>7. AllGenuine'
  BY Zenon, <1>2, <1>4 DEF AllGenuine
<1>8. ASSUME NEW w \in Nat, Ahead(w) PROVE Ahead(w)'
  <2>1. NoMessage.num <= w
    BY DEF NoMessage
  <2>2. \A t \in Subs : delivered'[t].msg.num <= w
    <3> TAKE t \in Subs
    <3>1. CASE t # i
      BY Zenon, <1>3, <1>8, <3>1 DEF Ahead
    <3>2. CASE t = i
      BY <1>3, <1>8, <3>2 DEF Ahead, m
    <3> QED BY <3>1, <3>2
  <2> QED BY Zenon, <1>2, <1>4, <1>8, <2>1, <2>2 DEF Ahead
<1> QED BY <1>4, <1>5, <1>6, <1>7, <1>8 DEF Lines
=============================================================================
