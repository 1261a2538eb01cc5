----------------------------- MODULE CoreEngine -----------------------------
(***************************************************************************)
(* CoreEngine of core/core_engine.hpp: the application's thread starts and *)
(* stops the receiver, parser and dispatcher threads, which run the        *)
(* pipeline socket -> packet ring -> parse -> subscriber queues ->         *)
(* on_message.  Five threads interleave: the application (main), the       *)
(* three of the pipeline, and the network.                                 *)
(***************************************************************************)
EXTENDS UDPReceiver, Dispatcher, ParserRegistry, FiniteSets

CONSTANTS
  Names,                   \* names the application asks the registry for
  MaxSubscribers,          \* bound: subscribers the application adds
  Holds,                   \* the numbers of messages a packet may hold
  max_messages_per_packet, \* CoreConfig::max_messages_per_packet
  MaxArrivals,             \* bound: datagrams sent, unless Endless
  Endless,                 \* whether the network may send for ever
  MaxStarts                \* bound: calls of start()

ASSUME EngineAssumption ==
  /\ MaxSubscribers \in Nat /\ MaxArrivals \in Nat /\ MaxStarts \in Nat
  /\ Holds \subseteq Nat /\ max_messages_per_packet \in Nat /\ Endless \in BOOLEAN

VARIABLES
  main,       \* what the application's thread does: "idle" or a step of start() or stop()
  e_running,  \* running_ of the engine
  parser,     \* parser_: its kind, and whether it is new, initialized or reset
  p_thread,   \* parse_thread_: where it is, messages to dispatch, next queue, count
  e_stats,    \* messages_parsed and parse_errors of its stats_
  arrivals,   \* datagrams the network has sent
  starts      \* calls of start() that went ahead

eVars == <<main, e_running, parser, p_thread, e_stats, starts>>
vars == <<rVars, dVars, eVars, arrivals>>

Init ==
  /\ ReceiverInit
  /\ DispatcherInit
  /\ main = "idle"
  /\ e_running = FALSE
  /\ parser = [kind |-> "EchoParser", state |-> "new"]
  /\ p_thread = [pc |-> "none", pending |-> << >>, q |-> 1, count |-> 0]
  /\ e_stats = [parsed |-> 0, errors |-> 0]
  /\ arrivals = 0
  /\ starts = 0

-----------------------------------------------------------------------------
(***************************************************************************)
(* The application's calls.  set_parser and add_subscriber throw while the *)
(* engine runs.  A parser comes from the registry, which knows some names. *)
(* initialize() has no such test.                                          *)
(***************************************************************************)
set_parser(kind) ==
  /\ main = "idle"
  /\ ~e_running
  /\ parser' = [kind |-> kind, state |-> "new"]
  /\ UNCHANGED <<rVars, dVars, arrivals, main, e_running, p_thread, e_stats, starts>>

add_subscriber ==
  /\ main = "idle"
  /\ ~e_running
  /\ Len(subscribers) < MaxSubscribers
  /\ AddSubscriber
  /\ UNCHANGED <<rVars, eVars, arrivals>>

initialize(ok) ==
  /\ main = "idle"
  /\ ReceiverInitialize(ok)
  /\ parser' = IF ok /\ parser.kind # NoParser THEN [parser EXCEPT !.state = "initialized"] ELSE parser
  /\ UNCHANGED <<dVars, arrivals, main, e_running, p_thread, e_stats, starts>>

(***************************************************************************)
(* start() throws without a parser; else the flag, the receiver, the       *)
(* dispatcher, the parser thread.                                          *)
(***************************************************************************)
StartFlag_NoParserTest ==
  /\ main = "idle"
  /\ ~e_running
  /\ starts < MaxStarts
  /\ starts' = starts + 1
  /\ e_running' = TRUE
  /\ main' = "start receiver"
  /\ UNCHANGED <<rVars, dVars, arrivals, parser, p_thread, e_stats>>

StartFlag ==
  /\ main = "idle"
  /\ ~e_running
  /\ parser.kind # NoParser
  /\ starts < MaxStarts
  /\ starts' = starts + 1
  /\ e_running' = TRUE
  /\ main' = "start receiver"
  /\ UNCHANGED <<rVars, dVars, arrivals, parser, p_thread, e_stats>>

StartReceiver ==
  /\ main = "start receiver"
  /\ ReceiverStart
  /\ main' = "start dispatcher"
  /\ UNCHANGED <<dVars, arrivals, e_running, parser, p_thread, e_stats, starts>>

StartDispatcher ==
  /\ main = "start dispatcher"
  /\ DispatcherStart
  /\ main' = "start parser"
  /\ UNCHANGED <<rVars, arrivals, e_running, parser, p_thread, e_stats, starts>>

StartParser ==
  /\ main = "start parser"
  /\ p_thread' = [p_thread EXCEPT !.pc = "test"]
  /\ main' = "idle"
  /\ UNCHANGED <<rVars, dVars, arrivals, e_running, parser, e_stats, starts>>

(***************************************************************************)
(* stop(): the flag, join the parser thread, then stop the dispatcher and  *)
(* the receiver, each flag then join, then reset the parser.               *)
(***************************************************************************)
StopFlag_Forgets ==
  /\ main = "idle"
  /\ e_running
  /\ main' = "join parser"
  /\ UNCHANGED <<rVars, dVars, arrivals, e_running, parser, p_thread, e_stats, starts>>

StopFlag ==
  /\ main = "idle"
  /\ e_running
  /\ e_running' = FALSE
  /\ main' = "join parser"
  /\ UNCHANGED <<rVars, dVars, arrivals, parser, p_thread, e_stats, starts>>

StopJoinParser_NoWait ==
  /\ main = "join parser"
  /\ main' = "stop dispatcher"
  /\ UNCHANGED <<rVars, dVars, arrivals, e_running, parser, p_thread, e_stats, starts>>

StopJoinParser ==
  /\ main = "join parser"
  /\ p_thread.pc = "done"
  /\ p_thread' = [p_thread EXCEPT !.pc = "none"]
  /\ main' = "stop dispatcher"
  /\ UNCHANGED <<rVars, dVars, arrivals, e_running, parser, e_stats, starts>>

StopDispatcher ==
  /\ main = "stop dispatcher"
  /\ IF d_running
     THEN DispatcherStopFlag /\ main' = "join dispatcher"
     ELSE main' = "stop receiver" /\ UNCHANGED dVars
  /\ UNCHANGED <<rVars, arrivals, e_running, parser, p_thread, e_stats, starts>>

JoinDispatcher ==
  /\ main = "join dispatcher"
  /\ DispatcherStopJoin
  /\ main' = "stop receiver"
  /\ UNCHANGED <<rVars, arrivals, e_running, parser, p_thread, e_stats, starts>>

ResetParser == parser' = [parser EXCEPT !.state = IF parser.kind = NoParser THEN @ ELSE "reset"]

(***************************************************************************)
(* The receiver never ran if it had no socket; its stop() then returns.    *)
(* The parser is reset last.                                               *)
(***************************************************************************)
StopReceiver ==
  /\ main = "stop receiver"
  /\ IF r_running
     THEN ReceiverStopFlag /\ main' = "join receiver" /\ UNCHANGED parser
     ELSE main' = "idle" /\ ResetParser /\ UNCHANGED rVars
  /\ UNCHANGED <<dVars, arrivals, e_running, p_thread, e_stats, starts>>

JoinReceiver ==
  /\ main = "join receiver"
  /\ ReceiverStopJoin
  /\ main' = "idle"
  /\ ResetParser
  /\ UNCHANGED <<dVars, arrivals, e_running, p_thread, e_stats, starts>>

(***************************************************************************)
(* The application makes its calls in any order, with one rule: it calls   *)
(* initialize() before start(), as both examples do, since on a running    *)
(* engine the call would swap the descriptor under the receiver thread.    *)
(***************************************************************************)
Application ==
  \/ \E name \in Names : set_parser(create_parser(name))
  \/ add_subscriber
  \/ ~e_running /\ \E ok \in BOOLEAN : initialize(ok)
  \/ StartFlag \/ StopFlag

MainStep ==
  \/ StartReceiver \/ StartDispatcher \/ StartParser
  \/ StopJoinParser \/ StopDispatcher \/ JoinDispatcher
  \/ StopReceiver \/ JoinReceiver

-----------------------------------------------------------------------------
(***************************************************************************)
(* The number of messages parse() makes of a packet.  EchoParser and       *)
(* NullParser make one out of its metadata, the former only if the view is *)
(* valid; ItchParser one for each supported message, of which those beyond *)
(* the end of the output array are left out.                               *)
(***************************************************************************)
EchoParse(packet) == IF max_messages_per_packet = 0 \/ packet = NoPacket THEN 0 ELSE 1

NullParse(packet) == IF max_messages_per_packet = 0 THEN 0 ELSE 1

ItchParse(packet) == IF packet.holds < max_messages_per_packet
                     THEN packet.holds ELSE max_messages_per_packet

ParseCountOf(packet) ==
  CASE parser.kind = "EchoParser" -> EchoParse(packet)
    [] parser.kind = "NullParser" -> NullParse(packet)
    [] OTHER -> ItchParse(packet)

Parsed(packet) == [k \in 1 .. ParseCountOf(packet) |-> [num |-> packet.num, idx |-> k]]

(***************************************************************************)
(* parse_loop.  Reading and parsing a packet only touch the ring and the   *)
(* thread's own buffer.  read_packet also fails on a stale head_.          *)
(***************************************************************************)
ParseTest ==
  /\ p_thread.pc = "test"
  /\ p_thread' = [p_thread EXCEPT !.pc = IF e_running THEN "read" ELSE "done"]
  /\ UNCHANGED <<rVars, dVars, arrivals, main, e_running, parser, e_stats, starts>>

ParseNothing ==
  /\ p_thread.pc = "read"
  /\ p_thread' = [p_thread EXCEPT !.pc = "test"]
  /\ UNCHANGED <<rVars, dVars, arrivals, main, e_running, parser, e_stats, starts>>

ParsePacket ==
  /\ p_thread.pc = "read"
  /\ ReadPacket
  /\ LET messages == Parsed(Head(packet_queue))
     IN  p_thread' = [pc |-> "dispatch", pending |-> messages, q |-> 1,
                      count |-> Len(messages)]
  /\ UNCHANGED <<dVars, arrivals, main, e_running, parser, e_stats, starts>>

ParsePush ==
  /\ p_thread.pc = "dispatch"
  /\ p_thread.pending # << >>
  /\ p_thread.q \in Subs
  /\ DispatchPush(p_thread.q, Head(p_thread.pending))
  /\ p_thread' = [p_thread EXCEPT !.q = @ + 1]
  /\ UNCHANGED <<rVars, arrivals, main, e_running, parser, e_stats, starts>>

ParseDispatched ==
  /\ p_thread.pc = "dispatch"
  /\ p_thread.pending # << >>
  /\ p_thread.q \notin Subs
  /\ DispatchCount
  /\ p_thread' = [p_thread EXCEPT !.q = 1, !.pending = Tail(@)]
  /\ UNCHANGED <<rVars, arrivals, main, e_running, parser, e_stats, starts>>

ParseCount_NoError ==
  /\ p_thread.pc = "dispatch"
  /\ p_thread.pending = << >>
  /\ e_stats' = [e_stats EXCEPT !.parsed = Plus(@, p_thread.count)]
  /\ p_thread' = [p_thread EXCEPT !.pc = "test", !.count = 0]
  /\ UNCHANGED <<rVars, dVars, arrivals, main, e_running, parser, starts>>

ParseCount ==
  /\ p_thread.pc = "dispatch"
  /\ p_thread.pending = << >>
  /\ e_stats' = [parsed |-> Plus(e_stats.parsed, p_thread.count),
                 errors |-> IF p_thread.count = 0 THEN Bump(e_stats.errors) ELSE e_stats.errors]
  /\ p_thread' = [p_thread EXCEPT !.pc = "test", !.count = 0]
  /\ UNCHANGED <<rVars, dVars, arrivals, main, e_running, parser, starts>>

ParserThread ==
  \/ ParseTest \/ ParseNothing \/ ParsePacket
  \/ ParsePush \/ ParseDispatched \/ ParseCount

-----------------------------------------------------------------------------
(***************************************************************************)
(* The network (external): datagrams are numbered in the order of arrival. *)
(***************************************************************************)
Network ==
  /\ Endless \/ arrivals < MaxArrivals
  /\ arrivals' = Bump(arrivals)
  /\ \/ \E k \in Holds : DatagramArrives([num |-> arrivals + 1, holds |-> k])
     \/ DatagramArrives(NoPacket)
  /\ UNCHANGED <<dVars, eVars>>

Receiving == ReceiverThread /\ UNCHANGED <<dVars, eVars, arrivals>>

(***************************************************************************)
(* An error of recvfrom is the environment's doing, never to be relied on. *)
(***************************************************************************)
Failing == ReceiveFails /\ UNCHANGED <<dVars, eVars, arrivals>>

Dispatching == DispatcherThread /\ UNCHANGED <<rVars, eVars, arrivals>>

Next == Application \/ MainStep \/ ParserThread \/ Receiving \/ Failing \/ Dispatching \/ Network

Spec == Init /\ [][Next]_vars

-----------------------------------------------------------------------------
(***************************************************************************)
(* The variables keep their types and the queues their capacities.         *)
(***************************************************************************)
TypeOK ==
  /\ ReceiverTypes
  /\ DispatcherTypes
  /\ e_running \in BOOLEAN
  /\ main \in {"idle", "start receiver", "start dispatcher", "start parser", "join parser",
               "stop dispatcher", "join dispatcher", "stop receiver", "join receiver"}
  /\ parser \in [kind : Kinds, state : {"new", "initialized", "reset"}]
  /\ p_thread \in [pc : {"none", "test", "read", "dispatch", "done"},
                   pending : Seq(Messages), q : Nat, count : Nat]
  /\ Len(p_thread.pending) <= max_messages_per_packet
  /\ e_stats \in [parsed : Nat, errors : Nat]
  /\ arrivals \in Nat /\ starts \in Nat

(***************************************************************************)
(* start() never assigns a thread over one that is still joinable (which   *)
(* would end the process), and once stop() has returned no thread of the   *)
(* engine exists, so the application may change parser and subscribers.    *)
(***************************************************************************)
ThreadLifecycle ==
  /\ main = "idle" /\ ~e_running =>
       r_thread.pc = "none" /\ d_thread.pc = "none" /\ p_thread.pc = "none"
  /\ main = "start receiver" => r_thread.pc = "none"
  /\ main \in {"start receiver", "start dispatcher"} => d_thread.pc = "none"
  /\ main \in {"start receiver", "start dispatcher", "start parser"} => p_thread.pc = "none"

(***************************************************************************)
(* on_message is called only between the subscriber's initialize() and its *)
(* shutdown(), also when the engine is stopped with messages queued.       *)
(***************************************************************************)
SubscribersReady ==
  d_thread.pc = "deliver" => subscribers[d_thread.i] = "initialized"

(***************************************************************************)
(* dispatch() runs only while the dispatcher thread is there to take what  *)
(* it pushes: the parser thread starts after it and is joined before it.   *)
(***************************************************************************)
DispatcherOutlivesParser ==
  p_thread.pc # "none" => d_running /\ d_thread.pc \notin {"none", "done"}

(***************************************************************************)
(* parse_loop never calls through a null parser_: start() refuses to run   *)
(* without one and set_parser refuses to take it away from a running       *)
(* engine, whatever the registry returned.                                 *)
(***************************************************************************)
ParserPresent == p_thread.pc # "none" => parser.kind # NoParser

(***************************************************************************)
(* set_parser replaces the parser and stop() resets it only when no parser *)
(* thread exists: neither takes the parser from under parse().             *)
(***************************************************************************)
ParserUnshared ==
  [][parser' # parser /\ parser'.state # "initialized" => p_thread.pc = "none"]_vars

(***************************************************************************)
(* What is still to reach subscriber s, after the last message it got:     *)
(* in the dispatcher's hand, in its queue and with the parser thread; and  *)
(* the packets that follow, in the ring, in the receiver's hand and in the *)
(* socket.                                                                 *)
(***************************************************************************)
Before(a, b) == a.num < b.num \/ (a.num = b.num /\ a.idx < b.idx)

InHand(s) == IF d_thread.pc = "deliver" /\ d_thread.i = s THEN <<d_thread.msg>> ELSE << >>

Pending(s) == IF p_thread.pending # << >> /\ p_thread.q > s
              THEN Tail(p_thread.pending) ELSE p_thread.pending

Stream(s) == <<delivered[s].msg>> \o InHand(s) \o queues[s] \o Pending(s)

Incoming == {packet_queue[k] : k \in DOMAIN packet_queue}
            \cup {d \in {r_thread.packet} : r_thread.pc = "push"}
            \cup ({inbox[k] : k \in DOMAIN inbox} \ {NoPacket})

(***************************************************************************)
(* Every subscriber gets messages in the order in which the packets came   *)
(* and each at most once, across drops, stop() and restart.                *)
(***************************************************************************)
InOrder ==
  \A s \in Subs :
    /\ \A j, k \in 1 .. Len(Stream(s)) : j < k => Before(Stream(s)[j], Stream(s)[k])
    /\ \A j \in 1 .. Len(Stream(s)), d \in Incoming : Stream(s)[j].num < d.num

(***************************************************************************)
(* The pipeline with all its threads and queues implements the feed: what  *)
(* on_message is called with are messages of packets that were sent, in    *)
(* order, none twice, whatever is dropped on the way.                      *)
(***************************************************************************)
Feed == INSTANCE LossyFeed
          WITH sent <- arrivals, got <- [s \in Subs |-> delivered[s].msg],
               PerPacket <- max_messages_per_packet

ImplementsFeed == Feed!Spec

(***************************************************************************)
(* The counters tell the truth about the pipeline: every packet received   *)
(* was read or waits in the ring, one more while it is yet to be counted;  *)
(* and every message parsed was dispatched, but for those of the packet in *)
(* the parser thread's hands.                                              *)
(***************************************************************************)
CountersAgree ==
  /\ r_stats.received + (IF r_thread.pc = "count" THEN 1 ELSE 0) = sequence_ + Len(packet_queue)
  /\ d_stats.dispatched = e_stats.parsed + (p_thread.count - Len(p_thread.pending))

(***************************************************************************)
(* No packet is lost untold in the receiver: every datagram that recvfrom  *)
(* returned was handed to the parser thread, waits in the ring, is in the  *)
(* receiver's hand or was counted as dropped, also when a push fails on a  *)
(* ring with room.                                                         *)
(***************************************************************************)
PacketsAccounted ==
  taken = sequence_ + Len(packet_queue) + r_stats.dropped + (IF r_thread.pc = "push" THEN 1 ELSE 0)

(***************************************************************************)
(* Packets the parser thread has read and counted, but not as an error.    *)
(***************************************************************************)
Fruitful == sequence_ - (IF p_thread.pc = "dispatch" THEN 1 ELSE 0) - e_stats.errors

(***************************************************************************)
(* A packet is counted as a parse error or by its messages, never as both  *)
(* and never as neither: what is no error gave one to                      *)
(* max_messages_per_packet messages, whichever parser was set.             *)
(***************************************************************************)
ErrorsAccounted ==
  Fruitful <= e_stats.parsed /\ e_stats.parsed <= Fruitful * max_messages_per_packet

(***************************************************************************)
(* Messages that got into the queue of subscriber s; messages dispatched   *)
(* since it was added; and those with the one that dispatch() has on its   *)
(* way through the queues, once it has been to the queue of s.             *)
(***************************************************************************)
Reached(s) == delivered[s].n + Len(queues[s])

Owed(s) == d_stats.dispatched - delivered[s].since

Served(s) == Owed(s) + (IF p_thread.q > s THEN 1 ELSE 0)

(***************************************************************************)
(* The messages a subscriber missed, one element for each.                 *)
(***************************************************************************)
Missed == UNION {{s} \X (1 .. Served(s) - Reached(s)) : s \in Subs}

(***************************************************************************)
(* No message is lost untold or given twice: every message dispatched was, *)
(* for every subscriber present, popped, is queued, or was counted by the  *)
(* dispatcher as dropped, also in the middle of dispatch().                *)
(***************************************************************************)
DropsAccounted ==
  /\ \A s \in Subs : Reached(s) <= Served(s)
  /\ d_stats.dropped = Cardinality(Missed)

(***************************************************************************)
(* get_stats(): "Get combined statistics" of the pipeline.  The counters   *)
(* are plain variables: only when no thread of the engine runs is the copy *)
(* a reading of one state.                                                 *)
(***************************************************************************)
get_stats ==
  [received |-> r_stats.received, dropped |-> r_stats.dropped,
   parsed |-> e_stats.parsed, errors |-> e_stats.errors, dispatched |-> d_stats.dispatched]
=============================================================================
