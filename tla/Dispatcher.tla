----------------------------- MODULE Dispatcher -----------------------------
(***************************************************************************)
(* Dispatcher of core/distribution/dispatcher.hpp: the parser thread calls *)
(* dispatch(), which pushes a message to one bounded queue per subscriber; *)
(* the dispatcher thread pops the queues in turn and calls on_message.     *)
(* The queues are the bounded FIFO that SPSCQueue is proved to implement.  *)
(* The actions are composed with the other threads in CoreEngine.          *)
(***************************************************************************)
EXTENDS Naturals, Sequences, Counters

CONSTANT QueueCapacity   \* DEFAULT_QUEUE_SIZE - 1

ASSUME QueueAssumption == QueueCapacity \in Nat

VARIABLES
  subscribers,    \* per subscriber: "new", "initialized" or "shutdown"
  queues,         \* queues_: per subscriber the messages not yet popped
  d_running,      \* running_ of the dispatcher
  d_thread,       \* dispatch_thread_: where it is, subscriber index, msg
  d_stats,        \* messages_dispatched and packets_dropped of its stats_
  delivered       \* history: per subscriber the last message delivered, how many
                  \* were popped, and how many dispatched before it was added

dVars == <<subscribers, queues, d_running, d_thread, d_stats, delivered>>

NoMessage == [num |-> 0, idx |-> 0]

Subs == DOMAIN subscribers

DispatcherInit ==
  /\ subscribers = << >>
  /\ queues = << >>
  /\ d_running = FALSE
  /\ d_thread = [pc |-> "none", i |-> 1, msg |-> NoMessage]
  /\ d_stats = [dispatched |-> 0, dropped |-> 0]
  /\ delivered = << >>

AddSubscriber ==
  /\ subscribers' = Append(subscribers, "new")
  /\ queues' = Append(queues, << >>)
  /\ delivered' = Append(delivered, [msg |-> NoMessage, n |-> 0, since |-> d_stats.dispatched])
  /\ UNCHANGED <<d_running, d_thread, d_stats>>

(***************************************************************************)
(* start(): initialize every subscriber, then the flag and the thread.     *)
(***************************************************************************)
DispatcherStart_NoInitialize ==
  IF d_running
  THEN UNCHANGED dVars
  ELSE /\ d_running' = TRUE
       /\ d_thread' = [d_thread EXCEPT !.pc = "test", !.i = 1]
       /\ UNCHANGED <<subscribers, queues, d_stats, delivered>>

DispatcherStart ==
  IF d_running
  THEN UNCHANGED dVars
  ELSE /\ subscribers' = [s \in Subs |-> "initialized"]
       /\ d_running' = TRUE
       /\ d_thread' = [d_thread EXCEPT !.pc = "test", !.i = 1]
       /\ UNCHANGED <<queues, d_stats, delivered>>

(***************************************************************************)
(* stop() of a running dispatcher, any other returns at once: the flag,    *)
(* then join and shutdown of every subscriber.                             *)
(***************************************************************************)
DispatcherStopFlag == d_running' = FALSE /\ UNCHANGED <<subscribers, queues, d_thread, d_stats, delivered>>

DispatcherStopJoin_Detaches ==
  /\ subscribers' = [s \in Subs |-> "shutdown"]
  /\ UNCHANGED <<queues, d_running, d_thread, d_stats, delivered>>

DispatcherStopJoin ==
  /\ d_thread.pc = "done"
  /\ d_thread' = [d_thread EXCEPT !.pc = "none"]
  /\ subscribers' = [s \in Subs |-> "shutdown"]
  /\ UNCHANGED <<queues, d_running, d_stats, delivered>>

(***************************************************************************)
(* dispatch(msg): one push per queue, a failed one only counted, and the   *)
(* message counted once at the end.  A push may fail on a stale tail_.     *)
(***************************************************************************)
PushInto(s, msg) ==
  /\ Len(queues[s]) < QueueCapacity
  /\ queues' = [queues EXCEPT ![s] = Append(@, msg)]

MayLookFullTo(s) == delivered[s].n + Len(queues[s]) >= QueueCapacity

DispatchPush_DropsUncounted(s, msg) ==
  /\ \/ PushInto(s, msg) /\ UNCHANGED d_stats
     \/ MayLookFullTo(s) /\ UNCHANGED <<queues, d_stats>>
  /\ UNCHANGED <<subscribers, d_running, d_thread, delivered>>

DispatchPush(s, msg) ==
  /\ \/ PushInto(s, msg) /\ UNCHANGED d_stats
     \/ MayLookFullTo(s) /\ d_stats' = [d_stats EXCEPT !.dropped = Bump(@)] /\ UNCHANGED queues
  /\ UNCHANGED <<subscribers, d_running, d_thread, delivered>>

DispatchCount ==
  /\ d_stats' = [d_stats EXCEPT !.dispatched = Bump(@)]
  /\ UNCHANGED <<subscribers, queues, d_running, d_thread, delivered>>

(***************************************************************************)
(* dispatch_loop: test running_, then for each subscriber pop and deliver  *)
(* until its queue is empty, or seems so by a stale head_.  The result of  *)
(* on_message is not used.                                                 *)
(***************************************************************************)
LoopTest ==
  /\ d_thread.pc = "test"
  /\ d_thread' = [d_thread EXCEPT !.pc = IF d_running THEN "pop" ELSE "done", !.i = 1]
  /\ UNCHANGED <<subscribers, queues, d_running, d_stats, delivered>>

LoopPop ==
  /\ d_thread.pc = "pop"
  /\ d_thread.i \in Subs
  /\ queues[d_thread.i] # << >>
  /\ queues' = [queues EXCEPT ![d_thread.i] = Tail(@)]
  /\ delivered' = [delivered EXCEPT ![d_thread.i].n = Bump(@)]
  /\ d_thread' = [d_thread EXCEPT !.pc = "deliver", !.msg = Head(queues[d_thread.i])]
  /\ UNCHANGED <<subscribers, d_running, d_stats>>

LoopNextSubscriber ==
  /\ d_thread.pc = "pop"
  /\ d_thread.i \in Subs
  /\ d_thread' = [d_thread EXCEPT !.i = @ + 1]
  /\ UNCHANGED <<subscribers, queues, d_running, d_stats, delivered>>

LoopAgain_NoTest ==
  /\ d_thread.pc = "pop"
  /\ d_thread.i \notin Subs
  /\ d_thread' = [d_thread EXCEPT !.i = 1]
  /\ UNCHANGED <<subscribers, queues, d_running, d_stats, delivered>>

LoopAgain ==
  /\ d_thread.pc = "pop"
  /\ d_thread.i \notin Subs
  /\ d_thread' = [d_thread EXCEPT !.pc = "test", !.i = 1]
  /\ UNCHANGED <<subscribers, queues, d_running, d_stats, delivered>>

Deliver ==
  /\ d_thread.pc = "deliver"
  /\ delivered' = [delivered EXCEPT ![d_thread.i].msg = d_thread.msg]
  /\ d_thread' = [d_thread EXCEPT !.pc = "pop", !.msg = NoMessage]
  /\ UNCHANGED <<subscribers, queues, d_running, d_stats>>

DispatcherThread ==
  \/ LoopTest
  \/ LoopPop
  \/ LoopNextSubscriber
  \/ LoopAgain
  \/ Deliver

(***************************************************************************)
(* The types of the dispatcher's variables.                                *)
(***************************************************************************)
Messages == [num : Nat, idx : Nat]

DispatcherTypes ==
  /\ subscribers \in Seq({"new", "initialized", "shutdown"})
  /\ queues \in Seq(Seq(Messages)) /\ Len(queues) = Len(subscribers)
  /\ \A s \in Subs : Len(queues[s]) <= QueueCapacity
  /\ delivered \in Seq([msg : Messages, n : Nat, since : Nat])
  /\ Len(delivered) = Len(subscribers)
  /\ d_running \in BOOLEAN
  /\ d_thread \in [pc : {"none", "test", "pop", "deliver", "done"}, i : Nat, msg : Messages]
  /\ d_stats \in [dispatched : Nat, dropped : Nat]
=============================================================================
