---------------------------- MODULE UDPReceiver ----------------------------
(***************************************************************************)
(* UDPReceiver of core/network/udp_receiver.hpp: a thread that blocks in   *)
(* recvfrom and pushes each datagram into a bounded ring, from which the   *)
(* parser thread reads.  The ring is the bounded FIFO that SPSCQueue is    *)
(* proved to implement, so push and pop are atomic here; a push or pop     *)
(* that loads the other side's index stale fails although it need not.     *)
(* The actions are composed with the other threads in CoreEngine.          *)
(***************************************************************************)
EXTENDS Naturals, Sequences, Counters

CONSTANTS
  RingCapacity,   \* PACKET_RING_SIZE - 1
  SocketBuffer    \* datagrams the kernel keeps for the socket (external)

ASSUME RingAssumption == RingCapacity \in Nat /\ SocketBuffer \in Nat

VARIABLES
  socket_open,    \* socket_fd_ >= 0
  inbox,          \* datagrams in the kernel's socket buffer (external)
  r_running,      \* running_ of the receiver
  r_thread,       \* receive_thread_: where it is and the packet it holds
  packet_queue,   \* packet_queue_
  sequence_,      \* packets read_packet has handed out
  r_stats,        \* packets_received and packets_dropped of its stats_
  taken           \* history: datagrams with bytes that recvfrom has returned

rVars == <<socket_open, inbox, r_running, r_thread, packet_queue, sequence_, r_stats, taken>>

(***************************************************************************)
(* A packet is its place in the order of arrival and the number of         *)
(* messages in it that the parser supports; a datagram without bytes is    *)
(* the null packet.                                                        *)
(***************************************************************************)
NoPacket == [num |-> 0, holds |-> 0]

ReceiverInit ==
  /\ socket_open = FALSE
  /\ inbox = << >>
  /\ r_running = FALSE
  /\ r_thread = [pc |-> "none", packet |-> NoPacket]
  /\ packet_queue = << >>
  /\ sequence_ = 0
  /\ r_stats = [received |-> 0, dropped |-> 0]
  /\ taken = 0

(***************************************************************************)
(* initialize(): socket, bind and membership either all succeed, or the    *)
(* descriptor ends up closed and -1.  A new socket has an empty buffer.    *)
(***************************************************************************)
ReceiverInitialize(ok) ==
  /\ socket_open' = ok
  /\ inbox' = << >>
  /\ UNCHANGED <<r_running, r_thread, packet_queue, sequence_, r_stats, taken>>

(***************************************************************************)
(* start(): a silent no-op without a socket.                               *)
(***************************************************************************)
ReceiverStart ==
  IF r_running \/ ~socket_open
  THEN UNCHANGED rVars
  ELSE /\ r_running' = TRUE
       /\ r_thread' = [r_thread EXCEPT !.pc = "test"]
       /\ UNCHANGED <<socket_open, inbox, packet_queue, sequence_, r_stats, taken>>

(***************************************************************************)
(* stop() of a running receiver, any other returns at once: the flag, then *)
(* join and close.                                                         *)
(***************************************************************************)
ReceiverStopFlag_Forgets == UNCHANGED rVars

ReceiverStopFlag ==
  /\ r_running' = FALSE
  /\ UNCHANGED <<socket_open, inbox, r_thread, packet_queue, sequence_, r_stats, taken>>

ReceiverStopJoin ==
  /\ r_thread.pc = "done"
  /\ r_thread' = [r_thread EXCEPT !.pc = "none"]
  /\ socket_open' = FALSE
  /\ inbox' = << >>
  /\ UNCHANGED <<r_running, packet_queue, sequence_, r_stats, taken>>

(***************************************************************************)
(* receive_loop: test running_, block in recvfrom, push.  A datagram of no *)
(* bytes makes recvfrom return 0, which the loop ignores.                  *)
(***************************************************************************)
ReceiveTest ==
  /\ r_thread.pc = "test"
  /\ r_thread' = [r_thread EXCEPT !.pc = IF r_running THEN "recv" ELSE "done"]
  /\ UNCHANGED <<socket_open, inbox, r_running, packet_queue, sequence_, r_stats, taken>>

ReceiveDatagram ==
  /\ r_thread.pc = "recv"
  /\ inbox # << >>
  /\ inbox' = Tail(inbox)
  /\ r_thread' = IF Head(inbox) = NoPacket
                 THEN [r_thread EXCEPT !.pc = "test"]
                 ELSE [pc |-> "push", packet |-> Head(inbox)]
  /\ taken' = IF Head(inbox) = NoPacket THEN taken ELSE Bump(taken)
  /\ UNCHANGED <<socket_open, r_running, packet_queue, sequence_, r_stats>>

(***************************************************************************)
(* recvfrom may also fail (external); the loop takes no notice of errno.   *)
(***************************************************************************)
ReceiveFails ==
  /\ r_thread.pc = "recv"
  /\ r_thread' = [r_thread EXCEPT !.pc = "test"]
  /\ UNCHANGED <<socket_open, inbox, r_running, packet_queue, sequence_, r_stats, taken>>

ReceivePush_Overfull ==
  /\ r_thread.pc = "push"
  /\ packet_queue' = Append(packet_queue, r_thread.packet)
  /\ r_thread' = [pc |-> "count", packet |-> NoPacket]
  /\ UNCHANGED <<socket_open, inbox, r_running, sequence_, r_stats, taken>>

ReceivePush ==
  /\ r_thread.pc = "push"
  /\ Len(packet_queue) < RingCapacity
  /\ packet_queue' = Append(packet_queue, r_thread.packet)
  /\ r_thread' = [pc |-> "count", packet |-> NoPacket]
  /\ UNCHANGED <<socket_open, inbox, r_running, sequence_, r_stats, taken>>

(***************************************************************************)
(* push fails: the ring is full, or was at a tail_ that push still reads.  *)
(***************************************************************************)
MayLookFull == sequence_ + Len(packet_queue) >= RingCapacity

ReceiveDrop_Uncounted ==
  /\ r_thread.pc = "push"
  /\ MayLookFull
  /\ r_thread' = [pc |-> "test", packet |-> NoPacket]
  /\ UNCHANGED <<socket_open, inbox, r_running, packet_queue, sequence_, r_stats, taken>>

ReceiveDrop ==
  /\ r_thread.pc = "push"
  /\ MayLookFull
  /\ r_stats' = [r_stats EXCEPT !.dropped = Bump(@)]
  /\ r_thread' = [pc |-> "test", packet |-> NoPacket]
  /\ UNCHANGED <<socket_open, inbox, r_running, packet_queue, sequence_, taken>>

(***************************************************************************)
(* packets_received++ follows the push: by then the parser thread may have *)
(* read the packet.                                                        *)
(***************************************************************************)
ReceiveCount ==
  /\ r_thread.pc = "count"
  /\ r_stats' = [r_stats EXCEPT !.received = Bump(@)]
  /\ r_thread' = [r_thread EXCEPT !.pc = "test"]
  /\ UNCHANGED <<socket_open, inbox, r_running, packet_queue, sequence_, taken>>

ReceiverThread == ReceiveTest \/ ReceiveDatagram \/ ReceivePush \/ ReceiveDrop \/ ReceiveCount

(***************************************************************************)
(* read_packet(), called by the parser thread when the ring has a packet.  *)
(***************************************************************************)
ReadPacket_Peeks ==
  /\ packet_queue # << >>
  /\ sequence_' = Bump(sequence_)
  /\ UNCHANGED <<socket_open, inbox, r_running, r_thread, packet_queue, r_stats, taken>>

ReadPacket ==
  /\ packet_queue # << >>
  /\ packet_queue' = Tail(packet_queue)
  /\ sequence_' = Bump(sequence_)
  /\ UNCHANGED <<socket_open, inbox, r_running, r_thread, r_stats, taken>>

(***************************************************************************)
(* The network (external): a datagram reaches the socket if there is one   *)
(* and its buffer has room; otherwise it is lost without a trace.          *)
(***************************************************************************)
DatagramArrives(d) ==
  /\ inbox' = IF socket_open /\ Len(inbox) < SocketBuffer THEN Append(inbox, d) ELSE inbox
  /\ UNCHANGED <<socket_open, r_running, r_thread, packet_queue, sequence_, r_stats, taken>>

(***************************************************************************)
(* The types of the receiver's variables, for the type invariant of the    *)
(* composition.                                                            *)
(***************************************************************************)
Packets == [num : Nat, holds : Nat]

ReceiverTypes ==
  /\ socket_open \in BOOLEAN /\ r_running \in BOOLEAN
  /\ inbox \in Seq(Packets) /\ Len(inbox) <= SocketBuffer
  /\ packet_queue \in Seq(Packets) /\ Len(packet_queue) <= RingCapacity
  /\ r_thread \in [pc : {"none", "test", "recv", "push", "count", "done"}, packet : Packets]
  /\ sequence_ \in Nat
  /\ r_stats \in [received : Nat, dropped : Nat]
  /\ taken \in Nat
=============================================================================
