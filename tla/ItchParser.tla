---------------------------- MODULE ItchParser -----------------------------
(***************************************************************************)
(* ItchParser of protocols/itch50/itch50_parser.hpp, driven by parse_loop  *)
(* of core/core_engine.hpp, which reuses one output array for all packets. *)
(* A packet is its length and the frames in it: for each offset at which   *)
(* a length field stands, its two bytes and the type byte behind it; made  *)
(* lists the messages of a packet of the generator.  One step is one round *)
(* of the framing loop.  A field of an output message holds the place it   *)
(* was taken from, <<call, offset of its frame>>, or Default if only the   *)
(* constructor ever set it.                                                *)
(***************************************************************************)
EXTENDS ItchMessages, ItchGenerator, FiniteSets

CONSTANTS
  Packets,       \* the datagrams sent: [length, frame, made]
  MAX_PACKET_SIZE,  \* the buffer recvfrom cuts a datagram to
  max_messages,  \* messages.size()
  Latencies,     \* the times parse_end - parse_start can take
  MaxCalls       \* bound: number of packets

ASSUME ItchAssumption ==
  /\ max_messages \in Nat /\ MAX_PACKET_SIZE \in Nat /\ MaxCalls \in Nat /\ Latencies \subseteq Nat
  /\ \A pkt \in Packets :
       /\ pkt.length \in Nat /\ DOMAIN pkt.frame \subseteq Nat
       /\ \A o \in DOMAIN pkt.frame : pkt.frame[o].len \in Byte \X Byte

(***************************************************************************)
(* A packet that lists the generator's messages is the one it builds.      *)
(***************************************************************************)
ASSUME GeneratorAssumption ==
  \A p \in Packets : p.made # << >> => p.made \in Seq(DOMAIN Built) /\ p = build_packet(p.made)

VARIABLES
  pc,                \* "idle", in the loop of parse, or "return"ing to parse_loop
  pkt,               \* raw_packet
  offset, remaining, messages_parsed,   \* the locals of parse
  reach,             \* history: end of the bytes read in this call
  messages,          \* the output array, indices from 0
  messages_parsed_, parse_errors_, stock_map_,   \* the members of the parser
  e_stats,           \* the part of the engine's Statistics that parse_loop writes
  calls              \* number of packets handed to parse

vars == <<pc, pkt, offset, remaining, messages_parsed, reach, messages,
          messages_parsed_, parse_errors_, stock_map_, e_stats, calls>>

Default == <<0, 0>>

NoPacket == [length |-> 0, frame |-> << >>, made |-> << >>]

(***************************************************************************)
(* min_latency_ns starts at UINT64_MAX; Unset stands for it.               *)
(***************************************************************************)
Unset == 2 ^ 16

Init ==
  /\ pc = "idle" /\ pkt = NoPacket
  /\ offset = 0 /\ remaining = 0 /\ messages_parsed = 0 /\ reach = 0
  /\ messages = [j \in 0 .. max_messages - 1 |-> [f \in NormalizedFields |-> Default]]
  /\ messages_parsed_ = 0 /\ parse_errors_ = 0 /\ stock_map_ = {}
  /\ e_stats = [messages_parsed |-> 0, messages_dispatched |-> 0, parse_errors |-> 0,
                min_latency_ns |-> Unset, max_latency_ns |-> 0, total_latency_ns |-> 0]
  /\ calls = 0

(***************************************************************************)
(* recvfrom keeps what fits its buffer of a datagram and drops the rest.   *)
(***************************************************************************)
Received(p) == [p EXCEPT !.length = Min({@, MAX_PACKET_SIZE})]

msg_length(frame) == read_u16_be(frame.len)

(***************************************************************************)
(* The frames are those that the loop can come to: the first at 0 and each *)
(* other where the one before it ends, if there are three bytes for it.    *)
(***************************************************************************)
ASSUME FrameAssumption ==
  \A p \in Packets :
    /\ DOMAIN p = {"length", "frame", "made"}
    /\ p.length >= 3 => 0 \in DOMAIN p.frame
    /\ \A o \in DOMAIN p.frame :
         LET end == o + msg_length(p.frame[o])
         IN  end >= o + 3 => /\ end + 3 <= p.length => end \in DOMAIN p.frame
                             /\ \A q \in DOMAIN p.frame : q > o => q >= end

(***************************************************************************)
(* parse: an invalid packet or an array without room returns at once.      *)
(***************************************************************************)
Call(p) ==
  /\ pc = "idle" /\ calls < MaxCalls
  /\ calls' = calls + 1
  /\ pkt' = Received(p)
  /\ offset' = 0 /\ remaining' = pkt'.length /\ messages_parsed' = 0 /\ reach' = 0
  /\ pc' = IF pkt'.length > 0 /\ max_messages > 0 THEN "loop" ELSE "return"
  /\ UNCHANGED <<messages, messages_parsed_, parse_errors_, stock_map_, e_stats>>

MoreRoom_OneOver == remaining >= 3 /\ messages_parsed <= max_messages

MoreRoom == remaining >= 3 /\ messages_parsed < max_messages

GoodLength_NoLower(len) == len <= remaining

GoodLength(len) == len >= 3 /\ len <= remaining

(***************************************************************************)
(* parse_message on msg_size bytes: too short for a header (an error), of  *)
(* a type without conversion, shorter than its struct (both skipped), or   *)
(* converted.                                                              *)
(***************************************************************************)
TooShort(len) == len - 2 < 13

Converted_NoSizeCheck(frame) == ~TooShort(msg_length(frame)) /\ frame.type \in Supported

Converted(frame) ==
  /\ ~TooShort(msg_length(frame))
  /\ frame.type \in Supported
  /\ msg_length(frame) - 2 >= get_message_size[frame.type]

(***************************************************************************)
(* How far behind the length field parse_message reads.                    *)
(***************************************************************************)
ReadTo(frame) ==
  IF TooShort(msg_length(frame)) THEN 0
  ELSE IF Converted(frame) THEN LastRead(frame.type)
  ELSE 13

(***************************************************************************)
(* The output slot after the conversion: only the fields it assigns change.*)
(***************************************************************************)
Written(slot, frame) ==
  [f \in NormalizedFields |->
     IF f \in Assigned(frame.type) THEN <<calls, offset>> ELSE slot[f]]

(***************************************************************************)
(* One round of the loop with a length field that is in range.             *)
(***************************************************************************)
NextMessage_SkipsSlot ==
  LET frame == pkt.frame[offset]
  IN  /\ pc = "loop" /\ MoreRoom /\ GoodLength(msg_length(frame))
      /\ messages' = IF Converted(frame) THEN [messages EXCEPT ![messages_parsed] = Written(@, frame)]
                     ELSE messages
      /\ messages_parsed' = messages_parsed + 1
      /\ stock_map_' = IF Converted(frame) /\ frame.type = "R" THEN stock_map_ \cup {frame.locate}
                       ELSE stock_map_
      /\ parse_errors_' = IF TooShort(msg_length(frame)) THEN parse_errors_ + 1 ELSE parse_errors_
      /\ reach' = Max({reach, offset + 2 + ReadTo(frame)})
      /\ offset' = offset + msg_length(frame)
      /\ remaining' = remaining - msg_length(frame)
      /\ UNCHANGED <<pc, pkt, messages_parsed_, e_stats, calls>>

NextMessage ==
  LET frame == pkt.frame[offset]
  IN  /\ pc = "loop" /\ MoreRoom /\ GoodLength(msg_length(frame))
      /\ messages' = IF Converted(frame) THEN [messages EXCEPT ![messages_parsed] = Written(@, frame)]
                     ELSE messages
      /\ messages_parsed' = messages_parsed + IF Converted(frame) THEN 1 ELSE 0
      /\ stock_map_' = IF Converted(frame) /\ frame.type = "R" THEN stock_map_ \cup {frame.locate}
                       ELSE stock_map_
      /\ parse_errors_' = IF TooShort(msg_length(frame)) THEN parse_errors_ + 1 ELSE parse_errors_
      /\ reach' = Max({reach, offset + 2 + ReadTo(frame)})
      /\ offset' = offset + msg_length(frame)
      /\ remaining' = remaining - msg_length(frame)
      /\ UNCHANGED <<pc, pkt, messages_parsed_, e_stats, calls>>

(***************************************************************************)
(* The two ways out of the loop: a length field out of range, or the loop  *)
(* condition.                                                              *)
(***************************************************************************)
LeaveLoop ==
  /\ pc' = "return"
  /\ messages_parsed_' = messages_parsed_ + messages_parsed
  /\ UNCHANGED <<pkt, offset, remaining, messages_parsed, messages, stock_map_, e_stats, calls>>

BadLength ==
  /\ pc = "loop" /\ MoreRoom /\ ~GoodLength(msg_length(pkt.frame[offset]))
  /\ parse_errors_' = parse_errors_ + 1
  /\ reach' = Max({reach, offset + 2})
  /\ LeaveLoop

LoopEnds ==
  /\ pc = "loop" /\ ~MoreRoom
  /\ LeaveLoop
  /\ UNCHANGED <<parse_errors_, reach>>

(***************************************************************************)
(* Back in parse_loop: the messages are dispatched, a packet that gave     *)
(* none is an error, and the time taken is one latency sample.  The locals *)
(* of parse are gone.                                                      *)
(***************************************************************************)
update_latency(stats, ns) ==
  [stats EXCEPT !.min_latency_ns = IF ns < @ THEN ns ELSE @,
                !.max_latency_ns = IF ns > @ THEN ns ELSE @,
                !.total_latency_ns = @ + ns]

Account(ns) ==
  /\ pc = "return"
  /\ pc' = "idle"
  /\ e_stats' = update_latency([e_stats EXCEPT
                    !.messages_parsed = @ + messages_parsed,
                    !.messages_dispatched = @ + messages_parsed,
                    !.parse_errors = @ + IF messages_parsed = 0 THEN 1 ELSE 0], ns)
  /\ pkt' = NoPacket /\ offset' = 0 /\ remaining' = 0 /\ messages_parsed' = 0 /\ reach' = 0
  /\ UNCHANGED <<messages, messages_parsed_, parse_errors_, stock_map_, calls>>

(***************************************************************************)
(* reset(), called by the engine's stop() between two runs.  The next run  *)
(* of parse_loop starts with a new output array.                           *)
(***************************************************************************)
reset ==
  /\ pc = "idle" /\ calls > 0
  /\ messages_parsed_' = 0 /\ parse_errors_' = 0 /\ stock_map_' = {}
  /\ messages' = [j \in 0 .. max_messages - 1 |-> [f \in NormalizedFields |-> Default]]
  /\ UNCHANGED <<pc, pkt, offset, remaining, messages_parsed, reach, e_stats, calls>>

parse == NextMessage \/ BadLength \/ LoopEnds

Next ==
  \/ \E p \in Packets : Call(p)
  \/ parse
  \/ \E ns \in Latencies : Account(ns)
  \/ reset

Spec == Init /\ [][Next]_vars

-----------------------------------------------------------------------------
(***************************************************************************)
(* The variables keep their types; messages_parsed never exceeds the size  *)
(* of the output array.                                                    *)
(***************************************************************************)
TypeOK ==
  /\ pc \in {"idle", "loop", "return"}
  /\ offset \in Nat /\ remaining \in Nat /\ reach \in Nat
  /\ messages_parsed \in 0 .. max_messages
  /\ messages \in [0 .. max_messages - 1 -> [NormalizedFields -> Nat \X Nat]]
  /\ messages_parsed_ \in Nat /\ parse_errors_ \in Nat
  /\ e_stats \in [messages_parsed : Nat, messages_dispatched : Nat, parse_errors : Nat,
                  min_latency_ns : Nat, max_latency_ns : Nat, total_latency_ns : Nat]
  /\ calls \in Nat

(***************************************************************************)
(* No byte outside the packet is read, and between two rounds nothing      *)
(* behind offset: a conversion takes no field from the bytes of the next   *)
(* message, whatever length its own message declares.                      *)
(***************************************************************************)
ReadsStayInMessage ==
  /\ reach <= pkt.length
  /\ pc = "loop" => reach <= offset /\ offset + remaining = pkt.length

(***************************************************************************)
(* What one packet should give, read off the packet as a whole: its        *)
(* convertible frames up to the first bad length field, in order, cut at   *)
(* max_messages.                                                           *)
(***************************************************************************)
Fits(p, o) == msg_length(p.frame[o]) >= 3 /\ o + msg_length(p.frame[o]) <= p.length

Framed(p) == {o \in DOMAIN p.frame : \A q \in DOMAIN p.frame : q <= o => Fits(p, q)}

Good(p) == {o \in Framed(p) : Converted(p.frame[o])}

GoodBefore(p, o) == {q \in Good(p) : q < o}

Expected(p) ==
  [j \in 0 .. Min({Cardinality(Good(p)), max_messages}) - 1 |->
     CHOOSE o \in Good(p) : Cardinality(GoodBefore(p, o)) = j]

(***************************************************************************)
(* When parse returns, output[0 .. count-1] are exactly those messages,    *)
(* each in its place with every field its conversion assigns: nothing is   *)
(* skipped, duplicated, reordered or left from an earlier packet.          *)
(***************************************************************************)
OutputIsThePacket ==
  pc = "return" =>
    /\ messages_parsed = Cardinality(DOMAIN Expected(pkt))
    /\ \A j \in 0 .. messages_parsed - 1 :
         LET o == Expected(pkt)[j]
         IN  \A f \in Assigned(pkt.frame[o].type) : messages[j][f] = <<calls, o>>

(***************************************************************************)
(* The argument of a builder that each field of NormalizedMessage stands   *)
(* for.                                                                    *)
(***************************************************************************)
Meaning == [type |-> "type", instrument_id |-> "stock_locate", order_id |-> "order_ref",
            price |-> "price", quantity |-> "shares", side |-> "side",
            timestamp |-> "timestamp", sequence |-> "tracking"]

(***************************************************************************)
(* The generator's messages "match parser", as the comments on its         *)
(* builders say: of a packet it built, every message that arrived whole    *)
(* comes out, up to max_messages, also when recvfrom cut the packet; and   *)
(* each field is read from the very bytes the builder wrote the matching   *)
(* argument to.                                                            *)
(***************************************************************************)
GeneratorUnderstood ==
  pc = "return" /\ pkt.made # << >> =>
    LET start == Starts(FrameLengths(pkt.made))
        Whole == {i \in DOMAIN pkt.made : start[i + 1] <= pkt.length}
    IN  /\ messages_parsed = Min({Cardinality(Whole), max_messages})
        /\ \A j \in 1 .. messages_parsed :
             LET t == pkt.made[j]
             IN  /\ \A f \in Assigned(t) : messages[j - 1][f] = <<calls, start[j]>>
                 /\ \A f \in DOMAIN Conversion[t] :
                      FieldPlace(Layout[t], Conversion[t][f]) = Built[t][Meaning[f]]

(***************************************************************************)
(* Every round that stays in the loop moves offset forward, so that parse  *)
(* comes to its return whatever lengths a packet declares.                 *)
(***************************************************************************)
EveryRoundAdvances == [][pc = "loop" /\ pc' = "loop" => offset' > offset]_vars

(***************************************************************************)
(* "converts ITCH messages into NormalizedMessage format": a field of a    *)
(* converted message comes from that message or is the default, never from *)
(* another message that used the same output slot.                         *)
(***************************************************************************)
NoStaleField ==
  pc = "return" => \A j \in 0 .. messages_parsed - 1 : \A f \in NormalizedFields :
                     messages[j][f] \in {Default, messages[j].sequence}

(***************************************************************************)
(* avg_latency_ns, total over dispatched, lies between the smallest and    *)
(* the largest sample once something was dispatched.                       *)
(***************************************************************************)
AverageInRange ==
  e_stats.messages_dispatched > 0 =>
    /\ e_stats.min_latency_ns * e_stats.messages_dispatched <= e_stats.total_latency_ns
    /\ e_stats.total_latency_ns <= e_stats.max_latency_ns * e_stats.messages_dispatched
=============================================================================
