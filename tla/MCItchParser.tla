--------------------------- MODULE MCItchParser ----------------------------
(***************************************************************************)
(* Packets for TLC: up to MaxFrames frames of a few types, or one frame of *)
(* any type, then one of the endings a packet can have.                    *)
(***************************************************************************)
EXTENDS ItchParser

(***************************************************************************)
(* The packed structs have the sizes stated for them, except for the stock *)
(* directory, whose fields make 40 bytes and not 41.                       *)
(***************************************************************************)
ASSUME StructSizes ==
  /\ \A t \in DOMAIN Layout \ {"R"} : SizeOfStruct(Layout[t]) = get_message_size[t]
  /\ SizeOfStruct(Layout["R"]) = get_message_size["R"] - 1

CONSTANTS
  MaxFrames,   \* frames before the ending of a packet
  FrameTypes,  \* types of the frames that have exactly their struct's size
  ShortTypes   \* types of the frames that are one byte short of it

Frame(t, len) == [type |-> t, len |-> write_u16_be(len), locate |-> 1]

(***************************************************************************)
(* Frames of their struct's size, frames one byte short of it, and one     *)
(* that is too short for a header.                                         *)
(***************************************************************************)
Frames ==
  {Frame(t, get_message_size[t] + 2) : t \in FrameTypes}
    \cup {Frame(t, get_message_size[t] + 1) : t \in ShortTypes}
    \cup {Frame("A", 14)}

(***************************************************************************)
(* Every type that has a conversion, of its struct's size and one byte     *)
(* short of it.                                                            *)
(***************************************************************************)
EveryType == {Frame(t, get_message_size[t] + k) : t \in Supported, k \in {1, 2}}

(***************************************************************************)
(* Nothing, one or two stray bytes, length fields of 0 and 2, a message    *)
(* whose last byte is missing: <<bytes, frame>>.                           *)
(***************************************************************************)
Endings == {<<0, << >> >>, <<1, << >> >>, <<2, << >> >>,
            <<3, <<Frame("A", 0)>> >>, <<3, <<Frame("A", 2)>> >>, <<39, <<Frame("A", 40)>> >>}

(***************************************************************************)
(* Frames strung together and closed by an ending, and what the generator  *)
(* builds.  The receiver passes on no empty datagram.                      *)
(***************************************************************************)
MCPackets ==
  LET Packet(s, e) ==
        LET all == s \o e[2]
            start == Starts([i \in DOMAIN s |-> msg_length(s[i])])
        IN  [length |-> start[Len(s) + 1] + e[1], made |-> << >>,
             frame |-> [o \in {start[i] : i \in 1 .. Len(all)} |->
                          all[CHOOSE i \in 1 .. Len(all) : start[i] = o]]]
      Few == UNION {[1 .. n -> Frames] : n \in 0 .. MaxFrames}
      Candidates == {Packet(s, e) : s \in Few \cup [1 .. 1 -> EveryType], e \in Endings}
      Generated == {build_packet(types) : types \in UNION {[1 .. n -> DOMAIN Built] : n \in 1 .. MaxFrames}}
  IN  {p \in Candidates : p.length > 0} \cup Generated
=============================================================================
