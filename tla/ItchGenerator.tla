--------------------------- MODULE ItchGenerator ----------------------------
(***************************************************************************)
(* The messages and packets that examples/itch_generator.cpp builds for    *)
(* the parser.  A builder writes each argument at an offset it spells out: *)
(* it is the function from arguments to <<offset, width>>.  A packet is    *)
(* the frames that build_packet strings together.                          *)
(***************************************************************************)
EXTENDS ByteOrder

BuiltHeader == [stock_locate |-> <<0, 2>>, tracking |-> <<2, 2>>, timestamp |-> <<4, 8>>,
                type |-> <<12, 1>>, order_ref |-> <<13, 8>>]

build_add_order_NoStock ==
  BuiltHeader ++ [side |-> <<21, 1>>, shares |-> <<22, 4>>, price |-> <<26, 4>>]

build_add_order ==
  BuiltHeader ++ [side |-> <<21, 1>>, shares |-> <<22, 4>>, stock |-> <<26, 8>>, price |-> <<34, 4>>]

build_order_executed == BuiltHeader ++ [shares |-> <<21, 4>>, match_number |-> <<25, 8>>]

build_trade == build_add_order ++ [match_number |-> <<38, 8>>]

(***************************************************************************)
(* The type byte each builder writes, and the size of its vector.          *)
(***************************************************************************)
Built == [A |-> build_add_order, E |-> build_order_executed, P |-> build_trade]

BuiltSize == [A |-> 38, E |-> 33, P |-> 46]

(***************************************************************************)
(* Where the frames of a packet start, given the lengths of the frames.    *)
(***************************************************************************)
Starts(lens) == LET at == Offsets(lens) IN [i \in 1 .. Len(lens) + 1 |-> at[i - 1]]

(***************************************************************************)
(* The lengths of the frames around messages of the given types.           *)
(***************************************************************************)
FrameLengths(types) == [i \in DOMAIN types |-> BuiltSize[types[i]] + 2]

(***************************************************************************)
(* build_packet: in front of each message two bytes with its length, in    *)
(* which they are included.                                                *)
(***************************************************************************)
build_packet(types) ==
  LET lens == FrameLengths(types)
      start == Starts(lens)
      at(o) == CHOOSE i \in DOMAIN types : start[i] = o
  IN  [length |-> start[Len(types) + 1], made |-> types,
       frame |-> [o \in {start[i] : i \in DOMAIN types} |->
                    [type |-> types[at(o)], len |-> write_u16_be(lens[at(o)]), locate |-> 1]]]
=============================================================================
