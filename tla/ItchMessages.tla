--------------------------- MODULE ItchMessages ----------------------------
(***************************************************************************)
(* The message formats of protocols/itch50/itch50_messages.hpp and the     *)
(* field-by-field conversions of protocols/itch50/itch50_parser.hpp.  A    *)
(* packed struct is the sequence of its <<field, width in bytes>>; a       *)
(* conversion is the function from the fields of NormalizedMessage it      *)
(* assigns to the struct fields it reads them from.  The values of fields  *)
(* are not modelled, only where they come from.                            *)
(***************************************************************************)
EXTENDS ByteOrder, FiniteSetsExt

MessageHeader == << <<"stock_locate", 2>>, <<"tracking_number", 2>>,
                    <<"timestamp", 8>>, <<"message_type", 1>> >>

SystemEventMessage == MessageHeader \o << <<"event_code", 1>> >>

StockDirectoryMessage == MessageHeader \o
  << <<"stock", 8>>, <<"market_category", 1>>, <<"financial_status", 1>>, <<"round_lot_size", 4>>,
     <<"round_lots_only", 1>>, <<"issue_classification", 1>>, <<"issue_sub_type", 2>>,
     <<"authenticity", 1>>, <<"ipo_flag", 1>>, <<"luld_ref_price_tier", 1>>, <<"etp_flag", 1>>,
     <<"etp_leverage_factor", 4>>, <<"inverse_indicator", 1>> >>

AddOrderMessage == MessageHeader \o
  << <<"order_reference_number", 8>>, <<"buy_sell_indicator", 1>>, <<"shares", 4>>,
     <<"stock", 8>>, <<"price", 4>> >>

AddOrderMPIDMessage == MessageHeader \o
  << <<"order_reference_number", 8>>, <<"buy_sell_indicator", 1>>, <<"shares", 4>>,
     <<"stock", 8>>, <<"price", 4>>, <<"attribution", 4>> >>

OrderExecutedMessage == MessageHeader \o
  << <<"order_reference_number", 8>>, <<"executed_shares", 4>>, <<"match_number", 8>> >>

OrderExecutedWithPriceMessage == MessageHeader \o
  << <<"order_reference_number", 8>>, <<"executed_shares", 4>>, <<"match_number", 8>>,
     <<"printable", 1>>, <<"execution_price", 4>> >>

OrderCancelMessage == MessageHeader \o
  << <<"order_reference_number", 8>>, <<"cancelled_shares", 4>> >>

OrderDeleteMessage == MessageHeader \o << <<"order_reference_number", 8>> >>

OrderReplaceMessage == MessageHeader \o
  << <<"original_order_reference_number", 8>>, <<"new_order_reference_number", 8>>,
     <<"shares", 4>>, <<"price", 4>> >>

TradeMessage == MessageHeader \o
  << <<"order_reference_number", 8>>, <<"buy_sell_indicator", 1>>, <<"shares", 4>>,
     <<"stock", 8>>, <<"price", 4>>, <<"match_number", 8>> >>

CrossTradeMessage == MessageHeader \o
  << <<"shares", 8>>, <<"stock", 8>>, <<"cross_price", 4>>, <<"match_number", 8>>, <<"cross_type", 1>> >>

BrokenTradeMessage == MessageHeader \o << <<"match_number", 8>> >>

Layout ==
  [S |-> SystemEventMessage, R |-> StockDirectoryMessage, A |-> AddOrderMessage,
   F |-> AddOrderMPIDMessage, E |-> OrderExecutedMessage, C |-> OrderExecutedWithPriceMessage,
   X |-> OrderCancelMessage, D |-> OrderDeleteMessage, U |-> OrderReplaceMessage,
   P |-> TradeMessage, Q |-> CrossTradeMessage, B |-> BrokenTradeMessage]

(***************************************************************************)
(* SIZE of each struct, and the literals for the types that have none.     *)
(***************************************************************************)
get_message_size ==
  [S |-> 14, R |-> 41, H |-> 27, Y |-> 22, L |-> 28, V |-> 37, W |-> 14, K |-> 30, A |-> 38,
   F |-> 42, E |-> 33, C |-> 38, X |-> 25, D |-> 21, U |-> 37, P |-> 46, Q |-> 42, B |-> 21,
   I |-> 52, N |-> 22]

MessageType == DOMAIN get_message_size

(***************************************************************************)
(* The offset just behind each field of a packed struct.                   *)
(***************************************************************************)
Ends(struct) == Offsets([i \in DOMAIN struct |-> struct[i][2]])

SizeOfStruct(struct) == Ends(struct)[Len(struct)]

FieldEnd(struct, field) == Ends(struct)[CHOOSE i \in DOMAIN struct : struct[i][1] = field]

(***************************************************************************)
(* <<offset, width>> of a field.                                           *)
(***************************************************************************)
FieldPlace(struct, field) ==
  LET i == CHOOSE i \in DOMAIN struct : struct[i][1] = field
  IN  <<Ends(struct)[i - 1], struct[i][2]>>

-----------------------------------------------------------------------------
(***************************************************************************)
(* The fields of NormalizedMessage, all zero after its constructor.        *)
(***************************************************************************)
NormalizedFields == {"type", "instrument_id", "order_id", "price", "quantity", "side",
                     "timestamp", "local_timestamp", "sequence"}

(***************************************************************************)
(* What every conversion reads.  type follows from the message type; local *)
(* timestamps come from the packet, not from the message.                  *)
(***************************************************************************)
Common == [type |-> "message_type", instrument_id |-> "stock_locate",
           timestamp |-> "timestamp", sequence |-> "tracking_number"]

(***************************************************************************)
(* A system event sets instrument_id to 0 without reading the message.     *)
(***************************************************************************)
Zero == "the constant 0"

parse_system_event == [instrument_id |-> Zero] ++ Common

parse_stock_directory == Common

parse_add_order ==
  Common ++ [order_id |-> "order_reference_number", side |-> "buy_sell_indicator",
             quantity |-> "shares", price |-> "price"]

parse_add_order_mpid == parse_add_order

parse_order_executed ==
  Common ++ [order_id |-> "order_reference_number", quantity |-> "executed_shares"]

parse_order_executed_with_price ==
  Common ++ [order_id |-> "order_reference_number", quantity |-> "executed_shares",
             price |-> "execution_price"]

parse_order_cancel ==
  Common ++ [order_id |-> "order_reference_number", quantity |-> "cancelled_shares"]

parse_order_delete == Common ++ [order_id |-> "order_reference_number"]

parse_order_replace ==
  Common ++ [order_id |-> "new_order_reference_number", quantity |-> "shares", price |-> "price"]

parse_trade == parse_add_order

(***************************************************************************)
(* The switch of parse_message: the types that have a conversion.          *)
(***************************************************************************)
Conversion ==
  [S |-> parse_system_event, R |-> parse_stock_directory, A |-> parse_add_order,
   F |-> parse_add_order_mpid, E |-> parse_order_executed, C |-> parse_order_executed_with_price,
   X |-> parse_order_cancel, D |-> parse_order_delete, U |-> parse_order_replace, P |-> parse_trade]

Supported == DOMAIN Conversion

(***************************************************************************)
(* The fields a conversion assigns.                                        *)
(***************************************************************************)
Assigned(t) == DOMAIN Conversion[t] \cup {"local_timestamp"}

(***************************************************************************)
(* The struct fields a conversion reads; stock_directory also copies the   *)
(* symbol into stock_map_.                                                 *)
(***************************************************************************)
FieldsRead(t) ==
  ({Conversion[t][f] : f \in DOMAIN Conversion[t]} \ {Zero})
    \cup (IF t = "R" THEN {"stock"} ELSE {})

(***************************************************************************)
(* The end of the last byte of a message that its conversion reads.        *)
(***************************************************************************)
LastRead(t) == Max({FieldEnd(Layout[t], f) : f \in FieldsRead(t)})
=============================================================================
