----------------------------- MODULE ItchDecoder -----------------------------
(***************************************************************************)
(* The decoder of framed ITCH 5.0 messages (src/itch/itch.cpp), which has  *)
(* no state.  A byte is a number below 256; a big-endian number is kept as *)
(* its bytes, the digits that read_be puts together.  A std::optional is a *)
(* set of at most one element.                                             *)
(***************************************************************************)
EXTENDS Integers, Sequences

Byte == 0..255

kFramePrefixBytes == 2
kCommonHeaderBytes == 11

-----------------------------------------------------------------------------
(* The messages: the members of each struct in the order of declaration,   *)
(* with the offset that decode_message reads them from and their width.    *)

Field(name, offset, width) == [name |-> name, offset |-> offset, width |-> width]

HeaderLayout ==
  <<Field("stock_locate", 1, 2), Field("tracking_number", 3, 2), Field("timestamp", 5, 6)>>

ReferenceAt11 == <<Field("order_reference", 11, 8)>>

SideToPrice ==
  <<Field("side", 19, 1), Field("shares", 20, 4), Field("stock", 24, 8), Field("price", 32, 4)>>

\* A match number read from one byte too early.
Execution_shifted ==
  <<Field("executed_shares", 19, 4), Field("match_number", 22, 8)>>

Execution == <<Field("executed_shares", 19, 4), Field("match_number", 23, 8)>>

AdministrativeLayout ==
  [S |-> <<Field("event_code", 11, 1)>>,
   R |-> <<Field("stock", 11, 8), Field("market_category", 19, 1),
           Field("financial_status_indicator", 20, 1), Field("round_lot_size", 21, 4),
           Field("round_lots_only", 25, 1), Field("issue_classification", 26, 1),
           Field("issue_sub_type", 27, 2), Field("authenticity", 29, 1),
           Field("short_sale_threshold_indicator", 30, 1), Field("ipo_flag", 31, 1),
           Field("luld_reference_price_tier", 32, 1), Field("etp_flag", 33, 1),
           Field("etp_leverage_factor", 34, 4), Field("inverse_indicator", 38, 1)>>,
   H |-> <<Field("stock", 11, 8), Field("trading_state", 19, 1), Field("reserved", 20, 1),
           Field("reason", 21, 4)>>]

OrderLayout ==
  [A |-> ReferenceAt11 \o SideToPrice,
   F |-> ReferenceAt11 \o SideToPrice \o <<Field("attribution", 36, 4)>>,
   E |-> ReferenceAt11 \o Execution,
   C |-> ReferenceAt11 \o Execution \o <<Field("printable", 31, 1), Field("execution_price", 32, 4)>>,
   X |-> ReferenceAt11 \o <<Field("canceled_shares", 19, 4)>>,
   D |-> ReferenceAt11,
   U |-> <<Field("original_order_reference", 11, 8), Field("new_order_reference", 19, 8),
           Field("shares", 27, 4), Field("price", 31, 4)>>]

TradeLayout ==
  [P |-> ReferenceAt11 \o SideToPrice \o <<Field("match_number", 36, 8)>>,
   Q |-> <<Field("shares", 11, 8), Field("stock", 19, 8), Field("cross_price", 27, 4),
           Field("match_number", 31, 8), Field("cross_type", 39, 1)>>,
   B |-> <<Field("match_number", 11, 8)>>,
   I |-> <<Field("paired_shares", 11, 8), Field("imbalance_shares", 19, 8),
           Field("imbalance_direction", 27, 1), Field("stock", 28, 8), Field("far_price", 36, 4),
           Field("near_price", 40, 4), Field("current_reference_price", 44, 4),
           Field("cross_type", 48, 1), Field("price_variation_indicator", 49, 1)>>]

Layout(type) ==
  CASE type \in DOMAIN AdministrativeLayout -> AdministrativeLayout[type]
    [] type \in DOMAIN OrderLayout -> OrderLayout[type]
    [] type \in DOMAIN TradeLayout -> TradeLayout[type]

\* The size that decode_message requires of a message of each type it knows.
Size == [S |-> 12, R |-> 39, H |-> 25, A |-> 36, F |-> 40, E |-> 31, C |-> 36, X |-> 23,
         D |-> 19, U |-> 35, P |-> 44, Q |-> 40, B |-> 19, I |-> 50]

\* The first byte of a message of each type.
Code == [S |-> 83, R |-> 82, H |-> 72, A |-> 65, F |-> 70, E |-> 69, C |-> 67, X |-> 88,
         D |-> 68, U |-> 85, P |-> 80, Q |-> 81, B |-> 66, I |-> 73]

Buy == 66
Sell == 83

-----------------------------------------------------------------------------

\* read_be, read_timestamp, read_chars: the bytes of a field.
read(message, f) == SubSeq(message, f.offset + 1, f.offset + f.width)

read_fields(message, layout) == [i \in DOMAIN layout |-> read(message, layout[i])]

read_header(message) == read_fields(message, HeaderLayout)

valid_side(byte) == byte \in {Buy, Sell}

need_more_data == [status |-> "NeedMoreData"]

error(code, offset) == [status |-> "Error", code |-> code, offset |-> offset]

\* Consumes the message, and not the length in front of it.
complete_without_prefix(event, bytes_consumed) ==
  [status |-> "Complete", event |-> event, bytes_consumed |-> bytes_consumed - kFramePrefixBytes]

complete(event, bytes_consumed) ==
  [status |-> "Complete", event |-> event, bytes_consumed |-> bytes_consumed]

TypesOf(byte) == {t \in DOMAIN Code : Code[t] = byte}

Known(byte) == TypesOf(byte) # {}

HasSide(layout) == \E i \in DOMAIN layout : layout[i].name = "side"

\* A message of another type is passed on unread, with its header if it is long
\* enough to have one.
Skipped(message) ==
  [type |-> message[1],
   header |-> IF Len(message) >= kCommonHeaderBytes THEN {read_header(message)} ELSE {},
   body |-> <<>>]

\* The event of a message of a type and size that the decoder knows.
Event(message, layout) ==
  [type |-> message[1], header |-> {read_header(message)}, body |-> read_fields(message, layout)]

decode_known(message, type, bytes_consumed) ==
  LET layout == Layout(type)
  IN CASE Len(message) # Size[type] ->
            error("UnexpectedMessageLength", kFramePrefixBytes)
       [] Len(message) = Size[type] /\ HasSide(layout) /\ ~valid_side(message[20]) ->
            error("InvalidSide", kFramePrefixBytes + 19)
       [] OTHER ->
            complete(Event(message, layout), bytes_consumed)

decode_message(message, bytes_consumed) ==
  IF Known(message[1])
    THEN decode_known(message, CHOOSE t \in TypesOf(message[1]) : TRUE, bytes_consumed)
    ELSE complete(Skipped(message), bytes_consumed)

\* The 16-bit big-endian length in front of a message.
Length(prefix) == 256 * prefix[1] + prefix[2]

total_length(message_length) == kFramePrefixBytes + message_length

decode_next(input) ==
  LET total == total_length(Length(input))
  IN CASE Len(input) < kFramePrefixBytes -> need_more_data
       [] Len(input) >= kFramePrefixBytes /\ Length(input) = 0 -> error("InvalidFrameLength", 0)
       [] Len(input) >= kFramePrefixBytes /\ Length(input) # 0 /\ Len(input) < total ->
            need_more_data
       [] OTHER -> decode_message(SubSeq(input, kFramePrefixBytes + 1, total), total)
=============================================================================
