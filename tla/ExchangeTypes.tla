--------------------------- MODULE ExchangeTypes ---------------------------
(***************************************************************************)
(* The values the exchange passes around: include/types.hpp (enumerations),*)
(* include/order.hpp (orders and requests) and include/event.hpp (events), *)
(* and the stateless request checks that both order books make.            *)
(*                                                                         *)
(* Identifiers, symbols, prices, quantities are naturals; 0 is the         *)
(* "not given" value that the code's checks refuse.                        *)
(***************************************************************************)
EXTENDS Integers, Sequences

BookSides == {"Buy", "Sell"}
Sides == BookSides \cup {"Unknown"}
OrderTypes == {"Unknown", "Limit", "Market"}
OrderStatuses == {"Unknown", "New", "PartiallyFilled", "Resting"}
EventTypes ==
  {"Unknown", "OrderAccepted", "OrderRejected", "OrderCancelled", "OrderModified",
   "OrderRested", "UnfilledMarketOrderCancelled", "Trade", "BookUpdated"}
RequestTypes == {"Unknown", "New", "Modify", "Cancel"}
Reasons ==
  {"None", "UnknownOrderType", "UnknownSide", "InvalidOrderId", "InvalidSymbolId",
   "InvalidLimitPrice", "InvalidQuantity", "DuplicateActiveOrderId", "OrderNotFound",
   "OrderIdNotFound"}

Opposite(side) == IF side = "Buy" THEN "Sell" ELSE "Buy"

Order ==
  [order_id : Nat, symbol_id : Nat, side : Sides, price : Nat,
   original_quantity : Nat, remaining_quantity : Nat,
   sequence_number : Nat, order_status : OrderStatuses]

\* A default-constructed Order: the contents of a node that was never used.
NoOrder ==
  [order_id |-> 0, symbol_id |-> 0, side |-> "Unknown", price |-> 0,
   original_quantity |-> 0, remaining_quantity |-> 0,
   sequence_number |-> 0, order_status |-> "Unknown"]

NewOrderRequest ==
  [order_type : OrderTypes, order_id : Nat, symbol_id : Nat, side : Sides,
   price : Nat, quantity : Nat]

ModifyOrderRequest ==
  [order_type : OrderTypes, order_id : Nat, price : Nat, quantity : Nat]

CancelOrderRequest == [order_id : Nat]

NoRequest ==
  [order_type |-> "Unknown", order_id |-> 0, symbol_id |-> 0, side |-> "Unknown",
   price |-> 0, quantity |-> 0]

\* The fields of Event that a book fills in. The engine adds its own
\* (input_sequence_number, best_bid, ...) when it publishes the event.
Event ==
  [event_type : EventTypes, request_type : RequestTypes, order_id : Nat,
   resting_order_id : Nat, aggressive_order_id : Nat, order_type : OrderTypes,
   symbol_id : Nat, side : Sides, quantity : Nat, price : Nat, reason : Reasons]

\* The default-constructed Event, on which the designated initialisers build.
DefaultEvent ==
  [event_type |-> "Unknown", request_type |-> "Unknown", order_id |-> 0,
   resting_order_id |-> 0, aggressive_order_id |-> 0, order_type |-> "Unknown",
   symbol_id |-> 0, side |-> "Unknown", quantity |-> 0, price |-> 0, reason |-> "None"]

-----------------------------------------------------------------------------
(***************************************************************************)
(* Request checks, in the order of the code's early returns.               *)
(***************************************************************************)

\* is_valid_new_order_request: the reason it reports, "None" when it accepts.
is_valid_new_order_request(req) ==
  IF req.order_type = "Unknown" THEN "UnknownOrderType"
  ELSE IF req.order_id = 0 THEN "InvalidOrderId"
  ELSE IF req.symbol_id = 0 THEN "InvalidSymbolId"
  ELSE IF req.side = "Unknown" THEN "UnknownSide"
  ELSE IF req.order_type = "Limit" /\ req.price = 0 THEN "InvalidLimitPrice"
  ELSE IF req.quantity = 0 THEN "InvalidQuantity"
  ELSE "None"

\* A modify keeps the side and the symbol of the order, so it checks neither.
is_valid_modify_order_request(req) ==
  IF req.order_type = "Unknown" THEN "UnknownOrderType"
  ELSE IF req.order_id = 0 THEN "InvalidOrderId"
  ELSE IF req.order_type = "Limit" /\ req.price = 0 THEN "InvalidLimitPrice"
  ELSE IF req.quantity = 0 THEN "InvalidQuantity"
  ELSE "None"

is_valid_cancel_order_request(req) ==
  IF req.order_id = 0 THEN "InvalidOrderId" ELSE "None"
=============================================================================
