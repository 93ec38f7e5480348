---------------------------- MODULE OrderHandler ----------------------------
(***************************************************************************)
(* The control part that MapOrderBook and LadderPoolOrderBook have in      *)
(* common: the activation record of submit() while one request is handled. *)
(* The books differ in how they store resting orders; a book module        *)
(* EXTENDS this one and conjoins its storage to the steps defined here.    *)
(*                                                                         *)
(* A submit() call runs alone: the code has one thread and no callbacks.   *)
(* Its matching loop is modelled one iteration per step; `pc' says where   *)
(* the call is, and no other request is taken until it is "idle" again.    *)
(*   "idle"      no call is running                                        *)
(*   "resubmit"  handle_modify_order has cancelled the old order and is    *)
(*               about to call handle_new_order                            *)
(*   "matching"  handle_new_order has accepted the order and is matching   *)
(*   "returned"  submit() has returned and its caller holds the events     *)
(***************************************************************************)
EXTENDS ExchangeTypes

CONSTANTS
  OrderIds,             \* the identifiers that requests carry
  NewOrderRequests,     \* the requests submitted to the book
  ModifyOrderRequests,
  CancelOrderRequests,
  MaxSequence,          \* bound on the orders accepted in a behaviour
  QuantityMod           \* the modulus of Quantity: 2^32 in the code

ASSUME HandlerAssumption ==
  /\ OrderIds \subseteq Nat
  /\ QuantityMod \in Nat \ {0}
  /\ MaxSequence \in Nat
  /\ NewOrderRequests \subseteq
       {r \in NewOrderRequest : r.order_id \in OrderIds /\ r.quantity < QuantityMod}
  /\ ModifyOrderRequests \subseteq
       {r \in ModifyOrderRequest : r.order_id \in OrderIds /\ r.quantity < QuantityMod}
  /\ CancelOrderRequests \subseteq {r \in CancelOrderRequest : r.order_id \in OrderIds}

VARIABLES
  next_sequence_number, \* next_sequence_number_ of the book
  pc,                   \* where the running call is
  new_req,              \* the argument of handle_new_order
  modifying,            \* handle_new_order was called by handle_modify_order
  incoming,             \* the local `incoming' of handle_new_order
  events                \* the vector that submit() fills and returns

handlerVars == <<next_sequence_number, pc, new_req, modifying, incoming, events>>

HandlerTypeOK ==
  /\ next_sequence_number \in Nat \ {0}
  /\ pc \in {"idle", "resubmit", "matching", "returned"}
  /\ new_req \in NewOrderRequest
  /\ modifying \in BOOLEAN
  /\ incoming \in Order
  /\ events \in Seq(Event)

HandlerInit ==
  /\ next_sequence_number = 1
  /\ pc = "idle"
  /\ new_req = NoRequest
  /\ modifying = FALSE
  /\ incoming = NoOrder
  /\ events = <<>>

\* A call may start. MaxSequence bounds the orders a behaviour accepts.
Ready == pc = "idle" /\ next_sequence_number <= MaxSequence

is_market == new_req.order_type = "Market"

-----------------------------------------------------------------------------
(***************************************************************************)
(* Events, field by field as the code's designated initialisers set them.  *)
(***************************************************************************)
NewRejected(req, why) ==
  [DefaultEvent EXCEPT !.event_type = "OrderRejected", !.request_type = "New",
     !.order_id = req.order_id, !.order_type = req.order_type,
     !.symbol_id = req.symbol_id, !.side = req.side, !.quantity = req.quantity,
     !.price = req.price, !.reason = why]

ModifyRejected(req, why) ==
  [DefaultEvent EXCEPT !.event_type = "OrderRejected", !.request_type = "Modify",
     !.order_id = req.order_id, !.order_type = req.order_type,
     !.quantity = req.quantity, !.price = req.price, !.reason = why]

CancelRejected(req, why) ==
  [DefaultEvent EXCEPT !.event_type = "OrderRejected", !.request_type = "Cancel",
     !.order_id = req.order_id, !.reason = why]

OrderCancelled(order) ==
  [DefaultEvent EXCEPT !.event_type = "OrderCancelled", !.request_type = "Cancel",
     !.order_id = order.order_id, !.order_type = "Limit",
     !.symbol_id = order.symbol_id, !.side = order.side,
     !.quantity = order.remaining_quantity, !.price = order.price]

OrderAccepted(req) ==
  [DefaultEvent EXCEPT !.event_type = "OrderAccepted", !.request_type = "New",
     !.order_id = req.order_id, !.order_type = req.order_type,
     !.symbol_id = req.symbol_id, !.side = req.side, !.quantity = req.quantity,
     !.price = req.price]

\* Mutant: the event reports what the order asked for, not what rests.
OrderRested_Original(order) ==
  [DefaultEvent EXCEPT !.event_type = "OrderRested", !.request_type = "New",
     !.order_id = order.order_id, !.order_type = "Limit",
     !.symbol_id = order.symbol_id, !.side = order.side,
     !.quantity = order.original_quantity, !.price = order.price]

OrderRested(order) ==
  [DefaultEvent EXCEPT !.event_type = "OrderRested", !.request_type = "New",
     !.order_id = order.order_id, !.order_type = "Limit",
     !.symbol_id = order.symbol_id, !.side = order.side,
     !.quantity = order.remaining_quantity, !.price = order.price]

\* Mutant: the event reports the whole order, not what is unfilled.
UnfilledMarketOrderCancelled_Original(order) ==
  [DefaultEvent EXCEPT !.event_type = "UnfilledMarketOrderCancelled",
     !.request_type = "New", !.aggressive_order_id = order.order_id,
     !.order_type = "Market", !.symbol_id = order.symbol_id, !.side = order.side,
     !.quantity = order.original_quantity, !.price = order.price]

UnfilledMarketOrderCancelled(order) ==
  [DefaultEvent EXCEPT !.event_type = "UnfilledMarketOrderCancelled",
     !.request_type = "New", !.aggressive_order_id = order.order_id,
     !.order_type = "Market", !.symbol_id = order.symbol_id, !.side = order.side,
     !.quantity = order.remaining_quantity, !.price = order.price]

OrderModified(req) ==
  [DefaultEvent EXCEPT !.event_type = "OrderModified", !.request_type = "Modify",
     !.order_id = req.order_id, !.order_type = req.order_type,
     !.symbol_id = req.symbol_id, !.side = req.side, !.quantity = req.quantity,
     !.price = req.price]

Trade(resting, qty) ==
  [DefaultEvent EXCEPT !.event_type = "Trade", !.request_type = "New",
     !.resting_order_id = resting.order_id, !.aggressive_order_id = incoming.order_id,
     !.order_type = new_req.order_type, !.symbol_id = resting.symbol_id,
     !.side = incoming.side, !.quantity = qty, !.price = resting.price]

-----------------------------------------------------------------------------
(***************************************************************************)
(* Steps of the handler.                                                   *)
(***************************************************************************)

\* handle_new_order returns; under handle_modify_order the modify then reports.
Return(req, evs) ==
  /\ pc' = "returned"
  /\ new_req' = NoRequest
  /\ incoming' = NoOrder
  /\ modifying' = FALSE
  /\ events' = IF modifying THEN Append(evs, OrderModified(req)) ELSE evs

\* The head of handle_new_order: `why' is what the checks say of the request.
handle_new_order(req, why, evs) ==
  IF why # "None"
  THEN /\ Return(req, Append(evs, NewRejected(req, why)))
       /\ UNCHANGED next_sequence_number
  ELSE /\ incoming' = [order_id |-> req.order_id, symbol_id |-> req.symbol_id,
                       side |-> req.side, price |-> req.price,
                       original_quantity |-> req.quantity,
                       remaining_quantity |-> req.quantity,
                       sequence_number |-> next_sequence_number,
                       order_status |-> "New"]
       /\ next_sequence_number' = next_sequence_number + 1
       /\ events' = Append(evs, OrderAccepted(req))
       /\ pc' = "matching"
       /\ new_req' = req
       /\ UNCHANGED modifying

\* submit() answers at once with one event.
Answer(event) ==
  /\ events' = <<event>>
  /\ pc' = "returned"
  /\ UNCHANGED <<next_sequence_number, new_req, modifying, incoming>>

\* handle_modify_order has called handle_cancel_order, whose event is `event',
\* and builds the request for handle_new_order from the order it replaces.
BeginModify(req, old, event) ==
  /\ events' = <<event>>
  /\ pc' = "resubmit"
  /\ modifying' = TRUE
  /\ new_req' = [order_type |-> req.order_type, order_id |-> req.order_id,
                 symbol_id |-> old.symbol_id, side |-> old.side,
                 price |-> req.price, quantity |-> req.quantity]
  /\ UNCHANGED <<next_sequence_number, incoming>>

\* The caller is done with the events, and can submit again.
Collect ==
  /\ pc = "returned"
  /\ pc' = "idle"
  /\ events' = <<>>
  /\ UNCHANGED <<next_sequence_number, new_req, modifying, incoming>>

\* Mutant: an equal price does not cross.
Crosses_Strictly(price) ==
  \/ is_market
  \/ incoming.side = "Buy" /\ price < incoming.price
  \/ incoming.side = "Sell" /\ price > incoming.price

\* Whether the incoming order may trade at `price': a market order always does.
Crosses(price) ==
  \/ is_market
  \/ incoming.side = "Buy" /\ price <= incoming.price
  \/ incoming.side = "Sell" /\ price >= incoming.price

\* Mutant: the whole resting order is traded, however little is wanted.
trade_qty_NoMin(resting) == resting.remaining_quantity

trade_qty(resting) ==
  IF resting.remaining_quantity <= incoming.remaining_quantity
  THEN resting.remaining_quantity
  ELSE incoming.remaining_quantity

\* The part of one matching iteration that is not storage.
TradeWith(resting) ==
  /\ incoming' = [incoming EXCEPT !.remaining_quantity = @ - trade_qty(resting)]
  /\ events' = Append(events, Trade(resting, trade_qty(resting)))
  /\ UNCHANGED <<next_sequence_number, pc, new_req, modifying>>

\* Mutant: the remainder of a market order is reported only when some of it traded.
FinishWithoutResting_IfTraded ==
  /\ Return(new_req,
            IF incoming.remaining_quantity \in {0, incoming.original_quantity} THEN events
            ELSE Append(events, UnfilledMarketOrderCancelled(incoming)))
  /\ UNCHANGED next_sequence_number

\* What is left of the order after the matching loop, when it does not rest.
FinishWithoutResting ==
  /\ Return(new_req,
            IF incoming.remaining_quantity = 0 THEN events
            ELSE Append(events, UnfilledMarketOrderCancelled(incoming)))
  /\ UNCHANGED next_sequence_number
=============================================================================
