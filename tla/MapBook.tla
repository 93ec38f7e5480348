------------------------------ MODULE MapBook ------------------------------
(***************************************************************************)
(* MapOrderBook (include/map_order_book.hpp and src/order_book.cpp): the   *)
(* price levels of a side are a std::map from the prices at which orders   *)
(* rest, the orders of a level are a std::list in arrival order, and the   *)
(* lookup holds the side, the price and an iterator of each order.         *)
(*                                                                         *)
(* A map is a function whose DOMAIN is the set of its keys. A list node    *)
(* keeps one order for its whole life, so an iterator is the sequence      *)
(* number of the order it points to.                                       *)
(***************************************************************************)
EXTENDS OrderHandler, SequencesExt

VARIABLES
  levels,         \* bids_ is levels["Buy"], asks_ is levels["Sell"]
  order_lookup    \* NoLocation where the identifier is absent

bookVars == <<levels, order_lookup>>
vars == <<handlerVars, bookVars>>

PriceLevel == [orders : Seq(Order), total_quantity : 0 .. QuantityMod - 1]
OrderLocation == [side : Sides, price : Nat, it : Nat]

NoLocation == [side |-> "Unknown", price |-> 0, it |-> 0]
NoLevel == [orders |-> <<>>, total_quantity |-> 0]

MapTypeOK ==
  /\ DOMAIN levels = BookSides
  /\ \A s \in BookSides : /\ DOMAIN levels[s] \subseteq Nat
                          /\ \A p \in DOMAIN levels[s] : levels[s][p] \in PriceLevel
  /\ order_lookup \in [OrderIds -> OrderLocation]

TypeOK == HandlerTypeOK /\ MapTypeOK

Init ==
  /\ HandlerInit
  /\ levels = [s \in BookSides |-> [p \in {} |-> NoLevel]]
  /\ order_lookup = [id \in OrderIds |-> NoLocation]

-----------------------------------------------------------------------------
contains_order(id) == order_lookup[id] # NoLocation

\* Mutant: the bids are sorted as the asks are.
best_price_Ascending(s) == Min(DOMAIN levels[s])

\* The key of begin(): bids_ is sorted by std::greater.
best_price(s) ==
  IF s = "Buy" THEN Max(DOMAIN levels[s]) ELSE Min(DOMAIN levels[s])

\* operator[] of the map: a key that is absent gets an empty level.
level_at(s, p) == IF p \in DOMAIN levels[s] THEN levels[s][p] ELSE NoLevel

\* Mutant: a level that became empty stays in the map.
level_set_KeepsEmpty(s, p, level) ==
  [levels EXCEPT ![s] = [q \in DOMAIN @ \cup {p} |-> IF q = p THEN level ELSE @[q]]]

\* The levels after the orders of one level changed: an empty level is erased.
level_set(s, p, level) ==
  [levels EXCEPT ![s] =
     IF level.orders = <<>> THEN Restrict(@, DOMAIN @ \ {p})
     ELSE [q \in DOMAIN @ \cup {p} |-> IF q = p THEN level ELSE @[q]]]

\* Where in its list the order is to which an iterator points, and that order.
position(location) ==
  CHOOSE i \in DOMAIN levels[location.side][location.price].orders :
    levels[location.side][location.price].orders[i].sequence_number = location.it

order_at(location) ==
  levels[location.side][location.price].orders[position(location)]

-----------------------------------------------------------------------------
(***************************************************************************)
(* The reasons for which the handlers refuse a request, in the order of    *)
(* the code's early returns; "None" when they go on.                       *)
(***************************************************************************)
new_order_reason(req) ==
  IF is_valid_new_order_request(req) # "None" THEN is_valid_new_order_request(req)
  ELSE IF contains_order(req.order_id) THEN "DuplicateActiveOrderId"
  ELSE "None"

modify_order_reason(req) ==
  IF is_valid_modify_order_request(req) # "None" THEN is_valid_modify_order_request(req)
  ELSE IF ~contains_order(req.order_id) THEN "OrderIdNotFound"
  ELSE "None"

\* handle_cancel_order's checks and that of remove_order, which it calls.
cancel_order_reason(req) ==
  LET location == order_lookup[req.order_id]
  IN  IF is_valid_cancel_order_request(req) # "None"
      THEN is_valid_cancel_order_request(req)
      ELSE IF ~contains_order(req.order_id) THEN "OrderIdNotFound"
      ELSE IF location.price \notin DOMAIN levels[location.side] THEN "OrderNotFound"
      ELSE "None"

-----------------------------------------------------------------------------
(***************************************************************************)
(* Cancel and modify.                                                      *)
(***************************************************************************)

\* Mutant: the order leaves the list but not the lookup.
remove_order_KeepsLookup(id) ==
  LET location == order_lookup[id]
      level == levels[location.side][location.price]
      removed == order_at(location).remaining_quantity
  IN  /\ levels' = level_set(location.side, location.price,
                     [orders |-> RemoveAt(level.orders, position(location)),
                      total_quantity |-> (level.total_quantity - removed) % QuantityMod])
      /\ UNCHANGED order_lookup

\* remove_order of an order that passed the checks above.
remove_order(id) ==
  LET location == order_lookup[id]
      level == levels[location.side][location.price]
      removed == order_at(location).remaining_quantity
  IN  /\ levels' = level_set(location.side, location.price,
                     [orders |-> RemoveAt(level.orders, position(location)),
                      total_quantity |-> (level.total_quantity - removed) % QuantityMod])
      /\ order_lookup' = [order_lookup EXCEPT ![id] = NoLocation]

\* handle_cancel_order: the storage it changes, and the one event it adds.
CancelStorage(req) ==
  IF cancel_order_reason(req) = "None" THEN remove_order(req.order_id)
  ELSE UNCHANGED bookVars

cancel_event(req) ==
  IF cancel_order_reason(req) = "None"
  THEN OrderCancelled(order_at(order_lookup[req.order_id]))
  ELSE CancelRejected(req, cancel_order_reason(req))

SubmitCancel(req) ==
  /\ pc = "idle"
  /\ Answer(cancel_event(req))
  /\ CancelStorage(req)

SubmitModify(req) ==
  /\ Ready
  /\ IF modify_order_reason(req) # "None"
     THEN /\ Answer(ModifyRejected(req, modify_order_reason(req)))
          /\ UNCHANGED bookVars
     ELSE LET cancel_req == [order_id |-> req.order_id]
          IN  /\ BeginModify(req, order_at(order_lookup[req.order_id]),
                             cancel_event(cancel_req))
              /\ CancelStorage(cancel_req)

\* handle_modify_order calls handle_new_order.
Resubmit ==
  /\ pc = "resubmit"
  /\ handle_new_order(new_req, new_order_reason(new_req), events)
  /\ UNCHANGED bookVars

-----------------------------------------------------------------------------
(***************************************************************************)
(* New orders.                                                             *)
(***************************************************************************)
SubmitNew(req) ==
  /\ Ready
  /\ handle_new_order(req, new_order_reason(req), <<>>)
  /\ UNCHANGED bookVars

\* The conditions of the matching loop over the levels of side s.
CanMatch(s) ==
  /\ incoming.remaining_quantity > 0
  /\ DOMAIN levels[s] # {}
  /\ Crosses(best_price(s))

\* The list of a level after its first order traded qty.
AfterTrade(orders, qty) ==
  LET left == Head(orders).remaining_quantity - qty
  IN  IF left = 0 THEN Tail(orders)
      ELSE [orders EXCEPT ![1].remaining_quantity = left,
                         ![1].order_status = "PartiallyFilled"]

\* One iteration of the matching loop against side s.
MatchFront(s) ==
  LET p == best_price(s)
      level == levels[s][p]
      resting == Head(level.orders)
      qty == trade_qty(resting)
  IN  /\ TradeWith(resting)
      /\ levels' = level_set(s, p,
                     [orders |-> AfterTrade(level.orders, qty),
                      total_quantity |-> (level.total_quantity - qty) % QuantityMod])
      /\ order_lookup' = IF resting.remaining_quantity = qty
                         THEN [order_lookup EXCEPT ![resting.order_id] = NoLocation]
                         ELSE order_lookup

\* The outer loop finds the level at begin() empty: its inner loop trades nothing,
\* and the level is erased. (A level never stays empty, so it never does.)
PassEmptyLevel(s) ==
  /\ levels' = level_set(s, best_price(s), levels[s][best_price(s)])
  /\ UNCHANGED <<handlerVars, order_lookup>>

MatchBest(s) ==
  IF levels[s][best_price(s)].orders = <<>> THEN PassEmptyLevel(s) ELSE MatchFront(s)

match_buy ==
  /\ pc = "matching" /\ incoming.side = "Buy"
  /\ CanMatch("Sell")
  /\ MatchBest("Sell")

match_sell ==
  /\ pc = "matching" /\ incoming.side = "Sell"
  /\ CanMatch("Buy")
  /\ MatchBest("Buy")

MatchingDone == pc = "matching" /\ ~CanMatch(Opposite(incoming.side))

\* Mutant: the order goes to the front of its level.
AtEndOf_Front(orders, o) == <<o>> \o orders

\* push_back.
AtEndOf(orders, o) == Append(orders, o)

\* add_resting_order: what is left of a limit order enters the book.
add_resting_order ==
  /\ MatchingDone
  /\ incoming.remaining_quantity > 0 /\ ~is_market
  /\ LET s == incoming.side
         p == incoming.price
         level == level_at(s, p)
     IN  /\ levels' = level_set(s, p,
              [orders |-> AtEndOf(level.orders, [incoming EXCEPT !.order_status = "Resting"]),
               total_quantity |->
                 (level.total_quantity + incoming.remaining_quantity) % QuantityMod])
         /\ order_lookup' = [order_lookup EXCEPT ![incoming.order_id] =
              [side |-> s, price |-> p, it |-> incoming.sequence_number]]
  /\ Return(new_req, Append(events, OrderRested(incoming)))
  /\ UNCHANGED next_sequence_number

\* The order is filled, or it is a market order and its remainder is cancelled.
NothingRests ==
  /\ MatchingDone
  /\ incoming.remaining_quantity = 0 \/ is_market
  /\ FinishWithoutResting
  /\ UNCHANGED bookVars

-----------------------------------------------------------------------------
Submit ==
  \/ \E req \in NewOrderRequests : SubmitNew(req)
  \/ \E req \in ModifyOrderRequests : SubmitModify(req)
  \/ \E req \in CancelOrderRequests : SubmitCancel(req)

\* The steps that follow once a call has started.
Continue ==
  \/ Resubmit
  \/ match_buy \/ match_sell
  \/ add_resting_order \/ NothingRests
  \/ Collect /\ UNCHANGED bookVars

Next == Submit \/ Continue

Spec == Init /\ [][Next]_vars
=============================================================================
