---------------------------- MODULE PriceTimeBook ----------------------------
(***************************************************************************)
(* What an order book promises, whatever it stores its orders in: the      *)
(* resting orders are a function of their identifiers, and an incoming     *)
(* order trades with the resting order of the other side that comes first  *)
(* in price-time priority, as long as the prices cross.                    *)
(*                                                                         *)
(* The two order books of the code differ in the prices they accept for a  *)
(* limit order; TradablePrices is that set.                                *)
(***************************************************************************)
EXTENDS OrderHandler

CONSTANT TradablePrices

VARIABLE resting        \* the order of each identifier, NoOrder when not resting

vars == <<handlerVars, resting>>

TypeOK == HandlerTypeOK /\ resting \in [OrderIds -> Order]

Init == HandlerInit /\ resting = [id \in OrderIds |-> NoOrder]

contains_order(id) == resting[id] # NoOrder

\* The orders resting on side s, and those with the best price and, among
\* them, the earliest sequence number.
RestingOn(s) == {id \in OrderIds : contains_order(id) /\ resting[id].side = s}

BetterPrice(s, p, q) == IF s = "Buy" THEN p > q ELSE p < q

Precedes(a, b) ==
  \/ BetterPrice(a.side, a.price, b.price)
  \/ a.price = b.price /\ a.sequence_number < b.sequence_number

IsFront(s, id) ==
  /\ id \in RestingOn(s)
  /\ \A other \in RestingOn(s) \ {id} : Precedes(resting[id], resting[other])

-----------------------------------------------------------------------------
new_order_reason(req) ==
  IF is_valid_new_order_request(req) # "None" THEN is_valid_new_order_request(req)
  ELSE IF req.order_type = "Limit" /\ req.price \notin TradablePrices
       THEN "InvalidLimitPrice"
  ELSE IF contains_order(req.order_id) THEN "DuplicateActiveOrderId"
  ELSE "None"

modify_order_reason(req) ==
  IF is_valid_modify_order_request(req) # "None" THEN is_valid_modify_order_request(req)
  ELSE IF req.order_type = "Limit" /\ req.price \notin TradablePrices
       THEN "InvalidLimitPrice"
  ELSE IF ~contains_order(req.order_id) THEN "OrderIdNotFound"
  ELSE "None"

cancel_order_reason(req) ==
  IF is_valid_cancel_order_request(req) # "None" THEN is_valid_cancel_order_request(req)
  ELSE IF ~contains_order(req.order_id) THEN "OrderIdNotFound"
  ELSE "None"

Forget(id) == resting' = [resting EXCEPT ![id] = NoOrder]

SubmitNew(req) ==
  /\ Ready
  /\ handle_new_order(req, new_order_reason(req), <<>>)
  /\ UNCHANGED resting

SubmitCancel(req) ==
  /\ pc = "idle"
  /\ IF cancel_order_reason(req) = "None"
     THEN Answer(OrderCancelled(resting[req.order_id])) /\ Forget(req.order_id)
     ELSE Answer(CancelRejected(req, cancel_order_reason(req))) /\ UNCHANGED resting

\* A modify that passes its checks cancels the order; nothing can refuse that.
SubmitModify(req) ==
  /\ Ready
  /\ IF modify_order_reason(req) = "None"
     THEN /\ BeginModify(req, resting[req.order_id], OrderCancelled(resting[req.order_id]))
          /\ Forget(req.order_id)
     ELSE /\ Answer(ModifyRejected(req, modify_order_reason(req)))
          /\ UNCHANGED resting

\* The second half of a modify is always accepted: a modify loses no order.
Resubmit ==
  /\ pc = "resubmit"
  /\ handle_new_order(new_req, "None", events)
  /\ UNCHANGED resting

Match(id) ==
  /\ pc = "matching"
  /\ incoming.remaining_quantity > 0
  /\ IsFront(Opposite(incoming.side), id)
  /\ Crosses(resting[id].price)
  /\ TradeWith(resting[id])
  /\ IF resting[id].remaining_quantity = trade_qty(resting[id])
     THEN Forget(id)
     ELSE resting' = [resting EXCEPT
                        ![id].remaining_quantity = @ - trade_qty(resting[id]),
                        ![id].order_status = "PartiallyFilled"]

MatchingDone ==
  /\ pc = "matching"
  /\ \/ incoming.remaining_quantity = 0
     \/ \A id \in RestingOn(Opposite(incoming.side)) : ~Crosses(resting[id].price)

Rest ==
  /\ MatchingDone
  /\ incoming.remaining_quantity > 0 /\ ~is_market
  /\ resting' = [resting EXCEPT
                   ![incoming.order_id] = [incoming EXCEPT !.order_status = "Resting"]]
  /\ Return(new_req, Append(events, OrderRested(incoming)))
  /\ UNCHANGED next_sequence_number

NothingRests ==
  /\ MatchingDone
  /\ incoming.remaining_quantity = 0 \/ is_market
  /\ FinishWithoutResting
  /\ UNCHANGED resting

Continue ==
  \/ Resubmit
  \/ \E id \in OrderIds : Match(id)
  \/ Rest \/ NothingRests
  \/ Collect /\ UNCHANGED resting

Next ==
  \/ \E req \in NewOrderRequests : SubmitNew(req)
  \/ \E req \in ModifyOrderRequests : SubmitModify(req)
  \/ \E req \in CancelOrderRequests : SubmitCancel(req)
  \/ Continue

Spec == Init /\ [][Next]_vars

FairSpec == Spec /\ WF_vars(Continue)
=============================================================================
