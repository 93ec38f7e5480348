----------------------------- MODULE MCRequests -----------------------------
(***************************************************************************)
(* Small sets of requests for TLC, from sets of prices and quantities.     *)
(***************************************************************************)
EXTENDS OrderHandler, FiniteSetsExt

CONSTANTS Prices, Quantities

Ids == OrderIds \ {0}

Limit(id, side, price, qty) ==
  [order_type |-> "Limit", order_id |-> id, symbol_id |-> 1, side |-> side,
   price |-> price, quantity |-> qty]

Market(id, side, qty) == [Limit(id, side, 0, qty) EXCEPT !.order_type = "Market"]

LimitOrders ==
  {Limit(id, s, p, q) : id \in Ids, s \in BookSides, p \in Prices, q \in Quantities}

MCNewOrderRequests ==
  LimitOrders \cup {Market(id, s, q) : id \in Ids, s \in BookSides, q \in Quantities}

\* One request for each check that refuses a request.
Malformed ==
  LET ok == Limit(Min(Ids), "Buy", Min(Prices), 1)
  IN  {[ok EXCEPT !.order_type = "Unknown"], [ok EXCEPT !.order_id = 0],
       [ok EXCEPT !.symbol_id = 0], [ok EXCEPT !.side = "Unknown"],
       [ok EXCEPT !.price = 0], [ok EXCEPT !.quantity = 0]}

Modify(r) == [order_type |-> r.order_type, order_id |-> r.order_id,
              price |-> r.price, quantity |-> r.quantity]

MCModifyOrderRequests == {Modify(r) : r \in MCNewOrderRequests}
LimitModifies == {Modify(r) : r \in LimitOrders}

MCCancelOrderRequests == {[order_id |-> id] : id \in OrderIds}

WithMalformedNew == MCNewOrderRequests \cup Malformed
WithMalformedModify == MCModifyOrderRequests \cup {Modify(r) : r \in Malformed}
=============================================================================
