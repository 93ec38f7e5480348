--------------------------- MODULE MapProperties ---------------------------
(***************************************************************************)
(* What makes MapBook correct.                                             *)
(***************************************************************************)
EXTENDS MapBook, HandlerProperties

OrdersAt(s, p) == levels[s][p].orders

\* All places at which an order rests: side, price, position.
Places ==
  UNION {UNION {{s} \X {p} \X DOMAIN OrdersAt(s, p) : p \in DOMAIN levels[s]} :
           s \in BookSides}

-----------------------------------------------------------------------------
(***************************************************************************)
(* check_invariants, the validator of the repository.                      *)
(***************************************************************************)
remaining_quantities(list) == [i \in DOMAIN list |-> list[i].remaining_quantity]

\* What is left to trade of the orders of a level.
ListQuantity(list) == SumFunctionOnSet(remaining_quantities(list), DOMAIN list)

check_level(s, p) ==
  /\ OrdersAt(s, p) # <<>>
  /\ \A i \in DOMAIN OrdersAt(s, p) :
       LET o == OrdersAt(s, p)[i]
       IN  /\ o.side = s /\ o.price = p /\ o.remaining_quantity # 0
           /\ order_lookup[o.order_id] = [side |-> s, price |-> p, it |-> o.sequence_number]
  /\ levels[s][p].total_quantity = ListQuantity(OrdersAt(s, p)) % QuantityMod

check_invariants ==
  /\ \A s \in BookSides : \A p \in DOMAIN levels[s] : check_level(s, p)
  /\ Cardinality(Places) = Cardinality({id \in OrderIds : contains_order(id)})
  /\ DOMAIN levels["Buy"] # {} /\ DOMAIN levels["Sell"] # {} =>
       best_price("Buy") < best_price("Sell")

\* The code's own validator accepts every state between two steps of a call.
MapCheckInvariants == check_invariants

\* An iterator in the lookup always points into the list of the level that the
\* lookup names, and to the order of that identifier: no order was erased with
\* its lookup entry left behind, so remove_order never uses a dangling iterator.
NoDanglingIterator ==
  \A id \in OrderIds : contains_order(id) =>
    \E s \in BookSides : \E p \in DOMAIN levels[s] : \E i \in DOMAIN OrdersAt(s, p) :
      LET o == OrdersAt(s, p)[i]
      IN  /\ o.order_id = id
          /\ order_lookup[id] = [side |-> s, price |-> p, it |-> o.sequence_number]

\* The list of every level is in order of arrival, also after a removal from the
\* middle and after a partial fill: price-time priority rests on push_back alone.
ListsAreInArrivalOrder ==
  \A s \in BookSides : \A p \in DOMAIN levels[s] : \A i, j \in DOMAIN OrdersAt(s, p) :
    i < j => OrdersAt(s, p)[i].sequence_number < OrdersAt(s, p)[j].sequence_number

-----------------------------------------------------------------------------
\* The map book implements the price-time book in which every price is tradable.
resting_orders ==
  [id \in OrderIds |->
     IF contains_order(id) THEN order_at(order_lookup[id]) ELSE NoOrder]

PriceTime == INSTANCE PriceTimeBook WITH resting <- resting_orders, TradablePrices <- Nat

\* Map levels, lists and iterators together behave as the price-time book.
MapImplementsPriceTimeBook == PriceTime!Spec

\* A reader that applies the events of each call to its own copy has the orders,
\* prices and quantities of the maps and lists, after every step.
MapEventsTellTheBook ==
  [][CopyOf(resting_orders') = FoldLeft(Replay, CopyOf(resting_orders), NewEvents)]_vars

-----------------------------------------------------------------------------
(***************************************************************************)
(* The inductive invariant.                                                *)
(***************************************************************************)

\* No level is empty, and an order at rest is in the level of its side and price,
\* where its identifier leads; it has something left to trade and arrived before
\* the next order to arrive.
OrdersAreSound ==
  \A s \in BookSides : \A p \in DOMAIN levels[s] :
    /\ OrdersAt(s, p) # <<>>
    /\ \A i \in DOMAIN OrdersAt(s, p) :
         LET o == OrdersAt(s, p)[i]
         IN  /\ o.side = s /\ o.price = p /\ o.remaining_quantity > 0 /\ o.symbol_id # 0
             /\ o.sequence_number < next_sequence_number
             /\ o.order_id \in OrderIds
             /\ order_lookup[o.order_id] = [side |-> s, price |-> p, it |-> o.sequence_number]

NeverCrossed ==
  \A bid \in DOMAIN levels["Buy"], ask \in DOMAIN levels["Sell"] : bid < ask

\* The total of a level is the sum over its list, modulo the width of Quantity: it is
\* adjusted one order at a time, and an order that empties the level takes it away.
MapTotalsAreSums ==
  \A s \in BookSides : \A p \in DOMAIN levels[s] :
    levels[s][p].total_quantity = ListQuantity(OrdersAt(s, p)) % QuantityMod

MapsAreFinite == \A s \in BookSides : IsFiniteSet(DOMAIN levels[s])

\* What the checks at the head of handle_new_order established still holds.
CallIsSound ==
  /\ pc = "resubmit" =>
       new_req.order_id \in OrderIds /\ new_order_reason(new_req) = "None"
  /\ pc = "matching" =>
       /\ new_req.order_type \in {"Limit", "Market"}
       /\ incoming.order_id \in OrderIds /\ ~contains_order(incoming.order_id)
       /\ incoming.side \in BookSides /\ incoming.symbol_id # 0
       /\ incoming.sequence_number < next_sequence_number
       /\ \A s \in BookSides : \A p \in DOMAIN levels[s] : \A i \in DOMAIN OrdersAt(s, p) :
            OrdersAt(s, p)[i].sequence_number < incoming.sequence_number

BookIsSound ==
  /\ OrdersAreSound
  /\ NoDanglingIterator
  /\ ListsAreInArrivalOrder
  /\ NeverCrossed
  /\ MapsAreFinite

IInv == TypeOK /\ BookIsSound /\ CallIsSound
=============================================================================
