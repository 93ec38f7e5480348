-------------------- MODULE LadderPoolRefinement_proofs --------------------
(***************************************************************************)
(* LadderPoolBook implements PriceTimeBook, for every ladder, pool         *)
(* capacity and set of requests: under resting_orders every step of the    *)
(* ladder, the pool and the caches is a step of the price-time book. The   *)
(* second half is about what the events of one call say: EventsAreSound is *)
(* inductive together with IInv.                                           *)
(***************************************************************************)
EXTENDS LadderPoolBook_proofs

-----------------------------------------------------------------------------
(***************************************************************************)
(* The handler is the same in both modules.                                *)
(***************************************************************************)
LEMMA SameRequestChecks ==
  /\ \A req : PriceTime!is_valid_new_order_request(req) = is_valid_new_order_request(req)
  /\ \A req : PriceTime!is_valid_modify_order_request(req) = is_valid_modify_order_request(req)
  /\ \A req : PriceTime!is_valid_cancel_order_request(req) = is_valid_cancel_order_request(req)
  BY DEF PriceTime!is_valid_new_order_request, is_valid_new_order_request,
         PriceTime!is_valid_modify_order_request, is_valid_modify_order_request,
         PriceTime!is_valid_cancel_order_request, is_valid_cancel_order_request

LEMMA SameEventsOfRequests ==
  /\ \A req, why : PriceTime!NewRejected(req, why) = NewRejected(req, why)
  /\ \A req, why : PriceTime!ModifyRejected(req, why) = ModifyRejected(req, why)
  /\ \A req, why : PriceTime!CancelRejected(req, why) = CancelRejected(req, why)
  /\ \A req : PriceTime!OrderAccepted(req) = OrderAccepted(req)
  /\ \A req : PriceTime!OrderModified(req) = OrderModified(req)
  BY DEF PriceTime!NewRejected, NewRejected, PriceTime!ModifyRejected, ModifyRejected,
         PriceTime!CancelRejected, CancelRejected, PriceTime!OrderAccepted, OrderAccepted,
         PriceTime!OrderModified, OrderModified, PriceTime!DefaultEvent, DefaultEvent

LEMMA SameEventsOfOrders ==
  /\ \A o : PriceTime!OrderCancelled(o) = OrderCancelled(o)
  /\ \A o : PriceTime!OrderRested(o) = OrderRested(o)
  /\ \A o : PriceTime!UnfilledMarketOrderCancelled(o) = UnfilledMarketOrderCancelled(o)
  /\ \A o, qty : PriceTime!Trade(o, qty) = Trade(o, qty)
  BY DEF PriceTime!OrderCancelled, OrderCancelled, PriceTime!OrderRested, OrderRested,
         PriceTime!UnfilledMarketOrderCancelled, UnfilledMarketOrderCancelled,
         PriceTime!Trade, Trade, PriceTime!DefaultEvent, DefaultEvent

LEMMA SameReturn ==
  ASSUME NEW req, NEW evs
  PROVE  PriceTime!Return(req, evs) <=> Return(req, evs)
  BY SameEventsOfRequests
  DEF PriceTime!Return, Return, PriceTime!NoRequest, NoRequest, PriceTime!NoOrder, NoOrder

LEMMA SameNewOrder ==
  ASSUME NEW req, NEW why, NEW evs
  PROVE  PriceTime!handle_new_order(req, why, evs) <=> handle_new_order(req, why, evs)
  BY SameReturn, SameEventsOfRequests DEF PriceTime!handle_new_order, handle_new_order

LEMMA SameAnswers ==
  /\ \A event : PriceTime!Answer(event) <=> Answer(event)
  /\ \A req, old, event : PriceTime!BeginModify(req, old, event) <=> BeginModify(req, old, event)
  /\ PriceTime!Ready <=> Ready
  /\ PriceTime!Collect <=> Collect
  /\ PriceTime!FinishWithoutResting <=> FinishWithoutResting
<1>1. PriceTime!FinishWithoutResting <=> FinishWithoutResting
  BY SameReturn, SameEventsOfOrders DEF PriceTime!FinishWithoutResting, FinishWithoutResting
<1> QED BY <1>1
  DEF PriceTime!Answer, Answer, PriceTime!BeginModify, BeginModify,
      PriceTime!Ready, Ready, PriceTime!Collect, Collect

LEMMA SameMatching ==
  /\ PriceTime!is_market <=> is_market
  /\ \A price : PriceTime!Crosses(price) <=> Crosses(price)
  /\ \A o : PriceTime!trade_qty(o) = trade_qty(o)
  /\ \A o : PriceTime!TradeWith(o) <=> TradeWith(o)
  /\ PriceTime!Opposite(incoming.side) = Opposite(incoming.side)
<1>1. PriceTime!is_market <=> is_market
  BY DEF PriceTime!is_market, is_market
<1>2. \A o : PriceTime!trade_qty(o) = trade_qty(o)
  BY DEF PriceTime!trade_qty, trade_qty
<1> QED BY <1>1, <1>2, SameEventsOfOrders
  DEF PriceTime!Crosses, Crosses, PriceTime!TradeWith, TradeWith,
      PriceTime!Opposite, Opposite

-----------------------------------------------------------------------------
(***************************************************************************)
(* The book that its callers see.                                          *)
(***************************************************************************)

\* A multiple of t divides by t without a remainder.
LEMMA MultipleDivides ==
  ASSUME NEW k \in Nat, NEW t \in Nat \ {0}
  PROVE  (k * t) % t = 0 /\ (k * t) \div t = k
<1>1. (k * t) % t = 0
  OBVIOUS
<1>2. (k * t) \div t = k
  OBVIOUS
<1> QED BY <1>1, <1>2

\* The prices on the ladder are those of its levels.
LEMMA TradableMeansOnLadder ==
  ASSUME NEW p \in Nat
  PROVE  p \in {level_index_to_price(l) : l \in Levels} <=> on_ladder(p)
<1>1. on_ladder(p) => p \in {level_index_to_price(l) : l \in Levels}
  BY PriceOfLevel
<1>2. ASSUME NEW l \in Levels, p = level_index_to_price(l)
      PROVE  on_ladder(p)
  <2>1. l \in Nat /\ l < level_count
    BY LadderFacts DEF Levels
  <2>2. p - MinPrice = l * TickSize
    BY <1>2, <2>1, LadderAssumption DEF level_index_to_price
  <2>3. (p - MinPrice) % TickSize = 0 /\ (p - MinPrice) \div TickSize = l
    BY <2>1, <2>2, LadderAssumption, MultipleDivides
  <2> DEFINE top == (MaxPrice - MinPrice) \div TickSize
  <2>4. top \in Nat /\ MaxPrice - MinPrice = top * TickSize
    BY LadderAssumption, DivideExactly
  <2>5. level_count <= top + 1
    <3> HIDE DEF top
    <3>1. (top + 1) % PriceMod <= top + 1
      BY <2>4, LadderAssumption
    <3> QED BY <3>1 DEF level_count, top
  <2> HIDE DEF top
  <2>6. l * TickSize <= top * TickSize
    <3>1. l = top \/ l < top
      BY <2>1, <2>4, <2>5, LadderFacts
    <3> QED BY <2>1, <2>4, <3>1, LadderAssumption, MultiplesGrow
  <2>7. p >= MinPrice /\ p <= MaxPrice
    <3>1. l * TickSize \in Nat /\ top * TickSize \in Nat
      BY <2>1, <2>4, LadderAssumption
    <3> QED BY <2>2, <2>4, <2>6, <3>1, LadderAssumption
  <2> QED BY <2>1, <2>3, <2>7 DEF on_ladder
<1> QED BY <1>1, <1>2

\* An order at rest has something left, so it is not a default-constructed one.
LEMMA RestingOrder ==
  ASSUME IInv, NEW id \in OrderIds
  PROVE  /\ contains_order(id) => /\ resting_orders[id] = order[lookup[id]]
                                  /\ lookup[id] \in in_use
                                  /\ resting_orders[id] # NoOrder
         /\ ~contains_order(id) => resting_orders[id] = NoOrder
         /\ PriceTime!contains_order(id) <=> contains_order(id)
<1>1. contains_order(id) =>
        lookup[id] \in in_use /\ order[lookup[id]].remaining_quantity # 0
  <2>1. contains_order(id) =>
          lookup[id] \in in_use /\ order[lookup[id]] \in Order
            /\ order[lookup[id]].remaining_quantity > 0
    BY LookedUpOrder DEF IInv, BookIsSound, OrdersAreSound
  <2> QED BY <2>1 DEF Order
<1>2. NoOrder.remaining_quantity = 0
  BY DEF NoOrder
<1>3. PriceTime!NoOrder = NoOrder
  BY DEF PriceTime!NoOrder, NoOrder
<1> QED BY <1>1, <1>2, <1>3 DEF resting_orders, PriceTime!contains_order

LEMMA SameReasons ==
  ASSUME IInv
  PROVE  /\ \A req \in NewOrderRequest : req.order_id \in OrderIds =>
              PriceTime!new_order_reason(req) = new_order_reason(req)
         /\ \A req \in ModifyOrderRequest : req.order_id \in OrderIds =>
              PriceTime!modify_order_reason(req) = modify_order_reason(req)
         /\ \A req \in CancelOrderRequest : req.order_id \in OrderIds =>
              PriceTime!cancel_order_reason(req) = cancel_order_reason(req)
<1>1. ASSUME NEW req \in NewOrderRequest, req.order_id \in OrderIds
      PROVE  PriceTime!new_order_reason(req) = new_order_reason(req)
  <2>1. req.price \in Nat
    BY DEF NewOrderRequest
  <2> QED BY <1>1, <2>1, SameRequestChecks, TradableMeansOnLadder, RestingOrder
      DEF PriceTime!new_order_reason, new_order_reason
<1>2. ASSUME NEW req \in ModifyOrderRequest, req.order_id \in OrderIds
      PROVE  PriceTime!modify_order_reason(req) = modify_order_reason(req)
  <2>1. req.price \in Nat
    BY DEF ModifyOrderRequest
  <2> QED BY <1>2, <2>1, SameRequestChecks, TradableMeansOnLadder, RestingOrder
      DEF PriceTime!modify_order_reason, modify_order_reason
<1>3. ASSUME NEW req \in CancelOrderRequest, req.order_id \in OrderIds
      PROVE  PriceTime!cancel_order_reason(req) = cancel_order_reason(req)
  BY <1>3, SameRequestChecks, RestingOrder, LookedUpOrder
  DEF PriceTime!cancel_order_reason, cancel_order_reason
<1> QED BY <1>1, <1>2, <1>3

-----------------------------------------------------------------------------
(***************************************************************************)
(* The steps.                                                              *)
(***************************************************************************)
LEMMA SameBookSameOrders ==
  ASSUME UNCHANGED bookVars
  PROVE  UNCHANGED resting_orders
  BY DEF bookVars, poolVars, resting_orders, contains_order

LEMMA SubmitNewImplements ==
  ASSUME IInv, NEW req \in NewOrderRequest, req.order_id \in OrderIds, SubmitNew(req)
  PROVE  PriceTime!SubmitNew(req)
<1>1. req \in NewOrderRequest /\ req.order_id \in OrderIds
  OBVIOUS
<1>2. PriceTime!new_order_reason(req) = new_order_reason(req)
  BY <1>1, SameReasons
<1>3. UNCHANGED resting_orders
  BY SameBookSameOrders DEF SubmitNew
<1> QED BY <1>2, <1>3, SameNewOrder, SameAnswers DEF PriceTime!SubmitNew, SubmitNew

LEMMA ResubmitImplements ==
  ASSUME IInv, Resubmit
  PROVE  PriceTime!Resubmit
<1>1. new_order_reason(new_req) = "None"
  BY DEF IInv, CallIsSound, Resubmit
<1>2. UNCHANGED resting_orders
  BY SameBookSameOrders DEF Resubmit
<1> QED BY <1>1, <1>2, SameNewOrder DEF PriceTime!Resubmit, Resubmit

\* A cancel takes one order away and leaves the others.
LEMMA CancelForgets ==
  ASSUME IInv, NEW req \in CancelOrderRequest, req.order_id \in OrderIds,
         cancel_order_reason(req) = "None", CancelStorage(req)
  PROVE  /\ PriceTime!Forget(req.order_id)
         /\ cancel_event(req) = OrderCancelled(resting_orders[req.order_id])
<1>1. /\ lookup' = [lookup EXCEPT ![req.order_id] = invalid_node]
      /\ order' = order
      /\ contains_order(req.order_id)
  BY DEF CancelStorage, remove_order, cancel_order_reason
<1>2. lookup \in [OrderIds -> Nodes \cup {invalid_node}]
  BY DEF IInv, TypeOK, LadderTypeOK
<1>3. resting_orders' = [resting_orders EXCEPT ![req.order_id] = NoOrder]
  BY <1>1, <1>2 DEF resting_orders, contains_order
<1>4. PriceTime!NoOrder = NoOrder
  BY DEF PriceTime!NoOrder, NoOrder
<1> QED BY <1>1, <1>3, <1>4 DEF PriceTime!Forget, cancel_event, resting_orders

LEMMA SubmitCancelImplements ==
  ASSUME IInv, NEW req \in CancelOrderRequest, req.order_id \in OrderIds, SubmitCancel(req)
  PROVE  PriceTime!SubmitCancel(req)
<1>1. req \in CancelOrderRequest /\ req.order_id \in OrderIds
  OBVIOUS
<1>2. PriceTime!cancel_order_reason(req) = cancel_order_reason(req)
  BY <1>1, SameReasons
<1>3. CASE cancel_order_reason(req) = "None"
  BY <1>1, <1>2, <1>3, CancelForgets, SameAnswers, SameEventsOfOrders
  DEF PriceTime!SubmitCancel, SubmitCancel
<1>4. CASE cancel_order_reason(req) # "None"
  <2>1. UNCHANGED resting_orders
    BY <1>4, SameBookSameOrders DEF SubmitCancel, CancelStorage
  <2> QED BY <1>2, <1>4, <2>1, SameAnswers, SameEventsOfRequests
      DEF PriceTime!SubmitCancel, SubmitCancel, cancel_event
<1> QED BY <1>3, <1>4

LEMMA SubmitModifyImplements ==
  ASSUME IInv, NEW req \in ModifyOrderRequest, req.order_id \in OrderIds, SubmitModify(req)
  PROVE  PriceTime!SubmitModify(req)
<1>1. req \in ModifyOrderRequest /\ req.order_id \in OrderIds
  OBVIOUS
<1>2. PriceTime!modify_order_reason(req) = modify_order_reason(req)
  BY <1>1, SameReasons
<1>3. CASE modify_order_reason(req) = "None"
  <2> DEFINE cancel_req == [order_id |-> req.order_id]
  <2>1. /\ BeginModify(req, order[lookup[req.order_id]], cancel_event(cancel_req))
        /\ CancelStorage(cancel_req)
    BY <1>3 DEF SubmitModify
  <2>2. req.order_id # 0 /\ contains_order(req.order_id)
    BY <1>3 DEF modify_order_reason, is_valid_modify_order_request
  <2>3. cancel_order_reason(cancel_req) = "None"
    BY <1>1, <2>2, CancelIsNeverRefusedInside
  <2>4. cancel_req \in CancelOrderRequest /\ cancel_req.order_id \in OrderIds
    BY <1>1 DEF CancelOrderRequest, ModifyOrderRequest
  <2>5. /\ PriceTime!Forget(cancel_req.order_id)
        /\ cancel_event(cancel_req) = OrderCancelled(resting_orders[cancel_req.order_id])
    BY <2>1, <2>3, <2>4, CancelForgets
  <2>6. resting_orders[req.order_id] = order[lookup[req.order_id]]
    BY <1>1, <2>2, RestingOrder
  <2> QED BY <1>2, <1>3, <2>1, <2>5, <2>6, SameAnswers, SameEventsOfOrders
      DEF PriceTime!SubmitModify, SubmitModify
<1>4. CASE modify_order_reason(req) # "None"
  <2>1. UNCHANGED resting_orders
    BY <1>4, SameBookSameOrders DEF SubmitModify
  <2> QED BY <1>2, <1>4, <2>1, SameAnswers, SameEventsOfRequests
      DEF PriceTime!SubmitModify, SubmitModify
<1> QED BY <1>3, <1>4

-----------------------------------------------------------------------------
(***************************************************************************)
(* Matching.                                                               *)
(***************************************************************************)

\* The identifiers of the price-time book and the nodes in use, one by one.
LEMMA OrdersOfSide ==
  ASSUME IInv, NEW s \in BookSides, NEW id \in PriceTime!RestingOn(s)
  PROVE  /\ id \in OrderIds /\ contains_order(id)
         /\ resting_orders[id] = order[lookup[id]]
         /\ lookup[id] \in in_use /\ order[lookup[id]].side = s
         /\ order[lookup[id]].order_id = id
         /\ \E l \in Levels : lookup[id] \in Resting(s, l)
<1>1. id \in OrderIds /\ contains_order(id) /\ resting_orders[id].side = s
  BY RestingOrder DEF PriceTime!RestingOn
<1>2. /\ resting_orders[id] = order[lookup[id]] /\ lookup[id] \in in_use
      /\ order[lookup[id]].order_id = id
  BY <1>1, RestingOrder, LookedUpOrder
<1>3. \E l \in Levels : lookup[id] \in Resting(s, l)
  BY <1>1, <1>2, LevelOfOrder
<1> QED BY <1>1, <1>2, <1>3

\* The front of the best level comes first in price-time priority.
LEMMA FrontIsFirst ==
  ASSUME IInv, NEW s \in BookSides, best[s] # invalid_level,
         NEW id0, id0 = front_order(s).order_id
  PROVE  /\ id0 \in OrderIds /\ contains_order(id0) /\ lookup[id0] = front_node(s)
         /\ resting_orders[id0] = front_order(s)
         /\ PriceTime!IsFront(s, id0)
<1>a. PICK n0 : n0 = front_node(s)
  OBVIOUS
<1>b. PICK l0 : l0 = best[s]
  OBVIOUS
<1>1. /\ l0 \in Levels /\ n0 \in Resting(s, l0) /\ n0 \in in_use
      /\ id0 = order[n0].order_id
  BY <1>a, <1>b, FrontOrder DEF front_order
<1>2. id0 \in OrderIds /\ lookup[id0] = n0
  BY <1>1 DEF IInv, BookIsSound, LookupIsExact
<1>3. contains_order(id0)
  <2>1. n0 # invalid_node
    BY <1>1, LevelOfOrder, LadderFacts
  <2> QED BY <1>2, <2>1 DEF contains_order
<1>4. resting_orders[id0] = order[n0] /\ order[n0].side = s
  BY <1>1, <1>2, <1>3, RestingOrder DEF Resting
<1>5. id0 \in PriceTime!RestingOn(s)
  BY <1>2, <1>3, <1>4, RestingOrder DEF PriceTime!RestingOn
<1>6. ASSUME NEW other \in PriceTime!RestingOn(s) \ {id0}
      PROVE  PriceTime!Precedes(resting_orders[id0], resting_orders[other])
  <2>a. PICK m : m = lookup[other]
    OBVIOUS
  <2>1. /\ resting_orders[other] = order[m] /\ m \in in_use
        /\ order[m].order_id = other /\ \E l \in Levels : m \in Resting(s, l)
    BY <2>a, OrdersOfSide
  <2>2. PICK l \in Levels : m \in Resting(s, l)
    BY <2>1
  <2>3. IF s = "Buy" THEN l <= l0 ELSE l >= l0
    BY <1>b, <2>2 DEF IInv, BookIsSound, BestIsCurrent
  <2>4. m # n0
    BY <1>1, <2>1
  <2>5. /\ order[n0].price = level_index_to_price(l0)
        /\ order[m].price = level_index_to_price(l)
    BY <1>1, <2>2 DEF Resting
  <2>6. CASE l = l0
    <3>1. Earlier(n0, m)
      BY <1>1, <1>a, <1>b, <2>2, <2>4, <2>6
      DEF IInv, BookIsSound, TimePriorityLinks, Links, Earliest, front_node
    <3> QED BY <1>4, <2>1, <2>5, <2>6, <3>1 DEF PriceTime!Precedes, Earlier
  <2>7. CASE l # l0
    <3>1. /\ l \in Nat /\ l0 \in Nat
          /\ l < l0 => level_index_to_price(l) < level_index_to_price(l0)
          /\ l0 < l => level_index_to_price(l0) < level_index_to_price(l)
          /\ level_index_to_price(l) \in Nat /\ level_index_to_price(l0) \in Nat
      BY <1>1, LadderFacts, LevelPricesGrow
    <3>2. IF s = "Buy" THEN level_index_to_price(l) < level_index_to_price(l0)
                       ELSE level_index_to_price(l0) < level_index_to_price(l)
      BY <2>3, <2>7, <3>1
    <3>3. PriceTime!BetterPrice(s, order[n0].price, order[m].price)
      BY <2>5, <3>1, <3>2 DEF PriceTime!BetterPrice
    <3> QED BY <1>4, <2>1, <3>3 DEF PriceTime!Precedes
  <2> QED BY <2>6, <2>7
<1>7. PriceTime!IsFront(s, id0)
  BY <1>5, <1>6 DEF PriceTime!IsFront
<1> QED BY <1>2, <1>3, <1>4, <1>7, <1>a DEF front_order

LEMMA MatchImplements ==
  ASSUME IInv, pc = "matching", NEW s \in BookSides, s = Opposite(incoming.side),
         CanMatch(s), MatchFront(s)
  PROVE  \E id \in OrderIds : PriceTime!Match(id)
<1>a. PICK n0 : n0 = front_node(s)
  OBVIOUS
<1>b. PICK resting : resting = order[n0]
  OBVIOUS
<1>c. PICK id0 : id0 = resting.order_id
  OBVIOUS
<1>d. PICK qty : qty = trade_qty(resting)
  OBVIOUS
<1>1. /\ best[s] # invalid_level /\ incoming.remaining_quantity > 0
      /\ Crosses(level_index_to_price(best[s]))
  BY DEF CanMatch
<1>2. /\ id0 \in OrderIds /\ contains_order(id0) /\ lookup[id0] = n0
      /\ resting_orders[id0] = resting
      /\ PriceTime!IsFront(s, id0)
  BY <1>1, <1>a, <1>b, <1>c, FrontIsFirst DEF front_order
<1>3. /\ resting.price = level_index_to_price(best[s]) /\ n0 \in in_use /\ resting \in Order
      /\ n0 \in Nodes
  BY <1>1, <1>a, <1>b, FrontOrder, LevelOfOrder DEF Resting, front_order
<1>4. TradeWith(resting)
  BY <1>a, <1>b DEF MatchFront, front_order
<1>5. /\ lookup \in [OrderIds -> Nodes \cup {invalid_node}] /\ order \in [Nodes -> Order]
      /\ \A id \in OrderIds \ {id0} : lookup[id] # n0
  <2>1. \A id \in OrderIds \ {id0} : lookup[id] # n0
    <3> SUFFICES ASSUME NEW id \in OrderIds \ {id0}, lookup[id] = n0 PROVE FALSE
      OBVIOUS
    <3>1. contains_order(id)
      BY <1>3, LadderFacts DEF contains_order
    <3> QED BY <1>b, <1>c, <3>1 DEF IInv, BookIsSound, LookupIsExact
  <2> QED BY <2>1 DEF IInv, TypeOK, LadderTypeOK
<1>6. CASE resting.remaining_quantity = qty
  <2>1. /\ order' = [order EXCEPT ![n0].remaining_quantity = 0]
        /\ lookup' = [lookup EXCEPT ![id0] = invalid_node]
    BY <1>6, <1>a, <1>b, <1>c, <1>d DEF MatchFront, front_order
  <2>2. resting_orders' = [resting_orders EXCEPT ![id0] = NoOrder]
    <3>1. \A n \in Nodes \ {n0} : order'[n] = order[n]
      BY <1>3, <1>5, <2>1
    <3>2. \A id \in OrderIds \ {id0} :
            lookup'[id] = lookup[id]
              /\ (lookup[id] # invalid_node => order'[lookup[id]] = order[lookup[id]])
      BY <1>5, <2>1, <3>1
    <3>3. lookup'[id0] = invalid_node
      BY <1>2, <1>5, <2>1
    <3> QED BY <3>2, <3>3 DEF resting_orders, contains_order
  <2>3. PriceTime!Forget(id0)
    BY <2>2 DEF PriceTime!Forget, PriceTime!NoOrder, NoOrder
  <2>4. PriceTime!Match(id0)
    BY <1>1, <1>2, <1>3, <1>4, <1>6, <1>d, <2>3, SameMatching DEF PriceTime!Match
  <2> QED BY <1>2, <2>4
<1>7. CASE resting.remaining_quantity # qty
  <2>1. /\ order' = [order EXCEPT ![n0].remaining_quantity = @ - qty,
                                  ![n0].order_status = "PartiallyFilled"]
        /\ lookup' = lookup
    BY <1>7, <1>a, <1>b, <1>c, <1>d DEF MatchFront, front_order
  <2>2. /\ \A n \in Nodes \ {n0} : order'[n] = order[n]
        /\ order'[n0] = [resting EXCEPT !.remaining_quantity = @ - qty,
                                        !.order_status = "PartiallyFilled"]
    BY <1>3, <1>5, <1>b, <2>1
  <2>3. resting_orders' = [id \in OrderIds |->
                             IF id = id0 THEN [resting EXCEPT !.remaining_quantity = @ - qty,
                                                             !.order_status = "PartiallyFilled"]
                             ELSE resting_orders[id]]
    <3>1. \A id \in OrderIds \ {id0} : lookup[id] # invalid_node =>
            order'[lookup[id]] = order[lookup[id]]
      BY <1>5, <2>2
    <3>2. lookup'[id0] = n0 /\ n0 # invalid_node
      BY <1>2, <2>1 DEF contains_order
    <3> QED BY <2>1, <2>2, <3>1, <3>2 DEF resting_orders, contains_order
  <2>4. resting_orders' = [resting_orders EXCEPT
                             ![id0].remaining_quantity = @ - qty,
                             ![id0].order_status = "PartiallyFilled"]
    <3>1. resting_orders = [id \in OrderIds |-> resting_orders[id]]
      BY DEF resting_orders
    <3> QED BY <1>2, <2>3, <3>1
  <2>5. PriceTime!Match(id0)
    BY <1>1, <1>2, <1>3, <1>4, <1>7, <1>d, <2>4, SameMatching DEF PriceTime!Match
  <2> QED BY <1>2, <2>5
<1> QED BY <1>6, <1>7

\* When the loop over the levels stops, no order at rest can be traded with.
LEMMA DoneMeansNoneCrosses ==
  ASSUME IInv, MatchingDone
  PROVE  PriceTime!MatchingDone
<1>a. PICK s : s = Opposite(incoming.side)
  OBVIOUS
<1>1. pc = "matching" /\ ~CanMatch(s) /\ incoming.side \in BookSides /\ s \in BookSides
  BY <1>a DEF MatchingDone, IInv, CallIsSound, Opposite, BookSides
<1>2. incoming.remaining_quantity \in Nat /\ incoming.price \in Nat
  BY DEF IInv, TypeOK, HandlerTypeOK, Order
<1>3. CASE incoming.remaining_quantity = 0
  BY <1>1, <1>3 DEF PriceTime!MatchingDone
<1>4. CASE incoming.remaining_quantity # 0
  <2>1. ASSUME NEW id \in PriceTime!RestingOn(s)
        PROVE  ~Crosses(resting_orders[id].price)
    <3>a. PICK m : m = lookup[id]
      OBVIOUS
    <3>1. /\ resting_orders[id] = order[m] /\ m \in in_use
          /\ order[m].side = s /\ \E l \in Levels : m \in Resting(s, l)
      BY <1>1, <3>a, OrdersOfSide
    <3>2. best[s] # invalid_level
      BY <1>1, <3>1 DEF IInv, BookIsSound, BestIsCurrent
    <3>3. ~Crosses(level_index_to_price(best[s]))
      BY <1>1, <1>2, <1>4, <3>2 DEF CanMatch
    <3>4. ~is_market
      BY <3>3 DEF Crosses
    <3>5. order[m].side # incoming.side
      BY <1>1, <1>a, <3>1 DEF Opposite, BookSides
    <3>6. IF incoming.side = "Buy" THEN incoming.price < order[m].price
                                   ELSE order[m].price < incoming.price
      BY <1>2, <1>4, <3>1, <3>4, <3>5, RemainderDoesNotCross
    <3>7. order[m].price \in Nat
      BY <3>1, LevelOfOrder DEF Order
    <3> QED BY <1>1, <1>2, <3>1, <3>4, <3>6, <3>7 DEF Crosses, BookSides
  <2> QED BY <1>1, <1>a, <2>1, SameMatching DEF PriceTime!MatchingDone
<1> QED BY <1>3, <1>4

LEMMA AddRestingOrderImplements ==
  ASSUME IInv, add_resting_order
  PROVE  PriceTime!Rest
<1>a. PICK o : o = [incoming EXCEPT !.order_status = "Resting"]
  OBVIOUS
<1>b. PICK a : a = allocated_node
  OBVIOUS
<1>1. /\ MatchingDone /\ pc = "matching" /\ ~is_market
      /\ incoming.remaining_quantity > 0 /\ UNCHANGED next_sequence_number
  BY DEF add_resting_order, MatchingDone
<1>2. on_ladder(incoming.price) /\ incoming.order_id \in OrderIds
  BY <1>1 DEF IInv, CallIsSound
<1>3. /\ AllocateAndPush(incoming.side, price_to_level_index(incoming.price), o)
      /\ lookup' = [lookup EXCEPT ![incoming.order_id] = a]
      /\ Return(new_req, Append(events, OrderRested(incoming)))
  BY <1>2, <1>a, <1>b DEF add_resting_order
<1>4. /\ a \in Nodes /\ order' = [order EXCEPT ![a] = o] /\ a \notin in_use
  BY <1>3, <1>b, AllocatedNodeIsFree DEF AllocateAndPush, allocate_node
<1>5. /\ lookup \in [OrderIds -> Nodes \cup {invalid_node}] /\ order \in [Nodes -> Order]
      /\ \A id \in OrderIds : lookup[id] # a
  <2>1. \A id \in OrderIds : lookup[id] # a
    <3> SUFFICES ASSUME NEW id \in OrderIds, lookup[id] = a PROVE FALSE
      OBVIOUS
    <3>1. contains_order(id)
      BY <1>4, LadderFacts DEF contains_order
    <3> QED BY <1>4, <3>1 DEF IInv, BookIsSound, LookupIsExact
  <2> QED BY <2>1 DEF IInv, TypeOK, LadderTypeOK
<1>6. resting_orders' = [resting_orders EXCEPT ![incoming.order_id] = o]
  <2>a. PICK id0 : id0 = incoming.order_id
    OBVIOUS
  <2>1. id0 \in OrderIds /\ lookup'[id0] = a /\ a # invalid_node /\ order'[a] = o
    BY <1>2, <1>3, <1>4, <1>5, <2>a, LadderFacts
  <2>2. \A id \in OrderIds \ {id0} :
          lookup'[id] = lookup[id]
            /\ (lookup[id] # invalid_node => order'[lookup[id]] = order[lookup[id]])
    BY <1>3, <1>4, <1>5, <2>a
  <2>3. resting_orders' =
          [id \in OrderIds |-> IF id = id0 THEN o ELSE resting_orders[id]]
    BY <2>1, <2>2 DEF resting_orders, contains_order
  <2>4. resting_orders = [id \in OrderIds |-> resting_orders[id]]
    BY DEF resting_orders
  <2> QED BY <2>1, <2>3, <2>4, <2>a
<1> QED BY <1>1, <1>3, <1>6, <1>a, DoneMeansNoneCrosses, SameMatching, SameReturn,
           SameEventsOfOrders DEF PriceTime!Rest

LEMMA NothingRestsImplements ==
  ASSUME IInv, NothingRests
  PROVE  PriceTime!NothingRests
<1>1. UNCHANGED resting_orders
  BY SameBookSameOrders DEF NothingRests
<1> QED BY <1>1, DoneMeansNoneCrosses, SameMatching, SameAnswers
    DEF NothingRests, PriceTime!NothingRests

-----------------------------------------------------------------------------
(***************************************************************************)
(* The theorem.                                                            *)
(***************************************************************************)
LEMMA StepImplements == IInv /\ [Next]_vars => [PriceTime!Next]_(PriceTime!vars)
<1> SUFFICES ASSUME IInv, [Next]_vars
             PROVE  PriceTime!Next \/ UNCHANGED PriceTime!vars
  OBVIOUS
<1>1. ASSUME NEW req \in NewOrderRequests, SubmitNew(req) PROVE PriceTime!Next
  BY <1>1, HandlerAssumption, SubmitNewImplements DEF PriceTime!Next
<1>2. ASSUME NEW req \in ModifyOrderRequests, SubmitModify(req) PROVE PriceTime!Next
  BY <1>2, HandlerAssumption, SubmitModifyImplements DEF PriceTime!Next
<1>3. ASSUME NEW req \in CancelOrderRequests, SubmitCancel(req) PROVE PriceTime!Next
  BY <1>3, HandlerAssumption, SubmitCancelImplements DEF PriceTime!Next
<1>4. CASE Resubmit
  BY <1>4, ResubmitImplements DEF PriceTime!Next, PriceTime!Continue
<1>5. CASE match_buy
  <2>1. \E id \in OrderIds : PriceTime!Match(id)
    BY <1>5, MatchImplements, NoEmptyLevelIsMatched DEF BookSides, Opposite
  <2> QED BY <2>1 DEF PriceTime!Next, PriceTime!Continue
<1>6. CASE match_sell
  <2>1. \E id \in OrderIds : PriceTime!Match(id)
    BY <1>6, MatchImplements, NoEmptyLevelIsMatched DEF BookSides, Opposite
  <2> QED BY <2>1 DEF PriceTime!Next, PriceTime!Continue
<1>7. CASE add_resting_order
  BY <1>7, AddRestingOrderImplements DEF PriceTime!Next, PriceTime!Continue
<1>8. CASE NothingRests
  BY <1>8, NothingRestsImplements DEF PriceTime!Next, PriceTime!Continue
<1>9. CASE Collect /\ UNCHANGED bookVars
  BY <1>9, SameBookSameOrders, SameAnswers DEF PriceTime!Next, PriceTime!Continue
<1>10. CASE UNCHANGED vars
  <2>1. UNCHANGED resting_orders
    BY <1>10, SameBookSameOrders DEF vars
  <2>2. UNCHANGED handlerVars
    BY <1>10 DEF vars
  <2> QED BY <2>1, <2>2 DEF PriceTime!vars, PriceTime!handlerVars, handlerVars
<1> QED BY <1>1, <1>2, <1>3, <1>4, <1>5, <1>6, <1>7, <1>8, <1>9, <1>10
  DEF Next, Submit, Continue

\* The ladder book is a price-time book: what submit() answers and which orders
\* rest is what price-time priority over the set of orders prescribes.
THEOREM LadderIsPriceTime == Spec => ImplementsPriceTimeBook
<1>1. Init => PriceTime!Init
  <2> SUFFICES ASSUME Init PROVE PriceTime!Init
    OBVIOUS
  <2>1. resting_orders = [id \in OrderIds |-> NoOrder]
    BY DEF Init, resting_orders, contains_order
  <2> QED BY <2>1 DEF Init, HandlerInit, PriceTime!Init, PriceTime!HandlerInit,
                      PriceTime!NoRequest, NoRequest, PriceTime!NoOrder, NoOrder
<1>2. IInv /\ [Next]_vars => [PriceTime!Next]_(PriceTime!vars)
  BY StepImplements
<1> QED BY <1>1, <1>2, Soundness, PTL DEF Spec, ImplementsPriceTimeBook, PriceTime!Spec

-----------------------------------------------------------------------------
(***************************************************************************)
(* A side of the book, by the caches and by the orders.                    *)
(***************************************************************************)
LEMMA SideOfOrders ==
  ASSUME IInv, NEW s \in BookSides, NEW id
  PROVE  id \in On(resting_orders, s) <=>
           /\ id \in OrderIds /\ contains_order(id) /\ order[lookup[id]].side = s
           /\ resting_orders[id] = order[lookup[id]]
<1>1. NoOrder.side \notin BookSides
  BY DEF NoOrder, BookSides
<1>2. CASE id \in OrderIds
  <2>1. /\ contains_order(id) => resting_orders[id] = order[lookup[id]]
        /\ ~contains_order(id) => resting_orders[id] = NoOrder
    BY <1>2, RestingOrder
  <2> QED BY <1>1, <1>2, <2>1 DEF On
<1>3. CASE id \notin OrderIds
  BY <1>3 DEF On
<1> QED BY <1>2, <1>3

\* The nodes of a level and the identifiers that rest at its price.
LEMMA IdsOfLevel ==
  ASSUME IInv, NEW s \in BookSides, NEW l \in Levels, NEW ren,
         ren = [n \in Nodes |-> order[n].order_id]
  PROVE  /\ \A n \in Resting(s, l) :
              /\ ren[n] \in On(resting_orders, s) /\ lookup[ren[n]] = n
              /\ resting_orders[ren[n]] = order[n]
              /\ resting_orders[ren[n]].price = level_index_to_price(l)
         /\ RenamedSet(ren, Resting(s, l)) =
              {id \in On(resting_orders, s) :
                 resting_orders[id].price = level_index_to_price(l)}
<1>1. ASSUME NEW n \in Resting(s, l)
      PROVE  /\ ren[n] \in On(resting_orders, s) /\ lookup[ren[n]] = n
             /\ resting_orders[ren[n]] = order[n]
             /\ resting_orders[ren[n]].price = level_index_to_price(l)
  <2>1. n \in in_use /\ n \in Nodes /\ order[n].side = s
        /\ order[n].price = level_index_to_price(l)
    BY LevelOfOrder DEF Resting
  <2>2. ren[n] = order[n].order_id /\ ren[n] \in OrderIds /\ lookup[ren[n]] = n
    BY <2>1 DEF IInv, BookIsSound, LookupIsExact
  <2>3. contains_order(ren[n])
    BY <2>1, <2>2, LadderFacts DEF contains_order
  <2>4. resting_orders[ren[n]] = order[n]
    BY <2>2, <2>3, RestingOrder
  <2> QED BY <2>1, <2>2, <2>3, <2>4, SideOfOrders
<1>2. ASSUME NEW id \in On(resting_orders, s),
             resting_orders[id].price = level_index_to_price(l)
      PROVE  id \in RenamedSet(ren, Resting(s, l))
  <2>1. /\ id \in OrderIds /\ contains_order(id) /\ order[lookup[id]].side = s
        /\ resting_orders[id] = order[lookup[id]]
    BY SideOfOrders
  <2>2. lookup[id] \in in_use /\ order[lookup[id]].order_id = id /\ lookup[id] \in Nodes
    BY <2>1, LookedUpOrder, LevelOfOrder
  <2>3. lookup[id] \in Resting(s, l) /\ ren[lookup[id]] = id
    BY <1>2, <2>1, <2>2 DEF Resting
  <2> QED BY <2>3 DEF RenamedSet
<1>3. RenamedSet(ren, Resting(s, l)) \subseteq
        {id \in On(resting_orders, s) : resting_orders[id].price = level_index_to_price(l)}
  BY <1>1 DEF RenamedSet
<1> QED BY <1>1, <1>2, <1>3

\* The quantity of a level is that of the orders at its price.
LEMMA QuantityOfLevel ==
  ASSUME IInv, NEW s \in BookSides, NEW l \in Levels
  PROVE  QuantityAt(resting_orders, s, level_index_to_price(l)) = Quantity(s, l)
<1>a. PICK ren : ren = [n \in Nodes |-> order[n].order_id]
  OBVIOUS
<1>b. PICK g : g = [id \in OrderIds |-> resting_orders[id].remaining_quantity]
  OBVIOUS
<1>c. PICK ids : ids = {id \in On(resting_orders, s) :
                          resting_orders[id].price = level_index_to_price(l)}
  OBVIOUS
<1>1. /\ IsFiniteSet(Resting(s, l)) /\ Resting(s, l) \subseteq Nodes
      /\ \A n \in Nodes : /\ remaining_of[n] = order[n].remaining_quantity
                          /\ remaining_of[n] \in Nat
  BY PoolIsFinite
<1>2. /\ \A n \in Resting(s, l) : /\ ren[n] \in OrderIds /\ lookup[ren[n]] = n
                                  /\ resting_orders[ren[n]] = order[n]
      /\ RenamedSet(ren, Resting(s, l)) = ids
  BY <1>a, <1>c, IdsOfLevel DEF On
<1>3. \A m, n \in Resting(s, l) : ren[m] = ren[n] => m = n
  BY <1>2
<1>4. \A n \in Resting(s, l) : remaining_of[n] = g[ren[n]] /\ remaining_of[n] \in Nat
  BY <1>1, <1>2, <1>b
<1>5. SumFunctionOnSet(remaining_of, Resting(s, l)) = SumFunctionOnSet(g, ids)
  BY <1>1, <1>2, <1>3, <1>4, SumRenames
<1> QED BY <1>5, <1>b, <1>c DEF QuantityAt, Quantity

\* The cached best level is at the best price of the orders of its side.
LEMMA BestOfOrders ==
  ASSUME IInv, NEW s \in BookSides
  PROVE  /\ On(resting_orders, s) # {} <=> best[s] # invalid_level
         /\ best[s] # invalid_level =>
              /\ best[s] \in Levels
              /\ level_index_to_price(best[s]) \in PricesOn(resting_orders, s)
              /\ \A p \in PricesOn(resting_orders, s) :
                   /\ p \in 0 .. MaxPrice
                   /\ IF s = "Buy" THEN p <= level_index_to_price(best[s])
                                   ELSE level_index_to_price(best[s]) <= p
<1>1. ASSUME best[s] # invalid_level
      PROVE  /\ best[s] \in Levels
             /\ level_index_to_price(best[s]) \in PricesOn(resting_orders, s)
  <2>1. best[s] \in Levels /\ Resting(s, best[s]) # {}
    BY <1>1 DEF IInv, BookIsSound, BestIsCurrent, TypeOK, LadderTypeOK
  <2>2. PICK n : n \in Resting(s, best[s])
    BY <2>1
  <2>3. \E id \in On(resting_orders, s) :
          resting_orders[id].price = level_index_to_price(best[s])
    <3>1. PICK ren : ren = [m \in Nodes |-> order[m].order_id]
      OBVIOUS
    <3>2. /\ ren[n] \in On(resting_orders, s)
          /\ resting_orders[ren[n]].price = level_index_to_price(best[s])
      BY <2>1, <2>2, <3>1, IdsOfLevel
    <3> QED BY <3>2
  <2> QED BY <2>1, <2>3 DEF PricesOn
<1>2. ASSUME NEW id \in On(resting_orders, s)
      PROVE  /\ best[s] # invalid_level
             /\ resting_orders[id].price \in 0 .. MaxPrice
             /\ IF s = "Buy" THEN resting_orders[id].price <= level_index_to_price(best[s])
                             ELSE level_index_to_price(best[s]) <= resting_orders[id].price
  <2>a. PICK n : n = lookup[id]
    OBVIOUS
  <2>1. /\ id \in OrderIds /\ contains_order(id) /\ order[n].side = s
        /\ resting_orders[id] = order[n]
    BY <2>a, SideOfOrders
  <2>2. n \in in_use /\ on_ladder(order[n].price) /\ order[n].price \in Nat
    BY <2>a, <2>1, LookedUpOrder DEF Order
  <2>b. PICK l : l = price_to_level_index(order[n].price)
    OBVIOUS
  <2>3. l \in Levels /\ n \in Resting(s, l) /\ order[n].price = level_index_to_price(l)
    BY <2>b, <2>1, <2>2, LevelOfOrder DEF Resting
  <2>4. /\ best[s] # invalid_level
        /\ IF s = "Buy" THEN l <= best[s] ELSE l >= best[s]
    BY <2>3 DEF IInv, BookIsSound, BestIsCurrent
  <2>5. best[s] \in Levels /\ best[s] \in Nat /\ l \in Nat
    BY <2>3, <2>4, LadderFacts DEF IInv, TypeOK, LadderTypeOK, Levels
  <2>6. order[n].price \in 0 .. MaxPrice
    BY <2>2, LadderAssumption DEF on_ladder
  <2>7. IF s = "Buy" THEN order[n].price <= level_index_to_price(best[s])
                     ELSE level_index_to_price(best[s]) <= order[n].price
    BY <2>3, <2>4, <2>5, LevelPricesGrow
  <2> QED BY <2>1, <2>4, <2>6, <2>7
<1>3. /\ On(resting_orders, s) # {} <=> PricesOn(resting_orders, s) # {}
      /\ \A p \in PricesOn(resting_orders, s) :
           \E id \in On(resting_orders, s) : p = resting_orders[id].price
  BY DEF PricesOn
<1> QED BY <1>1, <1>2, <1>3

-----------------------------------------------------------------------------
(***************************************************************************)
(* Reports: the vector of events that submit() fills.                      *)
(***************************************************************************)

\* Rejections and cancellations are reported alone.
LEMMA SingleEvent ==
  ASSUME NEW e \in Event, e.event_type \in {"OrderRejected", "OrderCancelled"},
         e.event_type = "OrderRejected" =>
           /\ e.reason # "OrderNotFound"
           /\ e.reason = "InvalidLimitPrice" => e.price = 0 \/ ~on_ladder(e.price)
  PROVE  ReportIsSound(<<e>>)
<1>1. DOMAIN <<e>> = {1} /\ <<e>>[1] = e /\ Len(<<e>>) = 1
  OBVIOUS
<1>2. Positions(<<e>>, "Trade") = {} /\ Positions(<<e>>, "OrderModified") = {}
  BY <1>1 DEF Positions
<1>3. \A i \in Positions(<<e>>, "OrderRejected") : i = 1 /\ e.event_type = "OrderRejected"
  BY <1>1 DEF Positions
<1> QED BY <1>1, <1>2, <1>3
  DEF ReportIsSound, TradesAreBestFirst, ModifiesAreComplete, RefusalsAreOfRequests,
      RefusedPricesAreOffLadder

LEMMA NoEvent == ReportIsSound(<<>>)
<1>1. \A type : Positions(<<>>, type) = {}
  BY DEF Positions
<1> QED BY <1>1
  DEF ReportIsSound, TradesAreBestFirst, ModifiesAreComplete, RefusalsAreOfRequests,
      RefusedPricesAreOffLadder

\* An accepted order has refused nothing and completed no modify.
LEMMA AcceptedReport ==
  ASSUME NEW evs \in Seq(Event), AcceptedSoFar(evs), TradesAreBestFirst(evs)
  PROVE  ReportIsSound(evs)
  BY DEF AcceptedSoFar, ReportIsSound, ModifiesAreComplete, RefusalsAreOfRequests,
         RefusedPricesAreOffLadder

\* Trades, a resting remainder and a cancelled one follow the acceptance.
LEMMA AcceptedThenMore ==
  ASSUME NEW evs \in Seq(Event), AcceptedSoFar(evs), modifying \in BOOLEAN, NEW e \in Event,
         e.event_type \in {"Trade", "OrderRested", "UnfilledMarketOrderCancelled"}
  PROVE  AcceptedSoFar(Append(evs, e))
<1> DEFINE app == Append(evs, e)
<1>1. /\ \A i \in DOMAIN evs : app[i] = evs[i]
      /\ DOMAIN evs = 1 .. Len(evs) /\ Len(evs) \in Nat
  BY AppendedEvent
<1>2. /\ Positions(app, "OrderAccepted") = Positions(evs, "OrderAccepted")
      /\ Positions(app, "OrderRejected") = Positions(evs, "OrderRejected")
      /\ Positions(app, "OrderModified") = Positions(evs, "OrderModified")
  BY AppendedPositions
<1>3. accepted_at \in DOMAIN evs /\ (modifying => 1 \in DOMAIN evs)
  <2>1. accepted_at \in DOMAIN evs
    BY DEF AcceptedSoFar, Positions
  <2> QED BY <1>1, <2>1 DEF accepted_at
<1> HIDE DEF app
<1>4. AcceptedSoFar(app)
  BY <1>1, <1>2, <1>3 DEF AcceptedSoFar, ReplacedFirst
<1> QED BY <1>4 DEF app

\* Every other event leaves the order of the trades as it is.
LEMMA TradesThenOther ==
  ASSUME NEW evs \in Seq(Event), TradesAreBestFirst(evs), NEW e \in Event,
         e.event_type \notin {"Trade", "OrderAccepted"}
  PROVE  TradesAreBestFirst(Append(evs, e))
<1> DEFINE app == Append(evs, e)
<1>1. \A i \in DOMAIN evs : app[i] = evs[i]
  BY AppendedEvent
<1>2. /\ Positions(app, "Trade") = Positions(evs, "Trade")
      /\ Positions(app, "OrderAccepted") = Positions(evs, "OrderAccepted")
      /\ Positions(evs, "Trade") \subseteq DOMAIN evs
      /\ Positions(evs, "OrderAccepted") \subseteq DOMAIN evs
  BY AppendedPositions
<1> HIDE DEF app
<1>3. TradesAreBestFirst(app)
  BY <1>1, <1>2 DEF TradesAreBestFirst
<1> QED BY <1>3 DEF app

\* handle_modify_order reports last, after both of its halves.
LEMMA ModifiedReport ==
  ASSUME NEW evs \in Seq(Event), AcceptedSoFar(evs), TradesAreBestFirst(evs), modifying,
         new_req \in NewOrderRequest
  PROVE  ReportIsSound(Append(evs, OrderModified(new_req)))
<1> DEFINE e == OrderModified(new_req)
           app == Append(evs, e)
           last == Len(evs) + 1
<1>1. /\ e \in Event /\ e.event_type = "OrderModified"
      /\ e.order_id = new_req.order_id /\ e.quantity = new_req.quantity
  BY RequestEventTypes DEF OrderModified, DefaultEvent
<1>2. /\ OrderAccepted(new_req).order_id = new_req.order_id
      /\ OrderAccepted(new_req).side = new_req.side
      /\ OrderAccepted(new_req).quantity = new_req.quantity
  BY DEF OrderAccepted, DefaultEvent
<1> HIDE DEF e
<1>3. /\ \A i \in DOMAIN evs : app[i] = evs[i]
      /\ DOMAIN evs = 1 .. Len(evs) /\ Len(evs) \in Nat
      /\ app[last] = e
  BY <1>1, AppendedEvent
<1>4. /\ Positions(app, "OrderAccepted") = {2}
      /\ Positions(app, "OrderRejected") = {}
      /\ Positions(app, "OrderCancelled") = Positions(evs, "OrderCancelled")
      /\ Positions(app, "OrderModified") = {last}
      /\ Positions(evs, "OrderAccepted") = {2}
  BY <1>1, AppendedPositions DEF AcceptedSoFar, accepted_at
<1>5. 1 \in DOMAIN evs /\ 2 \in DOMAIN evs /\ 2 < last
  <2>1. 2 \in DOMAIN evs
    BY <1>4 DEF Positions
  <2> QED BY <1>3, <2>1
<1>6. 1 \in Positions(app, "OrderCancelled")
  BY <1>4, <1>5 DEF AcceptedSoFar, ReplacedFirst, Positions
<1>7. TradesAreBestFirst(app)
  BY <1>1, TradesThenOther
<1>8. /\ app[1].order_id = new_req.order_id /\ app[1].side = new_req.side
      /\ app[2] = OrderAccepted(new_req)
  BY <1>3, <1>5 DEF AcceptedSoFar, ReplacedFirst, accepted_at
<1> HIDE DEF app, last
<1>9. ModifiesAreComplete(app)
  BY <1>1, <1>2, <1>3, <1>4, <1>5, <1>6, <1>8 DEF ModifiesAreComplete
<1>10. RefusalsAreOfRequests(app) /\ RefusedPricesAreOffLadder(app)
  BY <1>4 DEF RefusalsAreOfRequests, RefusedPricesAreOffLadder
<1> QED BY <1>7, <1>9, <1>10 DEF ReportIsSound, app, e

\* The call returns: the report is complete.
LEMMA ReturnedReport ==
  ASSUME NEW evs \in Seq(Event), AcceptedSoFar(evs), TradesAreBestFirst(evs),
         new_req \in NewOrderRequest, modifying \in BOOLEAN, Return(new_req, evs)
  PROVE  EventsAreSound'
<1>1. ReportIsSound(events')
  <2>1. CASE modifying
    BY <2>1, ModifiedReport DEF Return
  <2>2. CASE ~modifying
    BY <2>2, AcceptedReport DEF Return
  <2> QED BY <2>1, <2>2
<1>2. ReportIsSound(events)'
  BY <1>1 DEF ReportIsSound, TradesAreBestFirst, ModifiesAreComplete,
              RefusalsAreOfRequests, RefusedPricesAreOffLadder, Positions
<1>3. pc' = "returned" /\ ~modifying'
  BY DEF Return
<1> QED BY <1>2, <1>3 DEF EventsAreSound

-----------------------------------------------------------------------------
(***************************************************************************)
(* The steps.                                                              *)
(***************************************************************************)

\* What the checks of a request may say.
LEMMA RefusedNew ==
  ASSUME NEW req \in NewOrderRequest
  PROVE  /\ new_order_reason(req) # "OrderNotFound"
         /\ new_order_reason(req) = "InvalidLimitPrice" => req.price = 0 \/ ~on_ladder(req.price)
  BY DEF new_order_reason, is_valid_new_order_request

LEMMA RefusedModify ==
  ASSUME NEW req \in ModifyOrderRequest
  PROVE  /\ modify_order_reason(req) # "OrderNotFound"
         /\ modify_order_reason(req) = "InvalidLimitPrice" =>
              req.price = 0 \/ ~on_ladder(req.price)
  BY DEF modify_order_reason, is_valid_modify_order_request

\* What a book that is sound says of a cancel.
LEMMA RefusedCancel ==
  ASSUME IInv, NEW req \in CancelOrderRequest, req.order_id \in OrderIds
  PROVE  cancel_order_reason(req) \notin {"OrderNotFound", "InvalidLimitPrice"}
  BY LookedUpOrder DEF cancel_order_reason, is_valid_cancel_order_request

\* submit() answers at once with one event.
LEMMA AnsweredReport ==
  ASSUME IInv, EventsAreSound, pc = "idle", NEW e \in Event, Answer(e), ReportIsSound(<<e>>)
  PROVE  EventsAreSound'
<1>1. events' = <<e>> /\ pc' = "returned" /\ modifying' = modifying /\ ~modifying
  BY DEF Answer, EventsAreSound
<1>2. ReportIsSound(events)'
  BY <1>1 DEF ReportIsSound, TradesAreBestFirst, ModifiesAreComplete,
              RefusalsAreOfRequests, RefusedPricesAreOffLadder, Positions
<1> QED BY <1>1, <1>2 DEF EventsAreSound

\* The first event of an order that passed the checks.
LEMMA NewlyAccepted ==
  ASSUME IInv, EventsAreSound, NEW req \in NewOrderRequest, NEW evs \in Seq(Event),
         \/ evs = <<>> /\ ~modifying
         \/ req = new_req /\ modifying /\ Len(evs) = 1 /\ ReplacedFirst(evs),
         handle_new_order(req, "None", evs)
  PROVE  EventsAreSound'
<1> DEFINE e == OrderAccepted(req)
<1>1. e \in Event /\ e.event_type = "OrderAccepted"
  BY RequestEventTypes DEF OrderAccepted, DefaultEvent
<1>2. /\ events' = Append(evs, e) /\ pc' = "matching" /\ new_req' = req
      /\ modifying' = modifying /\ modifying \in BOOLEAN
      /\ incoming'.side = req.side /\ incoming'.price = req.price
  BY DEF handle_new_order, IInv, TypeOK, HandlerTypeOK
<1> HIDE DEF e
<1>3. /\ \A i \in DOMAIN evs : events'[i] = evs[i]
      /\ DOMAIN evs = 1 .. Len(evs) /\ Len(evs) \in Nat
      /\ events'[Len(evs) + 1] = e
  BY <1>1, <1>2, AppendedEvent
<1>4. Len(evs) + 1 = accepted_at'
  <2>1. Len(<<>>) = 0
    OBVIOUS
  <2> QED BY <1>2, <2>1 DEF accepted_at
<1>5. /\ Positions(evs, "Trade") = {} /\ Positions(evs, "OrderAccepted") = {}
      /\ Positions(evs, "OrderRejected") = {} /\ Positions(evs, "OrderModified") = {}
  <2>1. CASE Len(evs) = 0
    BY <1>3, <2>1 DEF Positions
  <2>2. CASE Len(evs) = 1 /\ ReplacedFirst(evs)
    <3>1. \A i \in DOMAIN evs : evs[i].event_type = "OrderCancelled"
      BY <1>3, <2>2 DEF ReplacedFirst
    <3> QED BY <3>1 DEF Positions
  <2> QED BY <2>1, <2>2
<1>6. /\ Positions(events', "Trade") = {}
      /\ Positions(events', "OrderAccepted") = {accepted_at'}
      /\ Positions(events', "OrderRejected") = {} /\ Positions(events', "OrderModified") = {}
  BY <1>1, <1>2, <1>4, <1>5, AppendedPositions
<1>7. modifying => ReplacedFirst(events)'
  BY <1>2, <1>3 DEF ReplacedFirst
<1>8. AcceptedSoFar(events)'
  BY <1>2, <1>3, <1>4, <1>6, <1>7 DEF AcceptedSoFar, Positions, OrderAccepted, e
<1>9. ReportIsSound(events)'
  BY <1>6 DEF ReportIsSound, TradesAreBestFirst, ModifiesAreComplete,
              RefusalsAreOfRequests, RefusedPricesAreOffLadder, Positions
<1>10. TradedSoFar'
  BY <1>6 DEF TradedSoFar, Positions
<1> QED BY <1>2, <1>8, <1>9, <1>10 DEF EventsAreSound

LEMMA SubmitNewEvents ==
  ASSUME IInv, EventsAreSound, NEW req \in NewOrderRequests, SubmitNew(req)
  PROVE  EventsAreSound'
<1>1. req \in NewOrderRequest /\ <<>> \in Seq(Event)
  BY HandlerAssumption
<1>2. pc = "idle" /\ ~modifying
  BY DEF SubmitNew, Ready, EventsAreSound
<1>3. CASE new_order_reason(req) = "None"
  BY <1>1, <1>2, <1>3, NewlyAccepted DEF SubmitNew
<1>4. CASE new_order_reason(req) # "None"
  <2> DEFINE e == NewRejected(req, new_order_reason(req))
  <2>1. /\ e.event_type = "OrderRejected" /\ e.reason = new_order_reason(req)
        /\ e.price = req.price
    BY DEF NewRejected, DefaultEvent
  <2>2. e \in Event
    BY <1>1, LadderReasons, RejectionTypes
  <2>3. /\ events' = Append(<<>>, e) /\ pc' = "returned" /\ ~modifying'
    BY <1>2, <1>4 DEF SubmitNew, handle_new_order, Return
  <2> HIDE DEF e
  <2>4. events' = <<e>>
    BY <2>3
  <2>5. ReportIsSound(<<e>>)
    BY <1>1, <2>1, <2>2, RefusedNew, SingleEvent
  <2>6. ReportIsSound(events)'
    BY <2>4, <2>5 DEF ReportIsSound, TradesAreBestFirst, ModifiesAreComplete,
                      RefusalsAreOfRequests, RefusedPricesAreOffLadder, Positions
  <2> QED BY <2>3, <2>6 DEF EventsAreSound
<1> QED BY <1>3, <1>4

LEMMA ResubmitEvents ==
  ASSUME IInv, EventsAreSound, Resubmit
  PROVE  EventsAreSound'
<1>1. pc = "resubmit" /\ new_req \in NewOrderRequest /\ events \in Seq(Event)
  BY DEF Resubmit, IInv, TypeOK, HandlerTypeOK
<1>2. modifying /\ Len(events) = 1 /\ ReplacedFirst(events)
  BY <1>1 DEF EventsAreSound
<1>3. new_order_reason(new_req) = "None"
  BY <1>1 DEF IInv, CallIsSound
<1>4. handle_new_order(new_req, "None", events)
  BY <1>3 DEF Resubmit
<1> QED BY <1>1, <1>2, <1>4, NewlyAccepted

LEMMA SubmitCancelEvents ==
  ASSUME IInv, EventsAreSound, NEW req \in CancelOrderRequests, SubmitCancel(req)
  PROVE  EventsAreSound'
<1> DEFINE e == cancel_event(req)
<1>1. req \in CancelOrderRequest /\ req.order_id \in OrderIds
  BY HandlerAssumption
<1>2. pc = "idle" /\ Answer(e) /\ CancelStorage(req) /\ UNCHANGED next_sequence_number
  BY DEF SubmitCancel, Answer
<1>3. e \in Event
  BY <1>1, <1>2, CancelStorageStep
<1>4. ReportIsSound(<<e>>)
  <2>1. /\ e.event_type \in {"OrderRejected", "OrderCancelled"}
        /\ e.event_type = "OrderRejected" => e.reason = cancel_order_reason(req)
    BY DEF cancel_event, CancelRejected, OrderCancelled, DefaultEvent
  <2> QED BY <1>1, <1>3, <2>1, RefusedCancel, SingleEvent
<1> QED BY <1>2, <1>3, <1>4, AnsweredReport

LEMMA SubmitModifyEvents ==
  ASSUME IInv, EventsAreSound, NEW req \in ModifyOrderRequests, SubmitModify(req)
  PROVE  EventsAreSound'
<1>1. req \in ModifyOrderRequest /\ req.order_id \in OrderIds /\ pc = "idle"
  BY HandlerAssumption DEF SubmitModify, Ready
<1>2. CASE modify_order_reason(req) # "None"
  <2> DEFINE e == ModifyRejected(req, modify_order_reason(req))
  <2>1. /\ e.event_type = "OrderRejected" /\ e.reason = modify_order_reason(req)
        /\ e.price = req.price
    BY DEF ModifyRejected, DefaultEvent
  <2>2. e \in Event
    BY <1>1, LadderReasons, RejectionTypes
  <2>3. Answer(e)
    BY <1>2 DEF SubmitModify
  <2> HIDE DEF e
  <2>4. ReportIsSound(<<e>>)
    BY <1>1, <2>1, <2>2, RefusedModify, SingleEvent
  <2> QED BY <1>1, <2>2, <2>3, <2>4, AnsweredReport
<1>3. CASE modify_order_reason(req) = "None"
  <2> DEFINE cancel_req == [order_id |-> req.order_id]
  <2>a. PICK old : old = order[lookup[req.order_id]]
    OBVIOUS
  <2>b. PICK e : e = cancel_event(cancel_req)
    OBVIOUS
  <2>1. BeginModify(req, old, e) /\ CancelStorage(cancel_req)
    BY <1>3, <2>a, <2>b DEF SubmitModify
  <2>2. req.order_id # 0 /\ contains_order(req.order_id)
    BY <1>3 DEF modify_order_reason, is_valid_modify_order_request
  <2>3. cancel_order_reason(cancel_req) = "None"
    BY <1>1, <2>2, CancelIsNeverRefusedInside
  <2>4. old.order_id = req.order_id /\ old \in Order
    BY <1>1, <2>2, <2>a, LookedUpOrder
  <2>5. /\ e.event_type = "OrderCancelled"
        /\ e.order_id = req.order_id /\ e.side = old.side
        /\ e \in Event
    BY <2>3, <2>4, <2>a, <2>b, OrderEventTypes DEF cancel_event, OrderCancelled, DefaultEvent
  <2>6. /\ events' = <<e>> /\ pc' = "resubmit" /\ modifying'
        /\ new_req'.order_id = req.order_id /\ new_req'.side = old.side
    BY <2>1 DEF BeginModify
  <2>7. Len(events') = 1 /\ events'[1] = e
    BY <2>6
  <2>8. ReplacedFirst(events)'
    BY <2>5, <2>6, <2>7 DEF ReplacedFirst
  <2>9. ReportIsSound(<<e>>)
    BY <2>5, SingleEvent
  <2>10. ReportIsSound(events)'
    BY <2>6, <2>9 DEF ReportIsSound, TradesAreBestFirst, ModifiesAreComplete,
                      RefusalsAreOfRequests, RefusedPricesAreOffLadder, Positions
  <2> QED BY <2>6, <2>7, <2>8, <2>10 DEF EventsAreSound
<1> QED BY <1>2, <1>3

-----------------------------------------------------------------------------
(***************************************************************************)
(* Matching.                                                               *)
(***************************************************************************)

\* What an iteration of the matching loop does to the orders at rest.
LEMMA MatchEffect ==
  ASSUME IInv, pc = "matching", NEW s \in BookSides, CanMatch(s), MatchFront(s),
         NEW id0, id0 = front_order(s).order_id
  PROVE  /\ in_use' \subseteq in_use
         /\ \A n \in in_use' : order'[n].side = order[n].side /\ order'[n].price = order[n].price
         /\ \A id \in OrderIds : lookup'[id] \in {lookup[id], invalid_node}
         /\ id0 \in OrderIds /\ contains_order(id0)
         /\ lookup'[id0] # invalid_node => incoming'.remaining_quantity = 0
<1>a. PICK n0 : n0 = front_node(s)
  OBVIOUS
<1>b. PICK l0 : l0 = best[s]
  OBVIOUS
<1>c. PICK resting : resting = order[n0]
  OBVIOUS
<1>d. PICK qty : qty = trade_qty(resting)
  OBVIOUS
<1>1. /\ best[s] # invalid_level /\ incoming.remaining_quantity > 0
  BY DEF CanMatch
<1>2. /\ n0 \in in_use /\ resting \in Order
      /\ n0 \in Nodes /\ order \in [Nodes -> Order] /\ lookup \in [OrderIds -> Nodes \cup {invalid_node}]
      /\ in_use \subseteq Nodes
  BY <1>1, <1>a, <1>c, FrontOrder, LevelOfOrder DEF front_order, IInv, TypeOK, LadderTypeOK
<1>3. id0 = resting.order_id /\ id0 \in OrderIds /\ lookup[id0] = n0
  BY <1>2, <1>a, <1>c DEF front_order, IInv, BookIsSound, LookupIsExact
<1>4. contains_order(id0)
  BY <1>2, <1>3, LadderFacts DEF contains_order
<1>5. CASE resting.remaining_quantity = qty
  <2>1. /\ order' = [order EXCEPT ![n0].remaining_quantity = 0]
        /\ lookup' = [lookup EXCEPT ![id0] = invalid_node]
        /\ in_use' = in_use \ {n0}
    BY <1>5, <1>3, <1>a, <1>b, <1>c, <1>d
    DEF MatchFront, front_order, UnlinkAndFree, free_node
  <2>2. \A n \in in_use \ {n0} : order'[n] = order[n]
    BY <1>2, <2>1
  <2> QED BY <1>2, <1>3, <1>4, <2>1, <2>2
<1>6. CASE resting.remaining_quantity # qty
  <2>1. /\ order' = [order EXCEPT ![n0].remaining_quantity = @ - qty,
                                  ![n0].order_status = "PartiallyFilled"]
        /\ UNCHANGED <<lookup, in_use>>
    BY <1>6, <1>a, <1>b, <1>c, <1>d DEF MatchFront, front_order
  <2>2. \A n \in in_use \ {n0} : order'[n] = order[n]
    BY <1>2, <2>1
  <2>3. order'[n0] = [resting EXCEPT !.remaining_quantity = @ - qty,
                                     !.order_status = "PartiallyFilled"]
    BY <1>2, <1>c, <2>1
  <2>4. order'[n0].side = order[n0].side /\ order'[n0].price = order[n0].price
    BY <1>2, <1>c, <2>3 DEF Order
  <2>5. qty = incoming.remaining_quantity
    BY <1>2, <1>6, <1>d, TradeQuantity DEF IInv, TypeOK
  <2>6. incoming' = [incoming EXCEPT !.remaining_quantity = @ - qty]
    BY <1>a, <1>c, <1>d DEF MatchFront, front_order, TradeWith
  <2>7. incoming'.remaining_quantity = 0
    BY <2>5, <2>6 DEF IInv, TypeOK, HandlerTypeOK, Order
  <2> QED BY <1>4, <1>3, <2>1, <2>2, <2>4, <2>7
<1> QED BY <1>5, <1>6

\* The level that is the best one after an iteration was no better before it.
LEMMA BestOnlyWorsens ==
  ASSUME IInv, pc = "matching", NEW s \in BookSides, CanMatch(s), MatchFront(s),
         best'[s] # invalid_level, NEW p \in Nat,
         ~Worse(Opposite(s), p, level_index_to_price(best[s]))
  PROVE  ~Worse(Opposite(s), p, level_index_to_price(best'[s]))
<1>1. IInv'
  BY MatchStep
<1>2. best'[s] \in Levels /\ best[s] \in Levels /\ best[s] # invalid_level
  BY <1>1, FrontOrder DEF IInv, TypeOK, LadderTypeOK, CanMatch
<1>3. PICK m : /\ m \in in_use' /\ order'[m].side = s
               /\ order'[m].price = level_index_to_price(best'[s])
  BY <1>1 DEF IInv, BookIsSound, BestIsCurrent, Resting, level_index_to_price
<1>a. PICK id0 : id0 = front_order(s).order_id
  OBVIOUS
<1>4. m \in Resting(s, best'[s])
  BY <1>3, <1>a, MatchEffect DEF Resting
<1>5. IF s = "Buy" THEN best'[s] <= best[s] ELSE best'[s] >= best[s]
  BY <1>2, <1>4 DEF IInv, BookIsSound, BestIsCurrent
<1>6. /\ level_index_to_price(best[s]) \in Nat /\ level_index_to_price(best'[s]) \in Nat
      /\ best[s] < best'[s] => level_index_to_price(best[s]) < level_index_to_price(best'[s])
      /\ best'[s] < best[s] => level_index_to_price(best'[s]) < level_index_to_price(best[s])
  BY <1>2, LevelPricesGrow
<1>7. best[s] \in Nat /\ best'[s] \in Nat
  BY <1>2, LadderFacts
<1>8. IF s = "Buy" THEN level_index_to_price(best'[s]) <= level_index_to_price(best[s])
                   ELSE level_index_to_price(best'[s]) >= level_index_to_price(best[s])
  BY <1>5, <1>6, <1>7
<1> HIDE DEF level_index_to_price
<1> QED BY <1>6, <1>8 DEF Worse, Opposite, BookSides

LEMMA MatchEvents ==
  ASSUME IInv, EventsAreSound, pc = "matching", NEW s \in BookSides,
         s = Opposite(incoming.side), CanMatch(s), MatchFront(s)
  PROVE  EventsAreSound'
<1>a. PICK resting : resting = front_order(s)
  OBVIOUS
<1>b. PICK qty : qty = trade_qty(resting)
  OBVIOUS
<1>c. PICK e : e = Trade(resting, qty)
  OBVIOUS
<1>d. PICK limit : limit = level_index_to_price(best[s])
  OBVIOUS
<1>e. PICK id0 : id0 = resting.order_id
  OBVIOUS
<1>1. /\ best[s] # invalid_level /\ Crosses(limit) /\ incoming.remaining_quantity # 0
      /\ incoming.side \in BookSides /\ s = Opposite(incoming.side)
      /\ incoming.side = Opposite(s)
  BY <1>d DEF CanMatch, IInv, CallIsSound, Opposite, BookSides, TypeOK, HandlerTypeOK, Order
<1>2. /\ resting \in Order /\ resting.price = limit /\ best[s] \in Levels
  BY <1>1, <1>a, <1>d, FrontOrder DEF Resting, front_order
<1>3. limit \in Nat
  BY <1>2 DEF Order
<1>4. /\ HandlerTypeOK /\ modifying \in BOOLEAN /\ events \in Seq(Event)
      /\ new_req \in NewOrderRequest
  BY DEF IInv, TypeOK, HandlerTypeOK
<1>5. e \in Event
  BY <1>2, <1>4, <1>b, <1>c, TradeType, TradeQuantity
<1>6. /\ e.event_type = "Trade" /\ e.side = incoming.side /\ e.price = limit
      /\ e.resting_order_id = id0
  BY <1>2, <1>c, <1>e DEF Trade, DefaultEvent
<1>7. /\ events' = Append(events, e)
      /\ pc' = pc /\ new_req' = new_req /\ modifying' = modifying
      /\ incoming' = [incoming EXCEPT !.remaining_quantity = @ - qty]
  BY <1>a, <1>b, <1>c DEF MatchFront, TradeWith
<1>8. incoming'.side = incoming.side /\ incoming'.price = incoming.price
  BY <1>4, <1>7 DEF HandlerTypeOK, Order
<1>9. /\ AcceptedSoFar(events) /\ TradedSoFar /\ TradesAreBestFirst(events)
      /\ incoming.side = new_req.side /\ incoming.price = new_req.price
  BY DEF EventsAreSound, ReportIsSound
<1>10. AcceptedSoFar(Append(events, e))
  BY <1>4, <1>5, <1>6, <1>9, AcceptedThenMore
<1>11. AcceptedSoFar(events)'
  BY <1>7, <1>10 DEF AcceptedSoFar, Positions, accepted_at, ReplacedFirst
<1> DEFINE last == Len(events) + 1
<1>12. /\ \A i \in DOMAIN events : events'[i] = events[i]
       /\ DOMAIN events = 1 .. Len(events) /\ Len(events) \in Nat
       /\ events'[last] = e
       /\ events' \in Seq(Event)
  BY <1>4, <1>5, <1>7, AppendedEvent
<1>13. /\ Positions(events', "Trade") = Positions(events, "Trade") \cup {last}
       /\ Positions(events', "OrderAccepted") = {accepted_at}
       /\ Positions(events, "OrderAccepted") = {accepted_at}
       /\ Positions(events, "Trade") \subseteq DOMAIN events
       /\ accepted_at \in DOMAIN events
       /\ \A i \in Positions(events, "Trade") : i < last
  <2>1. accepted_at \in DOMAIN events
    BY <1>9 DEF AcceptedSoFar, Positions
  <2>2. Positions(events, "Trade") \subseteq DOMAIN events
    BY DEF Positions
  <2> QED BY <1>4, <1>5, <1>6, <1>7, <1>9, <1>12, <2>1, <2>2, AppendedPositions DEF AcceptedSoFar
<1> HIDE DEF last
\* The trade is within the limit of the order.
<1>14. /\ events'[accepted_at] = events[accepted_at]
       /\ events[accepted_at].order_type = new_req.order_type
       /\ events[accepted_at].price = incoming.price
  BY <1>9, <1>12, <1>13 DEF AcceptedSoFar, OrderAccepted, DefaultEvent
<1>15. new_req.order_type = "Limit" => ~Worse(incoming.side, limit, incoming.price)
  <2>1. incoming.price \in Nat
    BY <1>4 DEF HandlerTypeOK, Order
  <2> QED BY <1>1, <1>3, <2>1 DEF Crosses, is_market, Worse, BookSides
\* The earlier trades were no worse, and with other orders.
<1>16. /\ id0 \in OrderIds /\ contains_order(id0)
       /\ lookup'[id0] # invalid_node => incoming'.remaining_quantity = 0
       /\ \A id \in OrderIds : lookup'[id] \in {lookup[id], invalid_node}
  BY <1>a, <1>e, MatchEffect
<1>17. ASSUME NEW i \in Positions(events, "Trade")
       PROVE  /\ events[i].side = incoming.side /\ events[i].price \in Nat
              /\ ~Worse(incoming.side, events[i].price, limit)
              /\ events[i].resting_order_id \in OrderIds
              /\ ~contains_order(events[i].resting_order_id)
  <2>1. events[i] \in Event
    BY <1>4, <1>12, <1>13
  <2> QED BY <1>1, <1>9, <1>d, <2>1 DEF TradedSoFar, Event
<1>18. TradesAreBestFirst(events')
  <2>1. ASSUME NEW i \in Positions(events', "Trade")
        PROVE  \A a \in Positions(events', "OrderAccepted") :
                 events'[a].order_type = "Limit" =>
                   ~Worse(events'[i].side, events'[i].price, events'[a].price)
    <3>1. CASE i = last
      BY <1>6, <1>12, <1>13, <1>14, <1>15, <3>1
    <3>2. CASE i \in Positions(events, "Trade")
      BY <1>9, <1>12, <1>13, <1>14, <3>2 DEF TradesAreBestFirst
    <3> QED BY <1>13, <3>1, <3>2
  <2>2. ASSUME NEW i \in Positions(events', "Trade"), NEW j \in Positions(events', "Trade"),
               j > i
        PROVE  /\ ~Worse(events'[i].side, events'[i].price, events'[j].price)
               /\ events'[j].resting_order_id # events'[i].resting_order_id
    <3>1. i \in Positions(events, "Trade")
      BY <1>12, <1>13, <2>2 DEF last
    <3>2. CASE j = last
      BY <1>6, <1>12, <1>13, <1>16, <1>17, <3>1, <3>2
    <3>3. CASE j \in Positions(events, "Trade")
      BY <1>9, <1>12, <1>13, <2>2, <3>1, <3>3 DEF TradesAreBestFirst
    <3> QED BY <1>13, <3>2, <3>3
  <2> QED BY <2>1, <2>2 DEF TradesAreBestFirst
<1>19. ASSUME NEW i \in Positions(events', "Trade")
       PROVE  /\ events'[i].side = incoming.side
              /\ best'[s] # invalid_level =>
                   ~Worse(incoming.side, events'[i].price, level_index_to_price(best'[s]))
              /\ events'[i].resting_order_id \in OrderIds
              /\ lookup'[events'[i].resting_order_id] # invalid_node =>
                   incoming'.remaining_quantity = 0
  <2>1. CASE i = last
    <3>1. ~Worse(incoming.side, limit, limit)
      BY <1>3 DEF Worse
    <3> QED BY <1>1, <1>3, <1>6, <1>12, <1>16, <1>d, <2>1, <3>1, BestOnlyWorsens
  <2>2. CASE i \in Positions(events, "Trade")
    <3>1. events'[i] = events[i]
      BY <1>12, <1>13, <2>2
    <3>2. lookup'[events[i].resting_order_id] = invalid_node
      BY <1>16, <1>17, <2>2 DEF contains_order
    <3> QED BY <1>1, <1>17, <1>d, <2>2, <3>1, <3>2, BestOnlyWorsens
  <2> QED BY <1>13, <2>1, <2>2
<1>20. TradedSoFar'
  BY <1>1, <1>8, <1>19 DEF TradedSoFar, contains_order, Positions
<1>21. ReportIsSound(events)'
  <2>1. ReportIsSound(events')
    BY <1>7, <1>10, <1>12, <1>18, AcceptedReport
  <2> QED BY <2>1 DEF ReportIsSound, TradesAreBestFirst, ModifiesAreComplete,
                      RefusalsAreOfRequests, RefusedPricesAreOffLadder, Positions
<1> QED BY <1>7, <1>8, <1>9, <1>11, <1>20, <1>21 DEF EventsAreSound

\* The end of a call that was accepted.
LEMMA AddRestingOrderEvents ==
  ASSUME IInv, EventsAreSound, add_resting_order
  PROVE  EventsAreSound'
<1>a. PICK e : e = OrderRested(incoming)
  OBVIOUS
<1>1. pc = "matching" /\ ~is_market /\ on_ladder(incoming.price)
  BY DEF add_resting_order, MatchingDone, IInv, CallIsSound
<1>2. /\ events \in Seq(Event) /\ new_req \in NewOrderRequest /\ modifying \in BOOLEAN
      /\ incoming \in Order
  BY DEF IInv, TypeOK, HandlerTypeOK
<1>3. Return(new_req, Append(events, e))
  BY <1>1, <1>a DEF add_resting_order
<1>4. e \in Event /\ e.event_type = "OrderRested"
  BY <1>2, <1>a, OrderEventTypes DEF OrderRested, DefaultEvent
<1>5. AcceptedSoFar(events) /\ TradesAreBestFirst(events)
  BY <1>1 DEF EventsAreSound, ReportIsSound
<1>6. AcceptedSoFar(Append(events, e)) /\ TradesAreBestFirst(Append(events, e))
  BY <1>2, <1>4, <1>5, AcceptedThenMore, TradesThenOther
<1>7. Append(events, e) \in Seq(Event)
  BY <1>2, <1>4, AppendProperties
<1> QED BY <1>2, <1>3, <1>6, <1>7, ReturnedReport

LEMMA NothingRestsEvents ==
  ASSUME IInv, EventsAreSound, NothingRests
  PROVE  EventsAreSound'
<1>a. PICK e : e = UnfilledMarketOrderCancelled(incoming)
  OBVIOUS
<1>1. pc = "matching"
  BY DEF NothingRests, MatchingDone
<1>2. /\ events \in Seq(Event) /\ new_req \in NewOrderRequest /\ modifying \in BOOLEAN
      /\ incoming \in Order
  BY DEF IInv, TypeOK, HandlerTypeOK
<1>3. Return(new_req, events) \/ Return(new_req, Append(events, e))
  BY <1>a DEF NothingRests, FinishWithoutResting
<1>4. e \in Event /\ e.event_type = "UnfilledMarketOrderCancelled"
  BY <1>2, <1>a, OrderEventTypes DEF UnfilledMarketOrderCancelled, DefaultEvent
<1>5. AcceptedSoFar(events) /\ TradesAreBestFirst(events)
  BY <1>1 DEF EventsAreSound, ReportIsSound
<1>6. AcceptedSoFar(Append(events, e)) /\ TradesAreBestFirst(Append(events, e))
  BY <1>2, <1>4, <1>5, AcceptedThenMore, TradesThenOther
<1>7. Append(events, e) \in Seq(Event)
  BY <1>2, <1>4, AppendProperties
<1> QED BY <1>2, <1>3, <1>5, <1>6, <1>7, ReturnedReport

LEMMA CollectEvents ==
  ASSUME EventsAreSound, Collect
  PROVE  EventsAreSound'
<1>1. pc = "returned" /\ pc' = "idle" /\ events' = <<>> /\ ~modifying'
  BY DEF Collect, EventsAreSound
<1>2. ReportIsSound(events)'
  BY <1>1, NoEvent DEF ReportIsSound, TradesAreBestFirst, ModifiesAreComplete,
                       RefusalsAreOfRequests, RefusedPricesAreOffLadder, Positions
<1> QED BY <1>1, <1>2 DEF EventsAreSound

LEMMA StutterEvents ==
  ASSUME EventsAreSound, UNCHANGED vars
  PROVE  EventsAreSound'
<1>1. /\ pc' = pc /\ new_req' = new_req /\ modifying' = modifying
      /\ incoming' = incoming /\ events' = events /\ lookup' = lookup /\ best' = best
  BY DEF vars, handlerVars, bookVars, levelVars
<1>2. ReportIsSound(events)'
  BY <1>1 DEF EventsAreSound, ReportIsSound, TradesAreBestFirst, ModifiesAreComplete,
              RefusalsAreOfRequests, RefusedPricesAreOffLadder, Positions
<1>3. (AcceptedSoFar(events) => AcceptedSoFar(events)') /\ (TradedSoFar => TradedSoFar')
  BY <1>1 DEF AcceptedSoFar, TradedSoFar, Positions, ReplacedFirst, accepted_at, contains_order
<1> QED BY <1>1, <1>2, <1>3 DEF EventsAreSound, ReplacedFirst

LEMMA EventsStaySound == IInv /\ EventsAreSound /\ [Next]_vars => EventsAreSound'
<1> SUFFICES ASSUME IInv, EventsAreSound, [Next]_vars PROVE EventsAreSound'
  OBVIOUS
<1>1. ASSUME NEW req \in NewOrderRequests, SubmitNew(req) PROVE EventsAreSound'
  BY <1>1, SubmitNewEvents
<1>2. ASSUME NEW req \in ModifyOrderRequests, SubmitModify(req) PROVE EventsAreSound'
  BY <1>2, SubmitModifyEvents
<1>3. ASSUME NEW req \in CancelOrderRequests, SubmitCancel(req) PROVE EventsAreSound'
  BY <1>3, SubmitCancelEvents
<1>4. CASE Resubmit
  BY <1>4, ResubmitEvents
<1>5. CASE match_buy
  BY <1>5, MatchEvents, NoEmptyLevelIsMatched DEF BookSides, Opposite
<1>6. CASE match_sell
  BY <1>6, MatchEvents, NoEmptyLevelIsMatched DEF BookSides, Opposite
<1>7. CASE add_resting_order
  BY <1>7, AddRestingOrderEvents
<1>8. CASE NothingRests
  BY <1>8, NothingRestsEvents
<1>9. CASE Collect /\ UNCHANGED bookVars
  BY <1>9, CollectEvents
<1>10. CASE UNCHANGED vars
  BY <1>10, StutterEvents
<1> QED BY <1>1, <1>2, <1>3, <1>4, <1>5, <1>6, <1>7, <1>8, <1>9, <1>10
  DEF Next, Submit, Continue

-----------------------------------------------------------------------------
(***************************************************************************)
(* The theorems.                                                           *)
(***************************************************************************)

\* EventsAreSound holds in every reachable state: what submit() reports while it
\* runs and when it returns.
THEOREM ReportsAreSound == Spec => []EventsAreSound
<1>1. Init => EventsAreSound
  <2> SUFFICES ASSUME Init PROVE EventsAreSound
    OBVIOUS
  <2>1. pc = "idle" /\ events = <<>> /\ ~modifying
    BY DEF Init, HandlerInit
  <2>2. ReportIsSound(events)
    BY <2>1, NoEvent
  <2> QED BY <2>1, <2>2 DEF EventsAreSound
<1>2. IInv /\ EventsAreSound /\ [Next]_vars => EventsAreSound'
  BY EventsStaySound
<1> QED BY <1>1, <1>2, Soundness, PTL DEF Spec

\* An order sweeps the book from the best price on and trades with no order twice.
THEOREM SweepsBestFirst == Spec => []BestPriceFirst
<1>1. EventsAreSound => BestPriceFirst
  BY DEF EventsAreSound, ReportIsSound, BestPriceFirst
<1> QED BY <1>1, ReportsAreSound, PTL

\* A modify whose old order was cancelled is always accepted as a new order.
THEOREM ModifyIsSafe == Spec => []ModifyNeverLosesOrder
<1>1. EventsAreSound => ModifyNeverLosesOrder
  BY DEF EventsAreSound, ReportIsSound, ModifyNeverLosesOrder
<1> QED BY <1>1, ReportsAreSound, PTL

\* remove_order and add_resting_order never fail.
THEOREM InternalStepsSucceed == Spec => []NoInternalFailure
<1>1. EventsAreSound => NoInternalFailure
  BY DEF EventsAreSound, ReportIsSound, NoInternalFailure
<1> QED BY <1>1, ReportsAreSound, PTL

\* Unless the number of levels wraps, no price of the range that is on a tick is
\* refused, and no refusal comes later than the first check. (level_count,
\* price_to_level; that no other price rests follows from LadderIsPriceTime.)
THEOREM RefusedForAReason ==
  ASSUME (MaxPrice - MinPrice) \div TickSize + 1 < PriceMod
  PROVE  Spec => []RefusalsAreJustified
<1>1. level_count = (MaxPrice - MinPrice) \div TickSize + 1
  <2> DEFINE levels == (MaxPrice - MinPrice) \div TickSize + 1
  <2>1. levels \in Nat
    BY LadderAssumption, DivideExactly
  <2> HIDE DEF levels
  <2>2. levels < PriceMod => levels % PriceMod = levels
    BY <2>1, LadderAssumption
  <2> QED BY <2>2 DEF levels, level_count
<1>2. ASSUME NEW p \in MinPrice .. MaxPrice, (p - MinPrice) % TickSize = 0
      PROVE  on_ladder(p)
  <2>1. (p - MinPrice) \div TickSize <= (MaxPrice - MinPrice) \div TickSize
    BY LadderAssumption
  <2>2. /\ (p - MinPrice) \div TickSize \in Nat
        /\ (MaxPrice - MinPrice) \div TickSize \in Nat
    BY LadderAssumption, <1>2, DivideExactly
  <2> QED BY <1>1, <1>2, <2>1, <2>2, LadderAssumption DEF on_ladder
<1>3. EventsAreSound => RefusalsAreJustified
  BY <1>2 DEF EventsAreSound, ReportIsSound, RefusedPricesAreOffLadder, RangeIsTradable,
              NoInternalFailure, RefusalsAreJustified
<1> QED BY <1>3, ReportsAreSound, PTL

-----------------------------------------------------------------------------
(***************************************************************************)
(* The account of what became of an accepted order.                        *)
(***************************************************************************)
LEMMA SubmitNewAccounts ==
  ASSUME IInv, NEW req \in NewOrderRequests, SubmitNew(req)
  PROVE  AccountsBalance'
<1>1. req \in NewOrderRequest /\ new_order_reason(req) \in Reasons
  BY HandlerAssumption, LadderReasons
<1>2. <<>> \in Seq(Event) /\ DOMAIN <<>> = {}
  OBVIOUS
<1>3. \A i \in DOMAIN <<>> : <<>>[i].event_type = "OrderCancelled"
  BY <1>2
<1>4. HandlerTypeOK /\ handle_new_order(req, new_order_reason(req), <<>>)
  BY DEF IInv, TypeOK, SubmitNew
<1> QED BY <1>1, <1>2, <1>3, <1>4, HandleNewOrderBalances

LEMMA ResubmitAccounts ==
  ASSUME IInv, AccountsBalance, Resubmit
  PROVE  AccountsBalance'
<1>1. /\ new_req \in NewOrderRequest /\ events \in Seq(Event) /\ HandlerTypeOK
      /\ new_order_reason(new_req) \in Reasons
  BY LadderReasons DEF IInv, TypeOK, HandlerTypeOK
<1>2. \A i \in DOMAIN events : events[i].event_type = "OrderCancelled"
  BY DEF Resubmit, AccountsBalance
<1> QED BY <1>1, <1>2, HandleNewOrderBalances DEF Resubmit

LEMMA SubmitCancelAccounts ==
  ASSUME IInv, NEW req \in CancelOrderRequests, SubmitCancel(req)
  PROVE  AccountsBalance'
<1>1. req \in CancelOrderRequest /\ req.order_id \in OrderIds
  BY HandlerAssumption
<1>2. /\ Answer(cancel_event(req)) /\ CancelStorage(req) /\ UNCHANGED next_sequence_number
  BY DEF SubmitCancel, Answer
<1>3. cancel_event(req) \in Event
  BY <1>1, <1>2, CancelStorageStep
<1>4. cancel_event(req).event_type # "OrderAccepted"
  BY DEF cancel_event, CancelRejected, OrderCancelled, DefaultEvent
<1> QED BY <1>2, <1>3, <1>4, AnswerBalances

LEMMA SubmitModifyAccounts ==
  ASSUME IInv, NEW req \in ModifyOrderRequests, SubmitModify(req)
  PROVE  AccountsBalance'
<1>1. req \in ModifyOrderRequest /\ req.order_id \in OrderIds
  BY HandlerAssumption
<1>2. CASE modify_order_reason(req) # "None"
  <2>a. PICK e : e = ModifyRejected(req, modify_order_reason(req))
    OBVIOUS
  <2>1. e \in Event
    BY <1>1, <2>a, LadderReasons, RejectionTypes
  <2>2. e.event_type # "OrderAccepted"
    BY <2>a DEF ModifyRejected, DefaultEvent
  <2>3. Answer(e)
    BY <1>2, <2>a DEF SubmitModify
  <2> QED BY <2>1, <2>2, <2>3, AnswerBalances
<1>3. CASE modify_order_reason(req) = "None"
  <2>a. PICK cancel_req : cancel_req = [order_id |-> req.order_id]
    OBVIOUS
  <2>b. PICK e : e = cancel_event(cancel_req)
    OBVIOUS
  <2>1. BeginModify(req, order[lookup[req.order_id]], e) /\ CancelStorage(cancel_req)
    BY <1>3, <2>a, <2>b DEF SubmitModify
  <2>2. cancel_req \in CancelOrderRequest /\ cancel_req.order_id \in OrderIds
    BY <1>1, <2>a DEF CancelOrderRequest, ModifyOrderRequest
  <2>3. req.order_id # 0 /\ contains_order(req.order_id)
    BY <1>3 DEF modify_order_reason, is_valid_modify_order_request
  <2>4. cancel_order_reason(cancel_req) = "None"
    BY <1>1, <2>a, <2>3, CancelIsNeverRefusedInside
  <2>5. e \in Event
    BY <2>1, <2>2, <2>b, CancelStorageStep DEF BeginModify
  <2>6. e.event_type = "OrderCancelled"
    BY <2>4, <2>b DEF cancel_event, OrderCancelled, DefaultEvent
  <2> QED BY <2>1, <2>5, <2>6, BeginModifyBalances
<1> QED BY <1>2, <1>3

LEMMA MatchAccounts ==
  ASSUME IInv, AccountsBalance, pc = "matching", NEW s \in BookSides, CanMatch(s), MatchFront(s)
  PROVE  AccountsBalance'
<1>1. front_order(s) \in Order
  BY FrontOrder DEF CanMatch
<1>2. TradeWith(front_order(s)) /\ HandlerTypeOK
  BY DEF MatchFront, IInv, TypeOK
<1> QED BY <1>1, <1>2, TradeBalances

LEMMA AddRestingOrderAccounts ==
  ASSUME IInv, AccountsBalance, add_resting_order
  PROVE  AccountsBalance'
<1>1. on_ladder(incoming.price) /\ HandlerTypeOK
  BY DEF IInv, TypeOK, CallIsSound, add_resting_order, MatchingDone, is_market
<1>2. Return(new_req, Append(events, OrderRested(incoming)))
  BY <1>1 DEF add_resting_order
<1> QED BY <1>1, <1>2, RestBalances

LEMMA AccountsStayBalanced == IInv /\ AccountsBalance /\ [Next]_vars => AccountsBalance'
<1> SUFFICES ASSUME IInv, AccountsBalance, [Next]_vars PROVE AccountsBalance'
  OBVIOUS
<1>1. ASSUME NEW req \in NewOrderRequests, SubmitNew(req) PROVE AccountsBalance'
  BY <1>1, SubmitNewAccounts
<1>2. ASSUME NEW req \in ModifyOrderRequests, SubmitModify(req) PROVE AccountsBalance'
  BY <1>2, SubmitModifyAccounts
<1>3. ASSUME NEW req \in CancelOrderRequests, SubmitCancel(req) PROVE AccountsBalance'
  BY <1>3, SubmitCancelAccounts
<1>4. CASE Resubmit
  BY <1>4, ResubmitAccounts
<1>5. CASE match_buy
  BY <1>5, MatchAccounts, NoEmptyLevelIsMatched DEF BookSides
<1>6. CASE match_sell
  BY <1>6, MatchAccounts, NoEmptyLevelIsMatched DEF BookSides
<1>7. CASE add_resting_order
  BY <1>7, AddRestingOrderAccounts
<1>8. CASE NothingRests
  BY <1>8, FinishBalances DEF NothingRests, IInv, TypeOK
<1>9. CASE Collect /\ UNCHANGED bookVars
  BY <1>9, CollectBalances
<1>10. CASE UNCHANGED vars
  BY <1>10, StutterBalances DEF vars
<1> QED BY <1>1, <1>2, <1>3, <1>4, <1>5, <1>6, <1>7, <1>8, <1>9, <1>10
  DEF Next, Submit, Continue

LEMMA Accounts == Spec => []AccountsBalance
<1>1. Init => AccountsBalance
  BY InitialBalance DEF Init
<1>2. IInv /\ AccountsBalance /\ [Next]_vars => AccountsBalance'
  BY AccountsStayBalanced
<1> QED BY <1>1, <1>2, Soundness, PTL DEF Spec

\* The quantity of an accepted order is accounted for exactly once, whatever the
\* matching loop and the closing events made of it.
THEOREM QuantityIsAccountedFor == Spec => []FillAccounting
<1>1. AccountsBalance => FillAccounting
  BY DEF AccountsBalance
<1> QED BY <1>1, Accounts, PTL

-----------------------------------------------------------------------------
(***************************************************************************)
(* The events tell which orders rest: step by step of the price-time book. *)
(***************************************************************************)
LEMMA RestingUnderItsId ==
  ASSUME IInv, NEW id \in OrderIds
  PROVE  /\ resting_orders[id] \in Order
         /\ resting_orders[id] # NoOrder => resting_orders[id].order_id = id
         /\ PriceTime!NoOrder = NoOrder
  BY RestingOrder, LookedUpOrder, NoRequestType DEF PriceTime!NoOrder, NoOrder

LEMMA HandlerFacts ==
  ASSUME IInv, AccountsBalance
  PROVE  /\ events \in Seq(Event) /\ modifying \in BOOLEAN
         /\ new_req \in NewOrderRequest /\ incoming \in Order /\ HandlerTypeOK
         /\ pc = "idle" => events = <<>>
         /\ pc = "matching" => incoming.order_id \in OrderIds
  BY DEF IInv, TypeOK, HandlerTypeOK, AccountsBalance, CallIsSound

\* An order that is told to be cancelled is the one that leaves.
LEMMA ForgetTells ==
  ASSUME IInv, AccountsBalance, pc = "idle", NEW id \in OrderIds, resting_orders[id] # NoOrder,
         events' = <<OrderCancelled(resting_orders[id])>>, PriceTime!Forget(id)
  PROVE  Told(resting_orders, resting_orders')
<1>a. PICK old : old = resting_orders
  OBVIOUS
<1>b. PICK new : new = resting_orders'
  OBVIOUS
<1>c. PICK e : e = OrderCancelled(old[id])
  OBVIOUS
<1>1. old[id] \in Order /\ old[id].order_id = id
  BY <1>a, RestingUnderItsId
<1>2. e \in Event
  BY <1>1, <1>c, OrderEventTypes
<1>3. new = [i \in OrderIds |-> IF i = id THEN NoOrder ELSE old[i]]
  <2>1. old = [i \in OrderIds |-> old[i]]
    BY <1>a DEF resting_orders
  <2> QED BY <1>a, <1>b, <2>1, RestingUnderItsId DEF PriceTime!Forget
<1>4. CopyOf(new) = Replay(CopyOf(old), e)
  BY <1>1, <1>3, <1>c, CancelTells
<1>5. events = <<>> /\ events' = <<e>>
  BY <1>a, <1>c, HandlerFacts
<1>6. Told(old, new)
  BY <1>2, <1>4, <1>5, ToldFirst
<1> QED BY <1>6, <1>a, <1>b DEF Told

\* A request that changes no order is told of by a silent event.
LEMMA AnswerTells ==
  ASSUME IInv, AccountsBalance, pc = "idle", UNCHANGED resting_orders,
         NEW e \in Event, e.event_type = "OrderRejected", Answer(e)
  PROVE  Told(resting_orders, resting_orders')
<1>a. PICK old : old = resting_orders
  OBVIOUS
<1>1. Replay(CopyOf(old), e) = CopyOf(old)
  BY SilentEvents
<1>2. events = <<>> /\ events' = <<e>>
  BY HandlerFacts DEF Answer
<1>3. Told(old, old)
  BY <1>1, <1>2, ToldFirst
<1> QED BY <1>3, <1>a DEF Told

LEMMA SubmitNewTells ==
  ASSUME IInv, AccountsBalance, NEW req \in NewOrderRequests, SubmitNew(req)
  PROVE  Told(resting_orders, resting_orders')
<1>a. PICK old : old = resting_orders
  OBVIOUS
<1>b. PICK why : why = new_order_reason(req)
  OBVIOUS
<1>1. req \in NewOrderRequest /\ why \in Reasons
  BY <1>b, HandlerAssumption, LadderReasons
<1>2. handle_new_order(req, why, <<>>) /\ events = <<>> /\ UNCHANGED resting_orders
  BY <1>b, HandlerFacts, SameBookSameOrders DEF SubmitNew, Ready
<1>3. handle_new_order(req, why, events)
  BY <1>2
<1>4. Told(old, old)
  BY <1>1, <1>3, HandlerFacts, ToldNewOrder
<1> QED BY <1>2, <1>4, <1>a DEF Told

LEMMA ResubmitTells ==
  ASSUME IInv, AccountsBalance, Resubmit
  PROVE  Told(resting_orders, resting_orders')
<1>a. PICK old : old = resting_orders
  OBVIOUS
<1>b. PICK why : why = new_order_reason(new_req)
  OBVIOUS
<1>1. why \in Reasons
  BY <1>b, LadderReasons
<1>2. handle_new_order(new_req, why, events) /\ UNCHANGED resting_orders
  BY <1>b, SameBookSameOrders DEF Resubmit
<1>3. Told(old, old)
  BY <1>1, <1>2, HandlerFacts, ToldNewOrder
<1> QED BY <1>2, <1>3, <1>a DEF Told

LEMMA SubmitCancelTells ==
  ASSUME IInv, AccountsBalance, NEW req \in CancelOrderRequests, PriceTime!SubmitCancel(req)
  PROVE  Told(resting_orders, resting_orders')
<1>b. PICK why : why = cancel_order_reason(req)
  OBVIOUS
<1>1. req \in CancelOrderRequest /\ req.order_id \in OrderIds /\ pc = "idle"
  BY HandlerAssumption DEF PriceTime!SubmitCancel
<1>2. PriceTime!cancel_order_reason(req) = why /\ why \in Reasons
  BY <1>1, <1>b, SameReasons, LadderReasons
<1>3. CASE why = "None"
  <2>1. resting_orders[req.order_id] # NoOrder
    <3>1. PriceTime!contains_order(req.order_id)
      BY <1>2, <1>3 DEF PriceTime!cancel_order_reason
    <3> QED BY <1>1, <3>1, RestingUnderItsId DEF PriceTime!contains_order
  <2>2. /\ events' = <<OrderCancelled(resting_orders[req.order_id])>>
        /\ PriceTime!Forget(req.order_id)
    BY <1>2, <1>3, SameAnswers, SameEventsOfOrders DEF PriceTime!SubmitCancel, Answer
  <2> QED BY <1>1, <2>1, <2>2, ForgetTells
<1>4. CASE why # "None"
  <2>a. PICK e : e = CancelRejected(req, why)
    OBVIOUS
  <2>1. e \in Event /\ e.event_type = "OrderRejected"
    BY <1>1, <1>2, <2>a, RejectionTypes DEF CancelRejected, DefaultEvent
  <2>2. Answer(e) /\ UNCHANGED resting_orders
    BY <1>2, <1>4, <2>a, SameAnswers, SameEventsOfRequests DEF PriceTime!SubmitCancel
  <2> QED BY <1>1, <2>1, <2>2, AnswerTells
<1> QED BY <1>3, <1>4

LEMMA SubmitModifyTells ==
  ASSUME IInv, AccountsBalance, NEW req \in ModifyOrderRequests, PriceTime!SubmitModify(req)
  PROVE  Told(resting_orders, resting_orders')
<1>b. PICK why : why = modify_order_reason(req)
  OBVIOUS
<1>1. req \in ModifyOrderRequest /\ req.order_id \in OrderIds /\ pc = "idle"
  BY HandlerAssumption, SameAnswers DEF PriceTime!SubmitModify, Ready
<1>2. PriceTime!modify_order_reason(req) = why /\ why \in Reasons
  BY <1>1, <1>b, SameReasons, LadderReasons
<1>3. CASE why = "None"
  <2>1. resting_orders[req.order_id] # NoOrder
    <3>1. PriceTime!contains_order(req.order_id)
      BY <1>2, <1>3 DEF PriceTime!modify_order_reason
    <3> QED BY <1>1, <3>1, RestingUnderItsId DEF PriceTime!contains_order
  <2>2. /\ events' = <<OrderCancelled(resting_orders[req.order_id])>>
        /\ PriceTime!Forget(req.order_id)
    BY <1>2, <1>3, SameAnswers, SameEventsOfOrders DEF PriceTime!SubmitModify, BeginModify
  <2> QED BY <1>1, <2>1, <2>2, ForgetTells
<1>4. CASE why # "None"
  <2>a. PICK e : e = ModifyRejected(req, why)
    OBVIOUS
  <2>1. e \in Event /\ e.event_type = "OrderRejected"
    BY <1>1, <1>2, <2>a, RejectionTypes DEF ModifyRejected, DefaultEvent
  <2>2. Answer(e) /\ UNCHANGED resting_orders
    BY <1>2, <1>4, <2>a, SameAnswers, SameEventsOfRequests DEF PriceTime!SubmitModify
  <2> QED BY <1>1, <2>1, <2>2, AnswerTells
<1> QED BY <1>3, <1>4

LEMMA MatchTells ==
  ASSUME IInv, AccountsBalance, NEW id \in OrderIds, PriceTime!Match(id)
  PROVE  Told(resting_orders, resting_orders')
<1>a. PICK old : old = resting_orders
  OBVIOUS
<1>b. PICK new : new = resting_orders'
  OBVIOUS
<1>c. PICK o : o = old[id]
  OBVIOUS
<1>d. PICK qty : qty = trade_qty(o)
  OBVIOUS
<1>e. PICK e : e = Trade(o, qty)
  OBVIOUS
<1>1. o \in Order /\ o # NoOrder /\ o.order_id = id
  <2>1. PriceTime!contains_order(id)
    BY DEF PriceTime!Match, PriceTime!IsFront, PriceTime!RestingOn
  <2> QED BY <1>a, <1>c, <2>1, RestingUnderItsId DEF PriceTime!contains_order
<1>2. /\ events \in Seq(Event) /\ e \in Event
      /\ qty \in Nat /\ qty <= o.remaining_quantity /\ o.remaining_quantity \in Nat
  BY <1>1, <1>d, <1>e, HandlerFacts, TradeQuantity, TradeType DEF Order
<1>3. events' = Append(events, e)
  BY <1>a, <1>c, <1>d, <1>e, SameMatching DEF PriceTime!Match, TradeWith
<1>4. old = [i \in OrderIds |-> old[i]]
  BY <1>a DEF resting_orders
<1>5. CopyOf(new) = Replay(CopyOf(old), e)
  <2>1. CASE o.remaining_quantity = qty
    <3>1. new = [i \in OrderIds |-> IF i = id THEN NoOrder ELSE old[i]]
      BY <1>a, <1>b, <1>c, <1>d, <1>4, <2>1, SameMatching, RestingUnderItsId
      DEF PriceTime!Match, PriceTime!Forget
    <3> QED BY <1>1, <1>c, <1>e, <2>1, <3>1, FillTells
  <2>2. CASE o.remaining_quantity # qty
    <3>1. resting_orders' = [resting_orders EXCEPT
                               ![id].remaining_quantity = @ - qty,
                               ![id].order_status = "PartiallyFilled"]
      BY <1>a, <1>c, <1>d, <2>2, SameMatching DEF PriceTime!Match
    <3>2. PICK p : p = [o EXCEPT !.remaining_quantity = @ - qty,
                                 !.order_status = "PartiallyFilled"]
      OBVIOUS
    <3>3. new = [i \in OrderIds |-> IF i = id THEN p ELSE old[i]]
      BY <1>a, <1>b, <1>c, <1>4, <3>1, <3>2
    <3>4. qty < o.remaining_quantity
      BY <1>2, <2>2
    <3> QED BY <1>1, <1>2, <1>c, <1>e, <3>2, <3>3, <3>4, PartialFillTells
  <2> QED BY <2>1, <2>2
<1>6. Told(old, new)
  BY <1>2, <1>3, <1>5, ToldOne
<1> QED BY <1>6, <1>a, <1>b DEF Told

LEMMA RestTellsOfIt ==
  ASSUME IInv, AccountsBalance, PriceTime!Rest
  PROVE  Told(resting_orders, resting_orders')
<1>a. PICK old : old = resting_orders
  OBVIOUS
<1>b. PICK new : new = resting_orders'
  OBVIOUS
<1>c. PICK e : e = OrderRested(incoming)
  OBVIOUS
<1>d. PICK id : id = incoming.order_id
  OBVIOUS
<1>1. pc = "matching" /\ Return(new_req, Append(events, e))
  BY <1>c, SameReturn, SameEventsOfOrders DEF PriceTime!Rest, PriceTime!MatchingDone
<1>2. e \in Event /\ id \in OrderIds
  BY <1>1, <1>c, <1>d, HandlerFacts, OrderEventTypes
<1>3. new = [i \in OrderIds |->
               IF i = id THEN [incoming EXCEPT !.order_status = "Resting"] ELSE old[i]]
  <2>1. old = [i \in OrderIds |-> old[i]]
    BY <1>a DEF resting_orders
  <2> QED BY <1>2, <1>a, <1>b, <1>d, <2>1 DEF PriceTime!Rest
<1>4. CopyOf(new) = Replay(CopyOf(old), e)
  BY <1>2, <1>3, <1>c, <1>d, HandlerFacts, RestTells
<1>5. Told(old, new)
  BY <1>1, <1>2, <1>4, HandlerFacts, ToldReturn
<1> QED BY <1>5, <1>a, <1>b DEF Told

LEMMA NothingRestsTells ==
  ASSUME IInv, AccountsBalance, NothingRests
  PROVE  Told(resting_orders, resting_orders')
<1>a. PICK old : old = resting_orders
  OBVIOUS
<1>b. PICK e : e = UnfilledMarketOrderCancelled(incoming)
  OBVIOUS
<1>1. UNCHANGED resting_orders
  BY SameBookSameOrders DEF NothingRests
<1>2. Return(new_req, events) \/ Return(new_req, Append(events, e))
  BY <1>b DEF NothingRests, FinishWithoutResting
<1>3. e \in Event /\ e.event_type = "UnfilledMarketOrderCancelled"
  BY <1>b, HandlerFacts, OrderEventTypes DEF UnfilledMarketOrderCancelled, DefaultEvent
<1>4. Replay(CopyOf(old), e) = CopyOf(old)
  BY <1>3, SilentEvents
<1>5. Told(old, old)
  BY <1>2, <1>3, <1>4, HandlerFacts, ToldReturn, ToldQuietReturn
<1> QED BY <1>1, <1>5, <1>a DEF Told

LEMMA QuietStepTells ==
  ASSUME IInv, AccountsBalance, events' = events \/ events' = <<>>, UNCHANGED resting_orders
  PROVE  Told(resting_orders, resting_orders')
<1>a. PICK old : old = resting_orders
  OBVIOUS
<1>1. Told(old, old)
  BY HandlerFacts, ToldNothing
<1> QED BY <1>1, <1>a DEF Told

LEMMA EveryStepTells ==
  IInv /\ AccountsBalance /\ [Next]_vars => Told(resting_orders, resting_orders')
<1> SUFFICES ASSUME IInv, AccountsBalance, [Next]_vars
             PROVE  Told(resting_orders, resting_orders')
  OBVIOUS
<1> DEFINE Goal == Told(resting_orders, resting_orders')
<1>1. ASSUME NEW req \in NewOrderRequests, SubmitNew(req) PROVE Goal
  BY <1>1, SubmitNewTells
<1>2. ASSUME NEW req \in ModifyOrderRequests, SubmitModify(req) PROVE Goal
  BY <1>2, HandlerAssumption, SubmitModifyImplements, SubmitModifyTells
<1>3. ASSUME NEW req \in CancelOrderRequests, SubmitCancel(req) PROVE Goal
  BY <1>3, HandlerAssumption, SubmitCancelImplements, SubmitCancelTells
<1>4. CASE Resubmit
  BY <1>4, ResubmitTells
<1>5. CASE match_buy
  <2>1. \E id \in OrderIds : PriceTime!Match(id)
    BY <1>5, MatchImplements, NoEmptyLevelIsMatched DEF BookSides, Opposite
  <2> QED BY <2>1, MatchTells
<1>6. CASE match_sell
  <2>1. \E id \in OrderIds : PriceTime!Match(id)
    BY <1>6, MatchImplements, NoEmptyLevelIsMatched DEF BookSides, Opposite
  <2> QED BY <2>1, MatchTells
<1>7. CASE add_resting_order
  BY <1>7, AddRestingOrderImplements, RestTellsOfIt
<1>8. CASE NothingRests
  BY <1>8, NothingRestsTells
<1>9. CASE Collect /\ UNCHANGED bookVars
  BY <1>9, SameBookSameOrders, QuietStepTells DEF Collect
<1>10. CASE UNCHANGED vars
  BY <1>10, SameBookSameOrders, QuietStepTells DEF vars, handlerVars
<1> QED BY <1>1, <1>2, <1>3, <1>4, <1>5, <1>6, <1>7, <1>8, <1>9, <1>10
  DEF Next, Submit, Continue

\* Who applies the events to a copy of the book has the book's orders, prices and
\* quantities after every step, whatever the ladder, the pool and the requests are.
THEOREM EventsTellTheLadder == Spec => EventsTellTheBook
<1>1. IInv /\ AccountsBalance /\ [Next]_vars =>
        [CopyOf(resting_orders') = FoldLeft(Replay, CopyOf(resting_orders), NewEvents)]_vars
  BY EveryStepTells DEF Told
<1> QED BY <1>1, Accounts, Soundness, PTL DEF Spec, EventsTellTheBook

-----------------------------------------------------------------------------
(***************************************************************************)
(* One answer to each request.                                             *)
(***************************************************************************)
LEMMA SubmitNewAnswers ==
  ASSUME IInv, NEW market, AnswerIsComing(market),
         NEW req \in NewOrderRequest, market \/ req.order_type # "Market", SubmitNew(req)
  PROVE  AnswerIsComing(market)'
<1>a. PICK why : why = new_order_reason(req)
  OBVIOUS
<1>1. why \in Reasons /\ (why = "None" => req.quantity # 0)
  BY <1>a, LadderReasons DEF new_order_reason, is_valid_new_order_request
<1>2. pc = "idle" /\ handle_new_order(req, why, <<>>)
  BY <1>a DEF SubmitNew, Ready
<1> QED BY <1>1, <1>2, NewOrderAnswer

LEMMA SubmitCancelAnswers ==
  ASSUME IInv, NEW market, AnswerIsComing(market),
         NEW req \in CancelOrderRequest, req.order_id \in OrderIds, SubmitCancel(req)
  PROVE  AnswerIsComing(market)'
<1>a. PICK e : e = cancel_event(req)
  OBVIOUS
<1>1. e \in Event /\ e.event_type \in {"OrderRejected", "OrderCancelled"}
  <2>1. UNCHANGED next_sequence_number /\ CancelStorage(req)
    BY DEF SubmitCancel, Answer
  <2>2. e \in Event
    BY <1>a, <2>1, CancelStorageStep
  <2> QED BY <1>a, <2>2, TypesOfEvents DEF cancel_event
<1> QED BY <1>1, <1>a, AnswerAtOnce DEF SubmitCancel

LEMMA SubmitModifyAnswers ==
  ASSUME IInv, NEW market, AnswerIsComing(market),
         NEW req \in ModifyOrderRequest, req.order_id \in OrderIds,
         market \/ req.order_type # "Market", SubmitModify(req)
  PROVE  AnswerIsComing(market)'
<1>1. pc = "idle"
  BY DEF SubmitModify, Ready
<1>2. CASE modify_order_reason(req) # "None"
  <2>a. PICK e : e = ModifyRejected(req, modify_order_reason(req))
    OBVIOUS
  <2>1. e \in Event /\ e.event_type = "OrderRejected"
    BY <2>a, LadderReasons, RejectionTypes, TypesOfEvents
  <2> QED BY <1>1, <1>2, <2>1, <2>a, AnswerAtOnce DEF SubmitModify
<1>3. CASE modify_order_reason(req) = "None"
  <2>a. PICK old : old = order[lookup[req.order_id]]
    OBVIOUS
  <2>1. old \in Order /\ BeginModify(req, old, OrderCancelled(old))
    <3>1. old \in Order
      BY <1>3, <2>a, LookedUpOrder DEF modify_order_reason
    <3>2. cancel_order_reason([order_id |-> req.order_id]) = "None"
      BY <1>3, CancelIsNeverRefusedInside
      DEF modify_order_reason, is_valid_modify_order_request
    <3> QED BY <1>3, <2>a, <3>1, <3>2 DEF SubmitModify, cancel_event
  <2> QED BY <2>1, ModifyBegun
<1> QED BY <1>2, <1>3

LEMMA ContinueAnswers ==
  ASSUME IInv, NEW market, AnswerIsComing(market),
         Resubmit \/ match_buy \/ match_sell \/ add_resting_order \/ NothingRests
  PROVE  AnswerIsComing(market)'
<1>0. HandlerTypeOK
  BY DEF IInv, TypeOK
<1>1. CASE Resubmit
  <2>1. pc = "resubmit" /\ new_order_reason(new_req) = "None"
    BY <1>1 DEF Resubmit, IInv, CallIsSound
  <2>2. new_req.quantity # 0 /\ handle_new_order(new_req, "None", events)
    BY <1>1, <2>1 DEF Resubmit, new_order_reason, is_valid_new_order_request
  <2> QED BY <1>0, <2>1, <2>2, ResubmittedAnswer
<1>2. CASE match_buy \/ match_sell
  <2>1. PICK s \in BookSides : pc = "matching" /\ CanMatch(s) /\ MatchFront(s)
    BY <1>2, NoEmptyLevelIsMatched DEF BookSides
  <2>a. PICK resting : resting = front_order(s)
    OBVIOUS
  <2>2. resting \in Order /\ TradeWith(resting)
    BY <2>1, <2>a, FrontOrder DEF CanMatch, MatchFront, front_order
  <2> QED BY <1>0, <2>1, <2>2, TradedAnswer
<1>3. CASE add_resting_order
  <2>1. /\ pc = "matching" /\ ~is_market
        /\ Return(new_req, Append(events, OrderRested(incoming)))
    BY <1>3 DEF add_resting_order, MatchingDone, IInv, CallIsSound
  <2> QED BY <1>0, <2>1, RestedAnswer
<1>4. CASE NothingRests
  BY <1>0, <1>4, FinishedAnswer DEF NothingRests, MatchingDone
<1> QED BY <1>1, <1>2, <1>3, <1>4

\* Whatever the request, it is accepted, refused or cancels an order, and is told so
\* once; a modify that is not refused tells of a cancellation, an acceptance and
\* itself. A limit order that changed nothing was refused, and what was accepted and
\* did not trade rests, or was cancelled as a market order.
THEOREM RequestsAreAnswered == Spec => []AnsweredOnce
<1>1. Init => AnswerIsComing(TRUE)
  BY InitialAnswer DEF Init
<1>2. IInv /\ AnswerIsComing(TRUE) /\ [Next]_vars => AnswerIsComing(TRUE)'
  <2> SUFFICES ASSUME IInv, AnswerIsComing(TRUE), [Next]_vars PROVE AnswerIsComing(TRUE)'
    OBVIOUS
  <2>1. CASE Submit
    BY <2>1, HandlerAssumption, SubmitNewAnswers, SubmitModifyAnswers, SubmitCancelAnswers
    DEF Submit
  <2>2. CASE Continue
    BY <2>2, ContinueAnswers, CollectedAnswer DEF Continue
  <2>3. CASE UNCHANGED vars
    BY <2>3, SameAnswer DEF vars
  <2> QED BY <2>1, <2>2, <2>3 DEF Next
<1>3. AnswerIsComing(TRUE) => AnsweredOnce
  BY DEF AnswerIsComing
<1> QED BY <1>1, <1>2, <1>3, Soundness, PTL DEF Spec
=============================================================================
