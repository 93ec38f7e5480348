-------------------------- MODULE TwoBooks_proofs --------------------------
(***************************************************************************)
(* The two books take the same steps, for every ladder, pool capacity and  *)
(* set of requests in which the prices of limit orders are on the ladder:  *)
(* Coupled is inductive together with the invariants of both books.        *)
(***************************************************************************)
EXTENDS TwoBooks, LadderPoolRefinement_proofs

\* The map book again, with what is proved about it.
MapP ==
  INSTANCE MapBook_proofs
    WITH next_sequence_number <- map_next_sequence_number,
         pc <- map_pc,
         new_req <- map_new_req,
         modifying <- map_modifying,
         incoming <- map_incoming,
         events <- map_events

-----------------------------------------------------------------------------
(***************************************************************************)
(* Map and MapP are the same instance under two names.                     *)
(***************************************************************************)
LEMMA MapAssumption ==
  /\ OrderIds \subseteq Nat
  /\ QuantityMod \in Nat \ {0}
  /\ MaxSequence \in Nat
  /\ NewOrderRequests \subseteq
       {r \in MapP!NewOrderRequest : r.order_id \in OrderIds /\ r.quantity < QuantityMod}
  /\ ModifyOrderRequests \subseteq
       {r \in MapP!ModifyOrderRequest : r.order_id \in OrderIds /\ r.quantity < QuantityMod}
  /\ CancelOrderRequests \subseteq {r \in MapP!CancelOrderRequest : r.order_id \in OrderIds}
  BY HandlerAssumption
  DEF NewOrderRequest, MapP!NewOrderRequest, ModifyOrderRequest, MapP!ModifyOrderRequest,
      CancelOrderRequest, MapP!CancelOrderRequest, Sides, MapP!Sides, BookSides,
      MapP!BookSides, OrderTypes, MapP!OrderTypes

LEMMA SameRequests ==
  /\ MapP!NewOrderRequest = NewOrderRequest
  /\ MapP!ModifyOrderRequest = ModifyOrderRequest
  /\ MapP!CancelOrderRequest = CancelOrderRequest
  BY DEF NewOrderRequest, MapP!NewOrderRequest, ModifyOrderRequest, MapP!ModifyOrderRequest,
     CancelOrderRequest, MapP!CancelOrderRequest, Sides, MapP!Sides, BookSides,
     MapP!BookSides, OrderTypes, MapP!OrderTypes

LEMMA OneName ==
  /\ \A req : Map!is_valid_new_order_request(req) = MapP!is_valid_new_order_request(req)
  /\ \A req : Map!is_valid_modify_order_request(req) = MapP!is_valid_modify_order_request(req)
  /\ \A req : Map!is_valid_cancel_order_request(req) = MapP!is_valid_cancel_order_request(req)
  /\ \A req, why : Map!NewRejected(req, why) = MapP!NewRejected(req, why)
  /\ \A req, why : Map!ModifyRejected(req, why) = MapP!ModifyRejected(req, why)
  /\ \A req, why : Map!CancelRejected(req, why) = MapP!CancelRejected(req, why)
  /\ \A req : Map!OrderAccepted(req) = MapP!OrderAccepted(req)
  /\ \A req : Map!OrderModified(req) = MapP!OrderModified(req)
  /\ \A o : Map!OrderCancelled(o) = MapP!OrderCancelled(o)
  /\ \A o : Map!OrderRested(o) = MapP!OrderRested(o)
  /\ \A o : Map!UnfilledMarketOrderCancelled(o) = MapP!UnfilledMarketOrderCancelled(o)
  /\ \A o, qty : Map!Trade(o, qty) = MapP!Trade(o, qty)
  /\ Map!NoRequest = MapP!NoRequest /\ Map!NoOrder = MapP!NoOrder
  BY DEF
    Map!is_valid_new_order_request, MapP!is_valid_new_order_request,
    Map!is_valid_modify_order_request, MapP!is_valid_modify_order_request,
    Map!is_valid_cancel_order_request, MapP!is_valid_cancel_order_request,
    Map!NewRejected, MapP!NewRejected, Map!ModifyRejected, MapP!ModifyRejected,
    Map!CancelRejected, MapP!CancelRejected, Map!OrderAccepted, MapP!OrderAccepted,
    Map!OrderModified, MapP!OrderModified, Map!OrderCancelled, MapP!OrderCancelled,
    Map!OrderRested, MapP!OrderRested, Map!Trade, MapP!Trade,
    Map!UnfilledMarketOrderCancelled, MapP!UnfilledMarketOrderCancelled,
    Map!DefaultEvent, MapP!DefaultEvent, Map!NoRequest, MapP!NoRequest,
    Map!NoOrder, MapP!NoOrder

LEMMA OneHandler ==
  /\ Map!HandlerInit <=> MapP!HandlerInit
  /\ \A req, evs : Map!Return(req, evs) <=> MapP!Return(req, evs)
  /\ \A req, why, evs :
       Map!handle_new_order(req, why, evs) <=> MapP!handle_new_order(req, why, evs)
  /\ \A event : Map!Answer(event) <=> MapP!Answer(event)
  /\ \A req, old, event : Map!BeginModify(req, old, event) <=> MapP!BeginModify(req, old, event)
  /\ Map!Ready <=> MapP!Ready
  /\ Map!Collect <=> MapP!Collect
  /\ Map!is_market <=> MapP!is_market
  /\ \A price : Map!Crosses(price) <=> MapP!Crosses(price)
  /\ \A o : Map!trade_qty(o) = MapP!trade_qty(o)
  /\ \A o : Map!TradeWith(o) <=> MapP!TradeWith(o)
  /\ Map!FinishWithoutResting <=> MapP!FinishWithoutResting
<1>1. Map!HandlerInit <=> MapP!HandlerInit
  BY OneName DEF Map!HandlerInit, MapP!HandlerInit
<1>2. \A req, evs : Map!Return(req, evs) <=> MapP!Return(req, evs)
  BY OneName DEF Map!Return, MapP!Return
<1>3. \A req, why, evs :
        Map!handle_new_order(req, why, evs) <=> MapP!handle_new_order(req, why, evs)
  BY OneName, <1>2 DEF Map!handle_new_order, MapP!handle_new_order
<1>4. /\ \A event : Map!Answer(event) <=> MapP!Answer(event)
      /\ \A req, old, event :
           Map!BeginModify(req, old, event) <=> MapP!BeginModify(req, old, event)
      /\ Map!Ready <=> MapP!Ready
      /\ Map!Collect <=> MapP!Collect
  BY DEF Map!Answer, MapP!Answer, Map!BeginModify, MapP!BeginModify, Map!Ready, MapP!Ready,
         Map!Collect, MapP!Collect
<1>5. /\ Map!is_market <=> MapP!is_market
      /\ \A price : Map!Crosses(price) <=> MapP!Crosses(price)
      /\ \A o : Map!trade_qty(o) = MapP!trade_qty(o)
  BY DEF Map!is_market, MapP!is_market, Map!Crosses, MapP!Crosses, Map!trade_qty, MapP!trade_qty
<1>6. /\ \A o : Map!TradeWith(o) <=> MapP!TradeWith(o)
      /\ Map!FinishWithoutResting <=> MapP!FinishWithoutResting
  BY OneName, <1>2, <1>5 DEF Map!TradeWith, MapP!TradeWith,
     Map!FinishWithoutResting, MapP!FinishWithoutResting
<1> QED BY <1>1, <1>2, <1>3, <1>4, <1>5, <1>6

LEMMA OneStorage ==
  /\ \A id : Map!contains_order(id) <=> MapP!contains_order(id)
  /\ \A side : Map!best_price(side) = MapP!best_price(side)
  /\ \A side, price : Map!level_at(side, price) = MapP!level_at(side, price)
  /\ \A side, price, level : Map!level_set(side, price, level) = MapP!level_set(side, price, level)
  /\ \A location : Map!position(location) = MapP!position(location)
  /\ \A location : Map!order_at(location) = MapP!order_at(location)
  /\ \A req : Map!new_order_reason(req) = MapP!new_order_reason(req)
  /\ \A req : Map!modify_order_reason(req) = MapP!modify_order_reason(req)
  /\ \A req : Map!cancel_order_reason(req) = MapP!cancel_order_reason(req)
  /\ Map!NoLocation = MapP!NoLocation /\ Map!NoLevel = MapP!NoLevel
<1>1. Map!NoLocation = MapP!NoLocation /\ Map!NoLevel = MapP!NoLevel
  BY DEF Map!NoLocation, MapP!NoLocation, Map!NoLevel, MapP!NoLevel
<1>2. /\ \A id : Map!contains_order(id) <=> MapP!contains_order(id)
      /\ \A side : Map!best_price(side) = MapP!best_price(side)
      /\ \A side, price : Map!level_at(side, price) = MapP!level_at(side, price)
      /\ \A side, price, level :
           Map!level_set(side, price, level) = MapP!level_set(side, price, level)
  BY <1>1 DEF Map!contains_order, MapP!contains_order, Map!best_price, MapP!best_price,
     Map!level_at, MapP!level_at, Map!level_set, MapP!level_set, Map!Restrict, MapP!Restrict,
     Map!Max, MapP!Max, Map!Min, MapP!Min
<1>3. \A location : Map!position(location) = MapP!position(location)
  BY DEF Map!position, MapP!position
<1>4. \A location : Map!order_at(location) = MapP!order_at(location)
  BY <1>3 DEF Map!order_at, MapP!order_at
<1>5. /\ \A req : Map!new_order_reason(req) = MapP!new_order_reason(req)
      /\ \A req : Map!modify_order_reason(req) = MapP!modify_order_reason(req)
      /\ \A req : Map!cancel_order_reason(req) = MapP!cancel_order_reason(req)
  BY OneName, <1>2 DEF Map!new_order_reason, MapP!new_order_reason, Map!modify_order_reason,
     MapP!modify_order_reason, Map!cancel_order_reason, MapP!cancel_order_reason
<1> QED BY <1>1, <1>2, <1>3, <1>4, <1>5

LEMMA OneMap ==
  /\ Map!Init <=> MapP!Init
  /\ \A req : Map!SubmitNew(req) <=> MapP!SubmitNew(req)
  /\ \A req : Map!SubmitModify(req) <=> MapP!SubmitModify(req)
  /\ \A req : Map!SubmitCancel(req) <=> MapP!SubmitCancel(req)
  /\ Map!Resubmit <=> MapP!Resubmit
  /\ Map!match_buy <=> MapP!match_buy
  /\ Map!match_sell <=> MapP!match_sell
  /\ Map!add_resting_order <=> MapP!add_resting_order
  /\ Map!NothingRests <=> MapP!NothingRests
  /\ Map!Collect <=> MapP!Collect
  /\ UNCHANGED mapVars <=> UNCHANGED MapP!vars
  /\ mapBookVars = MapP!bookVars
<1>1. Map!Init <=> MapP!Init
  BY OneHandler, OneStorage DEF Map!Init, MapP!Init, Map!BookSides, MapP!BookSides
<1>2. Map!bookVars = mapBookVars /\ MapP!bookVars = mapBookVars
  BY DEF Map!bookVars, MapP!bookVars, mapBookVars
<1>3. \A id : Map!remove_order(id) <=> MapP!remove_order(id)
  BY OneStorage DEF Map!remove_order, MapP!remove_order, Map!RemoveAt, MapP!RemoveAt
<1>4. /\ \A req : Map!CancelStorage(req) <=> MapP!CancelStorage(req)
      /\ \A req : Map!cancel_event(req) = MapP!cancel_event(req)
  BY OneName, OneStorage, <1>2, <1>3 DEF Map!CancelStorage, MapP!CancelStorage,
     Map!cancel_event, MapP!cancel_event, Map!bookVars, MapP!bookVars
<1>5. /\ \A req : Map!SubmitNew(req) <=> MapP!SubmitNew(req)
      /\ \A req : Map!SubmitModify(req) <=> MapP!SubmitModify(req)
      /\ \A req : Map!SubmitCancel(req) <=> MapP!SubmitCancel(req)
      /\ Map!Resubmit <=> MapP!Resubmit
  BY OneName, OneHandler, OneStorage, <1>4 DEF Map!SubmitNew, MapP!SubmitNew, Map!SubmitModify,
     MapP!SubmitModify, Map!SubmitCancel, MapP!SubmitCancel, Map!Resubmit, MapP!Resubmit,
     Map!bookVars, MapP!bookVars
<1>6. \A side : Map!CanMatch(side) <=> MapP!CanMatch(side)
  BY OneHandler, OneStorage DEF Map!CanMatch, MapP!CanMatch
<1>7. \A side : Map!MatchFront(side) <=> MapP!MatchFront(side)
  <2>1. \A orders, qty : Map!AfterTrade(orders, qty) = MapP!AfterTrade(orders, qty)
    BY DEF Map!AfterTrade, MapP!AfterTrade
  <2> QED BY OneHandler, OneStorage, <2>1 DEF Map!MatchFront, MapP!MatchFront
<1>8. Map!MatchingDone <=> MapP!MatchingDone
  BY <1>6 DEF Map!MatchingDone, MapP!MatchingDone, Map!Opposite, MapP!Opposite
<1>9. /\ Map!match_buy <=> MapP!match_buy
      /\ Map!match_sell <=> MapP!match_sell
  <2>1. \A side : Map!PassEmptyLevel(side) <=> MapP!PassEmptyLevel(side)
    BY OneStorage DEF Map!PassEmptyLevel, MapP!PassEmptyLevel, Map!handlerVars, MapP!handlerVars
  <2>2. \A side : Map!MatchBest(side) <=> MapP!MatchBest(side)
    BY OneStorage, <1>7, <2>1 DEF Map!MatchBest, MapP!MatchBest
  <2> QED BY <1>6, <2>2 DEF Map!match_buy, MapP!match_buy, Map!match_sell, MapP!match_sell
<1>10. Map!add_resting_order <=> MapP!add_resting_order
  <2>1. \A orders, o : Map!AtEndOf(orders, o) = MapP!AtEndOf(orders, o)
    BY DEF Map!AtEndOf, MapP!AtEndOf
  <2> QED BY OneName, OneHandler, OneStorage, <1>8, <2>1
      DEF Map!add_resting_order, MapP!add_resting_order
<1>11. Map!NothingRests <=> MapP!NothingRests
  BY OneHandler, <1>8 DEF Map!NothingRests, MapP!NothingRests, Map!bookVars, MapP!bookVars
<1>12. UNCHANGED mapVars <=> UNCHANGED MapP!vars
  BY DEF mapVars, mapBookVars, MapP!vars, MapP!handlerVars, MapP!bookVars
<1> QED BY OneHandler, <1>1, <1>2, <1>5, <1>9, <1>10, <1>11, <1>12 DEF MapP!bookVars

-----------------------------------------------------------------------------
(***************************************************************************)
(* Each book behaves as it does alone.                                     *)
(***************************************************************************)
LEMMA LadderTakesItsSteps == [BothNext]_bothVars => [Next]_vars
<1> SUFFICES ASSUME [BothNext]_bothVars PROVE Next \/ UNCHANGED vars
  OBVIOUS
<1>1. CASE BothSubmit
  BY <1>1 DEF BothSubmit, Next, Submit
<1>2. CASE BothRun
  BY <1>2 DEF BothRun, LadderRuns, Next, Continue
<1>3. CASE BothCollect
  BY <1>3 DEF BothCollect, bookVars, Next, Continue
<1>4. CASE UNCHANGED bothVars
  BY <1>4 DEF bothVars
<1> QED BY <1>1, <1>2, <1>3, <1>4 DEF BothNext

LEMMA MapTakesItsSteps == [BothNext]_bothVars => [MapP!Next]_(MapP!vars)
<1> SUFFICES ASSUME [BothNext]_bothVars PROVE MapP!Next \/ UNCHANGED MapP!vars
  OBVIOUS
<1>1. CASE BothSubmit
  BY <1>1, OneMap DEF BothSubmit, MapP!Next, MapP!Submit
<1>2. CASE BothRun
  <2>1. UNCHANGED mapVars \/ MapRuns
    BY <1>2 DEF BothRun
  <2> QED BY <2>1, OneMap DEF MapRuns, MapP!Next, MapP!Continue
<1>3. CASE BothCollect
  <2>1. Map!Collect /\ UNCHANGED mapBookVars
    BY <1>3 DEF BothCollect
  <2>2. MapP!Collect /\ UNCHANGED MapP!bookVars
    BY <2>1, OneMap DEF mapBookVars, MapP!bookVars
  <2> QED BY <2>2 DEF MapP!Next, MapP!Continue
<1>4. CASE UNCHANGED bothVars
  <2>1. UNCHANGED mapVars
    BY <1>4 DEF bothVars
  <2> QED BY <2>1, OneMap
<1> QED BY <1>1, <1>2, <1>3, <1>4 DEF BothNext

\* What is proved of either book alone holds of the two.
LEMMA BothAreSound ==
  BothSpec => [](IInv /\ TotalsAreSums /\ MapP!IInv /\ MapP!MapTotalsAreSums)
<1>1. BothSpec => Spec
  BY LadderTakesItsSteps, PTL DEF BothSpec, BothInit, Spec
<1>2. BothInit => MapP!Init
  BY OneMap DEF BothInit
<1>3. BothSpec => MapP!Spec
  BY <1>2, MapTakesItsSteps, PTL DEF BothSpec, MapP!Spec
<1>4. MapP!Spec => []MapP!IInv
  BY MapAssumption, MapP!MapSoundness
<1>5. MapP!Spec => []MapP!MapTotalsAreSums
  BY MapAssumption, MapP!MapLevelTotals
<1> QED BY <1>1, <1>3, <1>4, <1>5, Soundness, LevelTotals, PTL

-----------------------------------------------------------------------------
(***************************************************************************)
(* The books in step.                                                      *)
(***************************************************************************)

\* A limit order that the stateless checks let pass has a price on the ladder.
NewFits(req) ==
  is_valid_new_order_request(req) = "None" /\ req.order_type = "Limit" => on_ladder(req.price)

ModifyFits(req) ==
  is_valid_modify_order_request(req) = "None" /\ req.order_type = "Limit" =>
    on_ladder(req.price)

PricesAreOnTheLadder ==
  /\ \A req \in NewOrderRequests : NewFits(req)
  /\ \A req \in ModifyOrderRequests : ModifyFits(req)

HandlersAgree ==
  /\ map_next_sequence_number = next_sequence_number
  /\ map_pc = pc
  /\ map_new_req = new_req
  /\ map_modifying = modifying
  /\ map_incoming = incoming
  /\ map_events = events

\* Both calls are at the same place with the same events, and the same orders rest.
Coupled == HandlersAgree /\ MapP!resting_orders = resting_orders

-----------------------------------------------------------------------------
(***************************************************************************)
(* The price-time book has one answer: two of them that agree, and take    *)
(* the same step, agree afterwards.                                        *)
(***************************************************************************)
LEMMA SameValues ==
  /\ \A req, why : MapP!PriceTime!NewRejected(req, why) = PriceTime!NewRejected(req, why)
  /\ \A req, why : MapP!PriceTime!ModifyRejected(req, why) = PriceTime!ModifyRejected(req, why)
  /\ \A req, why : MapP!PriceTime!CancelRejected(req, why) = PriceTime!CancelRejected(req, why)
  /\ \A req : MapP!PriceTime!OrderAccepted(req) = PriceTime!OrderAccepted(req)
  /\ \A req : MapP!PriceTime!OrderModified(req) = PriceTime!OrderModified(req)
  /\ \A o : MapP!PriceTime!OrderCancelled(o) = PriceTime!OrderCancelled(o)
  /\ \A o : MapP!PriceTime!OrderRested(o) = PriceTime!OrderRested(o)
  /\ \A o : MapP!PriceTime!UnfilledMarketOrderCancelled(o) =
              PriceTime!UnfilledMarketOrderCancelled(o)
  /\ MapP!PriceTime!NoRequest = PriceTime!NoRequest
  /\ MapP!PriceTime!NoOrder = PriceTime!NoOrder
  BY DEF
    MapP!PriceTime!NewRejected, PriceTime!NewRejected,
    MapP!PriceTime!ModifyRejected, PriceTime!ModifyRejected,
    MapP!PriceTime!CancelRejected, PriceTime!CancelRejected,
    MapP!PriceTime!OrderAccepted, PriceTime!OrderAccepted,
    MapP!PriceTime!OrderModified, PriceTime!OrderModified,
    MapP!PriceTime!OrderCancelled, PriceTime!OrderCancelled,
    MapP!PriceTime!OrderRested, PriceTime!OrderRested,
    MapP!PriceTime!UnfilledMarketOrderCancelled, PriceTime!UnfilledMarketOrderCancelled,
    MapP!PriceTime!DefaultEvent, PriceTime!DefaultEvent,
    MapP!PriceTime!NoRequest, PriceTime!NoRequest, MapP!PriceTime!NoOrder, PriceTime!NoOrder

LEMMA SameSituation ==
  ASSUME Coupled
  PROVE  /\ MapP!PriceTime!is_market <=> PriceTime!is_market
         /\ \A price : MapP!PriceTime!Crosses(price) <=> PriceTime!Crosses(price)
         /\ \A o : MapP!PriceTime!trade_qty(o) = PriceTime!trade_qty(o)
         /\ \A o, qty : MapP!PriceTime!Trade(o, qty) = PriceTime!Trade(o, qty)
         /\ MapP!PriceTime!Opposite(map_incoming.side) = PriceTime!Opposite(incoming.side)
         /\ \A id : MapP!PriceTime!contains_order(id) <=> PriceTime!contains_order(id)
         /\ \A s : MapP!PriceTime!RestingOn(s) = PriceTime!RestingOn(s)
         /\ \A s, id : MapP!PriceTime!IsFront(s, id) <=> PriceTime!IsFront(s, id)
         /\ MapP!PriceTime!MatchingDone <=> PriceTime!MatchingDone
<1>1. /\ MapP!PriceTime!is_market <=> PriceTime!is_market
      /\ \A price : MapP!PriceTime!Crosses(price) <=> PriceTime!Crosses(price)
      /\ \A o : MapP!PriceTime!trade_qty(o) = PriceTime!trade_qty(o)
      /\ \A o, qty : MapP!PriceTime!Trade(o, qty) = PriceTime!Trade(o, qty)
      /\ MapP!PriceTime!Opposite(map_incoming.side) = PriceTime!Opposite(incoming.side)
  BY DEF Coupled, HandlersAgree, MapP!PriceTime!is_market, PriceTime!is_market,
     MapP!PriceTime!Crosses, PriceTime!Crosses, MapP!PriceTime!trade_qty, PriceTime!trade_qty,
     MapP!PriceTime!Trade, PriceTime!Trade, MapP!PriceTime!DefaultEvent, PriceTime!DefaultEvent,
     MapP!PriceTime!Opposite, PriceTime!Opposite
<1>2. /\ \A id : MapP!PriceTime!contains_order(id) <=> PriceTime!contains_order(id)
      /\ \A s : MapP!PriceTime!RestingOn(s) = PriceTime!RestingOn(s)
  BY SameValues DEF Coupled, MapP!PriceTime!contains_order, PriceTime!contains_order,
     MapP!PriceTime!RestingOn, PriceTime!RestingOn
<1>3. \A s, id : MapP!PriceTime!IsFront(s, id) <=> PriceTime!IsFront(s, id)
  <2>1. \A a, b : MapP!PriceTime!Precedes(a, b) <=> PriceTime!Precedes(a, b)
    BY DEF MapP!PriceTime!Precedes, PriceTime!Precedes, MapP!PriceTime!BetterPrice,
       PriceTime!BetterPrice
  <2> QED BY <1>2, <2>1 DEF Coupled, MapP!PriceTime!IsFront, PriceTime!IsFront
<1>4. MapP!PriceTime!MatchingDone <=> PriceTime!MatchingDone
  BY <1>1, <1>2 DEF Coupled, HandlersAgree, MapP!PriceTime!MatchingDone, PriceTime!MatchingDone
<1> QED BY <1>1, <1>2, <1>3, <1>4

LEMMA ReturnsAgree ==
  ASSUME HandlersAgree, UNCHANGED <<next_sequence_number, map_next_sequence_number>>,
         NEW req, NEW evs,
         PriceTime!Return(req, evs), MapP!PriceTime!Return(req, evs)
  PROVE  HandlersAgree'
  BY SameValues DEF HandlersAgree, PriceTime!Return, MapP!PriceTime!Return

LEMMA NewOrdersAgree ==
  ASSUME HandlersAgree, NEW req, NEW why, NEW evs,
         PriceTime!handle_new_order(req, why, evs),
         MapP!PriceTime!handle_new_order(req, why, evs)
  PROVE  HandlersAgree'
<1>1. CASE why # "None"
  BY <1>1, SameValues, ReturnsAgree
  DEF PriceTime!handle_new_order, MapP!PriceTime!handle_new_order
<1>2. CASE why = "None"
  BY <1>2, SameValues
  DEF HandlersAgree, PriceTime!handle_new_order, MapP!PriceTime!handle_new_order
<1> QED BY <1>1, <1>2

LEMMA AnswersAgree ==
  ASSUME HandlersAgree, NEW event
  PROVE  /\ PriceTime!Answer(event) /\ MapP!PriceTime!Answer(event) => HandlersAgree'
         /\ \A req, old :
              PriceTime!BeginModify(req, old, event) /\ MapP!PriceTime!BeginModify(req, old, event)
                => HandlersAgree'
  BY DEF HandlersAgree, PriceTime!Answer, MapP!PriceTime!Answer, PriceTime!BeginModify,
     MapP!PriceTime!BeginModify

LEMMA BothForget ==
  ASSUME Coupled, NEW id, PriceTime!Forget(id), MapP!PriceTime!Forget(id)
  PROVE  MapP!resting_orders' = resting_orders'
  BY SameValues DEF Coupled, PriceTime!Forget, MapP!PriceTime!Forget

LEMMA SameCalls ==
  ASSUME Coupled
  PROVE  /\ \A req \in NewOrderRequest : NewFits(req) =>
              MapP!PriceTime!new_order_reason(req) = PriceTime!new_order_reason(req)
         /\ \A req \in ModifyOrderRequest : ModifyFits(req) =>
              MapP!PriceTime!modify_order_reason(req) = PriceTime!modify_order_reason(req)
         /\ \A req \in CancelOrderRequest :
              MapP!PriceTime!cancel_order_reason(req) = PriceTime!cancel_order_reason(req)
<1>0. /\ \A req : /\ MapP!PriceTime!is_valid_new_order_request(req) =
                       PriceTime!is_valid_new_order_request(req)
                  /\ PriceTime!is_valid_new_order_request(req) = is_valid_new_order_request(req)
      /\ \A req : /\ MapP!PriceTime!is_valid_modify_order_request(req) =
                       PriceTime!is_valid_modify_order_request(req)
                  /\ PriceTime!is_valid_modify_order_request(req) =
                       is_valid_modify_order_request(req)
      /\ \A req : MapP!PriceTime!is_valid_cancel_order_request(req) =
                    PriceTime!is_valid_cancel_order_request(req)
  BY SameRequestChecks DEF
    MapP!PriceTime!is_valid_new_order_request, PriceTime!is_valid_new_order_request,
    MapP!PriceTime!is_valid_modify_order_request, PriceTime!is_valid_modify_order_request,
    MapP!PriceTime!is_valid_cancel_order_request, PriceTime!is_valid_cancel_order_request
<1>1. ASSUME NEW req \in NewOrderRequest, NewFits(req)
      PROVE  MapP!PriceTime!new_order_reason(req) = PriceTime!new_order_reason(req)
  <2>1. req.price \in Nat
    BY DEF NewOrderRequest
  <2>2. is_valid_new_order_request(req) = "None" /\ req.order_type = "Limit" =>
          req.price \in {level_index_to_price(l) : l \in Levels}
    BY <1>1, <2>1, TradableMeansOnLadder DEF NewFits
  <2> QED BY <1>0, <2>1, <2>2, SameSituation
      DEF MapP!PriceTime!new_order_reason, PriceTime!new_order_reason
<1>2. ASSUME NEW req \in ModifyOrderRequest, ModifyFits(req)
      PROVE  MapP!PriceTime!modify_order_reason(req) = PriceTime!modify_order_reason(req)
  <2>1. req.price \in Nat
    BY DEF ModifyOrderRequest
  <2>2. is_valid_modify_order_request(req) = "None" /\ req.order_type = "Limit" =>
          req.price \in {level_index_to_price(l) : l \in Levels}
    BY <1>2, <2>1, TradableMeansOnLadder DEF ModifyFits
  <2> QED BY <1>0, <2>1, <2>2, SameSituation
      DEF MapP!PriceTime!modify_order_reason, PriceTime!modify_order_reason
<1>3. ASSUME NEW req \in CancelOrderRequest
      PROVE  MapP!PriceTime!cancel_order_reason(req) = PriceTime!cancel_order_reason(req)
  BY <1>0, SameSituation DEF MapP!PriceTime!cancel_order_reason, PriceTime!cancel_order_reason
<1> QED BY <1>1, <1>2, <1>3

LEMMA SubmitNewAgrees ==
  ASSUME Coupled, NEW req \in NewOrderRequest, NewFits(req),
         PriceTime!SubmitNew(req), MapP!PriceTime!SubmitNew(req)
  PROVE  Coupled'
<1>1. HandlersAgree'
  BY SameCalls, NewOrdersAgree DEF Coupled, PriceTime!SubmitNew, MapP!PriceTime!SubmitNew
<1>2. MapP!resting_orders' = resting_orders'
  BY DEF Coupled, PriceTime!SubmitNew, MapP!PriceTime!SubmitNew
<1> QED BY <1>1, <1>2 DEF Coupled

LEMMA SubmitCancelAgrees ==
  ASSUME Coupled, NEW req \in CancelOrderRequest,
         PriceTime!SubmitCancel(req), MapP!PriceTime!SubmitCancel(req)
  PROVE  Coupled'
<1>1. MapP!PriceTime!cancel_order_reason(req) = PriceTime!cancel_order_reason(req)
  BY SameCalls
<1>2. CASE PriceTime!cancel_order_reason(req) = "None"
  <2>1. /\ PriceTime!Answer(PriceTime!OrderCancelled(resting_orders[req.order_id]))
        /\ MapP!PriceTime!Answer(PriceTime!OrderCancelled(resting_orders[req.order_id]))
        /\ PriceTime!Forget(req.order_id) /\ MapP!PriceTime!Forget(req.order_id)
    BY <1>1, <1>2, SameValues DEF Coupled, PriceTime!SubmitCancel, MapP!PriceTime!SubmitCancel
  <2> QED BY <2>1, AnswersAgree, BothForget DEF Coupled
<1>3. CASE PriceTime!cancel_order_reason(req) # "None"
  <2>1. /\ PriceTime!Answer(PriceTime!CancelRejected(req, PriceTime!cancel_order_reason(req)))
        /\ MapP!PriceTime!Answer(
             PriceTime!CancelRejected(req, PriceTime!cancel_order_reason(req)))
        /\ UNCHANGED <<resting_orders, MapP!resting_orders>>
    BY <1>1, <1>3, SameValues DEF PriceTime!SubmitCancel, MapP!PriceTime!SubmitCancel
  <2> QED BY <2>1, AnswersAgree DEF Coupled
<1> QED BY <1>2, <1>3

LEMMA SubmitModifyAgrees ==
  ASSUME Coupled, NEW req \in ModifyOrderRequest, ModifyFits(req),
         PriceTime!SubmitModify(req), MapP!PriceTime!SubmitModify(req)
  PROVE  Coupled'
<1>1. MapP!PriceTime!modify_order_reason(req) = PriceTime!modify_order_reason(req)
  BY SameCalls
<1>2. CASE PriceTime!modify_order_reason(req) = "None"
  <2>a. PICK old : old = resting_orders[req.order_id]
    OBVIOUS
  <2>1. /\ PriceTime!BeginModify(req, old, PriceTime!OrderCancelled(old))
        /\ MapP!PriceTime!BeginModify(req, old, PriceTime!OrderCancelled(old))
        /\ PriceTime!Forget(req.order_id) /\ MapP!PriceTime!Forget(req.order_id)
    BY <1>1, <1>2, <2>a, SameValues
    DEF Coupled, PriceTime!SubmitModify, MapP!PriceTime!SubmitModify
  <2> QED BY <2>1, AnswersAgree, BothForget DEF Coupled
<1>3. CASE PriceTime!modify_order_reason(req) # "None"
  <2>1. /\ PriceTime!Answer(PriceTime!ModifyRejected(req, PriceTime!modify_order_reason(req)))
        /\ MapP!PriceTime!Answer(
             PriceTime!ModifyRejected(req, PriceTime!modify_order_reason(req)))
        /\ UNCHANGED <<resting_orders, MapP!resting_orders>>
    BY <1>1, <1>3, SameValues DEF PriceTime!SubmitModify, MapP!PriceTime!SubmitModify
  <2> QED BY <2>1, AnswersAgree DEF Coupled
<1> QED BY <1>2, <1>3

LEMMA ResubmitAgrees ==
  ASSUME Coupled, PriceTime!Resubmit, MapP!PriceTime!Resubmit
  PROVE  Coupled'
<1>1. HandlersAgree'
  BY NewOrdersAgree DEF Coupled, HandlersAgree, PriceTime!Resubmit, MapP!PriceTime!Resubmit
<1>2. MapP!resting_orders' = resting_orders'
  BY DEF Coupled, PriceTime!Resubmit, MapP!PriceTime!Resubmit
<1> QED BY <1>1, <1>2 DEF Coupled

\* Price-time priority leaves no choice of the order to trade with.
LEMMA OneFront ==
  ASSUME IInv, NEW s \in BookSides, NEW a, NEW b,
         PriceTime!IsFront(s, a), PriceTime!IsFront(s, b)
  PROVE  a = b
<1>1. ASSUME NEW id \in PriceTime!RestingOn(s)
      PROVE  /\ resting_orders[id].side = s /\ resting_orders[id].price \in Nat
             /\ resting_orders[id].sequence_number \in Nat
  <2>1. /\ resting_orders[id] = order[lookup[id]] /\ lookup[id] \in in_use
        /\ order[lookup[id]].side = s
    BY <1>1, OrdersOfSide
  <2>2. order[lookup[id]] \in Order
    BY <2>1 DEF IInv, TypeOK, LadderTypeOK
  <2> QED BY <2>1, <2>2 DEF Order
<1>2. SUFFICES ASSUME a # b PROVE FALSE
  OBVIOUS
<1>3. /\ a \in PriceTime!RestingOn(s) /\ b \in PriceTime!RestingOn(s)
      /\ PriceTime!Precedes(resting_orders[a], resting_orders[b])
      /\ PriceTime!Precedes(resting_orders[b], resting_orders[a])
  BY <1>2 DEF PriceTime!IsFront
<1> QED BY <1>1, <1>3 DEF PriceTime!Precedes, PriceTime!BetterPrice

LEMMA MatchAgrees ==
  ASSUME Coupled, IInv, NEW id, NEW map_id,
         PriceTime!Match(id), MapP!PriceTime!Match(map_id)
  PROVE  Coupled'
<1>1. map_id = id
  <2>1. PriceTime!Opposite(incoming.side) \in BookSides
    BY DEF PriceTime!Opposite, BookSides
  <2>2. /\ PriceTime!IsFront(PriceTime!Opposite(incoming.side), id)
        /\ PriceTime!IsFront(PriceTime!Opposite(incoming.side), map_id)
    BY SameSituation DEF PriceTime!Match, MapP!PriceTime!Match
  <2> QED BY <2>1, <2>2, OneFront
<1>a. PICK o : o = resting_orders[id]
  OBVIOUS
<1>2. PriceTime!TradeWith(o) /\ MapP!PriceTime!TradeWith(o)
  BY <1>1, <1>a DEF Coupled, PriceTime!Match, MapP!PriceTime!Match
<1>3. HandlersAgree'
  BY <1>2, SameSituation DEF Coupled, HandlersAgree, PriceTime!TradeWith, MapP!PriceTime!TradeWith
<1>4. CASE o.remaining_quantity = PriceTime!trade_qty(o)
  <2>1. PriceTime!Forget(id) /\ MapP!PriceTime!Forget(id)
    BY <1>1, <1>4, <1>a, SameSituation DEF Coupled, PriceTime!Match, MapP!PriceTime!Match
  <2> QED BY <1>3, <2>1, BothForget DEF Coupled
<1>5. CASE o.remaining_quantity # PriceTime!trade_qty(o)
  <2>1. MapP!resting_orders' = resting_orders'
    BY <1>1, <1>5, <1>a, SameSituation DEF Coupled, PriceTime!Match, MapP!PriceTime!Match
  <2> QED BY <1>3, <2>1 DEF Coupled
<1> QED BY <1>4, <1>5

LEMMA RestAgrees ==
  ASSUME Coupled, PriceTime!Rest, MapP!PriceTime!Rest
  PROVE  Coupled'
<1>1. /\ PriceTime!Return(new_req, Append(events, PriceTime!OrderRested(incoming)))
      /\ MapP!PriceTime!Return(new_req, Append(events, PriceTime!OrderRested(incoming)))
      /\ UNCHANGED <<next_sequence_number, map_next_sequence_number>>
  BY SameValues DEF Coupled, HandlersAgree, PriceTime!Rest, MapP!PriceTime!Rest
<1>2. MapP!resting_orders' = resting_orders'
  BY DEF Coupled, HandlersAgree, PriceTime!Rest, MapP!PriceTime!Rest
<1> QED BY <1>1, <1>2, ReturnsAgree DEF Coupled

LEMMA NothingRestsAgrees ==
  ASSUME Coupled, PriceTime!NothingRests, MapP!PriceTime!NothingRests
  PROVE  Coupled'
<1>a. PICK evs : evs = IF incoming.remaining_quantity = 0 THEN events
                       ELSE Append(events, PriceTime!UnfilledMarketOrderCancelled(incoming))
  OBVIOUS
<1>1. /\ PriceTime!Return(new_req, evs) /\ MapP!PriceTime!Return(new_req, evs)
      /\ UNCHANGED <<next_sequence_number, map_next_sequence_number>>
  BY <1>a, SameValues
  DEF Coupled, HandlersAgree, PriceTime!NothingRests, MapP!PriceTime!NothingRests,
      PriceTime!FinishWithoutResting, MapP!PriceTime!FinishWithoutResting
<1>2. MapP!resting_orders' = resting_orders'
  BY DEF Coupled, PriceTime!NothingRests, MapP!PriceTime!NothingRests
<1> QED BY <1>1, <1>2, ReturnsAgree DEF Coupled

\* What a running call does next is the same in both: it is past the checks, it
\* trades, or there is nothing left to trade with.
LEMMA RunsAgree ==
  ASSUME Coupled, IInv, NEW id, NEW map_id,
         \/ PriceTime!Resubmit \/ PriceTime!Match(id)
         \/ PriceTime!Rest \/ PriceTime!NothingRests,
         \/ MapP!PriceTime!Resubmit \/ MapP!PriceTime!Match(map_id)
         \/ MapP!PriceTime!Rest \/ MapP!PriceTime!NothingRests
  PROVE  Coupled'
<1>1. /\ PriceTime!Resubmit => pc = "resubmit"
      /\ MapP!PriceTime!Resubmit => pc = "resubmit"
      /\ PriceTime!Match(id) => pc = "matching" /\ ~PriceTime!MatchingDone
      /\ MapP!PriceTime!Match(map_id) => pc = "matching" /\ ~PriceTime!MatchingDone
  <2>1. PriceTime!Match(id) => pc = "matching" /\ ~PriceTime!MatchingDone
    <3>1. incoming.remaining_quantity \in Nat
      BY DEF IInv, TypeOK, HandlerTypeOK, Order
    <3> QED BY <3>1 DEF PriceTime!Match, PriceTime!IsFront, PriceTime!MatchingDone
  <2>2. MapP!PriceTime!Match(map_id) => pc = "matching" /\ ~MapP!PriceTime!MatchingDone
    <3>1. map_incoming.remaining_quantity \in Nat /\ map_pc = pc
      BY DEF Coupled, HandlersAgree, IInv, TypeOK, HandlerTypeOK, Order
    <3> QED BY <3>1 DEF MapP!PriceTime!Match, MapP!PriceTime!IsFront, MapP!PriceTime!MatchingDone
  <2> QED BY <2>1, <2>2, SameSituation
      DEF Coupled, HandlersAgree, PriceTime!Resubmit, MapP!PriceTime!Resubmit
<1>2. /\ PriceTime!Rest \/ PriceTime!NothingRests => PriceTime!MatchingDone /\ pc = "matching"
      /\ MapP!PriceTime!Rest \/ MapP!PriceTime!NothingRests =>
           PriceTime!MatchingDone /\ pc = "matching"
  BY SameSituation DEF PriceTime!Rest, PriceTime!NothingRests, PriceTime!MatchingDone,
     MapP!PriceTime!Rest, MapP!PriceTime!NothingRests
<1>3. /\ ~(PriceTime!Rest /\ MapP!PriceTime!NothingRests)
      /\ ~(PriceTime!NothingRests /\ MapP!PriceTime!Rest)
  <2>1. incoming.remaining_quantity \in Nat /\ map_incoming = incoming
    BY DEF Coupled, HandlersAgree, IInv, TypeOK, HandlerTypeOK, Order
  <2> QED BY <2>1, SameSituation DEF PriceTime!Rest, PriceTime!NothingRests,
      MapP!PriceTime!Rest, MapP!PriceTime!NothingRests
<1>4. CASE PriceTime!Resubmit
  BY <1>1, <1>2, <1>4, ResubmitAgrees
<1>5. CASE PriceTime!Match(id)
  BY <1>1, <1>2, <1>5, MatchAgrees
<1>6. CASE PriceTime!Rest
  BY <1>1, <1>2, <1>3, <1>6, RestAgrees
<1>7. CASE PriceTime!NothingRests
  BY <1>1, <1>2, <1>3, <1>7, NothingRestsAgrees
<1> QED BY <1>4, <1>5, <1>6, <1>7

-----------------------------------------------------------------------------
(***************************************************************************)
(* The steps of the two books.                                             *)
(***************************************************************************)
LEMMA LadderRunsAreSteps ==
  ASSUME IInv, LadderRuns
  PROVE  \E id : \/ PriceTime!Resubmit \/ PriceTime!Match(id)
                 \/ PriceTime!Rest \/ PriceTime!NothingRests
<1>1. CASE match_buy
  BY <1>1, MatchImplements, NoEmptyLevelIsMatched DEF Opposite, BookSides
<1>2. CASE match_sell
  BY <1>2, MatchImplements, NoEmptyLevelIsMatched DEF Opposite, BookSides
<1> QED BY <1>1, <1>2, ResubmitImplements, AddRestingOrderImplements, NothingRestsImplements
    DEF LadderRuns

LEMMA MapRunsAreSteps ==
  ASSUME MapP!IInv, MapP!IInv', MapRuns
  PROVE  \E id : \/ MapP!PriceTime!Resubmit \/ MapP!PriceTime!Match(id)
                 \/ MapP!PriceTime!Rest \/ MapP!PriceTime!NothingRests
<1>1. CASE Map!match_buy
  <2>1. MapP!match_buy
    BY <1>1, OneMap
  <2> QED BY <2>1, MapAssumption, MapP!MatchImplements, MapP!NoEmptyLevelIsMatched
      DEF MapP!Opposite, MapP!BookSides
<1>2. CASE Map!match_sell
  <2>1. MapP!match_sell
    BY <1>2, OneMap
  <2> QED BY <2>1, MapAssumption, MapP!MatchImplements, MapP!NoEmptyLevelIsMatched
      DEF MapP!Opposite, MapP!BookSides
<1>3. CASE Map!Resubmit
  BY <1>3, OneMap, MapAssumption, MapP!ResubmitImplements
<1>4. CASE Map!add_resting_order
  BY <1>4, OneMap, MapAssumption, MapP!AddRestingOrderImplements
<1>5. CASE Map!NothingRests
  BY <1>5, OneMap, MapAssumption, MapP!NothingRestsImplements
<1> QED BY <1>1, <1>2, <1>3, <1>4, <1>5 DEF MapRuns

\* process() of the two adapters, with the same request of the right type.
LEMMA BothNewAgrees ==
  ASSUME Coupled, IInv, MapP!IInv, MapP!IInv',
         NEW req \in NewOrderRequest, req.order_id \in OrderIds, NewFits(req),
         SubmitNew(req), Map!SubmitNew(req)
  PROVE  Coupled'
  BY OneMap, SameRequests, SubmitNewImplements, MapAssumption, MapP!SubmitNewImplements,
     SubmitNewAgrees

LEMMA BothModifyAgrees ==
  ASSUME Coupled, IInv, MapP!IInv, MapP!IInv',
         NEW req \in ModifyOrderRequest, req.order_id \in OrderIds, ModifyFits(req),
         SubmitModify(req), Map!SubmitModify(req)
  PROVE  Coupled'
  BY OneMap, SameRequests, SubmitModifyImplements, MapAssumption, MapP!SubmitModifyImplements,
     SubmitModifyAgrees

LEMMA BothCancelAgrees ==
  ASSUME Coupled, IInv, MapP!IInv, MapP!IInv',
         NEW req \in CancelOrderRequest, req.order_id \in OrderIds,
         SubmitCancel(req), Map!SubmitCancel(req)
  PROVE  Coupled'
  BY OneMap, SameRequests, SubmitCancelImplements, MapAssumption, MapP!SubmitCancelImplements,
     SubmitCancelAgrees

LEMMA BothSubmitAgrees ==
  ASSUME Coupled, PricesAreOnTheLadder, IInv, MapP!IInv, MapP!IInv', BothSubmit
  PROVE  Coupled'
  BY HandlerAssumption, BothNewAgrees, BothModifyAgrees, BothCancelAgrees
  DEF BothSubmit, PricesAreOnTheLadder

LEMMA BothRunAgrees ==
  ASSUME Coupled, IInv, MapP!IInv, MapP!IInv', BothRun
  PROVE  Coupled'
<1>1. LadderRuns /\ MapRuns
  BY DEF BothRun, Coupled, HandlersAgree
<1> QED BY <1>1, LadderRunsAreSteps, MapRunsAreSteps, RunsAgree

LEMMA BothCollectAgrees ==
  ASSUME Coupled, BothCollect
  PROVE  Coupled'
<1>1. /\ Collect /\ UNCHANGED bookVars
      /\ MapP!Collect /\ UNCHANGED MapP!bookVars
  BY OneMap DEF BothCollect, mapBookVars, MapP!bookVars
<1>2. MapP!resting_orders' = resting_orders'
  BY <1>1, SameBookSameOrders, MapAssumption, MapP!SameBookSameOrders DEF Coupled
<1> QED BY <1>1, <1>2 DEF Coupled, HandlersAgree, Collect, MapP!Collect

LEMMA UnchangedAgrees ==
  ASSUME Coupled, UNCHANGED bothVars
  PROVE  Coupled'
<1>1. UNCHANGED vars /\ UNCHANGED MapP!vars
  BY OneMap DEF bothVars
<1>2. MapP!resting_orders' = resting_orders'
  BY <1>1, SameBookSameOrders, MapAssumption, MapP!SameBookSameOrders
  DEF Coupled, vars, MapP!vars
<1> QED BY <1>1, <1>2 DEF Coupled, HandlersAgree, vars, handlerVars, MapP!vars,
    MapP!handlerVars

LEMMA StaysCoupled ==
  PricesAreOnTheLadder /\ IInv /\ MapP!IInv /\ MapP!IInv' /\ Coupled /\ [BothNext]_bothVars
    => Coupled'
<1> SUFFICES ASSUME PricesAreOnTheLadder, IInv, MapP!IInv, MapP!IInv', Coupled,
                    [BothNext]_bothVars
             PROVE  Coupled'
  OBVIOUS
<1> QED BY BothSubmitAgrees, BothRunAgrees, BothCollectAgrees, UnchangedAgrees DEF BothNext

LEMMA StartCoupled == BothInit => Coupled
<1> SUFFICES ASSUME BothInit PROVE Coupled
  OBVIOUS
<1>1. Init /\ MapP!Init
  BY OneMap DEF BothInit
<1>2. NoRequest = MapP!NoRequest /\ NoOrder = MapP!NoOrder
  BY DEF NoRequest, MapP!NoRequest, NoOrder, MapP!NoOrder
<1>3. resting_orders = [id \in OrderIds |-> NoOrder]
  BY <1>1 DEF Init, resting_orders, contains_order
<1>4. MapP!resting_orders = [id \in OrderIds |-> MapP!NoOrder]
  BY <1>1 DEF MapP!Init, MapP!resting_orders, MapP!contains_order
<1> QED BY <1>1, <1>2, <1>3, <1>4
    DEF Coupled, HandlersAgree, Init, HandlerInit, MapP!Init, MapP!HandlerInit

\* Requests that only name prices on the ladder never tell the two books apart: at
\* every step of the two matching loops the calls stand at the same place.
THEOREM BooksStayInStep == ASSUME PricesAreOnTheLadder PROVE BothSpec => []Coupled
<1>1. BothInit => Coupled
  BY StartCoupled
<1>2. IInv /\ MapP!IInv /\ MapP!IInv' /\ Coupled /\ [BothNext]_bothVars => Coupled'
  BY StaysCoupled
<1> QED BY <1>1, <1>2, BothAreSound, PTL DEF BothSpec

\* The events that the two books return for a request are the same, one by one.
THEOREM BooksAnswerAlike == ASSUME PricesAreOnTheLadder PROVE BothSpec => []SameEvents
<1>1. Coupled => SameEvents
  BY DEF Coupled, HandlersAgree, SameEvents
<1> QED BY <1>1, BooksStayInStep, PTL

-----------------------------------------------------------------------------
(***************************************************************************)
(* What the two books quote.                                               *)
(***************************************************************************)
LEMMA SameSides ==
  ASSUME Coupled, NEW s
  PROVE  /\ MapP!On(MapP!resting_orders, s) = On(resting_orders, s)
         /\ MapP!PricesOn(MapP!resting_orders, s) = PricesOn(resting_orders, s)
         /\ \A p : MapP!QuantityAt(MapP!resting_orders, s, p) = QuantityAt(resting_orders, s, p)
<1>1. MapP!On(MapP!resting_orders, s) = On(resting_orders, s)
  BY DEF Coupled, MapP!On, On
<1>2. MapP!PricesOn(MapP!resting_orders, s) = PricesOn(resting_orders, s)
  BY <1>1 DEF Coupled, MapP!PricesOn, PricesOn
<1>3. \A p : MapP!QuantityAt(MapP!resting_orders, s, p) = QuantityAt(resting_orders, s, p)
  BY <1>1 DEF Coupled, MapP!QuantityAt, QuantityAt, MapP!SumFunctionOnSet, SumFunctionOnSet,
     MapP!FoldFunctionOnSet, FoldFunctionOnSet, MapP!MapThenFoldSet, MapThenFoldSet
<1> QED BY <1>1, <1>2, <1>3

LEMMA SameBest ==
  ASSUME Coupled, IInv, MapP!IInv, NEW s \in BookSides
  PROVE  /\ best[s] = invalid_level <=> DOMAIN levels[s] = {}
         /\ best[s] # invalid_level => level_index_to_price(best[s]) = MapP!best_price(s)
<1>1. s \in MapP!BookSides
  BY DEF BookSides, MapP!BookSides
<1>2. best[s] = invalid_level <=> DOMAIN levels[s] = {}
  BY <1>1, SameSides, BestOfOrders, MapAssumption, MapP!BestOfOrders
<1>3. ASSUME best[s] # invalid_level
      PROVE  level_index_to_price(best[s]) = MapP!best_price(s)
  <2>a. PICK p : p = level_index_to_price(best[s])
    OBVIOUS
  <2>b. PICK q : q = MapP!best_price(s)
    OBVIOUS
  <2>1. /\ p \in PricesOn(resting_orders, s)
        /\ \A r \in PricesOn(resting_orders, s) :
             r \in 0 .. MaxPrice /\ IF s = "Buy" THEN r <= p ELSE p <= r
    BY <1>3, <2>a, BestOfOrders
  <2>2. /\ q \in PricesOn(resting_orders, s)
        /\ \A r \in PricesOn(resting_orders, s) :
             r \in Nat /\ IF s = "Buy" THEN r <= q ELSE q <= r
    BY <1>1, <1>2, <1>3, <2>b, SameSides, MapAssumption, MapP!BestOfOrders
  <2>3. p = q
    BY <2>1, <2>2
  <2> QED BY <2>3, <2>a, <2>b
<1> QED BY <1>2, <1>3

LEMMA SameLevelTotal ==
  ASSUME Coupled, IInv, TotalsAreSums, MapP!IInv, MapP!MapTotalsAreSums,
         NEW s \in BookSides, best[s] # invalid_level,
         NEW p, p = MapP!best_price(s)
  PROVE  total_quantity[s][best[s]] = levels[s][p].total_quantity
<1>1. s \in MapP!BookSides
  BY DEF BookSides, MapP!BookSides
<1>2. best[s] \in Levels /\ level_index_to_price(best[s]) = p
  BY SameBest, BestOfOrders
<1>3. p \in DOMAIN levels[s]
  BY <1>1, SameBest, MapAssumption, MapP!BestOfOrders
<1>4. total_quantity[s][best[s]] = QuantityAt(resting_orders, s, p) % QuantityMod
  BY <1>2, QuantityOfLevel DEF TotalsAreSums, Quantity
<1>5. levels[s][p].total_quantity =
        MapP!QuantityAt(MapP!resting_orders, s, p) % QuantityMod
  BY <1>1, <1>3, MapAssumption, MapP!QuantityOfList DEF MapP!MapTotalsAreSums
<1> QED BY <1>4, <1>5, SameSides

LEMMA QuotesAgree ==
  Coupled /\ IInv /\ TotalsAreSums /\ MapP!IInv /\ MapP!MapTotalsAreSums => SameQuotes
<1> SUFFICES ASSUME Coupled, IInv, TotalsAreSums, MapP!IInv, MapP!MapTotalsAreSums,
                    NEW s \in BookSides
             PROVE  LadderQuote(s) = MapQuote(s)
  BY DEF SameQuotes
<1>a. PICK p : p = MapP!best_price(s)
  OBVIOUS
<1>1. Map!best_price(s) = p
  BY <1>a, OneStorage
<1>2. CASE best[s] = invalid_level
  BY <1>2, SameBest DEF LadderQuote, MapQuote
<1>3. CASE best[s] # invalid_level
  <2>1. DOMAIN levels[s] # {} /\ level_index_to_price(best[s]) = p
    BY <1>3, <1>a, SameBest
  <2>2. total_quantity[s][best[s]] = levels[s][p].total_quantity
    BY <1>3, <1>a, SameLevelTotal
  <2> QED BY <1>1, <1>3, <2>1, <2>2 DEF LadderQuote, MapQuote
<1> QED BY <1>2, <1>3

\* Between two requests the best bid and the best ask are the same in both books,
\* price and quantity (modulo the width of Quantity in both).
THEOREM BooksQuoteAlike == ASSUME PricesAreOnTheLadder PROVE BothSpec => []SameQuotes
<1>1. Coupled /\ IInv /\ TotalsAreSums /\ MapP!IInv /\ MapP!MapTotalsAreSums => SameQuotes
  BY QuotesAgree
<1> QED BY <1>1, BooksStayInStep, BothAreSound, PTL
=============================================================================
