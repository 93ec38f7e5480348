-------------------------- MODULE BenchmarkRun_proofs --------------------------
(***************************************************************************)
(* The benchmark, for every workload, length of the trace, ladder and pool *)
(* capacity: what its sinks count. BenchInv is inductive; what needs the   *)
(* two books in step, or limit prices that are on the ladder, is proved    *)
(* from PricesFit.                                                         *)
(***************************************************************************)
EXTENDS BenchmarkRun, TwoBooks_proofs

\* The generator again, with what is proved about it.
GP == INSTANCE WorkloadGenerator_proofs

-----------------------------------------------------------------------------
(***************************************************************************)
(* Generator and GP are the same instance under two names.                 *)
(***************************************************************************)
LEMMA GeneratorAssumption ==
  /\ Workloads \subseteq GP!all_workload_names
  /\ NumOps \subseteq Nat
  /\ PriceMod \in Nat \ {0}
  /\ {MinPrice, MaxPrice, MidPrice} \subseteq 0 .. PriceMod - 1
  /\ TickSize \in 1 .. PriceMod - 1
  /\ MaxQuantity \in Nat \ {0}
  BY BenchmarkAssumption, LadderAssumption
  DEF GP!all_workload_names, GP!TrackingWorkloads, GP!SeededWorkloads,
      Generator!all_workload_names, Generator!TrackingWorkloads, Generator!SeededWorkloads

LEMMA OneGenerator ==
  /\ Generator!GeneratorInit <=> GP!GeneratorInit
  /\ Generator!Generate <=> GP!Generate
  /\ Generator!GeneratorTypeOK <=> GP!GeneratorTypeOK
  /\ Generator!PassiveWorkloads = GP!PassiveWorkloads
  /\ Generator!half = GP!half
<1>1. /\ Generator!GeneratorInit <=> GP!GeneratorInit
      /\ Generator!GeneratorTypeOK <=> GP!GeneratorTypeOK
      /\ Generator!PassiveWorkloads = GP!PassiveWorkloads
      /\ Generator!half = GP!half
  BY DEF Generator!GeneratorInit, GP!GeneratorInit, Generator!GeneratorTypeOK,
     GP!GeneratorTypeOK, Generator!BenchRequest, GP!BenchRequest, Generator!BenchOpTypes,
     GP!BenchOpTypes, Generator!Sides, GP!Sides, Generator!BookSides, GP!BookSides,
     Generator!OrderTypes, GP!OrderTypes, Generator!PassiveWorkloads, GP!PassiveWorkloads,
     Generator!half, GP!half
<1>2. /\ \A a, b : Generator!random_price(a, b) = GP!random_price(a, b)
      /\ \A ticks : Generator!mid_plus(ticks) = GP!mid_plus(ticks)
      /\ Generator!random_quantity = GP!random_quantity
      /\ Generator!BookSides = GP!BookSides
  BY DEF Generator!random_price, GP!random_price, Generator!mid_plus, GP!mid_plus,
     Generator!random_quantity, GP!random_quantity, Generator!BookSides, GP!BookSides
<1>3. /\ \A side : Generator!passive_price(side) = GP!passive_price(side)
      /\ \A side : Generator!aggressive_price(side) = GP!aggressive_price(side)
      /\ \A side : Generator!narrow_price(side) = GP!narrow_price(side)
  BY <1>2 DEF Generator!passive_price, GP!passive_price, Generator!aggressive_price,
     GP!aggressive_price, Generator!narrow_price, GP!narrow_price
<1>4. /\ \A id, side, price, qty :
           Generator!make_new_limit(id, side, price, qty) = GP!make_new_limit(id, side, price, qty)
      /\ \A id, side, qty :
           Generator!make_new_market(id, side, qty) = GP!make_new_market(id, side, qty)
      /\ \A id : Generator!make_cancel(id) = GP!make_cancel(id)
      /\ \A id, price, qty :
           Generator!make_modify(id, price, qty) = GP!make_modify(id, price, qty)
  BY DEF Generator!make_new_limit, GP!make_new_limit, Generator!make_new_market,
     GP!make_new_market, Generator!make_cancel, GP!make_cancel, Generator!make_modify,
     GP!make_modify
<1>5. /\ Generator!Generating <=> GP!Generating
      /\ Generator!Seeding <=> GP!Seeding
      /\ Generator!Tracks <=> GP!Tracks
      /\ Generator!Picks <=> GP!Picks
      /\ Generator!config = GP!config
      /\ \A idx : Generator!pick(idx) = GP!pick(idx)
      /\ \A idx : Generator!ids_without(idx) = GP!ids_without(idx)
      /\ \A req : Generator!AddNew(req) <=> GP!AddNew(req)
  BY DEF Generator!Generating, GP!Generating, Generator!Seeding, GP!Seeding,
     Generator!Tracks, GP!Tracks, Generator!Picks, GP!Picks, Generator!config, GP!config,
     Generator!pick, GP!pick, Generator!ids_without, GP!ids_without, Generator!AddNew,
     GP!AddNew, Generator!SeededWorkloads, GP!SeededWorkloads, Generator!TrackingWorkloads,
     GP!TrackingWorkloads
<1>6. Generator!GeneratePassive <=> GP!GeneratePassive
  BY <1>2, <1>3, <1>4, <1>5 DEF Generator!GeneratePassive, GP!GeneratePassive,
     Generator!config, GP!config
<1>7. Generator!GenerateNarrow <=> GP!GenerateNarrow
  BY <1>2, <1>3, <1>4, <1>5 DEF Generator!GenerateNarrow, GP!GenerateNarrow,
     Generator!config, GP!config
<1>8. Generator!GenerateAggressive <=> GP!GenerateAggressive
  BY <1>2, <1>3, <1>4, <1>5 DEF Generator!GenerateAggressive, GP!GenerateAggressive,
     Generator!config, GP!config
<1>9. Generator!GenerateMarket <=> GP!GenerateMarket
  BY <1>2, <1>3, <1>4, <1>5 DEF Generator!GenerateMarket, GP!GenerateMarket,
     Generator!config, GP!config
<1>10. Generator!GenerateCancel <=> GP!GenerateCancel
  BY <1>2, <1>3, <1>4, <1>5 DEF Generator!GenerateCancel, GP!GenerateCancel,
     Generator!config, GP!config
<1>11. Generator!GenerateModify <=> GP!GenerateModify
  BY <1>2, <1>3, <1>4, <1>5 DEF Generator!GenerateModify, GP!GenerateModify,
     Generator!config, GP!config
<1>12. Generator!GenerateFifo <=> GP!GenerateFifo
  BY <1>1, <1>2, <1>3, <1>4, <1>5 DEF Generator!GenerateFifo, GP!GenerateFifo,
     Generator!config, GP!config
<1>13. Generator!Generate <=> GP!Generate
  BY <1>6, <1>7, <1>8, <1>9, <1>10, <1>11, <1>12 DEF Generator!Generate, GP!Generate
<1> QED BY <1>1, <1>13

-----------------------------------------------------------------------------
(***************************************************************************)
(* The inductive invariant: the trace, both books, and how far the replay  *)
(* has come.                                                               *)
(***************************************************************************)
ReplayIsSound ==
  /\ phase \in {"generating", "warmup", "measured", "done", "failed"}
  /\ position \in 0 .. Len(trace)
  /\ Replaying => position <= replayed
  /\ pc = "idle" <=> map_pc = "idle"
  /\ ~BetweenCalls => Replaying /\ position < replayed
  /\ {sink, warmup_sink} \subseteq [Layers -> [BookTypes -> BenchmarkEventSink]]

TraceIsSound == GP!GeneratorInv /\ GP!TraceIsSubmittable /\ GP!FifoTrace

BenchInv == TraceIsSound /\ IInv /\ MapP!IInv /\ ReplayIsSound

LEMMA LengthOfTrace ==
  ASSUME TraceIsSound
  PROVE  /\ trace \in Seq(GP!BenchRequest) /\ Len(trace) \in Nat
         /\ DOMAIN trace = 1 .. Len(trace)
         /\ replayed \in 0 .. Len(trace)
<1>1. trace \in Seq(GP!BenchRequest)
  BY DEF TraceIsSound, GP!GeneratorInv, GP!GeneratorTypeOK
<1>2. Len(trace) \in Nat /\ DOMAIN trace = 1 .. Len(trace)
  BY <1>1
<1> QED BY <1>1, <1>2, BenchmarkAssumption DEF replayed, warmup_ops

\* A request of the trace fits the types of the books, and its identifier is theirs.
LEMMA RequestOfTrace ==
  ASSUME TraceIsSound, NEW k \in DOMAIN trace, NEW req, req = trace[k]
  PROVE  /\ req \in GP!BenchRequest /\ GP!IsSubmittable(req)
         /\ req.order_id \in OrderIds
         /\ as_new(req) \in NewOrderRequest
         /\ as_modify(req) \in ModifyOrderRequest
         /\ as_cancel(req) \in CancelOrderRequest
<1>1. req \in GP!BenchRequest /\ GP!IsSubmittable(req)
  BY DEF TraceIsSound, GP!GeneratorInv, GP!GeneratorTypeOK, GP!TraceIsSubmittable
<1>2. req.order_id \in Nat /\ req.order_id # 0 /\ req.order_id < next_id
  BY <1>1 DEF GP!IsSubmittable, GP!BenchRequest, TraceIsSound, GP!GeneratorInv, GP!NextIdIsFresh
<1>3. /\ next_id \in Nat /\ next_id <= Len(trace) + 1 /\ Len(trace) \in Nat
      /\ Len(trace) <= num_ops /\ num_ops \in NumOps /\ num_ops \in Nat
  BY LengthOfTrace, BenchmarkAssumption
  DEF TraceIsSound, GP!GeneratorInv, GP!GeneratorTypeOK, GP!TraceIsSubmittable
<1>4. req.order_id \in OrderIds
  <2>1. req.order_id \in 1 .. num_ops
    BY <1>2, <1>3
  <2> QED BY <1>3, <2>1, BenchmarkAssumption
<1>5. /\ req.symbol_id \in Nat /\ req.side \in Sides /\ req.order_type \in OrderTypes
      /\ req.price \in Nat /\ req.quantity \in Nat
      /\ {"Limit", "Market"} \subseteq OrderTypes
  BY <1>1 DEF GP!BenchRequest, GP!Sides, Sides, GP!BookSides, BookSides, GP!OrderTypes, OrderTypes
<1> QED BY <1>1, <1>2, <1>4, <1>5
    DEF as_new, as_modify, as_cancel, NewOrderRequest, ModifyOrderRequest, CancelOrderRequest

-----------------------------------------------------------------------------
(***************************************************************************)
(* The steps of the books, seen from the replay.                           *)
(***************************************************************************)
LEMMA RunsStayInside ==
  /\ LadderRuns => pc # "idle" /\ pc' # "idle"
  /\ MapRuns => map_pc # "idle" /\ map_pc' # "idle"
<1>1. LadderRuns => pc # "idle" /\ pc' # "idle"
  <2>1. Resubmit => pc # "idle" /\ pc' # "idle"
    BY DEF Resubmit, handle_new_order, Return
  <2>2. match_buy \/ match_sell => pc # "idle" /\ pc' # "idle"
    BY DEF match_buy, match_sell, MatchBest, PassEmptyLevel, MatchFront, TradeWith, handlerVars
  <2>3. add_resting_order => pc # "idle" /\ pc' # "idle"
    BY DEF add_resting_order, MatchingDone, Return
  <2>4. NothingRests => pc # "idle" /\ pc' # "idle"
    BY DEF NothingRests, MatchingDone, FinishWithoutResting, Return
  <2> QED BY <2>1, <2>2, <2>3, <2>4 DEF LadderRuns
<1>2. MapRuns => map_pc # "idle" /\ map_pc' # "idle"
  <2>1. Map!Resubmit => map_pc # "idle" /\ map_pc' # "idle"
    BY DEF Map!Resubmit, Map!handle_new_order, Map!Return
  <2>2. Map!match_buy \/ Map!match_sell => map_pc # "idle" /\ map_pc' # "idle"
    BY DEF Map!match_buy, Map!match_sell, Map!MatchBest, Map!PassEmptyLevel, Map!MatchFront,
       Map!TradeWith, Map!handlerVars
  <2>3. Map!add_resting_order => map_pc # "idle" /\ map_pc' # "idle"
    BY DEF Map!add_resting_order, Map!MatchingDone, Map!Return
  <2>4. Map!NothingRests => map_pc # "idle" /\ map_pc' # "idle"
    BY DEF Map!NothingRests, Map!MatchingDone, Map!FinishWithoutResting, Map!Return
  <2> QED BY <2>1, <2>2, <2>3, <2>4 DEF MapRuns
<1> QED BY <1>1, <1>2

LEMMA CallsBegin ==
  ASSUME NEW req, process(req)
  PROVE  pc = "idle" /\ pc' # "idle" /\ map_pc = "idle" /\ map_pc' # "idle"
<1>1. ASSUME NEW r PROVE SubmitNew(r) \/ SubmitModify(r) \/ SubmitCancel(r) => pc = "idle" /\ pc' # "idle"
  BY DEF SubmitNew, SubmitModify, SubmitCancel, Ready, handle_new_order, Return, Answer,
     BeginModify
<1>2. ASSUME NEW r
      PROVE  Map!SubmitNew(r) \/ Map!SubmitModify(r) \/ Map!SubmitCancel(r) =>
               map_pc = "idle" /\ map_pc' # "idle"
  BY DEF Map!SubmitNew, Map!SubmitModify, Map!SubmitCancel, Map!Ready, Map!handle_new_order,
     Map!Return, Map!Answer, Map!BeginModify
<1> QED BY <1>1, <1>2 DEF process

\* One step of either book keeps its own invariant.
LEMMA BooksStaySound ==
  ASSUME IInv, MapP!IInv, BothRun \/ BothCollect \/ UNCHANGED bothVars
  PROVE  IInv' /\ MapP!IInv'
<1>1. [Next]_vars
  BY DEF BothRun, BothCollect, bothVars, LadderRuns, Next, Continue
<1>2. [MapP!Next]_(MapP!vars)
  BY MapTakesItsSteps DEF BothNext
<1> QED BY <1>1, <1>2, NextIsSound, MapAssumption, MapP!NextIsSound

LEMMA ProcessKeepsBooksSound ==
  ASSUME TraceIsSound, IInv, MapP!IInv, NEW k \in DOMAIN trace, process(trace[k])
  PROVE  IInv' /\ MapP!IInv'
<1>a. PICK req : req = trace[k]
  OBVIOUS
<1>1. /\ req.order_id \in OrderIds
      /\ as_new(req) \in NewOrderRequest /\ as_modify(req) \in ModifyOrderRequest
      /\ as_cancel(req) \in CancelOrderRequest
  BY <1>a, RequestOfTrace
<1>2. /\ as_new(req).order_id = req.order_id /\ as_modify(req).order_id = req.order_id
      /\ as_cancel(req).order_id = req.order_id
  BY DEF as_new, as_modify, as_cancel
<1>3. CASE SubmitNew(as_new(req)) /\ Map!SubmitNew(as_new(req))
  BY <1>1, <1>2, <1>3, OneMap, SameRequests, SubmitNewStep, MapAssumption, MapP!SubmitNewStep
<1>4. CASE SubmitModify(as_modify(req)) /\ Map!SubmitModify(as_modify(req))
  BY <1>1, <1>2, <1>4, OneMap, SameRequests, SubmitModifyStep, MapAssumption,
     MapP!SubmitModifyStep
<1>5. CASE SubmitCancel(as_cancel(req)) /\ Map!SubmitCancel(as_cancel(req))
  BY <1>1, <1>2, <1>5, OneMap, SameRequests, SubmitCancelStep, MapAssumption,
     MapP!SubmitCancelStep
<1> QED BY <1>a, <1>3, <1>4, <1>5 DEF process

\* reset() brings both books to their initial state.
LEMMA ResetIsInit == reset => BothInit'
<1> SUFFICES ASSUME reset PROVE BothInit'
  OBVIOUS
<1>1. Init'
  BY DEF reset, ResetHandlers, Init, HandlerInit
<1>2. (Map!Init)'
  <2>1. Map!NoRequest = NoRequest /\ Map!NoOrder = NoOrder /\ Map!BookSides = BookSides
    BY DEF Map!NoRequest, NoRequest, Map!NoOrder, NoOrder, Map!BookSides, BookSides
  <2> QED BY <2>1 DEF reset, ResetHandlers, Map!Init, Map!HandlerInit
<1> QED BY <1>1, <1>2 DEF BothInit

LEMMA InitialBooksAreSound == BothInit => IInv /\ MapP!IInv
  BY InitIsSound, OneMap, MapAssumption, MapP!InitIsSound DEF BothInit

LEMMA InitialCalls == BothInit => pc = "idle" /\ map_pc = "idle"
  BY DEF BothInit, Init, HandlerInit, Map!Init, Map!HandlerInit

LEMMA ResetKeepsBooksSound ==
  reset => IInv' /\ (MapP!IInv)' /\ pc' = "idle" /\ map_pc' = "idle"
<1>1. BothInit' => IInv' /\ (MapP!IInv)' /\ (pc = "idle" /\ map_pc = "idle")'
  BY InitialBooksAreSound, InitialCalls, PTL
<1> QED BY <1>1, ResetIsInit

-----------------------------------------------------------------------------
(***************************************************************************)
(* The sinks.                                                              *)
(***************************************************************************)
BookUpdatedEvent == [DefaultEvent EXCEPT !.event_type = "BookUpdated"]

\* What a layer hands to its sink when its book answers with evs.
ToldBy(layer, evs) ==
  evs \o (IF layer = "engine" /\ book_changed(evs) THEN <<BookUpdatedEvent>> ELSE <<>>)

LEMMA BookUpdatedType ==
  BookUpdatedEvent \in Event /\ BookUpdatedEvent.event_type = "BookUpdated"
  BY DEF BookUpdatedEvent, DefaultEvent, Event, EventTypes, RequestTypes, OrderTypes, Sides,
     BookSides, Reasons

LEMMA ToldEvents ==
  ASSUME NEW evs \in Seq(Event), NEW layer
  PROVE  ToldBy(layer, evs) = IF layer = "engine" /\ book_changed(evs)
                            THEN Append(evs, BookUpdatedEvent) ELSE evs
<1>a. PICK e : e = BookUpdatedEvent
  OBVIOUS
<1>1. e \in Event
  BY <1>a, BookUpdatedType
<1>2. evs \o <<e>> = Append(evs, e) /\ evs \o <<>> = evs
  BY <1>1
<1> QED BY <1>2, <1>a DEF ToldBy

LEMMA CountedEvents ==
  ASSUME NEW count \in BenchmarkEventSink, NEW layer, NEW evs \in Seq(Event),
         NEW after, after = on_events(count, ToldBy(layer, evs))
  PROVE  /\ after \in BenchmarkEventSink
         /\ after.trades = count.trades + HowMany(evs, "Trade")
         /\ after.accepted = count.accepted + HowMany(evs, "OrderAccepted")
         /\ after.rejected = count.rejected + HowMany(evs, "OrderRejected")
         /\ after.cancelled = count.cancelled + HowMany(evs, "OrderCancelled")
         /\ after.modified = count.modified + HowMany(evs, "OrderModified")
         /\ after.rested = count.rested + HowMany(evs, "OrderRested")
         /\ after.book_updated = count.book_updated
              + (HowMany(evs, "BookUpdated")
                   + IF layer = "engine" /\ book_changed(evs) THEN 1 ELSE 0)
<1>a. PICK told : told = ToldBy(layer, evs)
  OBVIOUS
<1>b. PICK e : e = BookUpdatedEvent
  OBVIOUS
<1>c. PICK more : more = IF layer = "engine" /\ book_changed(evs) THEN 1 ELSE 0
  OBVIOUS
<1>0. e \in Event /\ e.event_type = "BookUpdated"
  BY <1>b, BookUpdatedType
<1>1. told = IF layer = "engine" /\ book_changed(evs) THEN Append(evs, e) ELSE evs
  BY <1>a, <1>b, ToldEvents
<1>2. told \in Seq(Event) /\ Len(told) \in Nat
  BY <1>0, <1>1
<1>3. \A type : /\ HowMany(told, type) \in Nat /\ HowMany(evs, type) \in Nat
                /\ HowMany(told, type) =
                     IF type = "BookUpdated" THEN HowMany(evs, type) + more
                     ELSE HowMany(evs, type)
  <2>1. \A type : HowMany(told, type) \in Nat /\ HowMany(evs, type) \in Nat
    BY <1>2, HowManyType
  <2>2. ASSUME NEW type
        PROVE  HowMany(told, type) = IF type = "BookUpdated" THEN HowMany(evs, type) + more
                                     ELSE HowMany(evs, type)
    <3>1. CASE layer = "engine" /\ book_changed(evs)
      BY <1>0, <1>1, <1>c, <3>1, HowManyAppended
    <3>2. CASE ~(layer = "engine" /\ book_changed(evs))
      BY <1>1, <1>c, <2>1, <3>2
    <3> QED BY <3>1, <3>2
  <2> QED BY <2>1, <2>2
<1>4. \A type : Occurrences(type, told) = HowMany(told, type)
  BY DEF Occurrences, HowMany, Positions
<1> DEFINE n(type) == HowMany(told, type)
<1>5. after = [trades |-> count.trades + n("Trade"),
               accepted |-> count.accepted + n("OrderAccepted"),
               rejected |-> count.rejected + n("OrderRejected"),
               cancelled |-> count.cancelled + n("OrderCancelled"),
               modified |-> count.modified + n("OrderModified"),
               rested |-> count.rested + n("OrderRested"),
               book_updated |-> count.book_updated + n("BookUpdated"),
               total_events |-> count.total_events + Len(told)]
  BY <1>4, <1>a DEF on_events
<1>6. \A type : n(type) \in Nat
  BY <1>3
<1>7. /\ n("Trade") = HowMany(evs, "Trade")
      /\ n("OrderAccepted") = HowMany(evs, "OrderAccepted")
      /\ n("OrderRejected") = HowMany(evs, "OrderRejected")
      /\ n("OrderCancelled") = HowMany(evs, "OrderCancelled")
      /\ n("OrderModified") = HowMany(evs, "OrderModified")
      /\ n("OrderRested") = HowMany(evs, "OrderRested")
      /\ n("BookUpdated") = HowMany(evs, "BookUpdated") + more
  BY <1>3
<1> HIDE DEF n
<1>8. after \in BenchmarkEventSink
  <2>1. /\ count.trades \in Nat /\ count.accepted \in Nat /\ count.rejected \in Nat
        /\ count.cancelled \in Nat /\ count.modified \in Nat /\ count.rested \in Nat
        /\ count.book_updated \in Nat /\ count.total_events \in Nat
    BY DEF BenchmarkEventSink
  <2>2. /\ count.trades + n("Trade") \in Nat
        /\ count.accepted + n("OrderAccepted") \in Nat
        /\ count.rejected + n("OrderRejected") \in Nat
        /\ count.cancelled + n("OrderCancelled") \in Nat
        /\ count.modified + n("OrderModified") \in Nat
        /\ count.rested + n("OrderRested") \in Nat
        /\ count.book_updated + n("BookUpdated") \in Nat
        /\ count.total_events + Len(told) \in Nat
    <3>1. \A x, y \in Nat : x + y \in Nat
      OBVIOUS
    <3> QED BY <1>2, <1>6, <2>1, <3>1, Zenon
  <2> QED BY <1>5, <2>2 DEF BenchmarkEventSink
<1>9. /\ after.trades = count.trades + n("Trade")
      /\ after.accepted = count.accepted + n("OrderAccepted")
      /\ after.rejected = count.rejected + n("OrderRejected")
      /\ after.cancelled = count.cancelled + n("OrderCancelled")
      /\ after.modified = count.modified + n("OrderModified")
      /\ after.rested = count.rested + n("OrderRested")
      /\ after.book_updated = count.book_updated + n("BookUpdated")
  BY <1>5
<1> QED BY <1>7, <1>8, <1>9, <1>c

LEMMA AnswersAreTyped ==
  ASSUME IInv, MapP!IInv, NEW book_type
  PROVE  answer(book_type) \in Seq(Event)
<1>1. events \in Seq(Event)
  BY DEF IInv, TypeOK, HandlerTypeOK
<1>2. map_events \in Seq(MapP!Event)
  BY DEF MapP!IInv, MapP!TypeOK, MapP!HandlerTypeOK
<1>3. MapP!Event = Event
  BY DEF MapP!Event, Event, MapP!EventTypes, EventTypes, MapP!RequestTypes, RequestTypes,
     MapP!OrderTypes, OrderTypes, MapP!Sides, Sides, MapP!BookSides, BookSides,
     MapP!Reasons, Reasons
<1> QED BY <1>1, <1>2, <1>3 DEF answer

\* What CountEvents does to one of the sinks.
LEMMA CountedSink ==
  ASSUME BenchInv, CountEvents, NEW layer \in Layers, NEW book_type \in BookTypes,
         NEW count, count = sink[layer][book_type],
         NEW after, after = sink'[layer][book_type],
         NEW evs, evs = answer(book_type)
  PROVE  /\ count \in BenchmarkEventSink /\ evs \in Seq(Event)
         /\ after = on_events(count, ToldBy(layer, evs))
<1>1. count \in BenchmarkEventSink /\ evs \in Seq(Event)
  BY AnswersAreTyped DEF BenchInv, ReplayIsSound
<1>2. events_of(layer, book_type) = ToldBy(layer, evs)
  BY DEF events_of, ToldBy, BookUpdatedEvent
<1>3. after = on_events(count, events_of(layer, book_type))
  BY DEF CountEvents
<1> QED BY <1>1, <1>2, <1>3

LEMMA ZeroSinkType ==
  /\ ZeroSinks \in [Layers -> [BookTypes -> BenchmarkEventSink]]
  /\ \A layer \in Layers, book_type \in BookTypes : ZeroSinks[layer][book_type] = ZeroSink
  BY DEF ZeroSinks, ZeroSink, BenchmarkEventSink

-----------------------------------------------------------------------------
(***************************************************************************)
(* BenchInv is inductive.                                                  *)
(***************************************************************************)
LEMMA TraceStaysSound ==
  ASSUME TraceIsSound, Generator!Generate \/ UNCHANGED generatorVars
  PROVE  TraceIsSound'
<1>1. GP!Generate \/ UNCHANGED GP!generatorVars
  BY OneGenerator DEF generatorVars, GP!generatorVars
<1>2. GP!GeneratorInv'
  BY <1>1, GeneratorAssumption, GP!GeneratorInvStep DEF TraceIsSound
<1>3. GP!TraceIsSubmittable'
  BY <1>1, GeneratorAssumption, GP!SubmittableStep, GP!SameTraceIsSubmittable DEF TraceIsSound
<1>4. GP!FifoTrace'
  BY <1>1, GeneratorAssumption, GP!FifoTraceStep, GP!SameFifoTrace DEF TraceIsSound
<1> QED BY <1>2, <1>3, <1>4 DEF TraceIsSound

LEMMA TraceGrows ==
  ASSUME TraceIsSound, Generator!Generate
  PROVE  Len(trace') = Len(trace) + 1 /\ UNCHANGED <<name, num_ops>>
<1>1. /\ UNCHANGED GP!config
      /\ \E req \in GP!BenchRequest : trace' = Append(trace, req)
  BY OneGenerator, GeneratorAssumption, GP!AddedRequest DEF TraceIsSound
<1> QED BY <1>1, LengthOfTrace, AppendProperties DEF GP!config

LEMMA LoopBound == TraceIsSound => Len(trace) \in Nat /\ replayed \in 0 .. Len(trace)
  BY LengthOfTrace

LEMMA BenchStart == BenchInit => BenchInv
<1> SUFFICES ASSUME BenchInit PROVE BenchInv
  OBVIOUS
<1>1. IInv /\ MapP!IInv /\ pc = "idle" /\ map_pc = "idle"
  BY InitialBooksAreSound, InitialCalls DEF BenchInit
<1>2. TraceIsSound
  BY OneGenerator, GeneratorAssumption, GP!InitialTrace, GP!EmptyTraceIsSubmittable
  DEF BenchInit, TraceIsSound
<1>3. ReplayIsSound
  <2>1. position = 0 /\ phase = "generating" /\ sink = ZeroSinks /\ warmup_sink = ZeroSinks
    BY DEF BenchInit
  <2>2. position \in 0 .. Len(trace)
    BY <1>2, <2>1, LengthOfTrace
  <2> QED BY <1>1, <2>1, <2>2, ZeroSinkType DEF ReplayIsSound, Replaying, BetweenCalls
<1> QED BY <1>1, <1>2, <1>3 DEF BenchInv

\* The steps in which no request is running.
LEMMA GenerateTraceStep ==
  ASSUME BenchInv, GenerateTrace
  PROVE  BenchInv'
<1>1. phase = "generating" /\ Generator!Generate /\ UNCHANGED bothVars /\ UNCHANGED runVars
  BY DEF GenerateTrace
<1>2. TraceIsSound' /\ IInv' /\ MapP!IInv'
  BY <1>1, TraceStaysSound, BooksStaySound DEF BenchInv
<1>3. position' \in 0 .. Len(trace')
  BY <1>1, TraceGrows, LengthOfTrace DEF BenchInv, ReplayIsSound, runVars
<1>4. ReplayIsSound'
  BY <1>1, <1>3 DEF BenchInv, ReplayIsSound, runVars, bothVars, vars, handlerVars, mapVars,
     Replaying, BetweenCalls
<1> QED BY <1>2, <1>4 DEF BenchInv

LEMMA EndStep ==
  ASSUME BenchInv, RefuseEmptyTrace \/ Finish
  PROVE  BenchInv'
<1>1. /\ UNCHANGED <<bothVars, generatorVars, position, sink, warmup_sink>>
      /\ phase' \in {"failed", "done"} /\ BetweenCalls
  BY DEF RefuseEmptyTrace, Finish, Generated, BenchInv, ReplayIsSound, Replaying
<1>2. TraceIsSound' /\ IInv' /\ MapP!IInv'
  BY <1>1, TraceStaysSound, BooksStaySound DEF BenchInv
<1>3. ReplayIsSound'
  BY <1>1 DEF BenchInv, ReplayIsSound, bothVars, vars, handlerVars, mapVars,
     Replaying, BetweenCalls, generatorVars
<1> QED BY <1>2, <1>3 DEF BenchInv

LEMMA StartStep ==
  ASSUME BenchInv, StartWarmup \/ StartMeasured
  PROVE  BenchInv'
<1>1. /\ reset /\ phase' \in {"warmup", "measured"} /\ position' = 0 /\ sink' = ZeroSinks
      /\ UNCHANGED generatorVars /\ warmup_sink' \in {sink, warmup_sink}
  BY DEF StartWarmup, StartMeasured
<1>2. TraceIsSound' /\ IInv' /\ MapP!IInv' /\ pc' = "idle" /\ map_pc' = "idle"
  BY <1>1, TraceStaysSound, ResetKeepsBooksSound DEF BenchInv
<1>4. Len(trace)' \in Nat /\ replayed' \in 0 .. Len(trace)'
  <2>1. TraceIsSound' => (Len(trace) \in Nat /\ replayed \in 0 .. Len(trace))'
    BY LoopBound, PTL
  <2> QED BY <1>2, <2>1
<1>5. ReplayIsSound'
  BY <1>1, <1>2, <1>4, ZeroSinkType DEF BenchInv, ReplayIsSound, Replaying, BetweenCalls
<1> QED BY <1>2, <1>5 DEF BenchInv

\* The steps of a request.
LEMMA ProcessNextStep ==
  ASSUME BenchInv, ProcessNext
  PROVE  BenchInv'
<1>a. PICK k : k = position + 1
  OBVIOUS
<1>1. /\ Replaying /\ position < replayed /\ process(trace[k])
      /\ UNCHANGED generatorVars /\ UNCHANGED runVars
  BY <1>a DEF ProcessNext
<1>2. k \in DOMAIN trace
  BY <1>1, <1>a, LengthOfTrace DEF BenchInv, ReplayIsSound
<1>3. IInv' /\ MapP!IInv' /\ TraceIsSound'
  BY <1>1, <1>2, ProcessKeepsBooksSound, TraceStaysSound DEF BenchInv
<1>4. pc' # "idle" /\ map_pc' # "idle"
  BY <1>1, CallsBegin
<1>5. ReplayIsSound'
  BY <1>1, <1>4 DEF BenchInv, ReplayIsSound, runVars, generatorVars, Replaying, BetweenCalls,
     replayed, warmup_ops
<1> QED BY <1>3, <1>5 DEF BenchInv

LEMMA InsideProcessStep ==
  ASSUME BenchInv, InsideProcess
  PROVE  BenchInv'
<1>1. BothRun /\ UNCHANGED generatorVars /\ UNCHANGED runVars
  BY DEF InsideProcess
<1>2. IInv' /\ MapP!IInv' /\ TraceIsSound'
  BY <1>1, BooksStaySound, TraceStaysSound DEF BenchInv
<1>3. pc # "idle" /\ map_pc # "idle" /\ pc' # "idle" /\ map_pc' # "idle"
  <2>1. pc # "idle" \/ map_pc # "idle"
    BY <1>1, RunsStayInside DEF BothRun
  <2>2. pc # "idle" /\ map_pc # "idle"
    BY <2>1 DEF BenchInv, ReplayIsSound
  <2> QED BY <1>1, <2>2, RunsStayInside DEF BothRun, vars, handlerVars, mapVars
<1>4. ReplayIsSound'
  BY <1>1, <1>3 DEF BenchInv, ReplayIsSound, runVars, generatorVars, Replaying, BetweenCalls,
     replayed, warmup_ops
<1> QED BY <1>2, <1>4 DEF BenchInv

LEMMA CountEventsStep ==
  ASSUME BenchInv, CountEvents
  PROVE  BenchInv'
<1>1. /\ BothCollect /\ position' = position + 1
      /\ UNCHANGED generatorVars /\ UNCHANGED phase /\ UNCHANGED warmup_sink
  BY DEF CountEvents
<1>2. IInv' /\ MapP!IInv' /\ TraceIsSound'
  BY <1>1, BooksStaySound, TraceStaysSound DEF BenchInv
<1>3. pc # "idle" /\ pc' = "idle" /\ map_pc' = "idle"
  BY <1>1 DEF BothCollect, Collect, Map!Collect
<1>4. sink' \in [Layers -> [BookTypes -> BenchmarkEventSink]]
  <2>1. ASSUME NEW layer \in Layers, NEW book_type \in BookTypes
        PROVE  on_events(sink[layer][book_type], events_of(layer, book_type))
                 \in BenchmarkEventSink
    <3>a. PICK after : after = sink'[layer][book_type]
      OBVIOUS
    <3>b. PICK count : count = sink[layer][book_type]
      OBVIOUS
    <3>c. PICK evs : evs = answer(book_type)
      OBVIOUS
    <3>1. /\ count \in BenchmarkEventSink /\ evs \in Seq(Event)
          /\ after = on_events(count, ToldBy(layer, evs))
      BY <3>a, <3>b, <3>c, CountedSink
    <3>2. after \in BenchmarkEventSink
      BY <3>1, CountedEvents
    <3> QED BY <3>2, <3>a DEF CountEvents
  <2> QED BY <2>1 DEF CountEvents
<1>5. position < replayed /\ position \in 0 .. Len(trace) /\ replayed \in 0 .. Len(trace)
      /\ Len(trace) \in Nat /\ Replaying
  BY <1>3, LengthOfTrace DEF BenchInv, ReplayIsSound, BetweenCalls
<1>6. position' <= replayed /\ position' \in 0 .. Len(trace)
  BY <1>1, <1>5
<1>7. ReplayIsSound'
  BY <1>1, <1>3, <1>4, <1>6 DEF BenchInv, ReplayIsSound, generatorVars, Replaying,
     BetweenCalls, replayed, warmup_ops
<1> QED BY <1>2, <1>7 DEF BenchInv

LEMMA BenchStutter ==
  ASSUME BenchInv, UNCHANGED benchVars
  PROVE  BenchInv'
<1>1. UNCHANGED bothVars /\ UNCHANGED generatorVars /\ UNCHANGED runVars
  BY DEF benchVars
<1>2. IInv' /\ MapP!IInv' /\ TraceIsSound'
  BY <1>1, BooksStaySound, TraceStaysSound DEF BenchInv
<1>3. ReplayIsSound'
  BY <1>1 DEF BenchInv, ReplayIsSound, runVars, generatorVars, Replaying, BetweenCalls,
     replayed, warmup_ops, bothVars, vars, handlerVars, mapVars
<1> QED BY <1>2, <1>3 DEF BenchInv

LEMMA BenchStep == BenchInv /\ [BenchNext]_benchVars => BenchInv'
  BY GenerateTraceStep, EndStep, StartStep, ProcessNextStep, InsideProcessStep,
     CountEventsStep, BenchStutter DEF BenchNext

\* BenchInv holds in every reachable state of the benchmark: both books are sound
\* throughout both replays.
THEOREM BenchmarkIsSound == BenchSpec => []BenchInv
  BY BenchStart, BenchStep, PTL DEF BenchSpec

\* Every variable keeps its type; in particular the loop variable stays within the
\* trace.
THEOREM BenchTypes == BenchSpec => []BenchTypeOK
<1>1. MapP!TypeOK => Map!TypeOK
  <2>1. MapP!Event = Map!Event
    BY DEF MapP!Event, Map!Event, MapP!EventTypes, Map!EventTypes, MapP!RequestTypes,
       Map!RequestTypes, MapP!OrderTypes, Map!OrderTypes, MapP!Sides, Map!Sides,
       MapP!BookSides, Map!BookSides, MapP!Reasons, Map!Reasons
  <2>2. MapP!Order = Map!Order /\ MapP!NewOrderRequest = Map!NewOrderRequest
    BY DEF MapP!Order, Map!Order, MapP!Sides, Map!Sides, MapP!BookSides, Map!BookSides,
       MapP!OrderStatuses, Map!OrderStatuses, MapP!NewOrderRequest, Map!NewOrderRequest,
       MapP!OrderTypes, Map!OrderTypes
  <2>3. MapP!PriceLevel = Map!PriceLevel /\ MapP!OrderLocation = Map!OrderLocation
    BY <2>2 DEF MapP!PriceLevel, Map!PriceLevel, MapP!OrderLocation, Map!OrderLocation,
       MapP!BookSides, Map!BookSides, MapP!Sides, Map!Sides
  <2>4. MapP!BookSides = Map!BookSides
    BY DEF MapP!BookSides, Map!BookSides
  <2> QED BY <2>1, <2>2, <2>3, <2>4 DEF MapP!TypeOK, Map!TypeOK, MapP!HandlerTypeOK,
      Map!HandlerTypeOK, MapP!MapTypeOK, Map!MapTypeOK
<1>2. BenchInv => BenchTypeOK
  BY <1>1, OneGenerator DEF BenchInv, BenchTypeOK, BothTypeOK, ReplayIsSound, TraceIsSound,
     GP!GeneratorInv, IInv, MapP!IInv
<1> QED BY <1>2, BenchmarkIsSound, PTL

-----------------------------------------------------------------------------
(***************************************************************************)
(* One answer to each request.                                             *)
(***************************************************************************)
MarketTrace == \E k \in DOMAIN trace : trace[k].bench_op_type = "NewMarket"

CountsAreSound ==
  Replaying => \A layer \in Layers, book_type \in BookTypes :
    LET count == sink[layer][book_type]
    IN  /\ count.accepted + count.rejected + count.cancelled = position + count.modified
        /\ layer = "engine" /\ ~MarketTrace => count.rejected + count.book_updated = position

\* Inductive with BenchInv.
AnswerInv ==
  /\ AnswerIsComing(MarketTrace) /\ MapP!AnswerIsComing(MarketTrace)
  /\ CountsAreSound

LEMMA OneAnswer ==
  /\ \A evs : MapP!AnswersOnce(evs) <=> AnswersOnce(evs)
  /\ \A evs : MapP!AcceptsMarket(evs) <=> AcceptsMarket(evs)
  /\ \A market : map_pc = "idle" /\ map_events = <<>> /\ ~map_modifying =>
                   MapP!AnswerIsComing(market)
<1>1. \A evs, type : MapP!HowMany(evs, type) = HowMany(evs, type)
  BY DEF MapP!HowMany, HowMany, MapP!Positions, Positions, MapP!Cardinality, Cardinality
<1>2. \A evs : MapP!ChangesBook(evs) <=> ChangesBook(evs)
  BY <1>1 DEF MapP!ChangesBook, ChangesBook
<1>3. \A evs : MapP!AcceptsMarket(evs) <=> AcceptsMarket(evs)
  BY DEF MapP!AcceptsMarket, AcceptsMarket, MapP!Positions, Positions
<1> QED BY <1>1, <1>2, <1>3 DEF MapP!AnswersOnce, AnswersOnce, MapP!AnswerIsComing,
    MapP!AnsweredOnce

LEMMA ChangeIsSeen ==
  ASSUME NEW evs \in Seq(Event)
  PROVE  book_changed(evs) <=> ChangesBook(evs)
<1>1. \A type : HowMany(evs, type) > 0 <=> \E i \in DOMAIN evs : evs[i].event_type = type
  <2> SUFFICES ASSUME NEW type
               PROVE  HowMany(evs, type) > 0 <=> Positions(evs, type) # {}
    BY DEF Positions
  <2>1. IsFiniteSet(Positions(evs, type)) /\ HowMany(evs, type) \in Nat
    BY ReportedIsNatural, HowManyType
  <2>2. HowMany(evs, type) = 0 <=> Positions(evs, type) = {}
    BY <2>1, FS_EmptySet DEF HowMany
  <2> QED BY <2>1, <2>2
<1> QED BY <1>1 DEF book_changed, event_changes_book, ChangesBook


\* The handlers' part of AnswerInv, while a request runs.
LEMMA ProcessAnswers ==
  ASSUME BenchInv, AnswerInv, ProcessNext
  PROVE  AnswerInv'
<1>a. PICK m : m = MarketTrace
  OBVIOUS
<1>b. PICK k : k = position + 1
  OBVIOUS
<1>c. PICK req : req = trace[k]
  OBVIOUS
<1>1. /\ process(req) /\ UNCHANGED generatorVars /\ UNCHANGED runVars /\ IInv /\ MapP!IInv
      /\ AnswerIsComing(m) /\ MapP!AnswerIsComing(m)
  BY <1>a, <1>b, <1>c DEF ProcessNext, BenchInv, AnswerInv
<1>2. k \in DOMAIN trace
  BY <1>b, LengthOfTrace DEF BenchInv, ReplayIsSound, ProcessNext
<1>3. /\ req.order_id \in OrderIds /\ GP!IsSubmittable(req)
      /\ as_new(req) \in NewOrderRequest /\ as_modify(req) \in ModifyOrderRequest
      /\ as_cancel(req) \in CancelOrderRequest
  BY <1>2, <1>c, RequestOfTrace DEF BenchInv
<1>4. /\ as_new(req).order_id = req.order_id /\ as_modify(req).order_id = req.order_id
      /\ as_cancel(req).order_id = req.order_id
      /\ m \/ as_new(req).order_type # "Market"
      /\ req.bench_op_type = "Modify" => as_modify(req).order_type # "Market"
  BY <1>2, <1>3, <1>a, <1>c DEF as_new, as_modify, as_cancel, MarketTrace, GP!IsSubmittable
<1>5. AnswerIsComing(m)' /\ MapP!AnswerIsComing(m)'
  <2>1. CASE SubmitNew(as_new(req)) /\ Map!SubmitNew(as_new(req))
    BY <1>1, <1>3, <1>4, <2>1, OneMap, SameRequests, SubmitNewAnswers, MapAssumption,
       MapP!SubmitNewAnswers
  <2>2. CASE req.bench_op_type = "Modify" /\ SubmitModify(as_modify(req))
               /\ Map!SubmitModify(as_modify(req))
    BY <1>1, <1>3, <1>4, <2>2, OneMap, SameRequests, SubmitModifyAnswers, MapAssumption,
       MapP!SubmitModifyAnswers
  <2>3. CASE SubmitCancel(as_cancel(req)) /\ Map!SubmitCancel(as_cancel(req))
    BY <1>1, <1>3, <1>4, <2>3, OneMap, SameRequests, SubmitCancelAnswers, MapAssumption,
       MapP!SubmitCancelAnswers
  <2> QED BY <1>1, <2>1, <2>2, <2>3 DEF process
<1>6. MarketTrace' = m
  BY <1>1, <1>a DEF generatorVars, MarketTrace
<1>7. CountsAreSound'
  BY <1>1 DEF AnswerInv, CountsAreSound, MarketTrace, generatorVars, runVars, Replaying
<1> QED BY <1>5, <1>6, <1>7 DEF AnswerInv

LEMMA InsideAnswers ==
  ASSUME BenchInv, AnswerInv, InsideProcess
  PROVE  AnswerInv'
<1>a. PICK m : m = MarketTrace
  OBVIOUS
<1>1. /\ BothRun /\ UNCHANGED generatorVars /\ UNCHANGED runVars /\ IInv /\ MapP!IInv
      /\ AnswerIsComing(m) /\ MapP!AnswerIsComing(m)
  BY <1>a DEF InsideProcess, BenchInv, AnswerInv
<1>2. AnswerIsComing(m)'
  <2>1. CASE UNCHANGED vars
    BY <1>1, <2>1, SameAnswer DEF vars
  <2>2. CASE LadderRuns
    BY <1>1, <2>2, ContinueAnswers DEF LadderRuns
  <2> QED BY <1>1, <2>1, <2>2 DEF BothRun
<1>3. MapP!AnswerIsComing(m)'
  <2>1. CASE UNCHANGED mapVars
    <3>1. UNCHANGED MapP!handlerVars
      BY <2>1, OneMap DEF MapP!vars
    <3> QED BY <1>1, <3>1, MapAssumption, MapP!SameAnswer
  <2>2. CASE MapRuns
    BY <1>1, <2>2, OneMap, MapAssumption, MapP!ContinueAnswers DEF MapRuns
  <2> QED BY <1>1, <2>1, <2>2 DEF BothRun
<1>4. MarketTrace' = m
  BY <1>1, <1>a DEF generatorVars, MarketTrace
<1>5. CountsAreSound'
  BY <1>1 DEF AnswerInv, CountsAreSound, MarketTrace, generatorVars, runVars, Replaying
<1> QED BY <1>2, <1>3, <1>4, <1>5 DEF AnswerInv

\* One more request is answered, so one more has been replayed.
LEMMA OneMoreAnswer ==
  ASSUME NEW a \in Nat, NEW r \in Nat, NEW c \in Nat, NEW m \in Nat, NEW p \in Nat,
         NEW da \in Nat, NEW dr \in Nat, NEW dc \in Nat, NEW dm \in Nat,
         a + r + c = p + m, da + dr + dc = 1 + dm,
         NEW x, x = a + da, NEW y, y = r + dr, NEW z, z = c + dc,
         NEW w, w = m + dm, NEW q, q = p + 1
  PROVE  x + y + z = q + w
OBVIOUS

\* It is rejected, or it changes the book.
LEMMA OneMoreChange ==
  ASSUME NEW r \in Nat, NEW b \in Nat, NEW p \in Nat, r + b = p,
         NEW changed \in BOOLEAN, NEW dr, dr = IF changed THEN 0 ELSE 1,
         NEW x, x = r + dr, NEW y, y = b + (0 + IF changed THEN 1 ELSE 0),
         NEW q, q = p + 1
  PROVE  x + y = q
OBVIOUS

\* The counts that one more answer brings.
LEMMA CountsAddUp ==
  ASSUME BenchInv, AnswerInv, CountEvents, Replaying,
         NEW layer \in Layers, NEW book_type \in BookTypes,
         NEW count, count = sink[layer][book_type],
         NEW after, after = sink'[layer][book_type]
  PROVE  /\ after.accepted + after.rejected + after.cancelled = position' + after.modified
         /\ layer = "engine" /\ ~MarketTrace => after.rejected + after.book_updated = position'
<1>a. PICK evs : evs = answer(book_type)
  OBVIOUS
<1>b. PICK m : m = MarketTrace
  OBVIOUS
<1>1. /\ count \in BenchmarkEventSink /\ evs \in Seq(Event)
      /\ after = on_events(count, ToldBy(layer, evs))
  BY <1>a, CountedSink
<1>2. AnswersOnce(evs) /\ (m \/ ~AcceptsMarket(evs))
  <2>1. pc = "returned" /\ map_pc = "returned"
    BY DEF CountEvents, BothCollect, Collect, Map!Collect
  <2>2. AnswersOnce(events) /\ (m \/ ~AcceptsMarket(events))
    BY <1>b, <2>1 DEF AnswerInv, AnswerIsComing, AnsweredOnce
  <2>3. MapP!AnswersOnce(map_events) /\ (m \/ ~MapP!AcceptsMarket(map_events))
    BY <1>b, <2>1 DEF AnswerInv, MapP!AnswerIsComing, MapP!AnsweredOnce
  <2> QED BY <1>a, <2>2, <2>3, OneAnswer DEF answer
<1> DEFINE n(type) == HowMany(evs, type)
<1>3. \A type : n(type) \in Nat
  BY <1>1, HowManyType
<1>4. /\ n("OrderAccepted") + n("OrderRejected") + n("OrderCancelled") = 1 + n("OrderModified")
      /\ n("BookUpdated") = 0
      /\ ~m => n("OrderRejected") = IF book_changed(evs) THEN 0 ELSE 1
  BY <1>1, <1>2, ChangeIsSeen DEF AnswersOnce
<1>5. /\ after.accepted = count.accepted + n("OrderAccepted")
      /\ after.rejected = count.rejected + n("OrderRejected")
      /\ after.cancelled = count.cancelled + n("OrderCancelled")
      /\ after.modified = count.modified + n("OrderModified")
      /\ after.book_updated = count.book_updated
           + (n("BookUpdated") + IF layer = "engine" /\ book_changed(evs) THEN 1 ELSE 0)
  BY <1>1, CountedEvents
<1> HIDE DEF n
<1>6. /\ count.accepted + count.rejected + count.cancelled = position + count.modified
      /\ layer = "engine" /\ ~m => count.rejected + count.book_updated = position
  BY <1>b DEF AnswerInv, CountsAreSound
<1>7. /\ count.accepted \in Nat /\ count.rejected \in Nat /\ count.cancelled \in Nat
      /\ count.modified \in Nat /\ count.book_updated \in Nat /\ position \in Nat
  <2>1. /\ count.accepted \in Nat /\ count.rejected \in Nat /\ count.cancelled \in Nat
        /\ count.modified \in Nat /\ count.book_updated \in Nat
    BY <1>1 DEF BenchmarkEventSink
  <2>2. position \in 0 .. Len(trace) /\ Len(trace) \in Nat
    BY LengthOfTrace DEF BenchInv, ReplayIsSound
  <2>3. position \in Nat
    BY <2>2
  <2> QED BY <2>1, <2>3, Zenon
<1>8. position' = position + 1
  BY DEF CountEvents
<1>9. /\ n("OrderAccepted") \in Nat /\ n("OrderRejected") \in Nat
      /\ n("OrderCancelled") \in Nat /\ n("OrderModified") \in Nat
  BY <1>3
<1>10. after.accepted + after.rejected + after.cancelled = position' + after.modified
  <2>1. PICK a, r, c, md, p : a = count.accepted /\ r = count.rejected /\ c = count.cancelled
                               /\ md = count.modified /\ p = position
    OBVIOUS
  <2>2. PICK da, dr, dc, dm : da = n("OrderAccepted") /\ dr = n("OrderRejected")
                               /\ dc = n("OrderCancelled") /\ dm = n("OrderModified")
    OBVIOUS
  <2>3. PICK x, y, z, w, q : x = after.accepted /\ y = after.rejected /\ z = after.cancelled
                              /\ w = after.modified /\ q = position'
    OBVIOUS
  <2>4. /\ a \in Nat /\ r \in Nat /\ c \in Nat /\ md \in Nat /\ p \in Nat
        /\ da \in Nat /\ dr \in Nat /\ dc \in Nat /\ dm \in Nat
    BY <1>7, <1>9, <2>1, <2>2, Zenon
  <2>5. a + r + c = p + md /\ da + dr + dc = 1 + dm
    BY <1>4, <1>6, <2>1, <2>2, Zenon
  <2>6. x = a + da /\ y = r + dr /\ z = c + dc /\ w = md + dm /\ q = p + 1
    BY <1>5, <1>8, <2>1, <2>2, <2>3, Zenon
  <2>7. x + y + z = q + w
    BY <2>4, <2>5, <2>6, OneMoreAnswer
  <2> QED BY <2>3, <2>7, Zenon
<1>11. ASSUME layer = "engine", ~m PROVE after.rejected + after.book_updated = position'
  <2>1. PICK changed \in BOOLEAN : changed <=> book_changed(evs)
    OBVIOUS
  <2>2. /\ after.rejected = count.rejected + n("OrderRejected")
        /\ n("OrderRejected") = IF changed THEN 0 ELSE 1
        /\ after.book_updated = count.book_updated + (0 + IF changed THEN 1 ELSE 0)
        /\ count.rejected + count.book_updated = position
    BY <1>4, <1>5, <1>6, <1>11, <2>1
  <2>3. PICK r, b, p, dr : r = count.rejected /\ b = count.book_updated /\ p = position
                            /\ dr = n("OrderRejected")
    OBVIOUS
  <2>4. PICK x, y, q : x = after.rejected /\ y = after.book_updated /\ q = position'
    OBVIOUS
  <2>5. r \in Nat /\ b \in Nat /\ p \in Nat
    BY <1>7, <2>3, Zenon
  <2>6. /\ r + b = p /\ x = r + dr /\ q = p + 1 /\ dr = IF changed THEN 0 ELSE 1
        /\ y = b + (0 + IF changed THEN 1 ELSE 0)
    BY <1>8, <2>2, <2>3, <2>4, Zenon
  <2>7. x + y = q
    BY <2>5, <2>6, OneMoreChange
  <2> QED BY <2>4, <2>7, Zenon
<1> QED BY <1>10, <1>11, <1>b

LEMMA CountsAnswer ==
  ASSUME BenchInv, AnswerInv, CountEvents
  PROVE  AnswerInv'
<1>a. PICK m : m = MarketTrace
  OBVIOUS
<1>1. /\ Collect /\ Map!Collect /\ UNCHANGED generatorVars /\ UNCHANGED phase
      /\ AnswerIsComing(m) /\ MapP!AnswerIsComing(m)
  BY <1>a DEF CountEvents, BothCollect, AnswerInv
<1>2. AnswerIsComing(m)' /\ MapP!AnswerIsComing(m)'
  BY <1>1, CollectedAnswer, OneHandler, MapAssumption, MapP!CollectedAnswer
<1>3. MarketTrace' = m
  BY <1>1, <1>a DEF generatorVars, MarketTrace
<1>4. CountsAreSound'
  <2>1. Replaying' <=> Replaying
    BY <1>1 DEF Replaying
  <2>2. ASSUME Replaying, NEW layer \in Layers, NEW book_type \in BookTypes
        PROVE  LET count == sink'[layer][book_type]
               IN  /\ count.accepted + count.rejected + count.cancelled
                        = position' + count.modified
                   /\ layer = "engine" /\ ~m => count.rejected + count.book_updated = position'
    BY <1>a, <2>2, CountsAddUp
  <2> QED BY <1>3, <2>1, <2>2 DEF CountsAreSound
<1> QED BY <1>2, <1>3, <1>4 DEF AnswerInv

LEMMA StartAnswers ==
  ASSUME BenchInv, AnswerInv, StartWarmup \/ StartMeasured
  PROVE  AnswerInv'
<1>a. PICK m : m = MarketTrace
  OBVIOUS
<1>1. reset /\ UNCHANGED generatorVars /\ position' = 0 /\ sink' = ZeroSinks
  BY DEF StartWarmup, StartMeasured
<1>2. AnswerIsComing(m)' /\ MapP!AnswerIsComing(m)'
  <2>1. /\ pc' = "idle" /\ events' = <<>> /\ modifying' = FALSE
        /\ map_pc' = "idle" /\ map_events' = <<>> /\ map_modifying' = FALSE
    BY <1>1 DEF reset, ResetHandlers
  <2> QED BY <2>1 DEF AnswerIsComing, MapP!AnswerIsComing, AnsweredOnce, MapP!AnsweredOnce
<1>3. MarketTrace' = m
  BY <1>1, <1>a DEF generatorVars, MarketTrace
<1>4. CountsAreSound'
  BY <1>1, ZeroSinkType DEF CountsAreSound, ZeroSink
<1> QED BY <1>2, <1>3, <1>4 DEF AnswerInv

\* Nothing runs, and no sink is in use or nothing changes.
LEMMA NothingToAnswer ==
  ASSUME BenchInv, AnswerInv, GenerateTrace \/ RefuseEmptyTrace \/ Finish \/ UNCHANGED benchVars
  PROVE  AnswerInv'
<1>1. CASE GenerateTrace \/ RefuseEmptyTrace \/ Finish
  <2>1. /\ BetweenCalls /\ UNCHANGED bothVars /\ ~Replaying'
    BY <1>1 DEF GenerateTrace, RefuseEmptyTrace, Finish, Generated, BenchInv, ReplayIsSound,
       Replaying, runVars
  <2>2. /\ pc' = "idle" /\ events' = <<>> /\ ~modifying'
        /\ map_pc' = "idle" /\ map_events' = <<>> /\ ~map_modifying'
    BY <2>1 DEF BetweenCalls, AnswerInv, AnswerIsComing, MapP!AnswerIsComing, bothVars, vars,
       handlerVars, mapVars
  <2>3. AnswerIsComing(MarketTrace)' /\ MapP!AnswerIsComing(MarketTrace)'
    BY <2>2 DEF AnswerIsComing, MapP!AnswerIsComing, AnsweredOnce, MapP!AnsweredOnce
  <2> QED BY <2>1, <2>3 DEF AnswerInv, CountsAreSound
<1>2. CASE UNCHANGED benchVars
  <2>a. PICK m : m = MarketTrace
    OBVIOUS
  <2>1. /\ UNCHANGED generatorVars /\ UNCHANGED runVars /\ UNCHANGED handlerVars
        /\ UNCHANGED MapP!handlerVars
    BY <1>2 DEF benchVars, bothVars, vars, mapVars, MapP!handlerVars
  <2>2. AnswerIsComing(m)' /\ MapP!AnswerIsComing(m)'
    BY <2>1, <2>a, SameAnswer, MapAssumption, MapP!SameAnswer DEF AnswerInv
  <2>3. MarketTrace' = m
    BY <2>1, <2>a DEF generatorVars, MarketTrace
  <2>4. CountsAreSound'
    BY <2>1 DEF AnswerInv, CountsAreSound, MarketTrace, generatorVars, runVars, Replaying
  <2> QED BY <2>2, <2>3, <2>4 DEF AnswerInv
<1> QED BY <1>1, <1>2

LEMMA AnswerStep == BenchInv /\ AnswerInv /\ [BenchNext]_benchVars => AnswerInv'
  BY ProcessAnswers, InsideAnswers, CountsAnswer, StartAnswers, NothingToAnswer
  DEF BenchNext

LEMMA AnswerStart == BenchInit => AnswerInv
<1> SUFFICES ASSUME BenchInit PROVE AnswerInv
  OBVIOUS
<1>1. HandlerInit /\ Map!HandlerInit /\ phase = "generating"
  BY DEF BenchInit, BothInit, Init, Map!Init
<1>2. AnswerIsComing(MarketTrace) /\ MapP!AnswerIsComing(MarketTrace)
  BY <1>1, OneHandler DEF HandlerInit, MapP!HandlerInit, AnswerIsComing, MapP!AnswerIsComing,
         AnsweredOnce, MapP!AnsweredOnce
<1> QED BY <1>1, <1>2 DEF AnswerInv, CountsAreSound, Replaying

LEMMA AnswersAreSound == BenchSpec => []AnswerInv
  BY AnswerStart, AnswerStep, BenchmarkIsSound, PTL DEF BenchSpec

\* Each request of a trace is counted once, whatever becomes of it, by the sink of
\* either layer and either book.
THEOREM RequestsAreCounted == BenchSpec => []EveryRequestIsAnswered
<1>1. AnswerInv => EveryRequestIsAnswered
  BY DEF AnswerInv, CountsAreSound, EveryRequestIsAnswered
<1> QED BY <1>1, AnswersAreSound, PTL

\* In a trace without market orders an engine announces exactly the requests that
\* it does not refuse.
THEOREM EnginesAnnounceChanges == BenchSpec => []EngineAnnouncesEveryAcceptedRequest
<1>1. AnswerInv => EngineAnnouncesEveryAcceptedRequest
  BY DEF AnswerInv, CountsAreSound, EngineAnnouncesEveryAcceptedRequest, MarketTrace, Layers
<1> QED BY <1>1, AnswersAreSound, PTL


-----------------------------------------------------------------------------
(***************************************************************************)
(* The two books in step, for configurations whose prices fit.             *)
(***************************************************************************)
LEMMA LargerMultiple ==
  ASSUME NEW k \in Nat, NEW n \in Nat, NEW t \in Nat \ {0}
  PROVE  (k * t <= n * t => k <= n) /\ n <= n * t
<1>1. n <= n * t
  <2>1. PICK i \in Nat : t = i + 1
    <3>1. t - 1 \in Nat /\ t = (t - 1) + 1
      OBVIOUS
    <3> QED BY <3>1
  <2>2. n * t = n * i + n /\ n * i \in Nat
    BY <2>1
  <2> QED BY <2>2
<1>2. ASSUME k > n PROVE ~(k * t <= n * t)
  <2>1. PICK j \in Nat : k = (n + 1) + j
    <3>1. k - (n + 1) \in Nat /\ k = (n + 1) + (k - (n + 1))
      BY <1>2
    <3> QED BY <3>1
  <2>2. k * t = (n * t + t) + j * t /\ n * t \in Nat /\ j * t \in Nat
    BY <2>1
  <2> QED BY <2>2
<1> QED BY <1>1, <1>2

LEMMA OnTickIsOnLadder ==
  ASSUME GP!PricesFit, NEW price, GP!OnTick(price)
  PROVE  price \in Nat /\ price # 0 /\ on_ladder(price)
<1>1. /\ MinPrice \in Nat /\ MaxPrice \in Nat /\ TickSize \in Nat \ {0}
      /\ PriceMod \in Nat \ {0} /\ MinPrice < PriceMod /\ MaxPrice < PriceMod /\ MinPrice # 0
  BY GeneratorAssumption DEF GP!PricesFit
<1>2. PICK k \in Nat : price = MinPrice + k * TickSize
  BY DEF GP!OnTick
<1>3. k * TickSize \in Nat /\ price - MinPrice = k * TickSize
  BY <1>1, <1>2
<1>4. price \in Nat /\ price # 0 /\ price >= MinPrice /\ price <= MaxPrice
  BY <1>1, <1>2, <1>3 DEF GP!OnTick
<1>5. (price - MinPrice) % TickSize = 0 /\ (price - MinPrice) \div TickSize = k
  <2>1. (k * TickSize) % TickSize = 0 /\ (k * TickSize) \div TickSize = k
    BY <1>1, MultipleDivides
  <2> QED BY <1>3, <2>1
<1>a. PICK d : d = MaxPrice - MinPrice
  OBVIOUS
<1>b. PICK n : n = d \div TickSize
  OBVIOUS
<1>6. d \in Nat /\ d % TickSize = 0 /\ d + 1 < PriceMod
  BY <1>1, <1>4, <1>a DEF GP!PricesFit
<1>7. n \in Nat /\ d = n * TickSize
  BY <1>1, <1>6, <1>b, DivideExactly
<1>8. n <= d
  BY <1>1, <1>7, LargerMultiple
<1>9. level_count = n + 1
  <2>1. n + 1 \in 0 .. PriceMod - 1
    BY <1>1, <1>6, <1>7, <1>8
  <2>2. (n + 1) % PriceMod = n + 1
    BY <1>1, <2>1
  <2> QED BY <1>a, <1>b, <2>2 DEF level_count
<1>10. k <= n
  <2>1. k * TickSize <= n * TickSize
    BY <1>1, <1>3, <1>4, <1>a, <1>6, <1>7
  <2> QED BY <1>1, <1>7, <2>1, LargerMultiple
<1> QED BY <1>4, <1>5, <1>7, <1>9, <1>10 DEF on_ladder

\* The prices of a trace are on the ladder.
LEMMA TraceFits ==
  ASSUME GP!PricesFit, TraceIsSound, NEW k \in DOMAIN trace, NEW req, req = trace[k]
  PROVE  /\ req.bench_op_type = "NewLimit" => req.price # 0 /\ on_ladder(req.price)
         /\ req.bench_op_type = "Modify" => req.price # 0 /\ on_ladder(req.price)
         /\ req.bench_op_type \in {"NewLimit", "NewMarket"} => NewFits(as_new(req))
         /\ req.bench_op_type = "Modify" => ModifyFits(as_modify(req))
<1>1. GP!IsSubmittable(req)
  BY RequestOfTrace
<1>2. name \in Workloads
  BY DEF TraceIsSound, GP!GeneratorInv, GP!GeneratorTypeOK
<1>3. req.bench_op_type = "NewLimit" => GP!OnTick(req.price)
  BY <1>1, <1>2, GeneratorAssumption, GP!LimitPricesFit DEF GP!IsSubmittable
<1>4. req.bench_op_type = "Modify" => GP!OnTick(req.price)
  BY <1>1, GeneratorAssumption, GP!EndsOnTick DEF GP!IsSubmittable
<1> QED BY <1>3, <1>4, OnTickIsOnLadder DEF as_new, as_modify, NewFits, ModifyFits

SinksAgree == \A layer \in Layers : sink[layer]["map"] = sink[layer]["ladder_pool"]

LEMMA ResetCouples == reset => Coupled'
<1>1. BothInit' => Coupled'
  BY StartCoupled, PTL
<1> QED BY <1>1, ResetIsInit

LEMMA ProcessAgrees ==
  ASSUME GP!PricesFit, TraceIsSound, IInv, MapP!IInv, MapP!IInv', Coupled,
         NEW k \in DOMAIN trace, process(trace[k])
  PROVE  Coupled'
<1>a. PICK req : req = trace[k]
  OBVIOUS
<1>1. /\ req.order_id \in OrderIds
      /\ as_new(req) \in NewOrderRequest /\ as_modify(req) \in ModifyOrderRequest
      /\ as_cancel(req) \in CancelOrderRequest
  BY <1>a, RequestOfTrace
<1>2. /\ as_new(req).order_id = req.order_id /\ as_modify(req).order_id = req.order_id
      /\ as_cancel(req).order_id = req.order_id
  BY DEF as_new, as_modify, as_cancel
<1>3. /\ req.bench_op_type \in {"NewLimit", "NewMarket"} => NewFits(as_new(req))
      /\ req.bench_op_type = "Modify" => ModifyFits(as_modify(req))
  BY <1>a, TraceFits
<1>4. CASE req.bench_op_type \in {"NewLimit", "NewMarket"}
           /\ SubmitNew(as_new(req)) /\ Map!SubmitNew(as_new(req))
  BY <1>1, <1>2, <1>3, <1>4, BothNewAgrees
<1>5. CASE req.bench_op_type = "Modify"
           /\ SubmitModify(as_modify(req)) /\ Map!SubmitModify(as_modify(req))
  BY <1>1, <1>2, <1>3, <1>5, BothModifyAgrees
<1>6. CASE SubmitCancel(as_cancel(req)) /\ Map!SubmitCancel(as_cancel(req))
  BY <1>1, <1>2, <1>6, BothCancelAgrees
<1> QED BY <1>a, <1>4, <1>5, <1>6 DEF process

LEMMA CountsAgree ==
  ASSUME Coupled, SinksAgree, CountEvents
  PROVE  SinksAgree'
<1>1. answer("map") = answer("ladder_pool")
  BY DEF answer, Coupled, HandlersAgree
<1>2. \A layer : events_of(layer, "map") = events_of(layer, "ladder_pool")
  BY <1>1 DEF events_of
<1>3. \A layer \in Layers : /\ sink'[layer]["map"] =
                                 on_events(sink[layer]["map"], events_of(layer, "map"))
                            /\ sink'[layer]["ladder_pool"] =
                                 on_events(sink[layer]["ladder_pool"], events_of(layer, "ladder_pool"))
  BY DEF CountEvents, BookTypes
<1> QED BY <1>2, <1>3 DEF SinksAgree

LEMMA TargetsStart == BenchInit => Coupled /\ SinksAgree
  BY StartCoupled DEF BenchInit, SinksAgree, ZeroSinks, BookTypes, Layers

LEMMA TargetsStep ==
  GP!PricesFit /\ BenchInv /\ BenchInv' /\ Coupled /\ SinksAgree /\ [BenchNext]_benchVars
    => Coupled' /\ SinksAgree'
<1> SUFFICES ASSUME GP!PricesFit, BenchInv, BenchInv', Coupled, SinksAgree,
                    [BenchNext]_benchVars
             PROVE  Coupled' /\ SinksAgree'
  OBVIOUS
<1>0. TraceIsSound /\ IInv /\ MapP!IInv /\ MapP!IInv'
  BY DEF BenchInv
<1>1. CASE GenerateTrace \/ RefuseEmptyTrace \/ Finish \/ UNCHANGED benchVars
  <2>1. UNCHANGED bothVars /\ UNCHANGED sink
    BY <1>1 DEF GenerateTrace, RefuseEmptyTrace, Finish, benchVars, runVars
  <2> QED BY <2>1, UnchangedAgrees DEF SinksAgree
<1>2. CASE StartWarmup \/ StartMeasured
  <2>1. reset /\ sink' = ZeroSinks
    BY <1>2 DEF StartWarmup, StartMeasured
  <2> QED BY <2>1, ResetCouples DEF SinksAgree, ZeroSinks, BookTypes, Layers
<1>3. CASE ProcessNext
  <2>a. PICK k : k = position + 1
    OBVIOUS
  <2>1. process(trace[k]) /\ UNCHANGED sink /\ position < replayed
    BY <1>3, <2>a DEF ProcessNext, runVars
  <2>2. k \in DOMAIN trace
    BY <1>0, <2>1, <2>a, LengthOfTrace DEF BenchInv, ReplayIsSound
  <2> QED BY <1>0, <2>1, <2>2, ProcessAgrees DEF SinksAgree
<1>4. CASE InsideProcess
  BY <1>0, <1>4, BothRunAgrees DEF InsideProcess, runVars, SinksAgree
<1>5. CASE CountEvents
  BY <1>5, CountsAgree, BothCollectAgrees DEF CountEvents
<1> QED BY <1>1, <1>2, <1>3, <1>4, <1>5 DEF BenchNext

\* The books of all targets stay in step through both replays of any workload.
THEOREM TargetsStayInStep ==
  ASSUME GP!PricesFit PROVE BenchSpec => [](Coupled /\ SinksAgree)
<1>1. BenchInv /\ BenchInv' /\ Coupled /\ SinksAgree /\ [BenchNext]_benchVars
        => Coupled' /\ SinksAgree'
  BY TargetsStep
<1> QED BY <1>1, TargetsStart, BenchmarkIsSound, PTL DEF BenchSpec

\* At any point of a replay, the ladder's targets have counted what those of the map
\* have, event type by event type.
THEOREM TargetsCountAlike == ASSUME GP!PricesFit PROVE BenchSpec => []SameCounts
<1>1. SinksAgree => SameCounts
  BY DEF SinksAgree, SameCounts
<1> QED BY <1>1, TargetsStayInStep, PTL

-----------------------------------------------------------------------------
(***************************************************************************)
(* What the steps of a ladder call do to the orders that a later request   *)
(* may name, and to what the call has told.                                *)
(***************************************************************************)
Rests(id) == resting_orders[id] # NoOrder

\* The running call lets the order rest, if nothing trades with it.
InCall(id) == pc \in {"resubmit", "matching"} /\ ~is_market /\ new_req.order_id = id

Known(id) == Rests(id) \/ InCall(id)

\* A call goes on about the order it was made for.
CallKeepsItsOrder ==
  /\ pc = "resubmit" => ~is_market
  /\ pc = "matching" => incoming.order_id = new_req.order_id

LEMMA NoneOfType ==
  ASSUME NEW evs \in Seq(Event), NEW type
  PROVE  /\ HowMany(evs, type) \in Nat
         /\ HowMany(evs, type) = 0 <=> \A i \in DOMAIN evs : evs[i].event_type # type
<1>1. IsFiniteSet(Positions(evs, type)) /\ HowMany(evs, type) \in Nat
  BY ReportedIsNatural, HowManyType
<1>2. HowMany(evs, type) = 0 <=> Positions(evs, type) = {}
  BY <1>1, FS_EmptySet DEF HowMany
<1> QED BY <1>1, <1>2 DEF Positions

\* A return adds at most the report of a modify.
LEMMA ReturnedEvents ==
  ASSUME HandlerTypeOK, NEW evs \in Seq(Event), Return(new_req, evs)
  PROVE  \A type : type # "OrderModified" => HowMany(events', type) = HowMany(evs, type)
<1>a. PICK e : e = OrderModified(new_req)
  OBVIOUS
<1>1. e \in Event /\ e.event_type = "OrderModified"
  BY <1>a, RequestEventTypes, TypesOfEvents DEF HandlerTypeOK
<1>2. events' = Append(evs, e) \/ events' = evs
  BY <1>a DEF Return
<1>3. SUFFICES ASSUME NEW type, type # "OrderModified"
               PROVE  HowMany(events', type) = HowMany(evs, type)
  OBVIOUS
<1>4. HowMany(Append(evs, e), type) = HowMany(evs, type)
  BY <1>1, <1>3, HowManyAppended
<1> QED BY <1>2, <1>4

\* What a step inside the call leaves: no order becomes known; the known ones stay,
\* or the call has traded; and no step refuses anything.
KeepsKnown ==
  /\ CallKeepsItsOrder'
  /\ \A id \in OrderIds : Known(id)' => Known(id)
  /\ HowMany(events', "Trade") = 0 => \A id \in OrderIds : Known(id) => Known(id)'
  /\ HowMany(events, "Trade") > 0 => HowMany(events', "Trade") > 0
  /\ HowMany(events', "Trade") = HowMany(events, "Trade") \/ \E id : PriceTime!Match(id)
  /\ HowMany(events', "OrderRejected") = HowMany(events, "OrderRejected")

LEMMA ResubmitKeepsKnown ==
  ASSUME IInv, CallKeepsItsOrder, PriceTime!Resubmit
  PROVE  KeepsKnown
<1>a. PICK e : e = OrderAccepted(new_req)
  OBVIOUS
<1>b. PICK evs : evs = events
  OBVIOUS
<1>1. /\ handle_new_order(new_req, "None", events) /\ UNCHANGED resting_orders
      /\ pc = "resubmit"
  BY SameNewOrder DEF PriceTime!Resubmit
<1>2. /\ pc' = "matching" /\ new_req' = new_req /\ incoming'.order_id = new_req.order_id
      /\ events' = Append(evs, e)
  BY <1>1, <1>a, <1>b DEF handle_new_order
<1>3. evs \in Seq(Event) /\ e \in Event /\ e.event_type = "OrderAccepted"
  BY <1>a, <1>b, RequestEventTypes, TypesOfEvents DEF IInv, TypeOK, HandlerTypeOK
<1>4. \A type \in {"Trade", "OrderRejected"} : HowMany(events', type) = HowMany(evs, type)
  BY <1>2, <1>3, HowManyAppended
<1>5. \A id \in OrderIds : Known(id)' <=> Known(id)
  BY <1>1, <1>2 DEF Known, Rests, InCall, is_market
<1> QED BY <1>1, <1>2, <1>4, <1>5, <1>b DEF KeepsKnown, CallKeepsItsOrder

LEMMA MatchKeepsKnown ==
  ASSUME IInv, CallKeepsItsOrder, NEW id, PriceTime!Match(id)
  PROVE  KeepsKnown
<1>a. PICK o : o = resting_orders[id]
  OBVIOUS
<1>b. PICK evs : evs = events
  OBVIOUS
<1>c. PICK e : e = Trade(o, trade_qty(o))
  OBVIOUS
<1>1. /\ pc = "matching" /\ TradeWith(o) /\ id \in OrderIds /\ o # NoOrder
      /\ \/ PriceTime!Forget(id)
         \/ resting_orders' = [resting_orders EXCEPT
                                 ![id].remaining_quantity = @ - trade_qty(o),
                                 ![id].order_status = "PartiallyFilled"]
  BY <1>a, SameMatching, RestingUnderItsId
  DEF PriceTime!Match, PriceTime!IsFront, PriceTime!RestingOn, PriceTime!contains_order
<1>2. o \in Order
  BY <1>1, <1>a, RestingUnderItsId
<1>3. evs \in Seq(Event) /\ e \in Event /\ e.event_type = "Trade"
  BY <1>2, <1>b, <1>c, TradeQuantity, TradeType, TypesOfEvents DEF IInv, TypeOK, HandlerTypeOK
<1>4. events' = Append(evs, e) /\ UNCHANGED <<pc, new_req>>
      /\ incoming'.order_id = incoming.order_id
  <2>1. incoming' = [incoming EXCEPT !.remaining_quantity = @ - trade_qty(o)]
    BY <1>1 DEF TradeWith
  <2>2. incoming'.order_id = incoming.order_id
    BY <2>1 DEF IInv, TypeOK, HandlerTypeOK, Order
  <2> QED BY <1>1, <1>b, <1>c, <2>2 DEF TradeWith
<1>5. /\ HowMany(events', "Trade") > 0
      /\ HowMany(events', "OrderRejected") = HowMany(evs, "OrderRejected")
  BY <1>3, <1>4, HowManyAppended, HowManyType
<1>6. \A x \in OrderIds : Rests(x)' => Rests(x)
  BY <1>1, <1>a, RestingUnderItsId DEF PriceTime!Forget, Rests, resting_orders
<1>7. \A x \in OrderIds : Known(x)' => Known(x)
  BY <1>4, <1>6 DEF Known, InCall, is_market
<1> QED BY <1>1, <1>4, <1>5, <1>7, <1>b DEF KeepsKnown, CallKeepsItsOrder

LEMMA RestKeepsKnown ==
  ASSUME IInv, CallKeepsItsOrder, PriceTime!Rest
  PROVE  KeepsKnown
<1>a. PICK o : o = [incoming EXCEPT !.order_status = "Resting"]
  OBVIOUS
<1>b. PICK evs : evs = events
  OBVIOUS
<1>c. PICK e : e = OrderRested(incoming)
  OBVIOUS
<1>d. PICK id0 : id0 = incoming.order_id
  OBVIOUS
<1>1. /\ pc = "matching" /\ ~is_market /\ incoming.remaining_quantity > 0
      /\ resting_orders' = [resting_orders EXCEPT ![id0] = o]
      /\ Return(new_req, Append(evs, e))
  BY <1>a, <1>b, <1>c, <1>d, SameMatching, SameReturn, SameEventsOfOrders
  DEF PriceTime!Rest, PriceTime!MatchingDone
<1>2. incoming \in Order /\ id0 \in OrderIds /\ new_req.order_id = id0
  BY <1>1, <1>d DEF IInv, TypeOK, HandlerTypeOK, CallIsSound, CallKeepsItsOrder
<1>3. o # NoOrder
  BY <1>1, <1>2, <1>a DEF NoOrder, Order
<1>4. evs \in Seq(Event) /\ e \in Event /\ e.event_type = "OrderRested" /\ HandlerTypeOK
  BY <1>b, <1>c, OrderEventTypes, TypesOfEvents DEF IInv, TypeOK, HandlerTypeOK
<1>5. \A type \in {"Trade", "OrderRejected"} : HowMany(events', type) = HowMany(evs, type)
  <2>1. Append(evs, e) \in Seq(Event)
    BY <1>4
  <2>2. \A type \in {"Trade", "OrderRejected"} :
          HowMany(events', type) = HowMany(Append(evs, e), type)
    BY <1>1, <1>4, <2>1, ReturnedEvents
  <2> QED BY <1>4, <2>2, HowManyAppended
<1>6. pc' = "returned"
  BY <1>1 DEF Return
<1>7. \A x \in OrderIds : Known(x)' <=> Known(x)
  <2>1. \A x \in OrderIds : resting_orders'[x] = IF x = id0 THEN o ELSE resting_orders[x]
    BY <1>1, <1>2 DEF resting_orders
  <2> QED BY <1>1, <1>2, <1>3, <1>6, <2>1 DEF Known, Rests, InCall
<1> QED BY <1>5, <1>6, <1>7, <1>b DEF KeepsKnown, CallKeepsItsOrder

LEMMA NothingRestsKeepsKnown ==
  ASSUME IInv, CallKeepsItsOrder, NEW market, AnswerIsComing(market), PriceTime!NothingRests
  PROVE  KeepsKnown
<1>b. PICK old : old = events
  OBVIOUS
<1>c. PICK e : e = UnfilledMarketOrderCancelled(incoming)
  OBVIOUS
<1>d. PICK evs : evs = IF incoming.remaining_quantity = 0 THEN old ELSE Append(old, e)
  OBVIOUS
<1>1. /\ pc = "matching" /\ (incoming.remaining_quantity = 0 \/ is_market)
      /\ FinishWithoutResting /\ UNCHANGED resting_orders
  BY SameMatching, SameAnswers DEF PriceTime!NothingRests, PriceTime!MatchingDone
<1>2. Return(new_req, evs)
  BY <1>1, <1>b, <1>c, <1>d DEF FinishWithoutResting
<1>3. /\ old \in Seq(Event) /\ e \in Event /\ HandlerTypeOK
      /\ e.event_type = "UnfilledMarketOrderCancelled"
  BY <1>b, <1>c, OrderEventTypes, TypesOfEvents DEF IInv, TypeOK, HandlerTypeOK
<1>4. evs \in Seq(Event) /\ \A type \in {"Trade", "OrderRejected"} :
                              HowMany(evs, type) = HowMany(old, type)
  BY <1>3, <1>d, HowManyAppended
<1>5. \A type \in {"Trade", "OrderRejected"} : HowMany(events', type) = HowMany(old, type)
  BY <1>2, <1>3, <1>4, ReturnedEvents
<1>6. pc' = "returned"
  BY <1>2 DEF Return
<1>7. \A x \in OrderIds : Known(x)' => Known(x)
  BY <1>1, <1>6 DEF Known, Rests, InCall
<1>8. HowMany(old, "Trade") = 0 => \A x \in OrderIds : Known(x) => Known(x)'
  <2>1. incoming.remaining_quantity = 0 => HowMany(old, "Trade") > 0
    BY <1>1, <1>b DEF AnswerIsComing
  <2>2. HowMany(old, "Trade") = 0 => is_market
    BY <1>1, <2>1
  <2> QED BY <1>1, <2>2 DEF Known, Rests, InCall
<1> QED BY <1>5, <1>6, <1>7, <1>8, <1>b DEF KeepsKnown, CallKeepsItsOrder

LEMMA RunsKeepKnown ==
  ASSUME IInv, CallKeepsItsOrder, NEW market, AnswerIsComing(market), LadderRuns
  PROVE  KeepsKnown
  BY LadderRunsAreSteps, ResubmitKeepsKnown, MatchKeepsKnown, RestKeepsKnown,
     NothingRestsKeepsKnown

-----------------------------------------------------------------------------
(***************************************************************************)
(* Which requests are refused.                                             *)
(***************************************************************************)
CreatedBy(id, taken) ==
  \E k \in 1 .. taken : trace[k].bench_op_type = "NewLimit" /\ trace[k].order_id = id

CancelledBy(id, taken) ==
  \E k \in 1 .. taken : trace[k].bench_op_type = "Cancel" /\ trace[k].order_id = id

\* The requests that the book has been given.
Taken == IF pc = "idle" THEN position ELSE position + 1

Traded == sink["book"]["ladder_pool"].trades > 0 \/ HowMany(events, "Trade") > 0

OnlyNotFound(evs) ==
  \A i \in DOMAIN evs :
    evs[i].event_type = "OrderRejected" => evs[i].reason = "OrderIdNotFound"

\* Until something trades, the orders that the generator takes for live are known.
RefusalInv ==
  /\ CallKeepsItsOrder
  /\ Replaying =>
       /\ \A id \in OrderIds : Known(id) => CreatedBy(id, Taken)
       /\ ~Traded => \A id \in OrderIds :
                       CreatedBy(id, Taken) /\ ~CancelledBy(id, Taken) => Known(id)
       /\ OnlyNotFound(events)
       /\ HowMany(events, "OrderRejected") > 0 => Traded
       /\ sink["book"]["ladder_pool"].rejected > 0 => sink["book"]["ladder_pool"].trades > 0

\* What the four kinds of requests do to the known orders.
LEMMA NewIsTaken ==
  ASSUME IInv, pc = "idle", NEW req \in NewOrderRequest, req.order_id \in OrderIds,
         is_valid_new_order_request(req) = "None", NewFits(req), ~Rests(req.order_id),
         SubmitNew(req)
  PROVE  /\ CallKeepsItsOrder' /\ OnlyNotFound(events') /\ HowMany(events', "OrderRejected") = 0
         /\ \A x \in OrderIds :
              Known(x)' <=> Known(x) \/ (req.order_type # "Market" /\ x = req.order_id)
<1>a. PICK e : e = OrderAccepted(req)
  OBVIOUS
<1>1. new_order_reason(req) = "None"
  BY RestingOrder DEF new_order_reason, NewFits, Rests
<1>2. /\ pc' = "matching" /\ new_req' = req /\ incoming'.order_id = req.order_id
      /\ events' = Append(<<>>, e) /\ UNCHANGED bookVars
  BY <1>1, <1>a DEF SubmitNew, handle_new_order
<1>3. e \in Event /\ e.event_type = "OrderAccepted"
  BY <1>a, RequestEventTypes, TypesOfEvents
<1>4. events' = <<e>>
  BY <1>2
<1>5. OnlyNotFound(events') /\ HowMany(events', "OrderRejected") = 0
  BY <1>3, <1>4, HowManyOfOne DEF OnlyNotFound
<1>6. UNCHANGED resting_orders
  BY <1>2, SameBookSameOrders
<1>7. \A x \in OrderIds :
        Known(x)' <=> Known(x) \/ (req.order_type # "Market" /\ x = req.order_id)
  BY <1>2, <1>6 DEF Known, Rests, InCall, is_market
<1> QED BY <1>2, <1>5, <1>7 DEF CallKeepsItsOrder

LEMMA CancelIsTaken ==
  ASSUME IInv, pc = "idle", NEW req \in CancelOrderRequest, req.order_id \in OrderIds,
         req.order_id # 0, SubmitCancel(req)
  PROVE  /\ CallKeepsItsOrder' /\ OnlyNotFound(events')
         /\ Rests(req.order_id) =>
              /\ HowMany(events', "OrderRejected") = 0
              /\ \A x \in OrderIds : Known(x)' <=> Known(x) /\ x # req.order_id
         /\ ~Rests(req.order_id) => \A x \in OrderIds : Known(x)' <=> Known(x)
<1>1. PriceTime!SubmitCancel(req) /\ PriceTime!NoOrder = NoOrder
  BY SubmitCancelImplements, RestingUnderItsId
<1>2. PriceTime!cancel_order_reason(req) =
        IF Rests(req.order_id) THEN "None" ELSE "OrderIdNotFound"
  BY <1>1, SameRequestChecks
  DEF PriceTime!cancel_order_reason, PriceTime!contains_order, Rests,
      is_valid_cancel_order_request
<1>3. CASE Rests(req.order_id)
  <2>a. PICK e : e = OrderCancelled(resting_orders[req.order_id])
    OBVIOUS
  <2>1. /\ events' = <<e>> /\ pc' = "returned"
        /\ resting_orders' = [resting_orders EXCEPT ![req.order_id] = NoOrder]
    BY <1>1, <1>2, <1>3, <2>a, SameEventsOfOrders
    DEF PriceTime!SubmitCancel, PriceTime!Answer, PriceTime!Forget
  <2>2. e \in Event /\ e.event_type = "OrderCancelled"
    BY <2>a, RestingUnderItsId, OrderEventTypes, TypesOfEvents
  <2>3. OnlyNotFound(events') /\ HowMany(events', "OrderRejected") = 0
    BY <2>1, <2>2, HowManyOfOne DEF OnlyNotFound
  <2>4. \A x \in OrderIds : Known(x)' <=> Known(x) /\ x # req.order_id
    <3>1. \A x \in OrderIds : resting_orders'[x] =
                                IF x = req.order_id THEN NoOrder ELSE resting_orders[x]
      BY <2>1 DEF resting_orders
    <3> QED BY <2>1, <3>1 DEF Known, Rests, InCall
  <2> QED BY <1>3, <2>1, <2>3, <2>4 DEF CallKeepsItsOrder
<1>4. CASE ~Rests(req.order_id)
  <2>a. PICK e : e = CancelRejected(req, "OrderIdNotFound")
    OBVIOUS
  <2>1. events' = <<e>> /\ pc' = "returned" /\ UNCHANGED resting_orders
    BY <1>1, <1>2, <1>4, <2>a, SameEventsOfRequests
    DEF PriceTime!SubmitCancel, PriceTime!Answer
  <2>2. e.reason = "OrderIdNotFound"
    BY <2>a DEF CancelRejected, DefaultEvent
  <2>3. OnlyNotFound(events')
    BY <2>1, <2>2 DEF OnlyNotFound
  <2>4. \A x \in OrderIds : Known(x)' <=> Known(x)
    BY <2>1 DEF Known, Rests, InCall
  <2> QED BY <1>4, <2>1, <2>3, <2>4 DEF CallKeepsItsOrder
<1> QED BY <1>3, <1>4

LEMMA ModifyIsTaken ==
  ASSUME IInv, pc = "idle", NEW req \in ModifyOrderRequest, req.order_id \in OrderIds,
         is_valid_modify_order_request(req) = "None", ModifyFits(req),
         req.order_type = "Limit", SubmitModify(req)
  PROVE  /\ CallKeepsItsOrder' /\ OnlyNotFound(events')
         /\ Rests(req.order_id) => HowMany(events', "OrderRejected") = 0
         /\ \A x \in OrderIds : Known(x)' <=> Known(x)
<1>1. PriceTime!SubmitModify(req) /\ PriceTime!NoOrder = NoOrder
  BY SubmitModifyImplements, RestingUnderItsId
<1>2. modify_order_reason(req) = IF Rests(req.order_id) THEN "None" ELSE "OrderIdNotFound"
  BY RestingOrder DEF modify_order_reason, Rests, ModifyFits
<1>3. PriceTime!modify_order_reason(req) = modify_order_reason(req)
  BY SameReasons
<1>4. CASE Rests(req.order_id)
  <2>a. PICK e : e = OrderCancelled(resting_orders[req.order_id])
    OBVIOUS
  <2>1. /\ events' = <<e>> /\ pc' = "resubmit" /\ new_req'.order_id = req.order_id
        /\ new_req'.order_type = "Limit"
        /\ resting_orders' = [resting_orders EXCEPT ![req.order_id] = NoOrder]
    BY <1>1, <1>2, <1>3, <1>4, <2>a, SameEventsOfOrders
    DEF PriceTime!SubmitModify, PriceTime!BeginModify, PriceTime!Forget
  <2>2. e \in Event /\ e.event_type = "OrderCancelled"
    BY <2>a, RestingUnderItsId, OrderEventTypes, TypesOfEvents
  <2>3. OnlyNotFound(events') /\ HowMany(events', "OrderRejected") = 0
    BY <2>1, <2>2, HowManyOfOne DEF OnlyNotFound
  <2>4. \A x \in OrderIds : Known(x)' <=> Known(x)
    <3>1. \A x \in OrderIds : resting_orders'[x] =
                                IF x = req.order_id THEN NoOrder ELSE resting_orders[x]
      BY <2>1 DEF resting_orders
    <3> QED BY <1>4, <2>1, <3>1 DEF Known, Rests, InCall, is_market
  <2> QED BY <1>4, <2>1, <2>3, <2>4 DEF CallKeepsItsOrder, is_market
<1>5. CASE ~Rests(req.order_id)
  <2>a. PICK e : e = ModifyRejected(req, "OrderIdNotFound")
    OBVIOUS
  <2>1. events' = <<e>> /\ pc' = "returned" /\ UNCHANGED resting_orders
    BY <1>1, <1>2, <1>3, <1>5, <2>a, SameEventsOfRequests
    DEF PriceTime!SubmitModify, PriceTime!Answer
  <2>2. e.reason = "OrderIdNotFound"
    BY <2>a DEF ModifyRejected, DefaultEvent
  <2>3. OnlyNotFound(events')
    BY <2>1, <2>2 DEF OnlyNotFound
  <2>4. \A x \in OrderIds : Known(x)' <=> Known(x)
    BY <2>1 DEF Known, Rests, InCall
  <2> QED BY <1>5, <2>1, <2>3, <2>4 DEF CallKeepsItsOrder
<1> QED BY <1>4, <1>5

-----------------------------------------------------------------------------
(***************************************************************************)
(* RefusalInv is inductive with BenchInv and AnswerInv.                    *)
(***************************************************************************)
LEMMA NothingTold == OnlyNotFound(<<>>) /\ \A type : HowMany(<<>>, type) = 0
<1>1. DOMAIN <<>> = {}
  OBVIOUS
<1>2. \A type : Positions(<<>>, type) = {}
  BY <1>1 DEF Positions
<1> QED BY <1>1, <1>2, FS_EmptySet DEF HowMany, OnlyNotFound

LEMMA OneMoreTaken ==
  ASSUME NEW taken \in Nat, NEW k, k = taken + 1, NEW id
  PROVE  /\ CreatedBy(id, k) <=>
              \/ CreatedBy(id, taken)
              \/ trace[k].bench_op_type = "NewLimit" /\ trace[k].order_id = id
         /\ CancelledBy(id, k) <=>
              \/ CancelledBy(id, taken)
              \/ trace[k].bench_op_type = "Cancel" /\ trace[k].order_id = id
<1>1. 1 .. k = (1 .. taken) \cup {k}
  OBVIOUS
<1> QED BY <1>1 DEF CreatedBy, CancelledBy

\* What the generator promises of a request, in these terms.
LEMMA NamedOrders ==
  ASSUME TraceIsSound, NEW k \in DOMAIN trace, NEW taken \in Nat, k = taken + 1,
         NEW id, id = trace[k].order_id
  PROVE  /\ trace[k].bench_op_type \in {"NewLimit", "NewMarket"} => ~CreatedBy(id, taken)
         /\ trace[k].bench_op_type \in {"Cancel", "Modify"} =>
              CreatedBy(id, taken) /\ ~CancelledBy(id, taken)
<1>1. IF GP!IsNew(k)
      THEN \A j \in DOMAIN trace : GP!IsNew(j) /\ trace[j].order_id = id => j = k
      ELSE GP!CreatedBefore(k) /\ ~GP!CancelledBefore(k)
  BY DEF TraceIsSound, GP!GeneratorInv, GP!TraceNamesLiveOrders
<1>2. 1 .. k - 1 = 1 .. taken
  OBVIOUS
<1>3. ASSUME trace[k].bench_op_type \in {"NewLimit", "NewMarket"}, CreatedBy(id, taken)
      PROVE  FALSE
  <2>1. PICK j \in 1 .. taken : trace[j].bench_op_type = "NewLimit" /\ trace[j].order_id = id
    BY <1>3 DEF CreatedBy
  <2>2. j \in DOMAIN trace /\ j # k
    BY <2>1, LengthOfTrace
  <2> QED BY <1>1, <1>3, <2>1, <2>2 DEF GP!IsNew
<1>4. trace[k].bench_op_type \in {"Cancel", "Modify"} =>
        CreatedBy(id, taken) /\ ~CancelledBy(id, taken)
  BY <1>1, <1>2 DEF GP!IsNew, GP!CreatedBefore, GP!CancelledBefore, CreatedBy, CancelledBy
<1> QED BY <1>3, <1>4

\* What the call of a request leaves known, and when it may refuse.
LEMMA RequestIsTaken ==
  ASSUME GP!PricesFit, BenchInv, AnswerInv, RefusalInv, ProcessNext,
         NEW k, k = position + 1, NEW req, req = trace[k]
  PROVE  /\ CallKeepsItsOrder' /\ OnlyNotFound(events')
         /\ HowMany(events', "OrderRejected") = 0 \/ Traded
         /\ \A x \in OrderIds :
              \/ Known(x)' <=> \/ Known(x) /\ ~(req.bench_op_type = "Cancel" /\ x = req.order_id)
                               \/ req.bench_op_type = "NewLimit" /\ x = req.order_id
              \/ Traded /\ (Known(x)' <=> Known(x))
<1>0. /\ pc = "idle" /\ IInv /\ TraceIsSound /\ process(req) /\ Replaying
      /\ position \in Nat /\ k \in DOMAIN trace /\ Taken = position
  <2>1. k \in DOMAIN trace /\ position \in Nat
    BY LengthOfTrace DEF BenchInv, ReplayIsSound, ProcessNext
  <2> QED BY <2>1 DEF ProcessNext, BetweenCalls, BenchInv, Taken
<1>1. /\ req.order_id \in OrderIds /\ GP!IsSubmittable(req)
      /\ as_new(req) \in NewOrderRequest /\ as_modify(req) \in ModifyOrderRequest
      /\ as_cancel(req) \in CancelOrderRequest
  BY <1>0, RequestOfTrace
<1>2. /\ as_new(req).order_id = req.order_id /\ as_modify(req).order_id = req.order_id
      /\ as_cancel(req).order_id = req.order_id /\ req.order_id # 0
  BY <1>1 DEF as_new, as_modify, as_cancel, GP!IsSubmittable
<1>3. /\ req.bench_op_type \in {"NewLimit", "NewMarket"} => NewFits(as_new(req))
      /\ req.bench_op_type = "Modify" => ModifyFits(as_modify(req))
      /\ req.bench_op_type = "NewLimit" => req.price # 0
      /\ req.bench_op_type = "Modify" => req.price # 0
  BY <1>0, TraceFits
<1>4. ~Traded /\ req.bench_op_type \in {"Cancel", "Modify"} => Rests(req.order_id)
  <2>1. CreatedBy(req.order_id, Taken) /\ ~CancelledBy(req.order_id, Taken) /\ ~Traded
          => Known(req.order_id)
    BY <1>0, <1>1 DEF RefusalInv
  <2>2. req.bench_op_type \in {"Cancel", "Modify"} =>
          CreatedBy(req.order_id, Taken) /\ ~CancelledBy(req.order_id, Taken)
    BY <1>0, NamedOrders
  <2> QED BY <1>0, <2>1, <2>2 DEF Known, InCall
<1>5. CASE req.bench_op_type \in {"NewLimit", "NewMarket"} /\ SubmitNew(as_new(req))
  <2>1. ~Rests(req.order_id)
    BY <1>0, <1>1, <1>5, NamedOrders DEF RefusalInv, Known
  <2>2. is_valid_new_order_request(as_new(req)) = "None"
    BY <1>1, <1>3, <1>5 DEF is_valid_new_order_request, as_new, GP!IsSubmittable, GP!BookSides
  <2>3. as_new(req).order_type # "Market" <=> req.bench_op_type = "NewLimit"
    BY <1>5 DEF as_new
  <2>4. /\ CallKeepsItsOrder' /\ OnlyNotFound(events') /\ HowMany(events', "OrderRejected") = 0
        /\ \A x \in OrderIds : Known(x)' <=> \/ Known(x)
                                             \/ as_new(req).order_type # "Market" /\ x = req.order_id
    BY <1>0, <1>1, <1>2, <1>3, <1>5, <2>1, <2>2, NewIsTaken
  <2> QED BY <1>5, <2>3, <2>4
<1>6. CASE req.bench_op_type = "Modify" /\ SubmitModify(as_modify(req))
  <2>1. is_valid_modify_order_request(as_modify(req)) = "None"
        /\ as_modify(req).order_type = "Limit"
    BY <1>1, <1>3, <1>6 DEF is_valid_modify_order_request, as_modify, GP!IsSubmittable
  <2>2. /\ CallKeepsItsOrder' /\ OnlyNotFound(events')
        /\ Rests(req.order_id) => HowMany(events', "OrderRejected") = 0
        /\ \A x \in OrderIds : Known(x)' <=> Known(x)
    BY <1>0, <1>1, <1>2, <1>3, <1>6, <2>1, ModifyIsTaken
  <2> QED BY <1>4, <1>6, <2>2
<1>7. CASE req.bench_op_type = "Cancel" /\ SubmitCancel(as_cancel(req))
  <2>1. /\ CallKeepsItsOrder' /\ OnlyNotFound(events')
        /\ Rests(req.order_id) =>
             /\ HowMany(events', "OrderRejected") = 0
             /\ \A x \in OrderIds : Known(x)' <=> Known(x) /\ x # req.order_id
        /\ ~Rests(req.order_id) => \A x \in OrderIds : Known(x)' <=> Known(x)
    BY <1>0, <1>1, <1>2, <1>7, CancelIsTaken
  <2> QED BY <1>4, <1>7, <2>1
<1> QED BY <1>0, <1>5, <1>6, <1>7 DEF process

LEMMA ProcessKeepsRefusals ==
  ASSUME GP!PricesFit, BenchInv, BenchInv', AnswerInv, RefusalInv, ProcessNext
  PROVE  RefusalInv'
<1>a. PICK k : k = position + 1
  OBVIOUS
<1>b. PICK req : req = trace[k]
  OBVIOUS
<1>1. /\ CallKeepsItsOrder' /\ OnlyNotFound(events')
      /\ HowMany(events', "OrderRejected") = 0 \/ Traded
      /\ \A x \in OrderIds :
           \/ Known(x)' <=> \/ Known(x) /\ ~(req.bench_op_type = "Cancel" /\ x = req.order_id)
                            \/ req.bench_op_type = "NewLimit" /\ x = req.order_id
           \/ Traded /\ (Known(x)' <=> Known(x))
  BY <1>a, <1>b, RequestIsTaken
<1>2. /\ pc = "idle" /\ pc' # "idle" /\ Replaying /\ events = <<>> /\ position \in Nat
      /\ UNCHANGED <<trace, position, sink, phase>>
  <2>1. pc = "idle" /\ pc' # "idle"
    BY CallsBegin DEF ProcessNext
  <2>2. position \in Nat
    BY LengthOfTrace DEF BenchInv, ReplayIsSound
  <2> QED BY <2>1, <2>2 DEF ProcessNext, AnswerInv, AnswerIsComing, generatorVars, runVars
<1>3. Taken = position /\ Taken' = k
  BY <1>2, <1>a DEF Taken
<1>4. \A x : /\ CreatedBy(x, Taken)' <=>
                  CreatedBy(x, Taken) \/ (req.bench_op_type = "NewLimit" /\ req.order_id = x)
             /\ CancelledBy(x, Taken)' <=>
                  CancelledBy(x, Taken) \/ (req.bench_op_type = "Cancel" /\ req.order_id = x)
  <2>1. \A x : /\ CreatedBy(x, k) <=>
                    CreatedBy(x, Taken) \/ (req.bench_op_type = "NewLimit" /\ req.order_id = x)
               /\ CancelledBy(x, k) <=>
                    CancelledBy(x, Taken) \/ (req.bench_op_type = "Cancel" /\ req.order_id = x)
    BY <1>2, <1>3, <1>a, <1>b, OneMoreTaken
  <2>2. \A x : (CreatedBy(x, Taken)' <=> CreatedBy(x, k))
               /\ (CancelledBy(x, Taken)' <=> CancelledBy(x, k))
    BY <1>2, <1>3 DEF CreatedBy, CancelledBy
  <2> QED BY <2>1, <2>2
<1>5. Traded => Traded'
  <2>1. HowMany(events, "Trade") = 0
    BY <1>2, NothingTold
  <2> QED BY <1>2, <2>1 DEF Traded
<1>6. /\ \A id \in OrderIds : Known(id) => CreatedBy(id, Taken)
      /\ ~Traded => \A id \in OrderIds :
                      CreatedBy(id, Taken) /\ ~CancelledBy(id, Taken) => Known(id)
      /\ sink["book"]["ladder_pool"].rejected > 0 => sink["book"]["ladder_pool"].trades > 0
  BY <1>2 DEF RefusalInv
<1>7. \A id \in OrderIds : Known(id)' => CreatedBy(id, Taken)'
  BY <1>1, <1>4, <1>6
<1>8. ~Traded' => \A id \in OrderIds :
                    CreatedBy(id, Taken)' /\ ~CancelledBy(id, Taken)' => Known(id)'
  BY <1>1, <1>4, <1>5, <1>6
<1>9. HowMany(events', "OrderRejected") > 0 => Traded'
  BY <1>1, <1>5
<1>10. sink'["book"]["ladder_pool"].rejected > 0 => sink'["book"]["ladder_pool"].trades > 0
  BY <1>2, <1>6
<1> QED BY <1>1, <1>7, <1>8, <1>9, <1>10 DEF RefusalInv

LEMMA OnlyRunsInside == LadderRuns => pc \in {"resubmit", "matching"}
  BY DEF LadderRuns, Resubmit, match_buy, match_sell, add_resting_order, NothingRests, MatchingDone

LEMMA InsideKeepsRefusals ==
  ASSUME BenchInv, BenchInv', AnswerInv, RefusalInv, InsideProcess
  PROVE  RefusalInv'
<1>a. PICK m : m = MarketTrace
  OBVIOUS
<1>1. /\ IInv /\ IInv' /\ AnswerIsComing(m) /\ CallKeepsItsOrder
      /\ UNCHANGED <<trace, position, sink, phase>>
  BY <1>a DEF BenchInv, AnswerInv, RefusalInv, InsideProcess, generatorVars, runVars
<1>2. CASE UNCHANGED vars
  <2>1. UNCHANGED <<pc, new_req, incoming, events, resting_orders>>
    BY <1>2, SameBookSameOrders DEF vars, handlerVars
  <2> QED BY <1>1, <2>1 DEF RefusalInv, CallKeepsItsOrder, Known, Rests, InCall, is_market,
        CreatedBy, CancelledBy, Taken, Traded, Replaying
<1>3. CASE LadderRuns
  <2>1. KeepsKnown
    BY <1>1, <1>3, RunsKeepKnown
  <2>2. pc # "idle" /\ pc' # "idle"
    BY <1>3, RunsStayInside
  <2>3. HowMany(events, "OrderRejected") = 0
    BY <1>1, <1>3, OnlyRunsInside DEF AnswerIsComing, SaidSoFar
  <2>4. events' \in Seq(Event) /\ HowMany(events', "OrderRejected") = 0
    BY <1>1, <2>1, <2>3 DEF KeepsKnown, IInv, TypeOK, HandlerTypeOK
  <2>5. OnlyNotFound(events')
    BY <2>4, NoneOfType DEF OnlyNotFound
  <2>6. \A x : (CreatedBy(x, Taken)' <=> CreatedBy(x, Taken))
               /\ (CancelledBy(x, Taken)' <=> CancelledBy(x, Taken))
    BY <1>1, <2>2 DEF CreatedBy, CancelledBy, Taken
  <2>7. Replaying' <=> Replaying
    BY <1>1 DEF Replaying
  <2>8. /\ ~Traded' => ~Traded
        /\ ~Traded' => HowMany(events', "Trade") = 0
    <3>1. HowMany(events', "Trade") \in Nat
      BY <2>4, HowManyType
    <3> QED BY <1>1, <2>1, <3>1 DEF KeepsKnown, Traded
  <2>9. ASSUME Replaying
        PROVE  /\ \A id \in OrderIds : Known(id)' => CreatedBy(id, Taken)'
               /\ ~Traded' => \A id \in OrderIds :
                                CreatedBy(id, Taken)' /\ ~CancelledBy(id, Taken)' => Known(id)'
    BY <2>1, <2>6, <2>8, <2>9 DEF RefusalInv, KeepsKnown
  <2>10. ASSUME Replaying
         PROVE  sink'["book"]["ladder_pool"].rejected > 0
                  => sink'["book"]["ladder_pool"].trades > 0
    BY <1>1, <2>10 DEF RefusalInv
  <2> QED BY <2>1, <2>4, <2>5, <2>7, <2>9, <2>10 DEF RefusalInv, KeepsKnown
<1> QED BY <1>2, <1>3 DEF InsideProcess, BothRun

LEMMA CountsKeepRefusals ==
  ASSUME BenchInv, BenchInv', AnswerInv, RefusalInv, CountEvents
  PROVE  RefusalInv'
<1>a. PICK count : count = sink["book"]["ladder_pool"]
  OBVIOUS
<1>b. PICK after : after = sink'["book"]["ladder_pool"]
  OBVIOUS
<1>c. PICK evs : evs = events
  OBVIOUS
<1>1. /\ pc = "returned" /\ pc' = "idle" /\ events' = <<>> /\ position' = position + 1
      /\ UNCHANGED <<trace, phase>> /\ UNCHANGED bookVars
  BY DEF CountEvents, BothCollect, Collect, generatorVars
<1>2. UNCHANGED resting_orders
  BY <1>1, SameBookSameOrders
<1>3. /\ count \in BenchmarkEventSink /\ evs \in Seq(Event)
      /\ after = on_events(count, ToldBy("book", evs))
  BY <1>a, <1>b, <1>c, CountedSink DEF answer, Layers, BookTypes
<1>4. /\ after.trades = count.trades + HowMany(evs, "Trade")
      /\ after.rejected = count.rejected + HowMany(evs, "OrderRejected")
  BY <1>3, CountedEvents
<1>5. /\ HowMany(evs, "Trade") \in Nat /\ HowMany(evs, "OrderRejected") \in Nat
      /\ count.trades \in Nat /\ count.rejected \in Nat
  BY <1>3, HowManyType DEF BenchmarkEventSink
<1>6. HowMany(events', "Trade") = 0 /\ HowMany(events', "OrderRejected") = 0
      /\ OnlyNotFound(events')
  BY <1>1, NothingTold
<1>7. Traded' <=> Traded
  BY <1>a, <1>b, <1>c, <1>4, <1>5, <1>6 DEF Traded
<1>8. \A x : /\ Known(x)' <=> Known(x)
             /\ CreatedBy(x, Taken)' <=> CreatedBy(x, Taken)
             /\ CancelledBy(x, Taken)' <=> CancelledBy(x, Taken)
  BY <1>1, <1>2 DEF Known, Rests, InCall, CreatedBy, CancelledBy, Taken
<1>9. Replaying' <=> Replaying
  BY <1>1 DEF Replaying
<1>10. ASSUME Replaying PROVE after.rejected > 0 => after.trades > 0
  <2>1. /\ HowMany(evs, "OrderRejected") > 0 => count.trades > 0 \/ HowMany(evs, "Trade") > 0
        /\ count.rejected > 0 => count.trades > 0
    BY <1>10, <1>a, <1>c DEF RefusalInv, Traded
  <2> QED BY <1>4, <1>5, <2>1
<1>11. CallKeepsItsOrder'
  BY <1>1 DEF CallKeepsItsOrder
<1> QED BY <1>6, <1>7, <1>8, <1>9, <1>10, <1>11, <1>b DEF RefusalInv

LEMMA StartsKeepRefusals ==
  ASSUME BenchInv, RefusalInv, StartWarmup \/ StartMeasured
  PROVE  RefusalInv'
<1>1. reset /\ position' = 0 /\ sink' = ZeroSinks
  BY DEF StartWarmup, StartMeasured
<1>2. pc' = "idle" /\ events' = <<>> /\ lookup' = [id \in OrderIds |-> invalid_node]
  BY <1>1 DEF reset, ResetHandlers
<1>3. \A x \in OrderIds : ~Known(x)'
  <2>1. \A x \in OrderIds : resting_orders'[x] = NoOrder
    BY <1>2 DEF resting_orders, contains_order
  <2> QED BY <1>2, <2>1 DEF Known, Rests, InCall
<1>4. \A x \in OrderIds : ~CreatedBy(x, Taken)'
  BY <1>1, <1>2 DEF CreatedBy, Taken
<1>5. HowMany(events', "OrderRejected") = 0 /\ OnlyNotFound(events')
  BY <1>2, NothingTold
<1>6. sink'["book"]["ladder_pool"].rejected = 0
  BY <1>1, ZeroSinkType DEF ZeroSink, Layers, BookTypes
<1> QED BY <1>2, <1>3, <1>4, <1>5, <1>6 DEF RefusalInv, CallKeepsItsOrder

LEMMA NothingRefuses ==
  ASSUME BenchInv, RefusalInv, GenerateTrace \/ RefuseEmptyTrace \/ Finish \/ UNCHANGED benchVars
  PROVE  RefusalInv'
<1>1. CASE GenerateTrace \/ RefuseEmptyTrace \/ Finish
  <2>1. /\ BetweenCalls /\ UNCHANGED bothVars /\ ~Replaying'
    BY <1>1 DEF GenerateTrace, RefuseEmptyTrace, Finish, Generated, BenchInv, ReplayIsSound,
       Replaying, runVars
  <2> QED BY <2>1 DEF RefusalInv, CallKeepsItsOrder, BetweenCalls, bothVars, vars, handlerVars
<1>2. CASE UNCHANGED benchVars
  <2>1. UNCHANGED <<pc, new_req, incoming, events, resting_orders, trace, position, sink, phase>>
    BY <1>2, SameBookSameOrders
    DEF benchVars, bothVars, vars, handlerVars, generatorVars, runVars
  <2> QED BY <2>1 DEF RefusalInv, CallKeepsItsOrder, Known, Rests, InCall, is_market,
        CreatedBy, CancelledBy, Taken, Traded, Replaying
<1> QED BY <1>1, <1>2

LEMMA RefusalStep ==
  GP!PricesFit /\ BenchInv /\ BenchInv' /\ AnswerInv /\ RefusalInv /\ [BenchNext]_benchVars
    => RefusalInv'
  BY ProcessKeepsRefusals, InsideKeepsRefusals, CountsKeepRefusals, StartsKeepRefusals,
     NothingRefuses DEF BenchNext

LEMMA RefusalStart == BenchInit => RefusalInv
  BY DEF BenchInit, BothInit, Init, HandlerInit, RefusalInv, CallKeepsItsOrder, Replaying

LEMMA RefusalsAreSound == ASSUME GP!PricesFit PROVE BenchSpec => []RefusalInv
<1>1. BenchInv /\ BenchInv' /\ AnswerInv /\ RefusalInv /\ [BenchNext]_benchVars => RefusalInv'
  BY RefusalStep
<1> QED BY <1>1, RefusalStart, BenchmarkIsSound, AnswersAreSound, PTL DEF BenchSpec

\* A request of any workload is refused only when it names an order that has been
\* filled: by either book, with OrderIdNotFound, and never before the first trade.
THEOREM RefusalsAreOfFilledOrders ==
  ASSUME GP!PricesFit PROVE BenchSpec => []OnlyFilledOrdersAreRefused
<1>1. RefusalInv /\ Coupled /\ SinksAgree => OnlyFilledOrdersAreRefused
  BY DEF RefusalInv, OnlyNotFound, OnlyFilledOrdersAreRefused, answer, Coupled, HandlersAgree,
     SinksAgree, BookTypes, Layers
<1> QED BY <1>1, RefusalsAreSound, TargetsStayInStep, PTL

-----------------------------------------------------------------------------
(***************************************************************************)
(* The workloads that only add and cancel.                                 *)
(***************************************************************************)
OfItsSide(o) ==
  \/ o.side = "Buy" /\ o.price < MidPrice
  \/ o.side = "Sell" /\ o.price > MidPrice

\* All orders stay on their side of the middle, so that none trades.
PassiveInv ==
  name \in GP!PassiveWorkloads =>
    /\ Replaying =>
         /\ \A id \in OrderIds : Rests(id) => OfItsSide(resting_orders[id])
         /\ pc # "resubmit"
         /\ pc = "matching" => ~is_market /\ OfItsSide(incoming)
         /\ HowMany(events, "Trade") = 0
    /\ \A layer \in Layers :
         LET count == sink[layer]["ladder_pool"]
         IN  count.trades = 0 /\ count.rejected = 0 /\ count.rested = count.accepted

LEMMA PassiveRequests ==
  ASSUME GP!SoundConfig, TraceIsSound, name \in GP!PassiveWorkloads,
         NEW k \in DOMAIN trace, NEW req, req = trace[k]
  PROVE  /\ req.bench_op_type \in {"NewLimit", "Cancel"}
         /\ req.bench_op_type = "NewLimit" => OfItsSide(as_new(req))
  BY RequestOfTrace
  DEF GP!IsSubmittable, GP!BookSides, TraceIsSound, GP!GeneratorInv, GP!PricesAreOfTheirSide,
      OfItsSide, as_new

LEMMA ProcessStaysPassive ==
  ASSUME GP!SoundConfig, BenchInv, AnswerInv, PassiveInv, ProcessNext
  PROVE  PassiveInv'
<1>a. PICK k : k = position + 1
  OBVIOUS
<1>b. PICK req : req = trace[k]
  OBVIOUS
<1>1. /\ IInv /\ TraceIsSound /\ pc = "idle" /\ process(req) /\ Replaying /\ events = <<>>
      /\ UNCHANGED <<name, phase, sink>> /\ k \in DOMAIN trace
  <2>1. k \in DOMAIN trace
    BY <1>a, LengthOfTrace DEF BenchInv, ReplayIsSound, ProcessNext
  <2> QED BY <2>1, <1>a, <1>b
      DEF ProcessNext, BetweenCalls, BenchInv, AnswerInv, AnswerIsComing, generatorVars, runVars
<1>2. /\ req.order_id \in OrderIds
      /\ as_new(req) \in NewOrderRequest /\ as_cancel(req) \in CancelOrderRequest
      /\ as_new(req).order_id = req.order_id /\ as_cancel(req).order_id = req.order_id
  BY <1>1, <1>b, RequestOfTrace DEF as_new, as_cancel
<1>3. ASSUME name \in GP!PassiveWorkloads
      PROVE  /\ \A id \in OrderIds : Rests(id)' => OfItsSide(resting_orders'[id])
             /\ pc' # "resubmit"
             /\ pc' = "matching" => ~is_market' /\ OfItsSide(incoming')
             /\ HowMany(events', "Trade") = 0
  <2>1. /\ req.bench_op_type \in {"NewLimit", "Cancel"}
        /\ req.bench_op_type = "NewLimit" => OfItsSide(as_new(req))
    BY <1>1, <1>3, <1>b, PassiveRequests
  <2>2. \A id \in OrderIds : Rests(id) => OfItsSide(resting_orders[id])
    BY <1>1, <1>3 DEF PassiveInv
  <2>3. CASE req.bench_op_type = "NewLimit" /\ SubmitNew(as_new(req))
    <3>a. PICK new : new = as_new(req)
      OBVIOUS
    <3>b. PICK why : why = new_order_reason(new)
      OBVIOUS
    <3>c. PICK e : e = IF why = "None" THEN OrderAccepted(new) ELSE NewRejected(new, why)
      OBVIOUS
    <3>1. handle_new_order(new, why, <<>>) /\ UNCHANGED bookVars
      BY <2>3, <3>a, <3>b DEF SubmitNew
    <3>2. UNCHANGED resting_orders
      BY <3>1, SameBookSameOrders
    <3>3. ~modifying
      BY <1>1 DEF AnswerInv, AnswerIsComing
    <3>4. /\ events' = <<e>> /\ pc' \in {"matching", "returned"}
          /\ pc' = "matching" => /\ new_req' = new /\ incoming'.side = new.side
                                 /\ incoming'.price = new.price
      BY <3>1, <3>3, <3>c DEF handle_new_order, Return
    <3>5. e \in Event /\ e.event_type # "Trade"
      <4>1. new \in NewOrderRequest /\ why \in Reasons
        BY <1>2, <3>a, <3>b, LadderReasons
      <4> QED BY <4>1, <3>c, RequestEventTypes, RejectionTypes, TypesOfEvents
    <3>6. HowMany(events', "Trade") = 0
      BY <3>4, <3>5, HowManyOfOne
    <3>7. new.order_type = "Limit" /\ OfItsSide(new)
      BY <2>1, <2>3, <3>a DEF as_new
    <3> QED BY <2>2, <3>2, <3>4, <3>6, <3>7 DEF Rests, OfItsSide, is_market
  <2>4. CASE req.bench_op_type = "Cancel" /\ SubmitCancel(as_cancel(req))
    <3>a. PICK e : e = cancel_event(as_cancel(req))
      OBVIOUS
    <3>1. events' = <<e>> /\ pc' = "returned"
      BY <2>4, <3>a DEF SubmitCancel, Answer
    <3>2. e \in Event /\ e.event_type # "Trade"
      <4>1. UNCHANGED next_sequence_number /\ CancelStorage(as_cancel(req))
        BY <2>4 DEF SubmitCancel, Answer
      <4>2. e \in Event
        BY <1>1, <1>2, <3>a, <4>1, CancelStorageStep
      <4> QED BY <3>a, <4>2, TypesOfEvents DEF cancel_event
    <3>3. HowMany(events', "Trade") = 0
      BY <3>1, <3>2, HowManyOfOne
    <3>4. PriceTime!SubmitCancel(as_cancel(req)) /\ PriceTime!NoOrder = NoOrder
      BY <1>1, <1>2, <2>4, SubmitCancelImplements, RestingUnderItsId
    <3>5. \A id \in OrderIds : resting_orders'[id] \in {resting_orders[id], NoOrder}
      BY <3>4 DEF PriceTime!SubmitCancel, PriceTime!Forget, resting_orders
    <3> QED BY <2>2, <3>1, <3>3, <3>5 DEF Rests
  <2> QED BY <1>1, <2>1, <2>3, <2>4 DEF process
<1> QED BY <1>1, <1>3 DEF PassiveInv, Rests

\* Orders of opposite sides of the middle do not cross.
LEMMA NothingMatches ==
  ASSUME IInv, \A id \in OrderIds : Rests(id) => OfItsSide(resting_orders[id]),
         pc = "matching" => ~is_market /\ OfItsSide(incoming)
  PROVE  ~ \E id : PriceTime!Match(id)
<1> SUFFICES ASSUME NEW id, PriceTime!Match(id) PROVE FALSE
  OBVIOUS
<1>a. PICK o : o = resting_orders[id]
  OBVIOUS
<1>1. /\ pc = "matching" /\ id \in OrderIds /\ o # NoOrder /\ Crosses(o.price)
      /\ o.side = PriceTime!Opposite(incoming.side)
  BY <1>a, SameMatching, RestingUnderItsId
  DEF PriceTime!Match, PriceTime!IsFront, PriceTime!RestingOn, PriceTime!contains_order
<1>2. o \in Order /\ OfItsSide(o) /\ OfItsSide(incoming) /\ ~is_market /\ incoming \in Order
  BY <1>1, <1>a, RestingUnderItsId DEF Rests, IInv, TypeOK, HandlerTypeOK
<1>3. o.price \in Nat /\ incoming.price \in Nat /\ MidPrice \in Nat
  BY <1>2, GeneratorAssumption DEF Order
<1>4. /\ incoming.side = "Buy" => o.side = "Sell"
      /\ incoming.side = "Sell" => o.side = "Buy"
  BY <1>1, <1>2 DEF PriceTime!Opposite, OfItsSide
<1> QED BY <1>1, <1>2, <1>3, <1>4 DEF Crosses, OfItsSide

LEMMA InsideStaysPassive ==
  ASSUME BenchInv, AnswerInv, RefusalInv, PassiveInv, InsideProcess
  PROVE  PassiveInv'
<1>a. PICK m : m = MarketTrace
  OBVIOUS
<1>1. /\ IInv /\ AnswerIsComing(m) /\ CallKeepsItsOrder /\ UNCHANGED <<name, phase, sink>>
  BY <1>a DEF BenchInv, AnswerInv, RefusalInv, InsideProcess, generatorVars, runVars
<1>2. CASE UNCHANGED vars
  <2>1. UNCHANGED <<pc, new_req, incoming, events, resting_orders>>
    BY <1>2, SameBookSameOrders DEF vars, handlerVars
  <2> QED BY <1>1, <2>1 DEF PassiveInv, Rests, is_market, OfItsSide, Replaying
<1>3. CASE LadderRuns
  <2>1. ASSUME name \in GP!PassiveWorkloads, Replaying
        PROVE  /\ \A id \in OrderIds : Rests(id)' => OfItsSide(resting_orders'[id])
               /\ pc' = "returned" /\ HowMany(events', "Trade") = 0
    <3>1. /\ \A id \in OrderIds : Rests(id) => OfItsSide(resting_orders[id])
          /\ pc # "resubmit" /\ HowMany(events, "Trade") = 0
          /\ pc = "matching" => ~is_market /\ OfItsSide(incoming)
      BY <2>1 DEF PassiveInv
    <3>2. ~ \E id : PriceTime!Match(id)
      BY <1>1, <3>1, NothingMatches
    <3>3. HowMany(events', "Trade") = 0
      BY <1>1, <1>3, <3>1, <3>2, RunsKeepKnown DEF KeepsKnown
    <3>4. PriceTime!Rest \/ PriceTime!NothingRests
      BY <1>1, <1>3, <3>1, <3>2, LadderRunsAreSteps DEF PriceTime!Resubmit
    <3>5. CASE PriceTime!Rest
      <4>a. PICK o : o = [incoming EXCEPT !.order_status = "Resting"]
        OBVIOUS
      <4>1. /\ pc' = "returned" /\ pc = "matching"
            /\ resting_orders' = [resting_orders EXCEPT ![incoming.order_id] = o]
        BY <3>5, <4>a DEF PriceTime!Rest, PriceTime!MatchingDone, PriceTime!Return
      <4>2. OfItsSide(o)
        BY <1>1, <3>1, <4>1, <4>a DEF OfItsSide, IInv, TypeOK, HandlerTypeOK, Order
      <4>3. \A id \in OrderIds : resting_orders'[id] \in {resting_orders[id], o}
        BY <4>1 DEF resting_orders
      <4> QED BY <3>1, <3>3, <4>1, <4>2, <4>3 DEF Rests
    <3>6. CASE PriceTime!NothingRests
      <4>1. pc' = "returned" /\ UNCHANGED resting_orders
        BY <3>6 DEF PriceTime!NothingRests, PriceTime!FinishWithoutResting, PriceTime!Return
      <4> QED BY <3>1, <3>3, <4>1 DEF Rests
    <3> QED BY <3>4, <3>5, <3>6
  <2> QED BY <1>1, <2>1 DEF PassiveInv, Rests, Replaying
<1> QED BY <1>2, <1>3 DEF InsideProcess, BothRun

LEMMA CountsStayPassive ==
  ASSUME BenchInv, AnswerInv, RefusalInv, PassiveInv, CountEvents
  PROVE  PassiveInv'
<1>1. /\ pc = "returned" /\ pc' = "idle" /\ events' = <<>>
      /\ UNCHANGED <<name, phase>> /\ UNCHANGED bookVars
  BY DEF CountEvents, BothCollect, Collect, generatorVars
<1>2. Replaying /\ TraceIsSound
  BY <1>1 DEF BenchInv, ReplayIsSound, BetweenCalls
<1>3. ASSUME name \in GP!PassiveWorkloads, NEW layer \in Layers
      PROVE  LET count == sink'[layer]["ladder_pool"]
             IN  count.trades = 0 /\ count.rejected = 0 /\ count.rested = count.accepted
  <2>a. PICK count : count = sink[layer]["ladder_pool"]
    OBVIOUS
  <2>b. PICK after : after = sink'[layer]["ladder_pool"]
    OBVIOUS
  <2>c. PICK evs : evs = events
    OBVIOUS
  <2>1. /\ count \in BenchmarkEventSink /\ evs \in Seq(Event)
        /\ after = on_events(count, ToldBy(layer, evs))
    BY <2>a, <2>b, <2>c, CountedSink DEF answer, BookTypes
  <2>2. /\ after.trades = count.trades + HowMany(evs, "Trade")
        /\ after.rejected = count.rejected + HowMany(evs, "OrderRejected")
        /\ after.accepted = count.accepted + HowMany(evs, "OrderAccepted")
        /\ after.rested = count.rested + HowMany(evs, "OrderRested")
    BY <2>1, CountedEvents
  <2>3. count.trades = 0 /\ count.rejected = 0 /\ count.rested = count.accepted
        /\ HowMany(evs, "Trade") = 0 /\ sink["book"]["ladder_pool"].trades = 0
    BY <1>2, <1>3, <2>a, <2>c DEF PassiveInv, Layers
  <2>4. HowMany(evs, "OrderRejected") = 0
    <3>1. HowMany(evs, "OrderRejected") \in Nat
      BY <2>1, HowManyType
    <3>2. ~Traded
      BY <2>3, <2>c DEF Traded
    <3> QED BY <1>2, <3>1, <3>2, <2>c DEF RefusalInv
  <2>5. HowMany(evs, "OrderRested") = HowMany(evs, "OrderAccepted")
    <3>1. ~MarketTrace
      <4>1. \A k \in DOMAIN trace : trace[k].bench_op_type # "NewMarket"
        BY <1>2, <1>3, RequestOfTrace DEF GP!IsSubmittable
      <4> QED BY <4>1 DEF MarketTrace
    <3>2. AnswersOnce(events) /\ (MarketTrace \/ ~AcceptsMarket(events))
      BY <1>1 DEF AnswerInv, AnswerIsComing, AnsweredOnce
    <3> QED BY <2>3, <2>c, <3>1, <3>2 DEF AnswersOnce
  <2>6. after.trades = 0 /\ after.rejected = 0 /\ after.rested = after.accepted
    BY <2>2, <2>3, <2>4, <2>5
  <2> QED BY <2>6, <2>b
<1>4. UNCHANGED resting_orders /\ HowMany(events', "Trade") = 0
  BY <1>1, SameBookSameOrders, NothingTold
<1> QED BY <1>1, <1>2, <1>3, <1>4 DEF PassiveInv, Rests, OfItsSide, Replaying

LEMMA StartsStayPassive ==
  ASSUME BenchInv, PassiveInv, StartWarmup \/ StartMeasured
  PROVE  PassiveInv'
<1>1. reset /\ sink' = ZeroSinks
  BY DEF StartWarmup, StartMeasured
<1>2. pc' = "idle" /\ events' = <<>> /\ lookup' = [id \in OrderIds |-> invalid_node]
  BY <1>1 DEF reset, ResetHandlers
<1>3. \A id \in OrderIds : ~Rests(id)'
  BY <1>2 DEF resting_orders, contains_order, Rests
<1>4. \A layer \in Layers : sink'[layer]["ladder_pool"] = ZeroSink
  BY <1>1, ZeroSinkType DEF BookTypes
<1>5. HowMany(events', "Trade") = 0
  BY <1>2, NothingTold
<1> QED BY <1>2, <1>3, <1>4, <1>5 DEF PassiveInv, ZeroSink

LEMMA NothingIsAggressive ==
  ASSUME BenchInv, PassiveInv, GenerateTrace \/ RefuseEmptyTrace \/ Finish \/ UNCHANGED benchVars
  PROVE  PassiveInv'
<1>1. CASE GenerateTrace \/ RefuseEmptyTrace \/ Finish
  <2>1. UNCHANGED <<name, sink>> /\ ~Replaying'
    BY <1>1, TraceGrows DEF GenerateTrace, RefuseEmptyTrace, Finish, BenchInv, Replaying,
       runVars, generatorVars
  <2> QED BY <2>1 DEF PassiveInv
<1>2. CASE UNCHANGED benchVars
  <2>1. UNCHANGED <<name, pc, new_req, incoming, events, resting_orders, sink, phase>>
    BY <1>2, SameBookSameOrders
    DEF benchVars, bothVars, vars, handlerVars, generatorVars, runVars
  <2> QED BY <2>1 DEF PassiveInv, Rests, is_market, OfItsSide, Replaying
<1> QED BY <1>1, <1>2

LEMMA PassiveStep ==
  GP!SoundConfig /\ BenchInv /\ AnswerInv /\ RefusalInv /\ PassiveInv /\ [BenchNext]_benchVars
    => PassiveInv'
  BY ProcessStaysPassive, InsideStaysPassive, CountsStayPassive, StartsStayPassive,
     NothingIsAggressive DEF BenchNext

LEMMA PassiveStart == BenchInit => PassiveInv
  BY ZeroSinkType DEF BenchInit, PassiveInv, Replaying, ZeroSink, BookTypes

\* The workloads that only add and cancel do just that: no order trades, none is
\* refused, all that are accepted rest, in any of the targets.
THEOREM PassiveOrdersRest ==
  ASSUME GP!PricesFit, GP!SoundConfig PROVE BenchSpec => []PassiveWorkloadsOnlyRest
<1>1. BenchInv /\ AnswerInv /\ RefusalInv /\ PassiveInv /\ [BenchNext]_benchVars => PassiveInv'
  BY PassiveStep
<1>2. PassiveInv /\ SinksAgree => PassiveWorkloadsOnlyRest
  BY OneGenerator DEF PassiveInv, SinksAgree, PassiveWorkloadsOnlyRest, BookTypes
<1> QED BY <1>1, <1>2, PassiveStart, RefusalsAreSound, TargetsStayInStep, BenchmarkIsSound,
        AnswersAreSound, PTL DEF BenchSpec

-----------------------------------------------------------------------------
(***************************************************************************)
(* same_price_fifo: with h orders that sell and t requests replayed, these *)
(* orders still wait, and so many have been filled.                        *)
(***************************************************************************)
Waits(id, t, h) == id \in 1 .. h /\ t - h < id /\ id <= t

FilledBy(t, h) == IF t <= h THEN 0 ELSE IF t - h <= h THEN t - h ELSE h

HasTraded == HowMany(events, "Trade") > 0

\* The requests whose effect the book shows.
Shown ==
  IF pc = "returned" \/ (pc = "matching" /\ HasTraded) THEN position + 1 ELSE position

FifoTrades(evs) ==
  \A i \in DOMAIN evs :
    evs[i].event_type = "Trade" => evs[i].resting_order_id = evs[i].aggressive_order_id - GP!half

FifoBook(t) ==
  /\ \A id \in OrderIds : Rests(id) <=> Waits(id, t, GP!half)
  /\ \A id \in OrderIds : Rests(id) => /\ resting_orders[id].side = "Sell"
                                       /\ resting_orders[id].price = GP!mid_plus(1)
                                       /\ resting_orders[id].remaining_quantity = 1
  /\ \A i, j \in OrderIds : Rests(i) /\ Rests(j) /\ i < j =>
       resting_orders[i].sequence_number < resting_orders[j].sequence_number

FifoCall ==
  /\ pc # "resubmit"
  /\ pc = "matching" =>
       /\ is_market <=> position >= GP!half
       /\ incoming.order_id = position + 1
       /\ incoming.side = IF position >= GP!half THEN "Buy" ELSE "Sell"
       /\ ~is_market => incoming.price = GP!mid_plus(1)
       /\ incoming.remaining_quantity = IF HasTraded THEN 0 ELSE 1

FifoInv ==
  name = "same_price_fifo" =>
    /\ phase # "generating" => Len(trace) = num_ops
    /\ phase = "done" => \A layer \in Layers : sink[layer]["ladder_pool"].trades = GP!half
    /\ Replaying =>
         /\ FifoBook(Shown) /\ FifoCall /\ FifoTrades(events)
         /\ HowMany(events, "Trade") = FilledBy(Shown, GP!half) - FilledBy(position, GP!half)
         /\ \A layer \in Layers :
              sink[layer]["ladder_pool"].trades = FilledBy(position, GP!half)

LEMMA HalfOfOps ==
  ASSUME TraceIsSound
  PROVE  /\ GP!half \in Nat /\ num_ops \in Nat /\ FilledBy(num_ops, GP!half) = GP!half
         /\ 1 .. GP!half \subseteq OrderIds
<1>a. PICK h : h = num_ops \div 2
  OBVIOUS
<1>1. num_ops \in NumOps /\ num_ops \in Nat
  BY GeneratorAssumption DEF TraceIsSound, GP!GeneratorInv, GP!GeneratorTypeOK
<1>2. h \in Nat /\ 2 * h <= num_ops /\ num_ops <= 2 * h + 1
  BY <1>1, <1>a
<1>3. FilledBy(num_ops, h) = h
  BY <1>1, <1>2 DEF FilledBy
<1>4. 1 .. h \subseteq OrderIds
  <2>1. 1 .. h \subseteq 1 .. num_ops
    BY <1>1, <1>2
  <2> QED BY <1>1, <2>1, BenchmarkAssumption
<1> QED BY <1>1, <1>2, <1>3, <1>4, <1>a DEF GP!half

\* How the waiting orders change with a request.
LEMMA OneMoreWaits ==
  ASSUME NEW h \in Nat, NEW t \in Nat, t < h
  PROVE  /\ \A id \in Nat : Waits(id, t + 1, h) <=> Waits(id, t, h) \/ id = t + 1
         /\ \A id \in Nat : Waits(id, t, h) => id < t + 1
         /\ FilledBy(t + 1, h) = FilledBy(t, h)
  BY DEF Waits, FilledBy

LEMMA OneLessWaits ==
  ASSUME NEW h \in Nat, NEW t \in Nat, t >= h, t - h < h
  PROVE  /\ \A id \in Nat : Waits(id, t + 1, h) <=> Waits(id, t, h) /\ id # (t + 1) - h
         /\ Waits((t + 1) - h, t, h) /\ (t + 1) - h \in Nat
         /\ \A id \in Nat : Waits(id, t, h) => id >= (t + 1) - h
         /\ FilledBy(t + 1, h) = FilledBy(t, h) + 1
  BY DEF Waits, FilledBy

LEMMA NoneWaits ==
  ASSUME NEW h \in Nat, NEW t \in Nat, t - h >= h
  PROVE  /\ \A id \in Nat : ~Waits(id, t, h) /\ ~Waits(id, t + 1, h)
         /\ FilledBy(t + 1, h) = FilledBy(t, h)
  BY DEF Waits, FilledBy

LEMMA FirstWaits ==
  ASSUME NEW h \in Nat, NEW t \in Nat, t >= h, NEW id \in Nat, Waits(id, t, h)
  PROVE  t - h < h
  BY DEF Waits

LEMMA NothingWaits == ASSUME NEW h \in Nat PROVE FilledBy(0, h) = 0 /\ \A id : ~Waits(id, 0, h)
  BY DEF FilledBy, Waits

LEMMA FilledIsNatural ==
  ASSUME NEW h \in Nat, NEW t \in Nat PROVE FilledBy(t, h) \in Nat
  BY DEF FilledBy

\* The events of a return make no trade.
LEMMA ReturnedTrades ==
  ASSUME HandlerTypeOK, NEW evs \in Seq(Event), Return(new_req, evs), FifoTrades(evs),
         UNCHANGED num_ops
  PROVE  FifoTrades(events') /\ FifoTrades(events)' /\ HowMany(events', "Trade") = HowMany(evs, "Trade")
<1>a. PICK e : e = OrderModified(new_req)
  OBVIOUS
<1>1. e \in Event /\ e.event_type = "OrderModified"
  BY <1>a, RequestEventTypes, TypesOfEvents DEF HandlerTypeOK
<1>2. events' = Append(evs, e) \/ events' = evs
  BY <1>a DEF Return
<1>3. \A i \in DOMAIN Append(evs, e) :
         \/ i \in DOMAIN evs /\ Append(evs, e)[i] = evs[i]
         \/ Append(evs, e)[i] = e
  BY <1>1, AppendProperties, LenProperties
<1>4. FifoTrades(Append(evs, e))
  BY <1>1, <1>3 DEF FifoTrades
<1>5. FifoTrades(events') /\ FifoTrades(events)'
  BY <1>2, <1>4 DEF FifoTrades, GP!half
<1>6. HowMany(events', "Trade") = HowMany(evs, "Trade")
  BY <1>1, ReturnedEvents
<1> QED BY <1>5, <1>6

LEMMA AppendedTrades ==
  ASSUME NEW evs \in Seq(Event), FifoTrades(evs), NEW e \in Event,
         e.event_type = "Trade" => e.resting_order_id = e.aggressive_order_id - GP!half
  PROVE  FifoTrades(Append(evs, e))
<1>1. \A i \in DOMAIN Append(evs, e) :
         \/ i \in DOMAIN evs /\ Append(evs, e)[i] = evs[i]
         \/ Append(evs, e)[i] = e
  BY AppendProperties, LenProperties
<1> QED BY <1>1 DEF FifoTrades

-----------------------------------------------------------------------------
(***************************************************************************)
(* FifoInv is inductive with BenchInv and AnswerInv.                       *)
(***************************************************************************)
LEMMA SameFifoBook ==
  ASSUME UNCHANGED resting_orders, UNCHANGED num_ops, NEW t, FifoBook(t), Shown' = t
  PROVE  FifoBook(Shown)'
  BY DEF FifoBook, Rests, GP!half, GP!mid_plus

LEMMA FifoRequests ==
  ASSUME TraceIsSound, name = "same_price_fifo", NEW t \in Nat, NEW k \in DOMAIN trace, k = t + 1,
         NEW req, req = trace[k]
  PROVE  /\ req.order_id = k
         /\ t < GP!half => /\ req.bench_op_type = "NewLimit" /\ as_new(req).order_type = "Limit"
                           /\ req.side = "Sell" /\ req.price = GP!mid_plus(1)
         /\ t >= GP!half => /\ req.bench_op_type = "NewMarket" /\ req.side = "Buy"
                            /\ as_new(req).order_type = "Market"
         /\ req.quantity = 1
<1>1. req = GP!FifoRequest(k) /\ GP!half \in Nat
  BY HalfOfOps DEF TraceIsSound, GP!FifoTrace
<1>2. CASE k <= GP!half
  <2>1. t < GP!half /\ ~(t >= GP!half)
    BY <1>1, <1>2
  <2> QED BY <1>1, <1>2, <2>1 DEF GP!FifoRequest, GP!make_new_limit, as_new
<1>3. CASE ~(k <= GP!half)
  <2>1. t >= GP!half /\ ~(t < GP!half)
    BY <1>1, <1>3
  <2> QED BY <1>1, <1>3, <2>1 DEF GP!FifoRequest, GP!make_new_market, as_new
<1> QED BY <1>2, <1>3

LEMMA ProcessIsFifo ==
  ASSUME GP!PricesFit, BenchInv, AnswerInv, FifoInv, ProcessNext
  PROVE  FifoInv'
<1>a. PICK t : t = position
  OBVIOUS
<1>b. PICK k : k = t + 1
  OBVIOUS
<1>c. PICK req : req = trace[k]
  OBVIOUS
<1>d. PICK h : h = GP!half
  OBVIOUS
<1>e. PICK new : new = as_new(req)
  OBVIOUS
<1>1. /\ IInv /\ TraceIsSound /\ pc = "idle" /\ process(req) /\ Replaying /\ events = <<>>
      /\ UNCHANGED <<name, num_ops, trace, position, phase, sink>> /\ k \in DOMAIN trace
      /\ t \in Nat
  <2>1. k \in DOMAIN trace /\ t \in Nat
    BY <1>a, <1>b, LengthOfTrace DEF BenchInv, ReplayIsSound, ProcessNext
  <2> QED BY <2>1, <1>a, <1>b, <1>c
      DEF ProcessNext, BetweenCalls, BenchInv, AnswerInv, AnswerIsComing, generatorVars, runVars
<1>2. /\ req.order_id \in OrderIds /\ new \in NewOrderRequest /\ new.order_id = req.order_id
      /\ new.side = req.side /\ new.price = req.price /\ new.quantity = req.quantity
      /\ GP!IsSubmittable(req)
  BY <1>1, <1>c, <1>e, RequestOfTrace DEF as_new
<1>3. ASSUME name = "same_price_fifo"
      PROVE  /\ FifoBook(Shown)' /\ FifoCall' /\ FifoTrades(events)'
             /\ HowMany(events', "Trade") = FilledBy(Shown, GP!half)' - FilledBy(position, GP!half)'
  <2>1. /\ req.order_id = k
        /\ t < h => /\ req.bench_op_type = "NewLimit" /\ new.order_type = "Limit"
                    /\ req.side = "Sell" /\ req.price = GP!mid_plus(1)
        /\ t >= h => /\ req.bench_op_type = "NewMarket" /\ req.side = "Buy"
                     /\ new.order_type = "Market"
        /\ req.quantity = 1
    BY <1>1, <1>3, <1>b, <1>c, <1>d, <1>e, FifoRequests
  <2>2. h \in Nat /\ FilledBy(t, h) \in Nat /\ (t < h \/ t >= h)
    <3>1. h \in Nat
      BY <1>1, <1>d, HalfOfOps
    <3> QED BY <1>1, <3>1, FilledIsNatural
  <2>3. FifoBook(t)
    BY <1>1, <1>3, <1>a DEF FifoInv, Shown
  <2>4. ~Rests(k)
    BY <1>1, <1>2, <1>b, <1>d, <2>1, <2>2, <2>3 DEF FifoBook, Waits
  <2>5. SubmitNew(new)
    BY <1>1, <1>e, <2>1, <2>2 DEF process
  <2>6. new_order_reason(new) = "None"
    <3>1. req.price # 0 \/ new.order_type # "Limit"
      BY <1>1, <1>c, <2>1, <2>2, TraceFits
    <3>2. new.symbol_id = 1 /\ req.order_id # 0
      BY <1>2, <1>e DEF GP!IsSubmittable, as_new
    <3>3. is_valid_new_order_request(new) = "None"
      BY <1>2, <2>1, <2>2, <3>1, <3>2 DEF is_valid_new_order_request
    <3>4. NewFits(new)
      BY <1>1, <1>c, <1>e, <2>1, <2>2, TraceFits
    <3>5. ~contains_order(k)
      BY <1>1, <1>2, <2>1, <2>4, RestingOrder DEF Rests
    <3> QED BY <1>2, <2>1, <3>3, <3>4, <3>5 DEF new_order_reason, NewFits
  <2>a. PICK e : e = OrderAccepted(new)
    OBVIOUS
  <2>7. /\ pc' = "matching" /\ new_req' = new /\ UNCHANGED bookVars /\ events' = <<e>>
        /\ incoming'.order_id = k /\ incoming'.side = new.side /\ incoming'.price = new.price
        /\ incoming'.remaining_quantity = 1
    BY <1>2, <2>1, <2>5, <2>6, <2>a DEF SubmitNew, handle_new_order
  <2>8. e \in Event /\ e.event_type = "OrderAccepted"
    BY <1>2, <2>a, RequestEventTypes, TypesOfEvents
  <2>9. HowMany(events', "Trade") = 0
    BY <2>7, <2>8, HowManyOfOne
  <2>10. Shown' = t
    BY <1>1, <1>a, <2>7, <2>9 DEF Shown, HasTraded
  <2>11. UNCHANGED resting_orders
    BY <2>7, SameBookSameOrders
  <2>12. FifoBook(Shown)'
    BY <1>1, <2>3, <2>10, <2>11, SameFifoBook
  <2>13. /\ GP!half' = h /\ GP!mid_plus(1)' = GP!mid_plus(1) /\ position' = t
         /\ ~HasTraded' /\ (is_market' <=> new.order_type = "Market")
    BY <1>1, <1>a, <1>d, <2>7, <2>9 DEF GP!half, GP!mid_plus, HasTraded, is_market
  <2>14. FifoCall'
    BY <1>2, <1>b, <2>1, <2>2, <2>7, <2>13 DEF FifoCall
  <2>15. FifoTrades(events)'
    BY <2>7, <2>8 DEF FifoTrades
  <2>16. HowMany(events', "Trade") = FilledBy(Shown, GP!half)' - FilledBy(position, GP!half)'
    <3>1. FilledBy(Shown, GP!half)' = FilledBy(t, h) /\ FilledBy(position, GP!half)' = FilledBy(t, h)
      BY <2>10, <2>13 DEF FilledBy
    <3> QED BY <2>2, <2>9, <3>1
  <2> QED BY <2>12, <2>14, <2>15, <2>16
<1>4. name = "same_price_fifo" => \A layer \in Layers :
        sink[layer]["ladder_pool"].trades = FilledBy(position, GP!half)
  BY <1>1 DEF FifoInv
<1>5. FilledBy(position, GP!half)' = FilledBy(position, GP!half)
  BY <1>1 DEF FilledBy, GP!half
<1>6. name = "same_price_fifo" => Len(trace) = num_ops
  BY <1>1 DEF FifoInv, Replaying
<1>7. Replaying' /\ phase' # "done" /\ phase' # "generating"
  BY <1>1 DEF Replaying
<1>8. Len(trace)' = Len(trace)
  BY <1>1
<1> QED BY <1>1, <1>3, <1>4, <1>5, <1>6, <1>7, <1>8 DEF FifoInv

LEMMA MatchIsFifo ==
  ASSUME IInv, TraceIsSound, NEW t \in Nat, t = position, NEW h, h = GP!half,
         FifoBook(Shown), FifoCall, FifoTrades(events),
         HowMany(events, "Trade") = FilledBy(Shown, h) - FilledBy(t, h),
         UNCHANGED <<position, num_ops>>, NEW id, PriceTime!Match(id)
  PROVE  /\ FifoBook(Shown)' /\ FifoCall' /\ FifoTrades(events)'
         /\ HowMany(events', "Trade") = FilledBy(Shown, GP!half)' - FilledBy(t, h)
<1>a. PICK o : o = resting_orders[id]
  OBVIOUS
<1>b. PICK evs : evs = events
  OBVIOUS
<1>c. PICK e : e = Trade(o, trade_qty(o))
  OBVIOUS
<1>0. h \in Nat /\ FilledBy(t, h) \in Nat
  BY HalfOfOps, FilledIsNatural
<1>1. /\ pc = "matching" /\ incoming.remaining_quantity > 0 /\ id \in OrderIds /\ o # NoOrder
      /\ o.side = PriceTime!Opposite(incoming.side) /\ TradeWith(o)
      /\ PriceTime!IsFront(PriceTime!Opposite(incoming.side), id)
      /\ \/ PriceTime!Forget(id)
         \/ o.remaining_quantity # trade_qty(o)
  BY <1>a, SameMatching, RestingUnderItsId
  DEF PriceTime!Match, PriceTime!IsFront, PriceTime!RestingOn, PriceTime!contains_order
<1>2. o \in Order /\ o.order_id = id /\ o.side = "Sell" /\ o.remaining_quantity = 1
      /\ incoming \in Order
  BY <1>1, <1>a, RestingUnderItsId DEF FifoBook, Rests, IInv, TypeOK, HandlerTypeOK
<1>3. ~HasTraded /\ incoming.remaining_quantity = 1 /\ Shown = t /\ t >= h
      /\ incoming.order_id = t + 1 /\ incoming.side = "Buy"
  <2>1. ~HasTraded /\ incoming.remaining_quantity = 1
    BY <1>1 DEF FifoCall
  <2> QED BY <1>0, <1>1, <1>2, <2>1 DEF FifoCall, Shown, PriceTime!Opposite
<1>4. FifoBook(t)
  BY <1>3
<1>5. Waits(id, t, h) /\ id \in Nat
  BY <1>1, <1>4, <1>a, HandlerAssumption DEF FifoBook, Rests
<1>6. t - h < h
  BY <1>0, <1>3, <1>5, FirstWaits
<1>d. PICK first : first = (t + 1) - h
  OBVIOUS
<1>7. /\ Waits(first, t, h) /\ first \in Nat /\ first <= id
      /\ \A x \in Nat : Waits(x, t + 1, h) <=> Waits(x, t, h) /\ x # first
      /\ FilledBy(t + 1, h) = FilledBy(t, h) + 1
  BY <1>0, <1>3, <1>5, <1>6, <1>d, OneLessWaits
<1>8. id = first
  <2>1. first \in OrderIds /\ Rests(first)
    <3>1. first \in OrderIds
      BY <1>0, <1>7, HalfOfOps DEF Waits
    <3> QED BY <1>4, <1>7, <3>1 DEF FifoBook
  <2>2. SUFFICES ASSUME id # first PROVE FALSE
    OBVIOUS
  <2>3. first < id
    BY <1>5, <1>7, <2>2
  <2>a. PICK f : f = resting_orders[first]
    OBVIOUS
  <2>4. f.sequence_number < o.sequence_number /\ f.price = o.price /\ f.side = "Sell"
        /\ f \in Order
    BY <1>1, <1>4, <1>a, <2>1, <2>3, <2>a, RestingUnderItsId DEF FifoBook, Rests
  <2>5. PriceTime!Precedes(o, f)
    BY <1>1, <1>3, <1>a, <2>1, <2>2, <2>4, <2>a, RestingUnderItsId
    DEF PriceTime!IsFront, PriceTime!RestingOn, PriceTime!contains_order, Rests,
        PriceTime!Opposite
  <2>6. o.sequence_number \in Nat /\ f.sequence_number \in Nat /\ o.price \in Nat
    BY <1>2, <2>4 DEF Order
  <2> QED BY <1>2, <2>4, <2>5, <2>6 DEF PriceTime!Precedes, PriceTime!BetterPrice
<1>9. trade_qty(o) = 1
  BY <1>2, <1>3 DEF trade_qty
<1>10. /\ incoming' = [incoming EXCEPT !.remaining_quantity = 0]
       /\ events' = Append(evs, e) /\ UNCHANGED <<pc, new_req>>
       /\ PriceTime!Forget(id)
  BY <1>1, <1>2, <1>3, <1>9, <1>b, <1>c DEF TradeWith
<1>11. /\ e \in Event /\ evs \in Seq(Event) /\ e.event_type = "Trade"
       /\ e.resting_order_id = id /\ e.aggressive_order_id = t + 1
  <2>1. e \in Event /\ evs \in Seq(Event) /\ e.event_type = "Trade"
    BY <1>2, <1>b, <1>c, TradeQuantity, TradeType, TypesOfEvents DEF IInv, TypeOK, HandlerTypeOK
  <2>2. e.resting_order_id = id /\ e.aggressive_order_id = t + 1
    BY <1>2, <1>3, <1>c DEF Trade, DefaultEvent
  <2> QED BY <2>1, <2>2
<1>12. HowMany(events', "Trade") = 1
  <2>1. HowMany(evs, "Trade") = 0
    BY <1>0, <1>3, <1>b
  <2> QED BY <1>10, <1>11, <2>1, HowManyAppended
<1>13. Shown' = t + 1 /\ GP!half' = h /\ GP!mid_plus(1)' = GP!mid_plus(1) /\ HasTraded'
  BY <1>1, <1>10, <1>12 DEF Shown, HasTraded, GP!half, GP!mid_plus
<1>14. FifoTrades(events)'
  <2>1. FifoTrades(Append(evs, e))
    BY <1>8, <1>11, <1>b, <1>d, AppendedTrades
  <2> QED BY <1>10, <1>13, <2>1 DEF FifoTrades
<1>15. FifoCall'
  <2>1. /\ incoming'.remaining_quantity = 0 /\ incoming'.order_id = incoming.order_id
        /\ incoming'.side = incoming.side /\ incoming'.price = incoming.price
    BY <1>2, <1>10 DEF Order
  <2> QED BY <1>1, <1>10, <1>13, <2>1 DEF FifoCall, is_market
<1>16. FifoBook(Shown)'
  <2>1. \A x \in OrderIds : resting_orders'[x] = IF x = id THEN NoOrder ELSE resting_orders[x]
    BY <1>1, <1>10, RestingUnderItsId DEF PriceTime!Forget, resting_orders
  <2>2. \A x \in OrderIds : x \in Nat /\ (Rests(x)' <=> Rests(x) /\ x # id)
    BY <2>1, HandlerAssumption DEF Rests
  <2>3. \A x \in OrderIds : Rests(x)' <=> Waits(x, t + 1, h)
    BY <1>4, <1>7, <1>8, <2>2 DEF FifoBook
  <2>4. \A x \in OrderIds : Rests(x)' => Rests(x) /\ resting_orders'[x] = resting_orders[x]
    BY <2>1, <2>2
  <2> QED BY <1>4, <1>13, <2>3, <2>4 DEF FifoBook
<1>17. HowMany(events', "Trade") = FilledBy(Shown, GP!half)' - FilledBy(t, h)
  <2>1. FilledBy(Shown, GP!half)' = FilledBy(t + 1, h)
    BY <1>13 DEF FilledBy
  <2> QED BY <1>0, <1>7, <1>12, <2>1
<1> QED BY <1>14, <1>15, <1>16, <1>17

LEMMA RestIsFifo ==
  ASSUME IInv, TraceIsSound, NEW t \in Nat, t = position, NEW h, h = GP!half,
         FifoBook(Shown), FifoCall, FifoTrades(events),
         HowMany(events, "Trade") = FilledBy(Shown, h) - FilledBy(t, h),
         UNCHANGED <<position, num_ops>>, PriceTime!Rest
  PROVE  /\ FifoBook(Shown)' /\ FifoCall' /\ FifoTrades(events)'
         /\ HowMany(events', "Trade") = FilledBy(Shown, GP!half)' - FilledBy(t, h)
<1>a. PICK o : o = [incoming EXCEPT !.order_status = "Resting"]
  OBVIOUS
<1>b. PICK evs : evs = events
  OBVIOUS
<1>c. PICK e : e = OrderRested(incoming)
  OBVIOUS
<1>d. PICK k : k = t + 1
  OBVIOUS
<1>0. h \in Nat /\ FilledBy(t, h) \in Nat
  BY HalfOfOps, FilledIsNatural
<1>1. /\ pc = "matching" /\ ~is_market /\ incoming.remaining_quantity > 0
      /\ resting_orders' = [resting_orders EXCEPT ![incoming.order_id] = o]
      /\ Return(new_req, Append(evs, e))
  BY <1>a, <1>b, <1>c, SameMatching, SameReturn, SameEventsOfOrders
  DEF PriceTime!Rest, PriceTime!MatchingDone
<1>2. incoming \in Order /\ k \in OrderIds /\ HandlerTypeOK /\ incoming.order_id = k
  BY <1>1, <1>d DEF IInv, TypeOK, HandlerTypeOK, CallIsSound, FifoCall
<1>3. ~HasTraded /\ incoming.remaining_quantity = 1 /\ Shown = t /\ t < h
      /\ incoming.side = "Sell" /\ incoming.price = GP!mid_plus(1)
  BY <1>0, <1>1 DEF FifoCall, Shown
<1>4. FifoBook(t) /\ HowMany(evs, "Trade") = 0
  BY <1>0, <1>3, <1>b
<1>5. evs \in Seq(Event) /\ e \in Event /\ e.event_type = "OrderRested"
  BY <1>2, <1>b, <1>c, OrderEventTypes, TypesOfEvents DEF HandlerTypeOK
<1>6. /\ Append(evs, e) \in Seq(Event) /\ FifoTrades(Append(evs, e))
      /\ HowMany(Append(evs, e), "Trade") = 0
  BY <1>4, <1>5, <1>b, AppendedTrades, HowManyAppended
<1>7. FifoTrades(events)' /\ HowMany(events', "Trade") = 0
  BY <1>1, <1>2, <1>6, ReturnedTrades
<1>8. /\ \A x \in Nat : Waits(x, k, h) <=> Waits(x, t, h) \/ x = k
      /\ \A x \in Nat : Waits(x, t, h) => x < k
      /\ FilledBy(k, h) = FilledBy(t, h)
  BY <1>0, <1>3, <1>d, OneMoreWaits
<1>9. /\ pc' = "returned" /\ Shown' = k /\ GP!half' = h /\ GP!mid_plus(1)' = GP!mid_plus(1)
  BY <1>1, <1>d DEF Return, Shown, GP!half, GP!mid_plus
<1>10. /\ o.side = "Sell" /\ o.price = GP!mid_plus(1) /\ o.remaining_quantity = 1
       /\ o.sequence_number = incoming.sequence_number /\ o # NoOrder
  BY <1>2, <1>3, <1>a DEF Order, NoOrder
<1>11. \A x \in OrderIds : resting_orders'[x] = IF x = k THEN o ELSE resting_orders[x]
  BY <1>1, <1>2 DEF resting_orders
<1>12. \A x \in OrderIds : x \in Nat /\ (Rests(x)' <=> Rests(x) \/ x = k)
  BY <1>10, <1>11, HandlerAssumption DEF Rests
<1>13. \A x \in OrderIds : Rests(x) => x < k
  BY <1>4, <1>8, <1>12 DEF FifoBook
<1>14. \A x \in OrderIds : Rests(x) =>
         resting_orders[x].sequence_number < incoming.sequence_number
  <2>1. \A n \in in_use : order[n].sequence_number < incoming.sequence_number
    BY <1>1 DEF IInv, CallIsSound
  <2> QED BY <2>1, RestingOrder DEF Rests
<1>15. FifoBook(Shown)'
  <2>1. \A x \in OrderIds : Rests(x)' <=> Waits(x, k, h)
    BY <1>4, <1>8, <1>12 DEF FifoBook
  <2>2. \A x \in OrderIds : Rests(x)' => /\ resting_orders'[x].side = "Sell"
                                         /\ resting_orders'[x].price = GP!mid_plus(1)
                                         /\ resting_orders'[x].remaining_quantity = 1
    BY <1>4, <1>10, <1>11, <1>12 DEF FifoBook
  <2>3. ASSUME NEW i \in OrderIds, NEW j \in OrderIds, Rests(i)', Rests(j)', i < j
        PROVE  resting_orders'[i].sequence_number < resting_orders'[j].sequence_number
    <3>0. i \in Nat /\ j \in Nat /\ k \in Nat
      BY <1>2, <1>12
    <3>1. i # k
      BY <1>12, <1>13, <2>3, <3>0
    <3>2. Rests(i)
      BY <1>12, <2>3, <3>1
    <3>3. CASE j = k
      BY <1>10, <1>11, <1>14, <3>1, <3>2, <3>3
    <3>4. CASE j # k
      BY <1>4, <1>11, <1>12, <2>3, <3>1, <3>2, <3>4 DEF FifoBook
    <3> QED BY <3>3, <3>4
  <2> QED BY <1>9, <2>1, <2>2, <2>3 DEF FifoBook
<1>16. FifoCall'
  BY <1>9 DEF FifoCall
<1>17. HowMany(events', "Trade") = FilledBy(Shown, GP!half)' - FilledBy(t, h)
  <2>1. FilledBy(Shown, GP!half)' = FilledBy(k, h)
    BY <1>9 DEF FilledBy
  <2> QED BY <1>0, <1>7, <1>8, <2>1
<1> QED BY <1>7, <1>15, <1>16, <1>17

LEMMA NothingRestsIsFifo ==
  ASSUME IInv, TraceIsSound, NEW t \in Nat, t = position, NEW h, h = GP!half,
         FifoBook(Shown), FifoCall, FifoTrades(events),
         HowMany(events, "Trade") = FilledBy(Shown, h) - FilledBy(t, h),
         UNCHANGED <<position, num_ops>>, PriceTime!NothingRests
  PROVE  /\ FifoBook(Shown)' /\ FifoCall' /\ FifoTrades(events)'
         /\ HowMany(events', "Trade") = FilledBy(Shown, GP!half)' - FilledBy(t, h)
<1>a. PICK old : old = events
  OBVIOUS
<1>b. PICK e : e = UnfilledMarketOrderCancelled(incoming)
  OBVIOUS
<1>c. PICK evs : evs = IF incoming.remaining_quantity = 0 THEN old ELSE Append(old, e)
  OBVIOUS
<1>d. PICK k : k = t + 1
  OBVIOUS
<1>0. h \in Nat /\ k \in Nat /\ 1 .. h \subseteq OrderIds
  BY <1>d, HalfOfOps
<1>1. /\ pc = "matching" /\ (incoming.remaining_quantity = 0 \/ is_market)
      /\ FinishWithoutResting /\ UNCHANGED resting_orders /\ PriceTime!MatchingDone
  BY SameMatching, SameAnswers DEF PriceTime!NothingRests, PriceTime!MatchingDone
<1>2. Return(new_req, evs)
  BY <1>1, <1>a, <1>b, <1>c DEF FinishWithoutResting
<1>3. /\ old \in Seq(Event) /\ e \in Event /\ HandlerTypeOK
      /\ e.event_type = "UnfilledMarketOrderCancelled"
  BY <1>a, <1>b, OrderEventTypes, TypesOfEvents DEF IInv, TypeOK, HandlerTypeOK
<1>4. evs \in Seq(Event) /\ HowMany(evs, "Trade") = HowMany(old, "Trade") /\ FifoTrades(evs)
  BY <1>3, <1>a, <1>c, HowManyAppended, AppendedTrades
<1>5. FifoTrades(events)' /\ HowMany(events', "Trade") = HowMany(old, "Trade")
  BY <1>2, <1>3, <1>4, ReturnedTrades
<1>6. pc' = "returned" /\ Shown' = k /\ GP!half' = h
  BY <1>2, <1>d DEF Return, Shown, GP!half
<1>7. FifoBook(k) /\ FilledBy(k, h) = FilledBy(Shown, h)
  <2>1. CASE HasTraded
    BY <1>1, <2>1, <1>d DEF Shown
  <2>2. CASE ~HasTraded
    <3>1. Shown = t /\ is_market /\ t >= h /\ incoming.side = "Buy"
          /\ incoming.remaining_quantity = 1
      BY <1>0, <1>1, <2>2 DEF FifoCall, Shown
    <3>2. \A id \in OrderIds : ~Rests(id)
      <4>1. \A id \in OrderIds : Rests(id) => id \in PriceTime!RestingOn("Sell")
        BY RestingUnderItsId
        DEF FifoBook, Rests, PriceTime!RestingOn, PriceTime!contains_order
      <4>2. \A id \in PriceTime!RestingOn("Sell") : FALSE
        BY <1>1, <3>1, SameMatching
        DEF PriceTime!MatchingDone, PriceTime!Opposite, Crosses
      <4> QED BY <4>1, <4>2
    <3>3. t - h >= h
      <4>1. SUFFICES ASSUME t - h < h PROVE FALSE
        BY <1>0
      <4>a. PICK first : first = (t + 1) - h
        OBVIOUS
      <4>2. Waits(first, t, h)
        BY <1>0, <3>1, <4>1, <4>a, OneLessWaits
      <4>3. first \in OrderIds
        BY <1>0, <4>2 DEF Waits
      <4> QED BY <3>1, <3>2, <4>2, <4>3 DEF FifoBook
    <3>4. /\ \A id \in Nat : ~Waits(id, t, h) /\ ~Waits(id, k, h)
          /\ FilledBy(k, h) = FilledBy(t, h)
      BY <1>0, <1>d, <3>3, NoneWaits
    <3>5. FifoBook(t) => FifoBook(k)
      BY <3>4, HandlerAssumption DEF FifoBook
    <3> QED BY <3>1, <3>4, <3>5
  <2> QED BY <2>1, <2>2
<1>8. FifoBook(Shown)'
  BY <1>1, <1>6, <1>7, SameFifoBook
<1>9. FifoCall'
  BY <1>6 DEF FifoCall
<1>10. HowMany(events', "Trade") = FilledBy(Shown, GP!half)' - FilledBy(t, h)
  <2>1. FilledBy(Shown, GP!half)' = FilledBy(k, h)
    BY <1>6 DEF FilledBy
  <2> QED BY <1>5, <1>7, <1>a, <2>1
<1> QED BY <1>5, <1>8, <1>9, <1>10

LEMMA InsideIsFifo ==
  ASSUME BenchInv, FifoInv, InsideProcess
  PROVE  FifoInv'
<1>a. PICK t : t = position
  OBVIOUS
<1>b. PICK h : h = GP!half
  OBVIOUS
<1>1. /\ IInv /\ TraceIsSound /\ t \in Nat
      /\ UNCHANGED <<name, num_ops, trace, position, phase, sink>>
  <2>1. t \in Nat
    BY <1>a, LengthOfTrace DEF BenchInv, ReplayIsSound
  <2> QED BY <2>1 DEF BenchInv, InsideProcess, generatorVars, runVars
<1>2. CASE UNCHANGED vars
  <2>1. UNCHANGED <<pc, new_req, incoming, events, resting_orders>>
    BY <1>2, SameBookSameOrders DEF vars, handlerVars
  <2> QED BY <1>1, <2>1 DEF FifoInv, FifoBook, FifoCall, FifoTrades, Rests, is_market, HasTraded,
        Shown, FilledBy, GP!half, GP!mid_plus, Replaying
<1>3. CASE LadderRuns
  <2>1. ASSUME name = "same_price_fifo", Replaying
        PROVE  /\ FifoBook(Shown)' /\ FifoCall' /\ FifoTrades(events)'
               /\ HowMany(events', "Trade") = FilledBy(Shown, GP!half)' - FilledBy(t, h)
    <3>1. /\ FifoBook(Shown) /\ FifoCall /\ FifoTrades(events)
          /\ HowMany(events, "Trade") = FilledBy(Shown, h) - FilledBy(t, h)
      BY <2>1, <1>a, <1>b DEF FifoInv
    <3>2. ~PriceTime!Resubmit
      BY <3>1 DEF FifoCall, PriceTime!Resubmit
    <3>3. (\E id : PriceTime!Match(id)) \/ PriceTime!Rest \/ PriceTime!NothingRests
      BY <1>1, <1>3, <3>2, LadderRunsAreSteps
    <3> QED BY <1>1, <1>a, <1>b, <3>1, <3>3, MatchIsFifo, RestIsFifo, NothingRestsIsFifo
  <2>2. /\ FilledBy(position, GP!half)' = FilledBy(t, h)
        /\ FilledBy(position, GP!half) = FilledBy(t, h) /\ GP!half' = h
    BY <1>1, <1>a, <1>b DEF FilledBy, GP!half
  <2> QED BY <1>1, <2>1, <2>2, <1>b DEF FifoInv, Replaying
<1> QED BY <1>2, <1>3 DEF InsideProcess, BothRun

LEMMA CountsAreFifo ==
  ASSUME BenchInv, FifoInv, CountEvents
  PROVE  FifoInv'
<1>a. PICK t : t = position
  OBVIOUS
<1>b. PICK k : k = t + 1
  OBVIOUS
<1>c. PICK h : h = GP!half
  OBVIOUS
<1>1. /\ pc = "returned" /\ pc' = "idle" /\ events' = <<>> /\ position' = k
      /\ UNCHANGED <<name, num_ops, trace, phase>> /\ UNCHANGED bookVars /\ t \in Nat
      /\ TraceIsSound
  <2>1. t \in Nat
    BY <1>a, LengthOfTrace DEF BenchInv, ReplayIsSound
  <2> QED BY <2>1, <1>a, <1>b DEF CountEvents, BothCollect, Collect, generatorVars, BenchInv
<1>2. Replaying
  BY <1>1 DEF BenchInv, ReplayIsSound, BetweenCalls
<1>3. Shown = k /\ Shown' = k /\ GP!half' = h
  BY <1>1, <1>a, <1>b, <1>c DEF Shown, GP!half
<1>4. h \in Nat /\ FilledBy(t, h) \in Nat /\ FilledBy(k, h) \in Nat
  <2>1. h \in Nat
    BY <1>1, <1>c, HalfOfOps
  <2>2. k \in Nat
    BY <1>1, <1>b
  <2> QED BY <1>1, <2>1, <2>2, FilledIsNatural
<1>5. ASSUME name = "same_price_fifo"
      PROVE  /\ Len(trace) = num_ops /\ FifoBook(k)
             /\ HowMany(events, "Trade") = FilledBy(k, h) - FilledBy(t, h)
             /\ \A layer \in Layers : sink[layer]["ladder_pool"].trades = FilledBy(t, h)
  BY <1>2, <1>3, <1>5, <1>a, <1>c DEF FifoInv, Replaying
<1>6. ASSUME name = "same_price_fifo", NEW layer \in Layers
      PROVE  sink'[layer]["ladder_pool"].trades = FilledBy(k, h)
  <2>a. PICK count : count = sink[layer]["ladder_pool"]
    OBVIOUS
  <2>b. PICK after : after = sink'[layer]["ladder_pool"]
    OBVIOUS
  <2>c. PICK evs : evs = events
    OBVIOUS
  <2>1. /\ count \in BenchmarkEventSink /\ evs \in Seq(Event)
        /\ after = on_events(count, ToldBy(layer, evs))
    BY <2>a, <2>b, <2>c, CountedSink DEF answer, BookTypes
  <2>2. after.trades = count.trades + HowMany(evs, "Trade")
    BY <2>1, CountedEvents
  <2>3. HowMany(evs, "Trade") = FilledBy(k, h) - FilledBy(t, h) /\ count.trades = FilledBy(t, h)
    BY <1>5, <1>6, <2>a, <2>c
  <2>4. after.trades = FilledBy(k, h)
    BY <1>4, <2>2, <2>3
  <2> QED BY <2>4, <2>b
<1>7. UNCHANGED resting_orders /\ HowMany(events', "Trade") = 0 /\ FifoTrades(events)'
  <2>1. UNCHANGED resting_orders /\ HowMany(events', "Trade") = 0
    BY <1>1, SameBookSameOrders, NothingTold
  <2> QED BY <1>1, <2>1 DEF FifoTrades
<1>8. name = "same_price_fifo" => FifoBook(Shown)'
  BY <1>1, <1>3, <1>5, <1>7, SameFifoBook
<1>9. FilledBy(Shown, GP!half)' = FilledBy(k, h) /\ FilledBy(position, GP!half)' = FilledBy(k, h)
  BY <1>1, <1>3 DEF FilledBy
<1>10. HowMany(events', "Trade") = FilledBy(Shown, GP!half)' - FilledBy(position, GP!half)'
  BY <1>4, <1>7, <1>9
<1>11. FifoCall' /\ Replaying' /\ phase' # "done" /\ Len(trace)' = Len(trace)
  BY <1>1, <1>2 DEF FifoCall, Replaying
<1> QED BY <1>1, <1>5, <1>6, <1>7, <1>8, <1>9, <1>10, <1>11 DEF FifoInv

LEMMA StartsAreFifo ==
  ASSUME BenchInv, FifoInv, StartWarmup \/ StartMeasured
  PROVE  FifoInv'
<1>a. PICK h : h = GP!half
  OBVIOUS
<1>1. /\ reset /\ sink' = ZeroSinks /\ position' = 0 /\ UNCHANGED <<name, num_ops, trace>>
      /\ TraceIsSound /\ phase' # "done"
  BY DEF StartWarmup, StartMeasured, generatorVars, BenchInv
<1>2. pc' = "idle" /\ events' = <<>> /\ lookup' = [id \in OrderIds |-> invalid_node]
  BY <1>1 DEF reset, ResetHandlers
<1>3. \A id \in OrderIds : ~Rests(id)'
  BY <1>2 DEF resting_orders, contains_order, Rests
<1>4. \A layer \in Layers : sink'[layer]["ladder_pool"].trades = 0
  BY <1>1, ZeroSinkType DEF BookTypes, ZeroSink
<1>5. HowMany(events', "Trade") = 0 /\ FifoTrades(events)' /\ FifoCall'
  BY <1>2, NothingTold DEF FifoTrades, FifoCall
<1>6. Shown' = 0 /\ GP!half' = h /\ h \in Nat /\ FilledBy(0, h) = 0 /\ \A id : ~Waits(id, 0, h)
  BY <1>1, <1>2, <1>a, HalfOfOps, NothingWaits DEF Shown, GP!half
<1>7. FilledBy(Shown, GP!half)' = 0 /\ FilledBy(position, GP!half)' = 0
  <2>1. FilledBy(Shown, GP!half)' = FilledBy(0, h) /\ FilledBy(position, GP!half)' = FilledBy(0, h)
    BY <1>1, <1>6 DEF FilledBy
  <2> QED BY <1>6, <2>1
<1>8. FifoBook(Shown)'
  BY <1>3, <1>6 DEF FifoBook
<1>9. name = "same_price_fifo" => (Len(trace) = num_ops)'
  <2>1. name = "same_price_fifo" => Len(trace) = num_ops
    BY DEF StartWarmup, StartMeasured, Generated, FifoInv
  <2> QED BY <1>1, <2>1
<1> QED BY <1>1, <1>4, <1>5, <1>7, <1>8, <1>9 DEF FifoInv

LEMMA EndIsFifo ==
  ASSUME BenchInv, FifoInv,
         GenerateTrace \/ RefuseEmptyTrace \/ Finish \/ UNCHANGED benchVars
  PROVE  FifoInv'
<1>1. CASE GenerateTrace
  <2>1. UNCHANGED <<name, phase>> /\ phase = "generating"
    BY <1>1, TraceGrows DEF GenerateTrace, BenchInv, runVars
  <2> QED BY <2>1 DEF FifoInv, Replaying
<1>2. CASE RefuseEmptyTrace
  BY <1>2 DEF RefuseEmptyTrace, Generated, generatorVars, FifoInv, Replaying
<1>3. CASE Finish
  <2>1. /\ UNCHANGED <<name, num_ops, trace, sink>> /\ phase' = "done" /\ phase = "measured"
        /\ position = Len(trace) /\ TraceIsSound
    BY <1>3 DEF Finish, generatorVars, BenchInv, replayed
  <2>2. GP!half' = GP!half
    BY <2>1 DEF GP!half
  <2>3. ASSUME name = "same_price_fifo"
        PROVE  /\ Len(trace) = num_ops
               /\ \A layer \in Layers : sink[layer]["ladder_pool"].trades = GP!half
    <3>1. Len(trace) = num_ops /\ \A layer \in Layers :
            sink[layer]["ladder_pool"].trades = FilledBy(position, GP!half)
      BY <2>1, <2>3 DEF FifoInv, Replaying
    <3> QED BY <2>1, <3>1, HalfOfOps
  <2> QED BY <2>1, <2>2, <2>3 DEF FifoInv, Replaying
<1>4. CASE UNCHANGED benchVars
  <2>1. UNCHANGED <<name, num_ops, trace, pc, new_req, incoming, events, resting_orders, position,
                    sink, phase>>
    BY <1>4, SameBookSameOrders
    DEF benchVars, bothVars, vars, handlerVars, generatorVars, runVars
  <2> QED BY <2>1 DEF FifoInv, FifoBook, FifoCall, FifoTrades, Rests, is_market, HasTraded,
        Shown, FilledBy, GP!half, GP!mid_plus, Replaying
<1> QED BY <1>1, <1>2, <1>3, <1>4

LEMMA FifoStep ==
  GP!PricesFit /\ BenchInv /\ AnswerInv /\ FifoInv /\ [BenchNext]_benchVars => FifoInv'
  BY ProcessIsFifo, InsideIsFifo, CountsAreFifo, StartsAreFifo, EndIsFifo DEF BenchNext

LEMMA FifoStart == BenchInit => FifoInv
  BY DEF BenchInit, FifoInv, Replaying

\* In same_price_fifo each market order takes the oldest order that still waits, in
\* either book, and at the end of the benchmark every target has counted one trade
\* for each order that could be filled.
THEOREM FifoIsKept ==
  ASSUME GP!PricesFit PROVE BenchSpec => []FifoMatchesInOrder
<1>1. BenchInv /\ AnswerInv /\ FifoInv /\ [BenchNext]_benchVars => FifoInv'
  BY FifoStep
<1>2. BenchInv /\ AnswerInv /\ FifoInv /\ Coupled /\ SinksAgree => FifoMatchesInOrder
  <2> SUFFICES ASSUME BenchInv, AnswerInv, FifoInv, Coupled, SinksAgree,
                      name = "same_price_fifo"
               PROVE  /\ FifoTrades(events)
                      /\ phase = "done" => \A layer \in Layers :
                           sink[layer]["ladder_pool"].trades = GP!half
    BY OneGenerator DEF FifoMatchesInOrder, answer, Coupled, HandlersAgree, SinksAgree,
       BookTypes, FifoTrades
  <2>1. CASE Replaying
    BY <2>1 DEF FifoInv
  <2>2. CASE ~Replaying
    <3>1. events = <<>>
      BY <2>2 DEF BenchInv, ReplayIsSound, BetweenCalls, AnswerInv, AnswerIsComing
    <3> QED BY <3>1 DEF FifoInv, FifoTrades
  <2> QED BY <2>1, <2>2
<1> QED BY <1>1, <1>2, FifoStart, TargetsStayInStep, BenchmarkIsSound, AnswersAreSound, PTL
    DEF BenchSpec
=============================================================================
