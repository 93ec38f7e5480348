---------------------- MODULE LadderMarketData_proofs ----------------------
(***************************************************************************)
(* The engine around the ladder book, and a reader that knows the book     *)
(* only from its BookUpdated events, for every ladder, pool capacity, set  *)
(* of requests and number of calls: EngineInv is inductive together with   *)
(* IInv of the book.                                                       *)
(***************************************************************************)
EXTENDS LadderMarketData, LadderPoolRefinement_proofs

-----------------------------------------------------------------------------
(***************************************************************************)
(* The steps of the engine are steps of the book.                          *)
(***************************************************************************)
LEMMA StepOfTheBook == [ReaderNext]_readVars => [Next]_vars
<1> SUFFICES ASSUME ReaderNext \/ UNCHANGED readVars PROVE Next \/ UNCHANGED vars
  OBVIOUS
<1>1. CASE UNCHANGED readVars
  BY <1>1 DEF readVars, marketVars, vars
<1>2. CASE Read
  BY <1>2 DEF Read, ReadWith, Publish, Next, Continue
<1>3. CASE InsideSubmit
  BY <1>3 DEF InsideSubmit, Next, Continue
<1>4. CASE \/ \E req \in NewOrderRequests : ProcessNew(req)
           \/ \E req \in ModifyOrderRequests : ProcessModify(req)
           \/ \E req \in CancelOrderRequests : ProcessCancel(req)
  BY <1>4 DEF ProcessNew, ProcessModify, ProcessCancel, Next, Submit
<1> QED BY <1>1, <1>2, <1>3, <1>4 DEF ReaderNext

\* What holds of the book alone holds of the book inside the engine: process() does
\* nothing to the book but call submit().
THEOREM EngineRunsTheBook == ReaderSpec => Spec
<1>1. InitRead => Init
  BY DEF InitRead
<1> QED BY <1>1, StepOfTheBook, PTL DEF ReaderSpec, Spec

-----------------------------------------------------------------------------
(***************************************************************************)
(* Types.                                                                  *)
(***************************************************************************)
LEMMA TopType ==
  ASSUME IInv
  PROVE  top_of_book \in TopOfBook
<1>1. ASSUME NEW s \in BookSides, best[s] # invalid_level
      PROVE  level_index_to_price(best[s]) \in Nat /\ total_quantity[s][best[s]] \in Nat
  <2>1. best[s] \in Levels
    BY <1>1 DEF IInv, TypeOK, LadderTypeOK
  <2>2. total_quantity[s][best[s]] \in 0 .. QuantityMod - 1
    BY <2>1 DEF IInv, TypeOK, LadderTypeOK
  <2>3. level_index_to_price(best[s]) \in Nat
    BY <2>1, LadderFacts, LadderAssumption DEF level_index_to_price, Levels
  <2> QED BY <2>2, <2>3, HandlerAssumption
<1>2. "Buy" \in BookSides /\ "Sell" \in BookSides
  BY DEF BookSides
<1> QED BY <1>1, <1>2 DEF top_of_book, TopOfBook

LEMMA SymbolType ==
  ASSUME HandlerTypeOK, EngineTypeOK
  PROVE  infer_symbol_id \in Nat
<1> DEFINE named == {i \in DOMAIN events : events[i].symbol_id # 0}
<1>1. \A i \in DOMAIN events : events[i] \in Event
  BY ElementOfSeq, LenProperties DEF HandlerTypeOK
<1>2. CASE named # {}
  <2>1. named \in SUBSET Nat
    BY LenProperties DEF HandlerTypeOK
  <2>2. Min(named) \in named
    BY <1>2, <2>1, MinInSet
  <2>3. events[Min(named)].symbol_id \in Nat
    BY <1>1, <2>2 DEF Event
  <2> QED BY <1>2, <2>3 DEF infer_symbol_id
<1>3. CASE named = {}
  <2>1. "symbol_id" \in DOMAIN request => request.symbol_id \in Nat
    BY DEF EngineTypeOK, NewOrderRequest, ModifyOrderRequest, CancelOrderRequest
  <2> QED BY <1>3, <2>1 DEF infer_symbol_id
<1> QED BY <1>2, <1>3

LEMMA PublishedEvents ==
  ASSUME IInv, EngineTypeOK, pc = "returned", ReportIsOpen, Publish(top_of_book)
  PROVE  /\ published' \in Seq(EngineEvent) /\ published' # <<>>
         /\ \A i \in DOMAIN published' :
              published'[i].input_sequence_number = next_input_sequence_number - 1
         /\ Announces <=> book_changed(events)
         /\ Announces => published'[Len(published')].top = top_of_book
<1> DEFINE stamped == [i \in DOMAIN events |-> Stamped(events[i])]
           update == BookUpdated(top_of_book)
           num == next_input_sequence_number - 1
<1>1. /\ events \in Seq(Event) /\ Len(events) \in Nat /\ DOMAIN events = 1 .. Len(events)
      /\ \A i \in DOMAIN events : events[i] \in Event
      /\ events # <<>>
  <2>1. events \in Seq(Event)
    BY DEF IInv, TypeOK, HandlerTypeOK
  <2> QED BY <2>1, ElementOfSeq, LenProperties DEF ReportIsOpen
<1>2. Len(events) > 0
  BY <1>1, EmptySeq
<1>3. num \in Nat /\ input_sequence_number = num
  BY DEF EngineTypeOK, input_sequence_number
<1>4. NoTop \in TopOfBook
  BY DEF NoTop, TopOfBook
<1>5. \A i \in DOMAIN events : /\ stamped[i] \in EngineEvent
                               /\ stamped[i].input_sequence_number = num
                               /\ stamped[i].event = events[i]
  BY <1>1, <1>3, <1>4 DEF Stamped, EngineEvent
<1>6. /\ stamped \in Seq(EngineEvent) /\ Len(stamped) = Len(events)
      /\ DOMAIN stamped = DOMAIN events
  BY <1>1, <1>5
<1>7. /\ update \in EngineEvent /\ update.input_sequence_number = num
      /\ update.event.event_type = "BookUpdated" /\ update.top = top_of_book
  <2>1. "BookUpdated" \in EventTypes
    BY DEF EventTypes
  <2>2. [DefaultEvent EXCEPT !.event_type = "BookUpdated", !.symbol_id = infer_symbol_id]
          \in Event
    BY <2>1, DefaultEventType, SymbolType DEF Event, IInv, TypeOK
  <2>3. [DefaultEvent EXCEPT !.event_type = "BookUpdated",
                             !.symbol_id = infer_symbol_id].event_type = "BookUpdated"
    BY DefaultEventType DEF Event
  <2> QED BY <1>3, <2>2, <2>3, TopType DEF BookUpdated, EngineEvent
<1> HIDE DEF stamped, update, num
<1>8. CASE book_changed(events)
  <2>1. published' = stamped \o <<update>>
    BY <1>8 DEF Publish, stamped, update
  <2>a. PICK pub : pub = published'
    OBVIOUS
  <2>2. /\ pub \in Seq(EngineEvent) /\ Len(pub) = Len(events) + 1
        /\ \A i \in DOMAIN events : pub[i] = stamped[i]
        /\ pub[Len(events) + 1] = update
    <3>1. <<update>> \in Seq(EngineEvent) /\ Len(<<update>>) = 1 /\ <<update>>[1] = update
      BY <1>7
    <3>2. /\ pub \in Seq(EngineEvent) /\ Len(pub) = Len(stamped) + 1
          /\ \A i \in 1 .. Len(stamped) + 1 :
               pub[i] = IF i <= Len(stamped) THEN stamped[i] ELSE <<update>>[i - Len(stamped)]
      BY <1>6, <2>1, <2>a, <3>1, ConcatProperties
    <3>3. \A i \in DOMAIN events : i \in 1 .. Len(events) + 1 /\ i <= Len(events)
      BY <1>1
    <3> QED BY <1>1, <1>6, <3>1, <3>2, <3>3
  <2>3. DOMAIN pub = 1 .. Len(events) + 1
    BY <2>2, LenProperties
  <2>4. \A i \in DOMAIN pub : i \in DOMAIN events \/ i = Len(events) + 1
    BY <1>1, <2>3
  <2>5. \A i \in DOMAIN pub : pub[i].input_sequence_number = num
    BY <1>5, <1>7, <2>2, <2>4
  <2>6. pub # <<>>
    BY <1>1, <2>2, EmptySeq
  <2> QED BY <1>7, <1>8, <2>a, <2>2, <2>5, <2>6 DEF Announces, num
<1>9. CASE ~book_changed(events)
  <2>1. published' = stamped \o <<>>
    BY <1>9 DEF Publish, stamped
  <2>2. published' = stamped
    BY <1>6, <2>1, ConcatEmptySeq
  <2>3. stamped # <<>>
    BY <1>2, <1>6, EmptySeq
  <2>4. stamped[Len(events)].event.event_type # "BookUpdated"
    BY <1>1, <1>2, <1>5 DEF ReportIsOpen
  <2> QED BY <1>5, <1>6, <1>9, <2>2, <2>3, <2>4 DEF Announces, num
<1> QED BY <1>8, <1>9

\* What a call has published is numbered by what is known of the running call.
LEMMA ACallIsRunning ==
  ASSUME EngineTypeOK, NumbersAreConsecutive, pc # "idle"
  PROVE  next_input_sequence_number > 1
<1>1. next_input_sequence_number \in Nat \ {0} /\ published \in Seq(EngineEvent)
  BY DEF EngineTypeOK
<1>2. CASE published = <<>>
  BY <1>1, <1>2 DEF NumbersAreConsecutive, LastNumber
<1>3. CASE published # <<>>
  <2>1. 1 \in DOMAIN published /\ published[1] \in EngineEvent
    <3>1. Len(published) \in Nat \ {0}
      BY <1>1, <1>3, EmptySeq
    <3> QED BY <1>1, <3>1, ElementOfSeq, LenProperties
  <2>2. published[1].input_sequence_number \in Nat
    BY <2>1 DEF EngineEvent
  <2> QED BY <1>1, <1>3, <2>1, <2>2 DEF NumbersAreConsecutive, LastNumber
<1> QED BY <1>2, <1>3

LEMMA EngineTypeStep ==
  ASSUME IInv, EngineTypeOK, ReportIsOpen, [ReaderNext]_readVars
  PROVE  EngineTypeOK'
<1>1. CASE UNCHANGED engineVars
  BY <1>1 DEF EngineTypeOK, engineVars
<1>2. ASSUME NEW req \in NewOrderRequest \cup ModifyOrderRequest \cup CancelOrderRequest,
             Process(req)
      PROVE  EngineTypeOK'
  BY <1>2 DEF Process, EngineTypeOK
<1>3. CASE Read
  <2>1. Publish(top_of_book) /\ pc = "returned"
    BY <1>3 DEF Read, ReadWith, Publish, Collect
  <2>2. published' \in Seq(EngineEvent)
    BY <2>1, PublishedEvents
  <2> QED BY <2>1, <2>2 DEF Publish, EngineTypeOK
<1>4. /\ NewOrderRequests \subseteq NewOrderRequest
      /\ ModifyOrderRequests \subseteq ModifyOrderRequest
      /\ CancelOrderRequests \subseteq CancelOrderRequest
  BY HandlerAssumption
<1> QED BY <1>1, <1>2, <1>3, <1>4
  DEF ReaderNext, ProcessNew, ProcessModify, ProcessCancel, InsideSubmit, readVars, marketVars

-----------------------------------------------------------------------------
(***************************************************************************)
(* Numbers.                                                                *)
(***************************************************************************)
LEMMA NumbersStep ==
  ASSUME IInv, EngineTypeOK, ReportIsOpen, NumbersAreConsecutive, [ReaderNext]_readVars
  PROVE  NumbersAreConsecutive'
<1>1. next_input_sequence_number \in Nat
  BY DEF EngineTypeOK
<1>2. CASE UNCHANGED readVars
  BY <1>2 DEF readVars, marketVars, handlerVars, engineVars, NumbersAreConsecutive, LastNumber
<1>3. ASSUME NEW req, Process(req), pc = "idle", pc' # "idle"
      PROVE  NumbersAreConsecutive'
  <2>1. LastNumber' = LastNumber
    BY <1>1, <1>3 DEF Process, LastNumber
  <2> QED BY <1>3, <2>1 DEF Process, NumbersAreConsecutive
<1>4. \A req : SubmitNew(req) \/ SubmitModify(req) \/ SubmitCancel(req) =>
        pc = "idle" /\ pc' # "idle"
  BY DEF SubmitNew, SubmitModify, SubmitCancel, Ready, handle_new_order, Return, Answer,
         BeginModify
<1>5. CASE InsideSubmit
  <2>1. pc # "idle" /\ pc' # "idle"
    <3>1. CASE Resubmit
      BY <3>1 DEF Resubmit, handle_new_order, Return
    <3>2. CASE match_buy \/ match_sell
      BY <3>2 DEF match_buy, match_sell, MatchBest, PassEmptyLevel, MatchFront, TradeWith,
                  handlerVars
    <3>3. CASE add_resting_order
      BY <3>3 DEF add_resting_order, MatchingDone, Return
    <3>4. CASE NothingRests
      BY <3>4 DEF NothingRests, MatchingDone, FinishWithoutResting, Return
    <3> QED BY <1>5, <3>1, <3>2, <3>3, <3>4 DEF InsideSubmit
  <2>2. UNCHANGED engineVars
    BY <1>5 DEF InsideSubmit
  <2> QED BY <2>1, <2>2 DEF engineVars, NumbersAreConsecutive, LastNumber
<1>6. CASE Read
  <2>1. Publish(top_of_book) /\ pc = "returned" /\ pc' = "idle"
    BY <1>6 DEF Read, ReadWith, Publish, Collect
  <2>2. /\ published' # <<>>
        /\ \A i \in DOMAIN published' :
              published'[i].input_sequence_number = next_input_sequence_number - 1
    BY <2>1, PublishedEvents
  <2>3. LastNumber' = next_input_sequence_number - 1
    BY <2>1 DEF Publish, LastNumber
  <2> QED BY <2>2, <2>3 DEF NumbersAreConsecutive
<1> QED BY <1>2, <1>3, <1>4, <1>5, <1>6
  DEF ReaderNext, ProcessNew, ProcessModify, ProcessCancel

\* The events that a step publishes carry the number after the last.
LEMMA NumberedByCall ==
  ASSUME IInv, EngineTypeOK, ReportIsOpen, NumbersAreConsecutive, ReaderNext,
         pc = "returned", pc' = "idle", NEW i \in DOMAIN published'
  PROVE  published'[i].input_sequence_number =
           IF published = <<>> THEN 1 ELSE published[1].input_sequence_number + 1
<1>1. Read
  BY DEF ReaderNext, ProcessNew, ProcessModify, ProcessCancel, InsideSubmit, SubmitNew,
         SubmitModify, SubmitCancel, Ready, Resubmit, match_buy, match_sell,
         add_resting_order, NothingRests, MatchingDone
<1>2. published'[i].input_sequence_number = next_input_sequence_number - 1
  BY <1>1, PublishedEvents DEF Read, ReadWith
<1>3. next_input_sequence_number \in Nat
  BY DEF EngineTypeOK
<1>4. LastNumber = next_input_sequence_number - 2
  BY DEF LastNumber
<1>5. published # <<>> => 1 \in DOMAIN published
  <2>1. published # <<>> => Len(published) \in Nat \ {0}
    BY EmptySeq DEF EngineTypeOK
  <2> QED BY <2>1, LenProperties DEF EngineTypeOK
<1> QED BY <1>2, <1>3, <1>4, <1>5 DEF NumbersAreConsecutive

-----------------------------------------------------------------------------
(***************************************************************************)
(* Reports: what the engine reads off them.                                *)
(***************************************************************************)
OfTheBook(evs) == \A i \in DOMAIN evs : evs[i].event_type # "BookUpdated"

LEMMA EmptyReport == OfTheBook(<<>>) /\ ~book_changed(<<>>)
<1>1. DOMAIN <<>> = {}
  OBVIOUS
<1> QED BY <1>1 DEF OfTheBook, book_changed

LEMMA SingleReport ==
  ASSUME NEW e \in Event, e.event_type # "BookUpdated"
  PROVE  /\ <<e>> # <<>> /\ OfTheBook(<<e>>)
         /\ book_changed(<<e>>) <=> event_changes_book(e.event_type)
<1>1. DOMAIN <<e>> = {1} /\ <<e>>[1] = e
  OBVIOUS
<1> QED BY <1>1 DEF OfTheBook, book_changed

LEMMA LongerReport ==
  ASSUME NEW evs \in Seq(Event), OfTheBook(evs), NEW e \in Event,
         e.event_type # "BookUpdated", NEW app, app = Append(evs, e)
  PROVE  /\ app \in Seq(Event) /\ app # <<>> /\ OfTheBook(app)
         /\ book_changed(app) <=> book_changed(evs) \/ event_changes_book(e.event_type)
<1>1. /\ app \in Seq(Event) /\ Len(app) = Len(evs) + 1 /\ Len(evs) \in Nat
      /\ DOMAIN evs = 1 .. Len(evs) /\ DOMAIN app = 1 .. Len(evs) + 1
      /\ \A i \in DOMAIN evs : app[i] = evs[i]
      /\ app[Len(evs) + 1] = e
  BY AppendedEvent
<1>2. DOMAIN app = (DOMAIN evs) \cup {Len(evs) + 1}
  BY <1>1
<1>3. app # <<>>
  BY <1>1, EmptySeq
<1> QED BY <1>1, <1>2, <1>3 DEF OfTheBook, book_changed

\* The types of the events that the handlers build.
LEMMA EventNames ==
  /\ \A req, why : NewRejected(req, why).event_type = "OrderRejected"
  /\ \A req, why : ModifyRejected(req, why).event_type = "OrderRejected"
  /\ \A req, why : CancelRejected(req, why).event_type = "OrderRejected"
  /\ \A req : OrderAccepted(req).event_type = "OrderAccepted"
  /\ \A req : OrderModified(req).event_type = "OrderModified"
  /\ \A o : OrderCancelled(o).event_type = "OrderCancelled"
  /\ \A o : OrderRested(o).event_type = "OrderRested"
  /\ \A o : UnfilledMarketOrderCancelled(o).event_type = "UnfilledMarketOrderCancelled"
  /\ \A o, qty : Trade(o, qty).event_type = "Trade"
<1>1. DefaultEvent \in Event
  BY DefaultEventType
<1> QED
  BY <1>1 DEF Event, NewRejected, ModifyRejected, CancelRejected, OrderAccepted, OrderModified,
     OrderCancelled, OrderRested, UnfilledMarketOrderCancelled, Trade

LEMMA ReturnReports ==
  ASSUME NEW req \in NewOrderRequest, NEW evs \in Seq(Event), OfTheBook(evs), evs # <<>>,
         modifying => book_changed(evs), Return(req, evs)
  PROVE  /\ ReportIsOpen'
         /\ book_changed(events') <=> book_changed(evs)
<1>1. CASE modifying
  <2>1. OrderModified(req) \in Event /\ OrderModified(req).event_type = "OrderModified"
    BY RequestEventTypes, EventNames
  <2>2. events' = Append(evs, OrderModified(req))
    BY <1>1 DEF Return
  <2>3. events' # <<>> /\ OfTheBook(events') /\ book_changed(events')
    BY <1>1, <2>1, <2>2, LongerReport
  <2> QED BY <1>1, <2>3 DEF Return, ReportIsOpen, OfTheBook
<1>2. CASE ~modifying
  <2>1. events' = evs
    BY <1>2 DEF Return
  <2> QED BY <2>1 DEF Return, ReportIsOpen, OfTheBook
<1> QED BY <1>1, <1>2

LEMMA NewOrderReports ==
  ASSUME NEW req \in NewOrderRequest, NEW why \in Reasons, NEW evs \in Seq(Event),
         OfTheBook(evs), modifying \in BOOLEAN, modifying => book_changed(evs),
         handle_new_order(req, why, evs)
  PROVE  /\ ReportIsOpen'
         /\ book_changed(events') <=> book_changed(evs)
         /\ pc' \in {"matching", "returned"}
<1>1. CASE why # "None"
  <2>a. PICK app : app = Append(evs, NewRejected(req, why))
    OBVIOUS
  <2>1. /\ NewRejected(req, why) \in Event
        /\ NewRejected(req, why).event_type = "OrderRejected"
    BY RejectionTypes, EventNames
  <2>2. /\ app \in Seq(Event) /\ app # <<>> /\ OfTheBook(app)
        /\ book_changed(app) <=> book_changed(evs)
    BY <2>a, <2>1, LongerReport DEF event_changes_book
  <2>3. Return(req, app)
    BY <1>1, <2>a DEF handle_new_order
  <2>4. pc' = "returned"
    BY <2>3 DEF Return
  <2> QED BY <2>2, <2>3, <2>4, ReturnReports
<1>2. CASE why = "None"
  <2>1. OrderAccepted(req) \in Event /\ OrderAccepted(req).event_type = "OrderAccepted"
    BY RequestEventTypes, EventNames
  <2>2. events' = Append(evs, OrderAccepted(req)) /\ pc' = "matching" /\ modifying' = modifying
    BY <1>2 DEF handle_new_order
  <2>3. /\ events' # <<>> /\ OfTheBook(events')
        /\ book_changed(events') <=> book_changed(evs)
    BY <2>1, <2>2, LongerReport DEF event_changes_book
  <2> QED BY <2>2, <2>3 DEF ReportIsOpen, OfTheBook
<1> QED BY <1>1, <1>2

-----------------------------------------------------------------------------
(***************************************************************************)
(* What the reader was told, and what rests now.                           *)
(***************************************************************************)
LEMMA RestingTypes ==
  ASSUME IInv
  PROVE  /\ resting_orders \in [OrderIds -> Order]
         /\ \A id \in OrderIds :
              /\ resting_orders[id].sequence_number < next_sequence_number
              /\ contains_order(id) <=> resting_orders[id] # NoOrder
              /\ contains_order(id) => resting_orders[id] = order[lookup[id]]
<1>1. next_sequence_number \in Nat \ {0} /\ NoOrder \in Order /\ NoOrder.sequence_number = 0
  BY NoRequestType DEF IInv, TypeOK, HandlerTypeOK, NoOrder
<1>2. ASSUME NEW id \in OrderIds
      PROVE  /\ resting_orders[id] \in Order
             /\ resting_orders[id].sequence_number < next_sequence_number
             /\ contains_order(id) <=> resting_orders[id] # NoOrder
             /\ contains_order(id) => resting_orders[id] = order[lookup[id]]
  <2>1. CASE contains_order(id)
    <3>1. resting_orders[id] = order[lookup[id]] /\ lookup[id] \in in_use
      BY <2>1, RestingOrder
    <3>2. order[lookup[id]] \in Order /\ order[lookup[id]].side \in BookSides
      BY <2>1, LookedUpOrder
    <3>3. order[lookup[id]] # NoOrder
      BY <3>2 DEF NoOrder, BookSides
    <3>4. order[lookup[id]].sequence_number < next_sequence_number
      BY <3>1 DEF IInv, BookIsSound, OrdersAreSound
    <3> QED BY <2>1, <3>1, <3>2, <3>3, <3>4
  <2>2. CASE ~contains_order(id)
    BY <1>1, <2>2 DEF resting_orders
  <2> QED BY <2>1, <2>2
<1>3. resting_orders \in [OrderIds -> Order]
  BY <1>2 DEF resting_orders
<1> QED BY <1>2, <1>3

LEMMA RestingTyped == IInv => resting_orders \in [OrderIds -> Order]
  BY RestingTypes

LEMMA SameBookSameTop ==
  ASSUME UNCHANGED bookVars
  PROVE  UNCHANGED top_of_book
  BY DEF bookVars, levelVars, top_of_book

\* A step after which the reader knows as much as before.
LEMMA NothingNew ==
  ASSUME ReaderIsCurrent, UNCHANGED bookVars, UNCHANGED readerVars,
         book_changed(events') <=> book_changed(events),
         pc' \in {"resubmit", "matching"} => pc \in {"resubmit", "matching"} \/ ~book_changed(events),
         \A n \in Nat : n < NextArrival => n < NextArrival'
  PROVE  ReaderIsCurrent'
<1>1. resting_orders' = resting_orders /\ top_of_book' = top_of_book
  BY SameBookSameOrders, SameBookSameTop
<1>2. announced_orders' = announced_orders /\ announced_top' = announced_top
  BY DEF readerVars
<1>3. \A id \in OrderIds : Shrunk(id)' <=> Shrunk(id)
  BY <1>1, <1>2 DEF Shrunk
<1>4. \A id \in OrderIds : announced_orders[id].sequence_number \in Nat
  BY DEF ReaderIsCurrent, Order
<1>5. \A id \in OrderIds : announced_orders'[id].sequence_number < NextArrival'
  BY <1>2, <1>4 DEF ReaderIsCurrent
<1>6. book_changed(events)' <=> book_changed(events)
  BY DEF book_changed
<1> QED BY <1>1, <1>2, <1>3, <1>5, <1>6 DEF ReaderIsCurrent

\* handle_new_order, up to the matching loop, changes nothing that the reader knows.
LEMMA NewOrderReader ==
  ASSUME IInv, ReaderIsCurrent, UNCHANGED bookVars, UNCHANGED readerVars,
         NEW req \in NewOrderRequest, NEW evs \in Seq(Event), OfTheBook(evs),
         modifying => book_changed(evs),
         book_changed(evs) <=> book_changed(events), pc # "idle" \/ ~book_changed(events),
         pc \in {"idle", "resubmit"},
         handle_new_order(req, new_order_reason(req), evs)
  PROVE  ReportIsOpen' /\ ReaderIsCurrent'
<1>1. modifying \in BOOLEAN /\ next_sequence_number \in Nat
  BY DEF IInv, TypeOK, HandlerTypeOK
<1>2. /\ ReportIsOpen'
      /\ book_changed(events') <=> book_changed(evs)
      /\ pc' \in {"matching", "returned"}
  BY <1>1, LadderReasons, NewOrderReports
<1>3. NextArrival' = next_sequence_number /\ NextArrival = next_sequence_number
  BY DEF handle_new_order, Return, NextArrival
<1> QED BY <1>2, <1>3, NothingNew

\* An order that the reader was told of and that is gone, or shrank, differs.
LEMMA ShrunkDiffers ==
  ASSUME IInv, ReaderIsCurrent, NEW id \in OrderIds, Shrunk(id)
  PROVE  announced_orders[id] # resting_orders[id]
<1>1. announced_orders[id] \in Order /\ resting_orders[id] \in Order
  BY RestingTypes DEF ReaderIsCurrent
<1>2. \/ resting_orders[id] = NoOrder /\ announced_orders[id] # NoOrder
      \/ resting_orders[id].remaining_quantity < announced_orders[id].remaining_quantity
  BY DEF Shrunk
<1>3. CASE resting_orders[id].remaining_quantity < announced_orders[id].remaining_quantity
  BY <1>1, <1>3 DEF Order
<1> QED BY <1>2, <1>3

\* A step that takes an order out of the book, or from its quantity, and reports it.
LEMMA OrderShrinks ==
  ASSUME IInv, IInv', ReportIsOpen, ReaderIsCurrent, UNCHANGED readerVars,
         pc # "returned", NEW id0 \in OrderIds, contains_order(id0),
         \/ resting_orders'[id0] = NoOrder
         \/ resting_orders'[id0].remaining_quantity < resting_orders[id0].remaining_quantity,
         \A id \in OrderIds \ {id0} : resting_orders'[id] = resting_orders[id],
         book_changed(events'), NextArrival' = NextArrival
  PROVE  ReaderIsCurrent'
<1>1. announced_orders' = announced_orders /\ announced_top' = announced_top
  BY DEF readerVars
<1>2. /\ announced_orders \in [OrderIds -> Order]
      /\ \A id \in OrderIds : announced_orders[id].sequence_number < NextArrival
  BY DEF ReaderIsCurrent
<1>3. /\ resting_orders \in [OrderIds -> Order] /\ resting_orders[id0] # NoOrder
      /\ resting_orders' \in [OrderIds -> Order]
  <2>1. (resting_orders \in [OrderIds -> Order])'
    BY RestingTyped, PTL
  <2> QED BY <2>1, RestingTypes
<1>4. \E id \in OrderIds : Shrunk(id)'
  <2>1. CASE ~book_changed(events)
    <3>1. announced_orders = resting_orders
      BY <2>1 DEF ReaderIsCurrent
    <3>2. Shrunk(id0)'
      BY <1>1, <1>3, <3>1 DEF Shrunk
    <3> QED BY <3>2
  <2>2. CASE book_changed(events)
    <3>1. PICK id \in OrderIds : Shrunk(id)
      <4>1. pc \in {"resubmit", "matching"}
        BY <2>2, EmptyReport DEF IInv, TypeOK, HandlerTypeOK, ReportIsOpen
      <4> QED BY <2>2, <4>1 DEF ReaderIsCurrent
    <3>2. CASE id # id0
      <4>1. Shrunk(id)'
        BY <1>1, <3>1, <3>2 DEF Shrunk
      <4> QED BY <4>1
    <3>3. CASE id = id0
      <4>1. /\ announced_orders[id0] # NoOrder
            /\ resting_orders[id0].remaining_quantity < announced_orders[id0].remaining_quantity
        BY <1>3, <3>1, <3>3 DEF Shrunk
      <4>2. /\ resting_orders[id0].remaining_quantity \in Nat
            /\ resting_orders'[id0].remaining_quantity \in Nat
            /\ announced_orders[id0].remaining_quantity \in Nat
        BY <1>2, <1>3 DEF Order
      <4>3. Shrunk(id0)'
        BY <1>1, <4>1, <4>2 DEF Shrunk
      <4> QED BY <4>3
    <3> QED BY <3>2, <3>3
  <2> QED BY <2>1, <2>2
<1>5. PICK id \in OrderIds : Shrunk(id)'
  BY <1>4
<1>6. announced_orders'[id] # resting_orders'[id]
  <2>1. announced_orders'[id] \in Order /\ resting_orders'[id] \in Order
    BY <1>1, <1>2, <1>3
  <2> QED BY <1>5, <2>1 DEF Shrunk, Order
<1>7. book_changed(events)'
  BY DEF book_changed
<1> QED BY <1>1, <1>2, <1>4, <1>6, <1>7 DEF ReaderIsCurrent

LEMMA CancelReader ==
  ASSUME IInv, IInv', ReportIsOpen, ReaderIsCurrent, UNCHANGED readerVars, pc = "idle",
         NEW req \in CancelOrderRequest, req.order_id \in OrderIds, CancelStorage(req),
         events' = <<cancel_event(req)>>, pc' # "matching", UNCHANGED next_sequence_number,
         pc' \in {"resubmit", "matching"} => cancel_order_reason(req) = "None"
  PROVE  /\ ReaderIsCurrent'
         /\ events' # <<>> /\ OfTheBook(events')
         /\ cancel_order_reason(req) = "None" => book_changed(events')
<1>1. NextArrival' = NextArrival
  BY DEF NextArrival
<1>2. cancel_event(req) \in Event /\ events = <<>>
  BY CancelStorageStep DEF ReportIsOpen
<1>3. CASE cancel_order_reason(req) = "None"
  <2>1. /\ contains_order(req.order_id)
        /\ resting_orders' = [resting_orders EXCEPT ![req.order_id] = NoOrder]
    BY <1>3, CancelForgets DEF PriceTime!Forget, PriceTime!NoOrder, NoOrder, cancel_order_reason
  <2>2. resting_orders \in [OrderIds -> Order]
    BY RestingTypes
  <2>3. /\ resting_orders'[req.order_id] = NoOrder
        /\ \A id \in OrderIds \ {req.order_id} : resting_orders'[id] = resting_orders[id]
    BY <2>1, <2>2
  <2>4. cancel_event(req).event_type = "OrderCancelled"
    BY <1>3, EventNames DEF cancel_event
  <2>5. events' # <<>> /\ OfTheBook(events') /\ book_changed(events')
    BY <1>2, <2>4, SingleReport DEF event_changes_book
  <2> QED BY <1>1, <2>1, <2>3, <2>5, OrderShrinks
<1>4. CASE cancel_order_reason(req) # "None"
  <2>1. cancel_event(req).event_type = "OrderRejected"
    BY <1>4, EventNames DEF cancel_event
  <2>2. events' # <<>> /\ OfTheBook(events') /\ ~book_changed(events')
    BY <1>2, <2>1, SingleReport DEF event_changes_book
  <2>3. UNCHANGED bookVars
    BY <1>4 DEF CancelStorage
  <2>4. ~book_changed(events)
    BY <1>2, EmptyReport
  <2>5. ReaderIsCurrent'
    BY <1>1, <2>2, <2>3, <2>4, NothingNew
  <2> QED BY <1>4, <2>2, <2>5
<1> QED BY <1>3, <1>4

-----------------------------------------------------------------------------
(***************************************************************************)
(* The steps of the book.                                                  *)
(***************************************************************************)
LEMMA SubmitNewReader ==
  ASSUME IInv, ReportIsOpen, ReaderIsCurrent, UNCHANGED readerVars,
         NEW req \in NewOrderRequests, SubmitNew(req)
  PROVE  ReportIsOpen' /\ ReaderIsCurrent'
<1>1. req \in NewOrderRequest /\ <<>> \in Seq(Event)
  BY HandlerAssumption
<1>2. pc = "idle" /\ events = <<>> /\ ~modifying
  BY DEF SubmitNew, Ready, ReportIsOpen
<1>3. handle_new_order(req, new_order_reason(req), <<>>) /\ UNCHANGED bookVars
  BY DEF SubmitNew
<1> QED BY <1>1, <1>2, <1>3, EmptyReport, NewOrderReader

LEMMA ResubmitReader ==
  ASSUME IInv, ReportIsOpen, ReaderIsCurrent, UNCHANGED readerVars, Resubmit
  PROVE  ReportIsOpen' /\ ReaderIsCurrent'
<1>1. new_req \in NewOrderRequest /\ events \in Seq(Event)
  BY DEF IInv, TypeOK, HandlerTypeOK
<1>2. OfTheBook(events) /\ (modifying => book_changed(events)) /\ pc = "resubmit"
  BY DEF ReportIsOpen, OfTheBook, Resubmit
<1>3. handle_new_order(new_req, new_order_reason(new_req), events) /\ UNCHANGED bookVars
  BY DEF Resubmit
<1> QED BY <1>1, <1>2, <1>3, NewOrderReader

LEMMA SubmitCancelReader ==
  ASSUME IInv, IInv', ReportIsOpen, ReaderIsCurrent, UNCHANGED readerVars,
         NEW req \in CancelOrderRequests, SubmitCancel(req)
  PROVE  ReportIsOpen' /\ ReaderIsCurrent'
<1>1. req \in CancelOrderRequest /\ req.order_id \in OrderIds
  BY HandlerAssumption
<1>2. /\ pc = "idle" /\ CancelStorage(req) /\ events' = <<cancel_event(req)>>
      /\ pc' = "returned" /\ UNCHANGED <<next_sequence_number, modifying>>
  BY DEF SubmitCancel, Answer
<1>3. ReaderIsCurrent' /\ events' # <<>> /\ OfTheBook(events')
  BY <1>1, <1>2, CancelReader
<1>4. ~modifying'
  BY <1>2 DEF ReportIsOpen
<1> QED BY <1>2, <1>3, <1>4 DEF ReportIsOpen, OfTheBook

LEMMA SubmitModifyReader ==
  ASSUME IInv, IInv', ReportIsOpen, ReaderIsCurrent, UNCHANGED readerVars,
         NEW req \in ModifyOrderRequests, SubmitModify(req)
  PROVE  ReportIsOpen' /\ ReaderIsCurrent'
<1>1. req \in ModifyOrderRequest /\ req.order_id \in OrderIds
  BY HandlerAssumption
<1>2. pc = "idle" /\ events = <<>> /\ ~modifying /\ ~book_changed(events)
  BY EmptyReport DEF SubmitModify, Ready, ReportIsOpen
<1>3. CASE modify_order_reason(req) # "None"
  <2>a. PICK e : e = ModifyRejected(req, modify_order_reason(req))
    OBVIOUS
  <2>1. e \in Event /\ e.event_type = "OrderRejected"
    BY <1>1, <2>a, LadderReasons, RejectionTypes, EventNames
  <2>2. events' # <<>> /\ OfTheBook(events') /\ ~book_changed(events')
    BY <1>3, <2>a, <2>1, SingleReport DEF SubmitModify, Answer, event_changes_book
  <2>3. /\ pc' = "returned" /\ UNCHANGED <<next_sequence_number, modifying>>
        /\ UNCHANGED bookVars
    BY <1>3 DEF SubmitModify, Answer
  <2>4. NextArrival' = NextArrival
    BY <1>2, <2>3 DEF NextArrival
  <2>5. ReaderIsCurrent'
    BY <1>2, <2>2, <2>3, <2>4, NothingNew
  <2> QED BY <1>2, <2>2, <2>3, <2>5 DEF ReportIsOpen, OfTheBook
<1>4. CASE modify_order_reason(req) = "None"
  <2>a. PICK cancel_req : cancel_req = [order_id |-> req.order_id]
    OBVIOUS
  <2>1. /\ BeginModify(req, order[lookup[req.order_id]], cancel_event(cancel_req))
        /\ CancelStorage(cancel_req)
    BY <1>4, <2>a DEF SubmitModify
  <2>2. req.order_id # 0 /\ contains_order(req.order_id)
    BY <1>4 DEF modify_order_reason, is_valid_modify_order_request
  <2>3. cancel_order_reason(cancel_req) = "None"
    BY <1>1, <2>a, <2>2, CancelIsNeverRefusedInside
  <2>4. cancel_req \in CancelOrderRequest /\ cancel_req.order_id \in OrderIds
    BY <1>1, <2>a DEF CancelOrderRequest, ModifyOrderRequest
  <2>5. /\ events' = <<cancel_event(cancel_req)>> /\ pc' = "resubmit"
        /\ UNCHANGED next_sequence_number
    BY <2>1 DEF BeginModify
  <2>6. /\ ReaderIsCurrent' /\ events' # <<>> /\ OfTheBook(events')
        /\ book_changed(events')
    BY <1>2, <2>1, <2>3, <2>4, <2>5, CancelReader
  <2> QED BY <2>5, <2>6 DEF ReportIsOpen, OfTheBook, book_changed
<1> QED BY <1>3, <1>4

\* One trade takes from one order at rest and leaves the others alone.
LEMMA MatchReader ==
  ASSUME IInv, IInv', ReportIsOpen, ReaderIsCurrent, UNCHANGED readerVars, pc = "matching",
         NEW s \in BookSides, s = Opposite(incoming.side), CanMatch(s), MatchFront(s)
  PROVE  ReportIsOpen' /\ ReaderIsCurrent'
<1>1. PICK id0 \in OrderIds : PriceTime!Match(id0)
  BY MatchImplements
<1>a. PICK o : o = resting_orders[id0]
  OBVIOUS
<1>b. PICK qty : qty = trade_qty(o)
  OBVIOUS
<1>2. /\ contains_order(id0) /\ o \in Order /\ resting_orders \in [OrderIds -> Order]
      /\ o.remaining_quantity > 0
  <2>1. PriceTime!contains_order(id0)
    BY <1>1 DEF PriceTime!Match, PriceTime!IsFront, PriceTime!RestingOn
  <2>2. contains_order(id0)
    BY <2>1, RestingOrder
  <2>3. o = order[lookup[id0]] /\ lookup[id0] \in in_use
    BY <1>a, <2>2, RestingOrder
  <2> QED BY <1>a, <2>2, <2>3, RestingTypes DEF IInv, BookIsSound, OrdersAreSound
<1>3. /\ TradeWith(o) /\ incoming.remaining_quantity > 0
      /\ IF o.remaining_quantity = qty
         THEN resting_orders' = [resting_orders EXCEPT ![id0] = NoOrder]
         ELSE resting_orders' = [resting_orders EXCEPT ![id0].remaining_quantity = @ - qty,
                                                ![id0].order_status = "PartiallyFilled"]
  BY <1>1, <1>a, <1>b, SameMatching
  DEF PriceTime!Match, PriceTime!Forget, PriceTime!NoOrder, NoOrder
<1>4. qty \in Nat /\ qty > 0
  BY <1>2, <1>3, <1>b DEF trade_qty, Order, IInv, TypeOK, HandlerTypeOK
<1>5. /\ \A id \in OrderIds \ {id0} : resting_orders'[id] = resting_orders[id]
      /\ \/ resting_orders'[id0] = NoOrder
         \/ resting_orders'[id0].remaining_quantity < resting_orders[id0].remaining_quantity
  <2>1. CASE o.remaining_quantity = qty
    BY <1>2, <1>3, <2>1
  <2>2. CASE o.remaining_quantity # qty
    <3>1. resting_orders'[id0] = [o EXCEPT !.remaining_quantity = @ - qty,
                                           !.order_status = "PartiallyFilled"]
      BY <1>2, <1>3, <1>a, <2>2
    <3>2. resting_orders'[id0].remaining_quantity = o.remaining_quantity - qty
      BY <1>2, <3>1 DEF Order
    <3>3. o.remaining_quantity \in Nat
      BY <1>2 DEF Order
    <3>4. \A id \in OrderIds \ {id0} : resting_orders'[id] = resting_orders[id]
      BY <1>2, <1>3, <2>2
    <3> QED BY <1>4, <1>a, <3>2, <3>3, <3>4
  <2> QED BY <2>1, <2>2
<1>6. /\ events' # <<>> /\ OfTheBook(events') /\ book_changed(events')
  <2>1. Trade(o, qty) \in Event /\ Trade(o, qty).event_type = "Trade"
    BY <1>2, <1>4, TradeType, EventNames DEF IInv, TypeOK
  <2>2. events \in Seq(Event) /\ OfTheBook(events)
    BY DEF IInv, TypeOK, HandlerTypeOK, ReportIsOpen, OfTheBook
  <2>3. events' = Append(events, Trade(o, qty))
    BY <1>3, <1>b DEF TradeWith
  <2> QED BY <2>1, <2>2, <2>3, LongerReport DEF event_changes_book
<1>7. pc' = pc /\ modifying' = modifying /\ NextArrival' = NextArrival
  <2>1. incoming'.sequence_number = incoming.sequence_number
    BY <1>3 DEF TradeWith, IInv, TypeOK, HandlerTypeOK, Order
  <2> QED BY <1>3, <2>1 DEF TradeWith, NextArrival
<1>8. ReaderIsCurrent'
  BY <1>2, <1>5, <1>6, <1>7, OrderShrinks
<1> QED BY <1>6, <1>7, <1>8 DEF ReportIsOpen, OfTheBook, book_changed

\* What an order leaves behind arrived after everything that the reader was told of.
LEMMA AddRestingOrderReader ==
  ASSUME IInv, IInv', ReportIsOpen, ReaderIsCurrent, UNCHANGED readerVars, add_resting_order
  PROVE  ReportIsOpen' /\ ReaderIsCurrent'
<1>a. PICK id0 : id0 = incoming.order_id
  OBVIOUS
<1>b. PICK app : app = Append(events, OrderRested(incoming))
  OBVIOUS
<1>c. PICK o : o = [incoming EXCEPT !.order_status = "Resting"]
  OBVIOUS
<1>1. /\ pc = "matching" /\ id0 \in OrderIds /\ incoming \in Order
      /\ incoming.sequence_number < next_sequence_number /\ next_sequence_number \in Nat
      /\ new_req \in NewOrderRequest /\ events \in Seq(Event)
  BY <1>a DEF add_resting_order, MatchingDone, IInv, CallIsSound, TypeOK, HandlerTypeOK
<1>2. /\ resting_orders' = [resting_orders EXCEPT ![id0] = o]
      /\ resting_orders \in [OrderIds -> Order]
  BY <1>a, <1>c, AddRestingOrderImplements, RestingTypes DEF PriceTime!Rest
<1>3. Return(new_req, app) /\ UNCHANGED next_sequence_number
  BY <1>b DEF add_resting_order, IInv, CallIsSound, MatchingDone
<1>4. /\ app \in Seq(Event) /\ app # <<>> /\ OfTheBook(app) /\ book_changed(app)
  <2>1. /\ OrderRested(incoming) \in Event
        /\ OrderRested(incoming).event_type = "OrderRested"
    BY <1>1, OrderEventTypes, EventNames
  <2>2. OfTheBook(events)
    BY DEF ReportIsOpen, OfTheBook
  <2> QED BY <1>1, <1>b, <2>1, <2>2, LongerReport DEF event_changes_book
<1>5. ReportIsOpen' /\ book_changed(events')
  BY <1>1, <1>3, <1>4, ReturnReports
<1>6. announced_orders' # resting_orders'
  <2>1. resting_orders'[id0].sequence_number = incoming.sequence_number
    BY <1>1, <1>2, <1>c DEF Order
  <2>2. /\ announced_orders[id0].sequence_number < incoming.sequence_number
        /\ announced_orders[id0] \in Order
    BY <1>1 DEF ReaderIsCurrent, NextArrival
  <2>3. announced_orders[id0].sequence_number # incoming.sequence_number
    BY <1>1, <2>2 DEF Order
  <2>4. announced_orders' = announced_orders
    BY DEF readerVars
  <2> QED BY <2>1, <2>3, <2>4
<1>7. \A id \in OrderIds : announced_orders'[id].sequence_number < NextArrival'
  <2>1. pc' = "returned"
    BY <1>3 DEF Return
  <2>2. NextArrival' = next_sequence_number /\ NextArrival = incoming.sequence_number
    BY <1>1, <1>3, <2>1 DEF NextArrival
  <2>3. \A id \in OrderIds : /\ announced_orders[id] \in Order
                            /\ announced_orders[id].sequence_number < incoming.sequence_number
    BY <2>2 DEF ReaderIsCurrent
  <2>4. \A id \in OrderIds : announced_orders[id].sequence_number < next_sequence_number
    BY <1>1, <2>3 DEF Order
  <2> QED BY <2>2, <2>4 DEF readerVars
<1>8. announced_orders' \in [OrderIds -> Order] /\ pc' = "returned"
  BY <1>3 DEF ReaderIsCurrent, readerVars, Return
<1> QED BY <1>5, <1>6, <1>7, <1>8 DEF ReaderIsCurrent, book_changed

LEMMA NothingRestsReader ==
  ASSUME IInv, ReportIsOpen, ReaderIsCurrent, UNCHANGED readerVars, NothingRests
  PROVE  ReportIsOpen' /\ ReaderIsCurrent'
<1>a. PICK evs : evs = IF incoming.remaining_quantity = 0 THEN events
                       ELSE Append(events, UnfilledMarketOrderCancelled(incoming))
  OBVIOUS
<1>1. /\ pc = "matching" /\ UNCHANGED bookVars
      /\ incoming \in Order /\ new_req \in NewOrderRequest /\ events \in Seq(Event)
      /\ incoming.sequence_number < next_sequence_number /\ next_sequence_number \in Nat
  BY DEF NothingRests, MatchingDone, IInv, CallIsSound, TypeOK, HandlerTypeOK
<1>2. Return(new_req, evs) /\ UNCHANGED next_sequence_number
  BY <1>a DEF NothingRests, FinishWithoutResting
<1>3. /\ evs \in Seq(Event) /\ evs # <<>> /\ OfTheBook(evs)
      /\ book_changed(evs) <=> book_changed(events)
  <2>1. events # <<>> /\ OfTheBook(events)
    BY <1>1 DEF ReportIsOpen, OfTheBook
  <2>2. /\ UnfilledMarketOrderCancelled(incoming) \in Event
        /\ UnfilledMarketOrderCancelled(incoming).event_type = "UnfilledMarketOrderCancelled"
    BY <1>1, OrderEventTypes, EventNames
  <2>3. CASE incoming.remaining_quantity = 0
    BY <1>1, <1>a, <2>1, <2>3
  <2>4. CASE incoming.remaining_quantity # 0
    <3>1. evs = Append(events, UnfilledMarketOrderCancelled(incoming))
      BY <1>a, <2>4
    <3> QED BY <1>1, <2>1, <2>2, <3>1, LongerReport DEF event_changes_book
  <2> QED BY <2>3, <2>4
<1>4. /\ ReportIsOpen'
      /\ book_changed(events') <=> book_changed(events)
  <2>1. modifying => book_changed(evs)
    BY <1>3 DEF ReportIsOpen
  <2> QED BY <1>1, <1>2, <1>3, <2>1, ReturnReports
<1>5. pc' = "returned" /\ \A n \in Nat : n < NextArrival => n < NextArrival'
  <2>1. pc' = "returned"
    BY <1>2 DEF Return
  <2>2. NextArrival' = next_sequence_number /\ NextArrival = incoming.sequence_number
    BY <1>1, <1>2, <2>1 DEF NextArrival
  <2>3. incoming.sequence_number \in Nat
    BY <1>1 DEF Order
  <2> QED BY <1>1, <2>1, <2>2, <2>3
<1>6. ReaderIsCurrent'
  BY <1>1, <1>4, <1>5, NothingNew
<1> QED BY <1>4, <1>6

-----------------------------------------------------------------------------
(***************************************************************************)
(* The reader.                                                             *)
(***************************************************************************)
LEMMA ReadReader ==
  ASSUME IInv, EngineTypeOK, ReportIsOpen, ReaderIsCurrent, Read
  PROVE  ReportIsOpen' /\ ReaderIsCurrent'
<1>1. /\ pc = "returned" /\ Publish(top_of_book) /\ Collect /\ UNCHANGED bookVars
      /\ pc' = "idle" /\ events' = <<>> /\ UNCHANGED <<next_sequence_number, modifying>>
  BY DEF Read, ReadWith, Publish, Collect
<1>2. ReportIsOpen'
  <2>1. DOMAIN <<>> = {}
    OBVIOUS
  <2> QED BY <1>1, <2>1 DEF ReportIsOpen
<1>3. /\ Announces <=> book_changed(events)
      /\ Announces => published'[Len(published')].top = top_of_book
  BY <1>1, PublishedEvents
<1>4. announced_orders' = resting_orders /\ announced_top' = top_of_book
  BY <1>3 DEF Read, ReadWith, readerVars, ReaderIsCurrent
<1>5. resting_orders' = resting_orders /\ top_of_book' = top_of_book
  BY <1>1, SameBookSameOrders, SameBookSameTop
<1>6. ~book_changed(events)'
  BY <1>1, EmptyReport DEF book_changed
<1>7. NextArrival' = next_sequence_number
  BY <1>1 DEF NextArrival
<1> QED BY <1>2, <1>4, <1>5, <1>6, <1>7, RestingTypes DEF ReaderIsCurrent

\* A BookUpdated event tells of a change.
LEMMA UpdateTells ==
  ASSUME IInv, EngineTypeOK, ReportIsOpen, ReaderIsCurrent, Read, Announces
  PROVE  announced_orders # resting_orders
<1>1. pc = "returned" /\ Publish(top_of_book)
  BY DEF Read, ReadWith, Publish, Collect
<1>2. book_changed(events)
  BY <1>1, PublishedEvents
<1> QED BY <1>2 DEF ReaderIsCurrent

LEMMA ReaderStutter ==
  ASSUME ReportIsOpen, ReaderIsCurrent, UNCHANGED readVars
  PROVE  ReportIsOpen' /\ ReaderIsCurrent'
<1>1. /\ UNCHANGED bookVars /\ UNCHANGED readerVars /\ UNCHANGED handlerVars
  BY DEF readVars, marketVars
<1>2. NextArrival' = NextArrival
  BY <1>1 DEF handlerVars, NextArrival
<1>3. ReaderIsCurrent'
  BY <1>1, <1>2, NothingNew DEF handlerVars
<1> QED BY <1>1, <1>3 DEF ReportIsOpen, handlerVars, book_changed

LEMMA ReaderStep ==
  ASSUME IInv, IInv', EngineTypeOK, ReportIsOpen, ReaderIsCurrent, [ReaderNext]_readVars
  PROVE  ReportIsOpen' /\ ReaderIsCurrent'
<1>1. ASSUME NEW req \in NewOrderRequests, ProcessNew(req), UNCHANGED readerVars
      PROVE  ReportIsOpen' /\ ReaderIsCurrent'
  BY <1>1, SubmitNewReader DEF ProcessNew
<1>2. ASSUME NEW req \in ModifyOrderRequests, ProcessModify(req), UNCHANGED readerVars
      PROVE  ReportIsOpen' /\ ReaderIsCurrent'
  BY <1>2, SubmitModifyReader DEF ProcessModify
<1>3. ASSUME NEW req \in CancelOrderRequests, ProcessCancel(req), UNCHANGED readerVars
      PROVE  ReportIsOpen' /\ ReaderIsCurrent'
  BY <1>3, SubmitCancelReader DEF ProcessCancel
<1>4. CASE Resubmit /\ UNCHANGED readerVars
  BY <1>4, ResubmitReader
<1>5. CASE match_buy /\ UNCHANGED readerVars
  BY <1>5, MatchReader, NoEmptyLevelIsMatched DEF BookSides, Opposite
<1>6. CASE match_sell /\ UNCHANGED readerVars
  BY <1>6, MatchReader, NoEmptyLevelIsMatched DEF BookSides, Opposite
<1>7. CASE add_resting_order /\ UNCHANGED readerVars
  BY <1>7, AddRestingOrderReader
<1>8. CASE NothingRests /\ UNCHANGED readerVars
  BY <1>8, NothingRestsReader
<1>9. CASE Read
  BY <1>9, ReadReader
<1>10. CASE UNCHANGED readVars
  BY <1>10, ReaderStutter
<1> QED BY <1>1, <1>2, <1>3, <1>4, <1>5, <1>6, <1>7, <1>8, <1>9, <1>10
  DEF ReaderNext, InsideSubmit

-----------------------------------------------------------------------------
(***************************************************************************)
(* The top of the book, by the caches and by the orders.                   *)
(***************************************************************************)
LEMMA TopIsTrue ==
  ASSUME IInv, TotalQuantityIsExact
  PROVE  top_of_book = TrueTop(resting_orders)
<1>1. ASSUME NEW s \in BookSides
      PROVE  /\ On(resting_orders, s) # {} <=> best[s] # invalid_level
             /\ best[s] # invalid_level =>
                  /\ level_index_to_price(best[s]) =
                       IF s = "Buy" THEN Max(PricesOn(resting_orders, s))
                                    ELSE Min(PricesOn(resting_orders, s))
                  /\ total_quantity[s][best[s]] =
                       QuantityAt(resting_orders, s, level_index_to_price(best[s]))
             /\ best[s] = invalid_level => QuantityAt(resting_orders, s, 0) = 0
  <2>a. PICK P : P = PricesOn(resting_orders, s)
    OBVIOUS
  <2>b. PICK b : b = level_index_to_price(best[s])
    OBVIOUS
  <2>1. /\ On(resting_orders, s) # {} <=> best[s] # invalid_level
        /\ best[s] # invalid_level =>
             /\ best[s] \in Levels /\ b \in P
             /\ \A p \in P : /\ p \in 0 .. MaxPrice
                             /\ IF s = "Buy" THEN p <= b ELSE b <= p
    BY <2>a, <2>b, BestOfOrders
  <2>2. ASSUME best[s] # invalid_level
        PROVE  b = IF s = "Buy" THEN Max(P) ELSE Min(P)
    <3>1. P \in SUBSET (0 .. MaxPrice) /\ P # {} /\ MaxPrice \in Nat /\ P \in SUBSET Nat
      BY <2>1, <2>2, LadderAssumption
    <3>2. CASE s = "Buy"
      <4>1. Max(P) \in P /\ \A y \in P : Max(P) >= y
        BY <3>1, MaxInSet
      <4>2. Max(P) >= b /\ Max(P) <= b /\ Max(P) \in Nat /\ b \in Nat
        BY <2>1, <2>2, <3>1, <3>2, <4>1
      <4> QED BY <3>2, <4>2
    <3>3. CASE s # "Buy"
      <4>1. Min(P) \in P /\ \A y \in P : Min(P) <= y
        BY <3>1, MinInSet
      <4>2. Min(P) >= b /\ Min(P) <= b /\ Min(P) \in Nat /\ b \in Nat
        BY <2>1, <2>2, <3>1, <3>3, <4>1
      <4> QED BY <3>3, <4>2
    <3> QED BY <3>2, <3>3
  <2>3. ASSUME best[s] # invalid_level
        PROVE  total_quantity[s][best[s]] = QuantityAt(resting_orders, s, b)
    BY <2>1, <2>3, <2>b, QuantityOfLevel DEF TotalQuantityIsExact, Quantity
  <2>4. ASSUME best[s] = invalid_level PROVE QuantityAt(resting_orders, s, 0) = 0
    <3>1. {id \in On(resting_orders, s) : resting_orders[id].price = 0} = {}
      BY <2>1, <2>4
    <3> QED BY <3>1, SumEmpty DEF QuantityAt
  <2> QED BY <2>1, <2>2, <2>3, <2>4, <2>a, <2>b
<1>2. "Buy" \in BookSides /\ "Sell" \in BookSides /\ "Sell" # "Buy"
  BY DEF BookSides
<1>a. PICK bb : bb = best["Buy"]
  OBVIOUS
<1>b. PICK ba : ba = best["Sell"]
  OBVIOUS
<1>3. /\ On(resting_orders, "Buy") # {} <=> bb # invalid_level
      /\ bb # invalid_level =>
           /\ level_index_to_price(bb) = Max(PricesOn(resting_orders, "Buy"))
           /\ total_quantity["Buy"][bb] =
                QuantityAt(resting_orders, "Buy", level_index_to_price(bb))
      /\ bb = invalid_level => QuantityAt(resting_orders, "Buy", 0) = 0
  BY <1>1, <1>2, <1>a
<1>4. /\ On(resting_orders, "Sell") # {} <=> ba # invalid_level
      /\ ba # invalid_level =>
           /\ level_index_to_price(ba) = Min(PricesOn(resting_orders, "Sell"))
           /\ total_quantity["Sell"][ba] =
                QuantityAt(resting_orders, "Sell", level_index_to_price(ba))
      /\ ba = invalid_level => QuantityAt(resting_orders, "Sell", 0) = 0
  BY <1>1, <1>2, <1>b
<1> QED BY <1>3, <1>4, <1>a, <1>b DEF TrueTop, top_of_book

-----------------------------------------------------------------------------
(***************************************************************************)
(* The theorems.                                                           *)
(***************************************************************************)
LEMMA InitialEngine == InitRead => EngineInv /\ IInv
<1> SUFFICES ASSUME InitRead PROVE EngineInv /\ IInv
  OBVIOUS
<1>1. IInv /\ ReadTypeOK
  <2>1. IInv
    BY InitIsSound DEF InitRead
  <2>2. <<>> \in Seq(EngineEvent)
    OBVIOUS
  <2>3. EngineTypeOK
    BY <2>2, NoRequestType DEF InitRead, ReaderInit, EngineInit, EngineTypeOK
  <2> QED BY <2>1, <2>3 DEF ReadTypeOK, IInv
<1>2. /\ pc = "idle" /\ events = <<>> /\ ~modifying /\ next_sequence_number = 1
      /\ published = <<>> /\ next_input_sequence_number = 1
      /\ announced_top = NoTop /\ announced_orders = EmptyBook
  BY DEF InitRead, Init, HandlerInit, ReaderInit, EngineInit
<1>3. ReportIsOpen
  BY <1>2, EmptyReport DEF ReportIsOpen, OfTheBook
<1>4. resting_orders = EmptyBook
  BY DEF InitRead, Init, resting_orders, contains_order, EmptyBook
<1>5. top_of_book = NoTop
  BY DEF InitRead, Init, top_of_book, NoTop, BookSides
<1>6. ReaderIsCurrent
  <2>1. NextArrival = 1 /\ NoOrder.sequence_number = 0 /\ NoOrder \in Order
    BY <1>2, NoRequestType DEF NextArrival, NoOrder
  <2>2. \A id \in OrderIds : announced_orders[id] = NoOrder
    BY <1>2 DEF EmptyBook
  <2>3. announced_orders \in [OrderIds -> Order]
    BY <1>2, <2>1 DEF EmptyBook
  <2> QED BY <1>2, <1>4, <1>5, <2>1, <2>2, <2>3, EmptyReport DEF ReaderIsCurrent
<1>7. NumbersAreConsecutive
  BY <1>2 DEF NumbersAreConsecutive, LastNumber
<1> QED BY <1>1, <1>3, <1>6, <1>7 DEF EngineInv

LEMMA EngineStep == IInv /\ IInv' /\ EngineInv /\ [ReaderNext]_readVars => EngineInv'
<1> SUFFICES ASSUME IInv, IInv', EngineInv, [ReaderNext]_readVars PROVE EngineInv'
  OBVIOUS
<1>1. EngineTypeOK /\ ReportIsOpen /\ ReaderIsCurrent /\ NumbersAreConsecutive
  BY DEF EngineInv, ReadTypeOK
<1>2. EngineTypeOK'
  BY <1>1, EngineTypeStep
<1>3. ReportIsOpen' /\ ReaderIsCurrent'
  BY <1>1, ReaderStep
<1>4. NumbersAreConsecutive'
  BY <1>1, NumbersStep
<1>5. TypeOK'
  BY DEF IInv
<1> QED BY <1>2, <1>3, <1>4, <1>5 DEF EngineInv, ReadTypeOK

\* The engine's invariant: what is known of the report, the reader and the numbers.
THEOREM EngineSoundness == ReaderSpec => [](IInv /\ EngineInv)
<1>1. ReaderSpec => []IInv
  BY EngineRunsTheBook, Soundness, PTL
<1>2. InitRead => EngineInv
  BY InitialEngine
<1>3. IInv /\ IInv' /\ EngineInv /\ [ReaderNext]_readVars => EngineInv'
  BY EngineStep
<1> QED BY <1>1, <1>2, <1>3, PTL DEF ReaderSpec

\* The engine's state, and every event that it publishes, are well typed: the symbol
\* that infer_symbol_id finds and the optional prices and quantities of BookUpdated.
THEOREM EngineTypes == ReaderSpec => []ReadTypeOK
<1>1. EngineInv => ReadTypeOK
  BY DEF EngineInv
<1> QED BY <1>1, EngineSoundness, PTL

\* No call changes what rests without a BookUpdated, whatever events it reports:
\* event_changes_book forgets no event that can come alone.
THEOREM NothingUnannounced == ReaderSpec => []NothingGoesUnannounced
<1>1. EngineInv => NothingGoesUnannounced
  BY EmptyReport DEF EngineInv, ReportIsOpen, ReaderIsCurrent, NothingGoesUnannounced
<1> QED BY <1>1, EngineSoundness, PTL

\* A BookUpdated is published only for a call after which other orders rest than
\* before: what one event took away no later event of the call brings back.
THEOREM UpdatesTell == ReaderSpec => UpdatesTellOfAChange
<1>1. IInv /\ EngineInv => (Read /\ Announces => announced_orders # resting_orders)
  BY UpdateTells DEF EngineInv, ReadTypeOK
<1> QED BY <1>1, EngineSoundness, PTL DEF UpdatesTellOfAChange

\* All events of one process() call carry its number, BookUpdated included, and the
\* numbers of consecutive calls are consecutive.
THEOREM EventsAreNumbered == ReaderSpec => EventsAreNumberedByCall
<1>1. IInv /\ EngineInv /\ [ReaderNext]_readVars =>
        [pc = "returned" /\ pc' = "idle" => \A i \in DOMAIN published' :
           published'[i].input_sequence_number =
             IF published = <<>> THEN 1
             ELSE published[1].input_sequence_number + 1]_marketVars
  <2> SUFFICES ASSUME IInv, EngineInv, ReaderNext \/ UNCHANGED readVars,
                      pc = "returned", pc' = "idle", NEW i \in DOMAIN published'
               PROVE  published'[i].input_sequence_number =
                        IF published = <<>> THEN 1
                        ELSE published[1].input_sequence_number + 1
    OBVIOUS
  <2>1. ReaderNext
    BY DEF readVars, marketVars, handlerVars
  <2> QED BY <2>1, NumberedByCall DEF EngineInv, ReadTypeOK
<1> QED BY <1>1, EngineSoundness, PTL DEF ReaderSpec, EventsAreNumberedByCall

\* The last BookUpdated tells the best prices and quantities of the orders that rest,
\* unless a level holds so many units that its 32-bit counter has wrapped.
THEOREM AnnouncedTop == ReaderSpec => [](LevelsFit => AnnouncedTopIsTrue)
<1>1. IInv /\ EngineInv /\ TotalsAreSums => (LevelsFit => AnnouncedTopIsTrue)
  <2> SUFFICES ASSUME IInv, EngineInv, TotalsAreSums, LevelsFit, pc = "idle"
               PROVE  announced_top = TrueTop(resting_orders)
    BY DEF AnnouncedTopIsTrue
  <2>1. announced_top = top_of_book
    BY EmptyReport DEF EngineInv, ReportIsOpen, ReaderIsCurrent
  <2> QED BY <2>1, TotalsAreExact, TopIsTrue
<1>2. ReaderSpec => []TotalsAreSums
  BY EngineRunsTheBook, LevelTotals, PTL
<1> QED BY <1>1, <1>2, EngineSoundness, PTL
=============================================================================
