------------------------- MODULE HandlerProperties -------------------------
(***************************************************************************)
(* What the events that one submit() call returns must say, whichever book *)
(* handled the request. The vector `events' is complete when pc is         *)
(* "returned"; while a call runs it holds the events pushed so far.        *)
(***************************************************************************)
EXTENDS OrderHandler, SequencesExt

Positions(evs, type) == {i \in DOMAIN evs : evs[i].event_type = type}

quantities(evs) == [i \in DOMAIN evs |-> evs[i].quantity]

Reported(evs, type) == SumFunctionOnSet(quantities(evs), Positions(evs, type))

\* What became of an accepted order by what the events say of it.
Accounted(evs) ==
  Reported(evs, "Trade") + Reported(evs, "OrderRested")
    + Reported(evs, "UnfilledMarketOrderCancelled")

Balanced(evs, unfilled) ==
  \A i \in Positions(evs, "OrderAccepted") : evs[i].quantity = Accounted(evs) + unfilled

\* Every unit of an accepted order's quantity is accounted for exactly once: it
\* traded, it rested, its market remainder was cancelled, or the call is still
\* matching it. (The arithmetic of match_buy, match_sell and the closing events.)
FillAccounting == Balanced(events, incoming.remaining_quantity)

\* Inductive with the type invariant: the account is opened by an empty report, or
\* by one that tells only of the order that a modify replaces.
AccountsBalance ==
  /\ FillAccounting
  /\ pc = "idle" => events = <<>>
  /\ pc = "resubmit" => \A i \in DOMAIN events : events[i].event_type = "OrderCancelled"

\* p is a worse price than q for an order that trades on this side.
Worse(side, p, q) == IF side = "Buy" THEN p > q ELSE p < q

TradesAreBestFirst(evs) ==
  \A i \in Positions(evs, "Trade") :
    /\ \A a \in Positions(evs, "OrderAccepted") :
         evs[a].order_type = "Limit" => ~Worse(evs[i].side, evs[i].price, evs[a].price)
    /\ \A j \in Positions(evs, "Trade") :
         j > i => /\ ~Worse(evs[i].side, evs[i].price, evs[j].price)
                  /\ evs[j].resting_order_id # evs[i].resting_order_id

\* Within one call the prices only get worse for the aggressive order, none is
\* beyond its limit, and it trades with each resting order at most once.
BestPriceFirst == TradesAreBestFirst(events)

ModifiesAreComplete(evs) ==
  \A m \in Positions(evs, "OrderModified") :
    /\ Positions(evs, "OrderRejected") = {}
    /\ \E c \in Positions(evs, "OrderCancelled"), a \in Positions(evs, "OrderAccepted") :
         /\ c < a /\ a < m
         /\ evs[c].order_id = evs[m].order_id
         /\ evs[a].order_id = evs[m].order_id
         /\ evs[a].side = evs[c].side
         /\ evs[a].quantity = evs[m].quantity

\* Modify is cancel plus new: once the old order is gone the new one is accepted,
\* so a call that reports a modification, or that is between the two halves of
\* one, never loses the order. (handle_modify_order ignores what the two calls do.)
ModifyNeverLosesOrder == ModifiesAreComplete(events)

RefusalsAreOfRequests(evs) ==
  \A i \in Positions(evs, "OrderRejected") :
    /\ evs[i].reason # "OrderNotFound"
    /\ evs[i].reason = "InvalidLimitPrice" => i = 1 /\ Len(evs) = 1

\* The reasons that only a corrupted book could give are never reported.
\* (remove_order and add_resting_order report them when their lookups fail.)
NoInternalFailure == RefusalsAreOfRequests(events)

\* Every iteration of the matching loop leaves less to match: the loop cannot
\* trade zero units with an order that it then fails to take out of the book.
MatchingMakesProgress ==
  [][pc = "matching" /\ pc' = "matching" =>
       incoming'.remaining_quantity < incoming.remaining_quantity]_handlerVars

-----------------------------------------------------------------------------
(***************************************************************************)
(* A reader of the events keeps its own copy of the book: per order the    *)
(* side, the price and the quantity that rests.                            *)
(***************************************************************************)
Nothing == [side |-> "Unknown", price |-> 0, quantity |-> 0]

Visible(o) ==
  IF o = NoOrder THEN Nothing
  ELSE [side |-> o.side, price |-> o.price, quantity |-> o.remaining_quantity]

Replay(copy, event) ==
  CASE event.event_type = "OrderRested" ->
         [copy EXCEPT ![event.order_id] =
            [side |-> event.side, price |-> event.price, quantity |-> event.quantity]]
    [] event.event_type = "OrderCancelled" -> [copy EXCEPT ![event.order_id] = Nothing]
    [] event.event_type = "Trade" ->
         [copy EXCEPT ![event.resting_order_id] =
            IF @.quantity = event.quantity THEN Nothing
            ELSE [side |-> @.side, price |-> @.price, quantity |-> @.quantity - event.quantity]]
    [] OTHER -> copy

\* The copy of a reader who knows what rests under each identifier.
CopyOf(resting) == [id \in OrderIds |-> Visible(resting[id])]

\* The events that a step adds to the report of the running call.
NewEvents == SubSeq(events', Len(events) + 1, Len(events'))

-----------------------------------------------------------------------------
(***************************************************************************)
(* What the orders at rest say themselves of a side of the book, without   *)
(* any cache: `resting' is the order that rests under each identifier,     *)
(* NoOrder where none does.                                                *)
(***************************************************************************)
On(resting, s) == {id \in OrderIds : resting[id].side = s}

PricesOn(resting, s) == {resting[id].price : id \in On(resting, s)}

QuantityAt(resting, s, p) ==
  SumFunctionOnSet([id \in OrderIds |-> resting[id].remaining_quantity],
                   {id \in On(resting, s) : resting[id].price = p})

-----------------------------------------------------------------------------
(***************************************************************************)
(* What one call answers.                                                  *)
(***************************************************************************)
HowMany(evs, type) == Cardinality(Positions(evs, type))

\* A running call has told of so many acceptances and cancellations, and perhaps
\* of trades.
SaidSoFar(evs, accepted, cancelled) ==
  /\ HowMany(evs, "OrderAccepted") = accepted
  /\ HowMany(evs, "OrderCancelled") = cancelled
  /\ \A type \in {"OrderRejected", "OrderModified", "OrderRested",
                  "UnfilledMarketOrderCancelled", "BookUpdated"} : HowMany(evs, type) = 0

ChangesBook(evs) ==
  \E type \in {"Trade", "OrderModified", "OrderCancelled", "OrderRested"} :
    HowMany(evs, type) > 0

\* The call took a market order into the book.
AcceptsMarket(evs) ==
  \E i \in Positions(evs, "OrderAccepted") : evs[i].order_type = "Market"

\* A request is accepted, refused or cancels, once, where a modify does two of these
\* and says so. What changes nothing is refused, unless it is an accepted market
\* order; what is accepted and finds no trade rests, or, as a market order, is
\* cancelled.
AnswersOnce(evs) ==
  /\ HowMany(evs, "OrderAccepted") + HowMany(evs, "OrderRejected")
       + HowMany(evs, "OrderCancelled") = 1 + HowMany(evs, "OrderModified")
  /\ HowMany(evs, "BookUpdated") = 0
  /\ HowMany(evs, "OrderRejected") =
       IF ChangesBook(evs) \/ AcceptsMarket(evs) THEN 0 ELSE 1
  /\ HowMany(evs, "Trade") = 0 =>
       HowMany(evs, IF AcceptsMarket(evs) THEN "UnfilledMarketOrderCancelled"
                    ELSE "OrderRested") = HowMany(evs, "OrderAccepted")

\* Every call that returns has given one answer to its request. (The early returns
\* of the three handlers, the two calls of handle_modify_order, the closing events.)
AnsweredOnce == pc = "returned" => AnswersOnce(events)

\* Inductive with the type invariant. `market' says whether the request may be a
\* market order.
AnswerIsComing(market) ==
  /\ pc = "idle" => events = <<>>
  /\ pc \in {"idle", "returned"} => ~modifying
  /\ pc \in {"resubmit", "matching"} => market \/ ~is_market
  /\ pc = "resubmit" =>
       modifying /\ SaidSoFar(events, 0, 1) /\ HowMany(events, "Trade") = 0
  /\ pc = "matching" =>
       /\ SaidSoFar(events, 1, IF modifying THEN 1 ELSE 0)
       /\ is_market <=> AcceptsMarket(events)
       /\ incoming.remaining_quantity = 0 => HowMany(events, "Trade") > 0
  /\ AnsweredOnce
  /\ pc = "returned" => market \/ ~AcceptsMarket(events)
=============================================================================
