-------------------------- MODULE LadderMarketData --------------------------
(***************************************************************************)
(* MatchingEngine<LadderPoolOrderBook> and a reader of its events.         *)
(***************************************************************************)
EXTENDS LadderPoolProperties, MarketData

readVars == <<bookVars, marketVars>>

\* best_bid(), best_bid_quantity(), best_ask(), best_ask_quantity() of the book,
\* with value_or(0).
top_of_book ==
  LET has(s) == best[s] # invalid_level
      price(s) == IF has(s) THEN level_index_to_price(best[s]) ELSE 0
      quantity(s) == IF has(s) THEN total_quantity[s][best[s]] ELSE 0
  IN  [has_best_bid |-> has("Buy"), best_bid |-> price("Buy"),
       best_bid_quantity |-> quantity("Buy"),
       has_best_ask |-> has("Sell"), best_ask |-> price("Sell"),
       best_ask_quantity |-> quantity("Sell")]

InitRead == Init /\ ReaderInit

ReadTypeOK == TypeOK /\ EngineTypeOK

\* The calls of process(), up to submit().
ProcessNew(req) == SubmitNew(req) /\ Process(req)
ProcessModify(req) == SubmitModify(req) /\ Process(req)
ProcessCancel(req) == SubmitCancel(req) /\ Process(req)

\* The steps of the book inside submit().
InsideSubmit ==
  /\ Resubmit \/ match_buy \/ match_sell \/ add_resting_order \/ NothingRests
  /\ UNCHANGED engineVars

Read == ReadWith(top_of_book, resting_orders) /\ UNCHANGED bookVars

ReaderNext ==
  \/ /\ \/ \E req \in NewOrderRequests : ProcessNew(req)
        \/ \E req \in ModifyOrderRequests : ProcessModify(req)
        \/ \E req \in CancelOrderRequests : ProcessCancel(req)
        \/ InsideSubmit
     /\ UNCHANGED readerVars
  \/ Read

ReaderSpec == InitRead /\ [][ReaderNext]_readVars

-----------------------------------------------------------------------------
\* Between two calls the last BookUpdated tells the best prices and quantities of
\* the orders that rest: no call changes them without saying so, and what
\* best_bid() and its twins read is that of the orders. (event_changes_book)
AnnouncedTopIsTrue == pc = "idle" => announced_top = TrueTop(resting_orders)

\* No order rests, leaves, shrinks or loses its priority in a call that publishes
\* no BookUpdated.
NothingGoesUnannounced == pc = "idle" => announced_orders = resting_orders

\* No BookUpdated is published for a call that left every order as it was.
UpdatesTellOfAChange ==
  [][Read /\ Announces => announced_orders # resting_orders]_readVars

-----------------------------------------------------------------------------
(***************************************************************************)
(* The inductive invariant, together with IInv of the book.                *)
(***************************************************************************)

\* While a call runs its report is not empty and holds no event of the engine; a
\* modify has reported that the order it replaces is gone.
ReportIsOpen ==
  /\ pc = "idle" <=> events = <<>>
  /\ \A i \in DOMAIN events : events[i].event_type # "BookUpdated"
  /\ modifying => pc \in {"resubmit", "matching"} /\ book_changed(events)

\* What rested when the reader was told and has since left or shrunk.
Shrunk(id) ==
  /\ announced_orders[id] # NoOrder
  /\ \/ resting_orders[id] = NoOrder
     \/ resting_orders[id].remaining_quantity < announced_orders[id].remaining_quantity

\* Orders from this sequence number on arrived after the reader was told.
NextArrival ==
  IF pc = "matching" THEN incoming.sequence_number ELSE next_sequence_number

\* The reader is told of the book as it is, until an event of the running call
\* says otherwise; then an order that it was told of has left or shrunk, and
\* stays so until the call returns.
ReaderIsCurrent ==
  /\ announced_orders \in [OrderIds -> Order]
  /\ IF book_changed(events)
     THEN /\ announced_orders # resting_orders
          /\ pc \in {"resubmit", "matching"} => \E id \in OrderIds : Shrunk(id)
     ELSE announced_orders = resting_orders /\ announced_top = top_of_book
  /\ \A id \in OrderIds : announced_orders[id].sequence_number < NextArrival

\* What the last call published carries the number of that call.
LastNumber == IF pc = "idle" THEN next_input_sequence_number - 1
              ELSE next_input_sequence_number - 2

NumbersAreConsecutive ==
  IF published = <<>> THEN LastNumber = 0
  ELSE \A i \in DOMAIN published : published[i].input_sequence_number = LastNumber

EngineInv == ReadTypeOK /\ ReportIsOpen /\ ReaderIsCurrent /\ NumbersAreConsecutive
=============================================================================
