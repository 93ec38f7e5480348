----------------------------- MODULE MarketData -----------------------------
(***************************************************************************)
(* A reader of the engine's events that knows the book only from its       *)
(* BookUpdated events: what they told last, and, as a history variable,    *)
(* which orders rested at that moment. Around any book: `resting' is the   *)
(* order that rests under each identifier, NoOrder where none does.        *)
(***************************************************************************)
EXTENDS MatchingEngine, HandlerProperties

VARIABLES
  announced_top,      \* the top of the book of the last BookUpdated
  announced_orders    \* the orders that rested when it was published

readerVars == <<announced_top, announced_orders>>
marketVars == <<handlerVars, engineVars, readerVars>>

EmptyBook == [id \in OrderIds |-> NoOrder]

ReaderInit ==
  /\ EngineInit
  /\ announced_top = NoTop
  /\ announced_orders = EmptyBook

\* Whether process() has just returned a BookUpdated event.
Announces == published'[Len(published')].event.event_type = "BookUpdated"

ReadWith(top, resting) ==
  /\ Publish(top)
  /\ IF Announces
     THEN /\ announced_top' = published'[Len(published')].top
          /\ announced_orders' = resting
     ELSE UNCHANGED readerVars

-----------------------------------------------------------------------------
\* The top of the book by what the orders themselves say, without any cache.
TrueTop(resting) ==
  LET bid == IF On(resting, "Buy") = {} THEN 0 ELSE Max(PricesOn(resting, "Buy"))
      ask == IF On(resting, "Sell") = {} THEN 0 ELSE Min(PricesOn(resting, "Sell"))
  IN  [has_best_bid |-> On(resting, "Buy") # {}, best_bid |-> bid,
       best_bid_quantity |-> QuantityAt(resting, "Buy", bid),
       has_best_ask |-> On(resting, "Sell") # {}, best_ask |-> ask,
       best_ask_quantity |-> QuantityAt(resting, "Sell", ask)]

\* The events of consecutive calls carry consecutive numbers, and all events of
\* one call, BookUpdated included, the same number. (event.hpp says that all
\* output events caused by the same input request get the same value.)
EventsAreNumberedByCall ==
  [][pc = "returned" /\ pc' = "idle" => \A i \in DOMAIN published' :
        published'[i].input_sequence_number =
          IF published = <<>> THEN 1 ELSE published[1].input_sequence_number + 1]_marketVars
=============================================================================
