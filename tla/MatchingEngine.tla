--------------------------- MODULE MatchingEngine ---------------------------
(***************************************************************************)
(* The class template MatchingEngine (include/matching_engine.hpp), around *)
(* any book: process() numbers the request, submits it to the book, puts   *)
(* the number on the events of the book, and appends a BookUpdated event   *)
(* with the top of the book when one of them says that the book changed.   *)
(* The module of a book supplies that top, and the steps inside submit().  *)
(***************************************************************************)
EXTENDS OrderHandler, EngineEvents, FiniteSetsExt

CONSTANT MaxCalls         \* bound on the process() calls of a behaviour

ASSUME EngineAssumption == MaxCalls \in Nat

VARIABLES
  next_input_sequence_number,
  request,                \* the argument of the running process() call
  published               \* what the last process() call returned

engineVars == <<next_input_sequence_number, request, published>>

\* The fields of BookUpdated that tell the top of the book; a default Event has
\* none of them.
TopOfBook ==
  [has_best_bid : BOOLEAN, best_bid : Nat, best_bid_quantity : Nat,
   has_best_ask : BOOLEAN, best_ask : Nat, best_ask_quantity : Nat]

NoTop ==
  [has_best_bid |-> FALSE, best_bid |-> 0, best_bid_quantity |-> 0,
   has_best_ask |-> FALSE, best_ask |-> 0, best_ask_quantity |-> 0]

\* An event that leaves the engine: what the book says, and what the engine adds.
EngineEvent == [event : Event, input_sequence_number : Nat, top : TopOfBook]

EngineTypeOK ==
  /\ next_input_sequence_number \in Nat \ {0}
  /\ request \in NewOrderRequest \cup ModifyOrderRequest \cup CancelOrderRequest
  /\ published \in Seq(EngineEvent)

EngineInit ==
  /\ next_input_sequence_number = 1
  /\ request = NoRequest
  /\ published = <<>>

-----------------------------------------------------------------------------
\* The sequence number of the running call.
input_sequence_number == next_input_sequence_number - 1

\* infer_symbol_id: the first event with a symbol, else the request's.
infer_symbol_id ==
  LET named == {i \in DOMAIN events : events[i].symbol_id # 0}
  IN  IF named # {} THEN events[Min(named)].symbol_id
      ELSE IF "symbol_id" \in DOMAIN request THEN request.symbol_id
      ELSE 0

Stamped(event) ==
  [event |-> event, input_sequence_number |-> input_sequence_number, top |-> NoTop]

\* Mutant: the event is appended after the loop that numbers the events.
BookUpdated_NotNumbered(top) ==
  [event |-> [DefaultEvent EXCEPT !.event_type = "BookUpdated",
                                  !.symbol_id = infer_symbol_id],
   input_sequence_number |-> 0, top |-> top]

\* The event, with the best_bid(), best_bid_quantity(), best_ask() and
\* best_ask_quantity() that the book returns.
BookUpdated(top) ==
  [event |-> [DefaultEvent EXCEPT !.event_type = "BookUpdated",
                                  !.symbol_id = infer_symbol_id],
   input_sequence_number |-> input_sequence_number, top |-> top]

-----------------------------------------------------------------------------
\* process() up to the call of submit(), which the steps of the book carry out.
Process(req) ==
  /\ next_input_sequence_number <= MaxCalls
  /\ request' = req
  /\ next_input_sequence_number' = next_input_sequence_number + 1
  /\ UNCHANGED published

\* process() once submit() has returned, when the book's top is `top'.
Publish(top) ==
  /\ Collect
  /\ published' = [i \in DOMAIN events |-> Stamped(events[i])]
                    \o (IF book_changed(events) THEN <<BookUpdated(top)>> ELSE <<>>)
  /\ UNCHANGED <<next_input_sequence_number, request>>
=============================================================================
