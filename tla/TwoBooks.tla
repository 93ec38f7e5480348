------------------------------ MODULE TwoBooks ------------------------------
(***************************************************************************)
(* The same requests submitted to a LadderPoolOrderBook and to a           *)
(* MapOrderBook, as the adapters of the benchmark replay one trace on      *)
(* either. The books share nothing, so how their steps interleave makes no *)
(* difference to what they answer: they take them together, one iteration  *)
(* of either matching loop at a time, until both calls have returned.      *)
(***************************************************************************)
EXTENDS LadderPoolBook

VARIABLES
  map_next_sequence_number, map_pc, map_new_req, map_modifying, map_incoming,
  map_events, levels, order_lookup

Map ==
  INSTANCE MapBook
    WITH next_sequence_number <- map_next_sequence_number,
         pc <- map_pc,
         new_req <- map_new_req,
         modifying <- map_modifying,
         incoming <- map_incoming,
         events <- map_events

mapBookVars == <<levels, order_lookup>>
mapVars ==
  <<map_next_sequence_number, map_pc, map_new_req, map_modifying, map_incoming,
    map_events, mapBookVars>>
bothVars == <<vars, mapVars>>

BothTypeOK == TypeOK /\ Map!TypeOK

BothInit == Init /\ Map!Init

\* process() of the two adapters, with the same request.
BothSubmit ==
  \/ \E req \in NewOrderRequests : SubmitNew(req) /\ Map!SubmitNew(req)
  \/ \E req \in ModifyOrderRequests : SubmitModify(req) /\ Map!SubmitModify(req)
  \/ \E req \in CancelOrderRequests : SubmitCancel(req) /\ Map!SubmitCancel(req)

\* The steps inside submit().
LadderRuns == Resubmit \/ match_buy \/ match_sell \/ add_resting_order \/ NothingRests

MapRuns ==
  \/ Map!Resubmit \/ Map!match_buy \/ Map!match_sell
  \/ Map!add_resting_order \/ Map!NothingRests

\* A call that returns first waits for the other.
BothRun ==
  /\ pc # "returned" \/ map_pc # "returned"
  /\ IF pc = "returned" THEN UNCHANGED vars ELSE LadderRuns
  /\ IF map_pc = "returned" THEN UNCHANGED mapVars ELSE MapRuns

BothCollect ==
  /\ Collect /\ Map!Collect
  /\ UNCHANGED <<bookVars, mapBookVars>>

BothNext == BothSubmit \/ BothRun \/ BothCollect

BothSpec == BothInit /\ [][BothNext]_bothVars

-----------------------------------------------------------------------------
\* The two books answer the same request with the same events.
SameEvents == pc = "returned" /\ map_pc = "returned" => events = map_events

\* What best_bid(), best_bid_quantity() and their ask twins return: price and
\* quantity, or nothing.
LadderQuote(s) ==
  IF best[s] = invalid_level THEN <<>>
  ELSE <<level_index_to_price(best[s]), total_quantity[s][best[s]]>>

MapQuote(s) ==
  IF DOMAIN levels[s] = {} THEN <<>>
  ELSE <<Map!best_price(s), levels[s][Map!best_price(s)].total_quantity>>

\* Between two requests the two books quote the same best prices and quantities.
SameQuotes ==
  pc = "idle" /\ map_pc = "idle" =>
    \A s \in BookSides : LadderQuote(s) = MapQuote(s)
=============================================================================
