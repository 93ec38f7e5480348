---------------------------- MODULE BenchmarkRun ----------------------------
(***************************************************************************)
(* One benchmark: benchmark_main.cpp generates the trace of a workload,    *)
(* run_benchmark() (benchmark/benchmark_runner.cpp) replays it on a target *)
(* once to warm up and once to measure, and a BenchmarkEventSink counts    *)
(* the events. A target is one of the four adapters: a book or an engine,  *)
(* around the map or the ladder. The program runs one target per           *)
(* invocation, on the same trace when the seed is the same; here the four  *)
(* targets take each request together, so that what they count can be      *)
(* compared. Between a book adapter and the engine adapter of the same     *)
(* book only the events differ: their books are in the same state.         *)
(***************************************************************************)
EXTENDS TwoBooks, EngineEvents

CONSTANTS
  Workloads, NumOps, MidPrice, MaxQuantity,   \* see WorkloadGenerator
  WarmupOps      \* the requests of the warm-up: 50000 in the code

VARIABLES
  name, num_ops, trace, ids, next_id,   \* of the generator
  phase,          \* "generating", "warmup", "measured", then "done" or "failed"
  position,       \* i, the loop variable of warmup() and of run_benchmark()
  sink,           \* the sink in use, per layer and book type
  warmup_sink     \* history: the sink that warmup() drops

Generator == INSTANCE WorkloadGenerator

\* The generator's own assumption, and what lets a replay go on to its end: the
\* identifiers it makes are among those of the books, and no bound stops it.
ASSUME BenchmarkAssumption ==
  /\ Workloads \subseteq Generator!all_workload_names
  /\ {MinPrice, MaxPrice, MidPrice} \subseteq 0 .. PriceMod - 1
  /\ TickSize \in 1 .. PriceMod - 1
  /\ MaxQuantity \in Nat \ {0}
  /\ WarmupOps \in Nat
  /\ NumOps \subseteq Nat
  /\ \A n \in NumOps : n <= MaxSequence /\ 1 .. n \subseteq OrderIds

generatorVars == <<name, num_ops, trace, ids, next_id>>
runVars == <<phase, position, sink, warmup_sink>>
benchVars == <<bothVars, generatorVars, runVars>>

Layers == {"book", "engine"}
BookTypes == {"map", "ladder_pool"}

BenchmarkEventSink ==
  [trades : Nat, accepted : Nat, rejected : Nat, cancelled : Nat, modified : Nat,
   rested : Nat, book_updated : Nat, total_events : Nat]

\* A sink after reset().
ZeroSink ==
  [trades |-> 0, accepted |-> 0, rejected |-> 0, cancelled |-> 0, modified |-> 0,
   rested |-> 0, book_updated |-> 0, total_events |-> 0]

ZeroSinks == [layer \in Layers |-> [book_type \in BookTypes |-> ZeroSink]]

BenchTypeOK ==
  /\ BothTypeOK
  /\ Generator!GeneratorTypeOK
  /\ phase \in {"generating", "warmup", "measured", "done", "failed"}
  /\ position \in 0 .. Len(trace)
  /\ {sink, warmup_sink} \subseteq [Layers -> [BookTypes -> BenchmarkEventSink]]

BenchInit ==
  /\ BothInit
  /\ Generator!GeneratorInit
  /\ phase = "generating"
  /\ position = 0
  /\ sink = ZeroSinks
  /\ warmup_sink = ZeroSinks

-----------------------------------------------------------------------------
(***************************************************************************)
(* The sink and the adapters.                                              *)
(***************************************************************************)
Occurrences(type, evs) == Cardinality({i \in DOMAIN evs : evs[i].event_type = type})

\* Mutant: the remainder of a market order counts as a cancel.
on_events_CountsUnfilled(count, evs) ==
  [trades |-> count.trades + Occurrences("Trade", evs),
   accepted |-> count.accepted + Occurrences("OrderAccepted", evs),
   rejected |-> count.rejected + Occurrences("OrderRejected", evs),
   cancelled |-> count.cancelled + Occurrences("OrderCancelled", evs)
                   + Occurrences("UnfilledMarketOrderCancelled", evs),
   modified |-> count.modified + Occurrences("OrderModified", evs),
   rested |-> count.rested + Occurrences("OrderRested", evs),
   book_updated |-> count.book_updated + Occurrences("BookUpdated", evs),
   total_events |-> count.total_events + Len(evs)]

\* on_event for every event of a vector. The remainder of a market order has no
\* counter of its own.
on_events(count, evs) ==
  [trades |-> count.trades + Occurrences("Trade", evs),
   accepted |-> count.accepted + Occurrences("OrderAccepted", evs),
   rejected |-> count.rejected + Occurrences("OrderRejected", evs),
   cancelled |-> count.cancelled + Occurrences("OrderCancelled", evs),
   modified |-> count.modified + Occurrences("OrderModified", evs),
   rested |-> count.rested + Occurrences("OrderRested", evs),
   book_updated |-> count.book_updated + Occurrences("BookUpdated", evs),
   total_events |-> count.total_events + Len(evs)]

answer(book_type) == IF book_type = "map" THEN map_events ELSE events

\* The events of a target for the running request. An engine adds BookUpdated;
\* the sink looks at the types only.
events_of(layer, book_type) ==
  answer(book_type)
    \o (IF layer = "engine" /\ book_changed(answer(book_type))
        THEN <<[DefaultEvent EXCEPT !.event_type = "BookUpdated"]>> ELSE <<>>)

\* to_order_request.
as_new(req) ==
  [order_type |-> IF req.bench_op_type = "NewMarket" THEN "Market" ELSE "Limit",
   order_id |-> req.order_id, symbol_id |-> req.symbol_id, side |-> req.side,
   price |-> req.price, quantity |-> req.quantity]

as_modify(req) ==
  [order_type |-> req.order_type, order_id |-> req.order_id, price |-> req.price,
   quantity |-> req.quantity]

as_cancel(req) == [order_id |-> req.order_id]

\* process() of an adapter, up to the call of submit().
process(req) ==
  \/ /\ req.bench_op_type \in {"NewLimit", "NewMarket"}
     /\ SubmitNew(as_new(req)) /\ Map!SubmitNew(as_new(req))
  \/ /\ req.bench_op_type = "Modify"
     /\ SubmitModify(as_modify(req)) /\ Map!SubmitModify(as_modify(req))
  \/ /\ req.bench_op_type = "Cancel"
     /\ SubmitCancel(as_cancel(req)) /\ Map!SubmitCancel(as_cancel(req))

ResetHandlers ==
  /\ next_sequence_number' = 1 /\ map_next_sequence_number' = 1
  /\ pc' = "idle" /\ map_pc' = "idle"
  /\ new_req' = NoRequest /\ map_new_req' = NoRequest
  /\ modifying' = FALSE /\ map_modifying' = FALSE
  /\ incoming' = NoOrder /\ map_incoming' = NoOrder
  /\ events' = <<>> /\ map_events' = <<>>

\* Mutant: the books keep what rests in them.
reset_KeepsBooks == ResetHandlers /\ UNCHANGED <<bookVars, mapBookVars>>

\* reset(): a new book, in the state that its constructor leaves.
reset ==
  /\ ResetHandlers
  /\ levels' = [s \in BookSides |-> [p \in {} |-> Map!NoLevel]]
  /\ order_lookup' = [id \in OrderIds |-> Map!NoLocation]
  /\ head' = [s \in BookSides |-> [l \in Levels |-> invalid_node]]
  /\ tail' = [s \in BookSides |-> [l \in Levels |-> invalid_node]]
  /\ total_quantity' = [s \in BookSides |-> [l \in Levels |-> 0]]
  /\ best' = [s \in BookSides |-> invalid_level]
  /\ order' = [n \in Nodes |-> NoOrder]
  /\ prev' = [n \in Nodes |-> invalid_node]
  /\ next' = [n \in Nodes |-> invalid_node]
  /\ next_free' = [n \in Nodes |-> invalid_node]
  /\ in_use' = {}
  /\ pool_size' = 0
  /\ free_head' = invalid_node
  /\ lookup' = [id \in OrderIds |-> invalid_node]

-----------------------------------------------------------------------------
(***************************************************************************)
(* run_benchmark().                                                        *)
(***************************************************************************)
Replaying == phase \in {"warmup", "measured"}

\* No process() call is running.
BetweenCalls == pc = "idle" /\ map_pc = "idle"

Generated == phase = "generating" /\ Len(trace) = num_ops

warmup_ops == IF Len(trace) <= WarmupOps THEN Len(trace) ELSE WarmupOps

\* The requests of the running loop.
replayed == IF phase = "warmup" THEN warmup_ops ELSE Len(trace)

GenerateTrace ==
  /\ phase = "generating"
  /\ Generator!Generate
  /\ UNCHANGED <<bothVars, runVars>>

\* An empty trace: std::invalid_argument, which main() reports.
RefuseEmptyTrace ==
  /\ Generated /\ trace = <<>>
  /\ phase' = "failed"
  /\ UNCHANGED <<bothVars, generatorVars, position, sink, warmup_sink>>

StartWarmup ==
  /\ Generated /\ trace # <<>>
  /\ reset
  /\ phase' = "warmup" /\ position' = 0 /\ sink' = ZeroSinks
  /\ UNCHANGED <<generatorVars, warmup_sink>>

\* warmup() has returned, its sink is gone.
StartMeasured ==
  /\ phase = "warmup" /\ BetweenCalls /\ position = replayed
  /\ reset
  /\ phase' = "measured" /\ position' = 0 /\ sink' = ZeroSinks
  /\ warmup_sink' = sink
  /\ UNCHANGED generatorVars

ProcessNext ==
  /\ Replaying /\ BetweenCalls /\ position < replayed
  /\ process(trace[position + 1])
  /\ UNCHANGED <<generatorVars, runVars>>

\* The steps inside submit().
InsideProcess ==
  /\ BothRun
  /\ UNCHANGED <<generatorVars, runVars>>

\* The adapter hands the events to the sink, and process() returns.
CountEvents ==
  /\ BothCollect
  /\ sink' = [layer \in Layers |-> [book_type \in BookTypes |->
                on_events(sink[layer][book_type], events_of(layer, book_type))]]
  /\ position' = position + 1
  /\ UNCHANGED <<generatorVars, phase, warmup_sink>>

Finish ==
  /\ phase = "measured" /\ BetweenCalls /\ position = replayed
  /\ phase' = "done"
  /\ UNCHANGED <<bothVars, generatorVars, position, sink, warmup_sink>>

BenchNext ==
  \/ GenerateTrace \/ RefuseEmptyTrace \/ StartWarmup \/ StartMeasured
  \/ ProcessNext \/ InsideProcess \/ CountEvents \/ Finish

\* The program has one thread, and nothing stops it.
BenchSpec == BenchInit /\ [][BenchNext]_benchVars /\ WF_benchVars(BenchNext)

-----------------------------------------------------------------------------
\* The targets of the same layer count the same, at any point of a replay. (The
\* ladder pool preserves the logical event counts of the map: README.md.)
SameCounts ==
  BetweenCalls => \A layer \in Layers : sink[layer]["map"] = sink[layer]["ladder_pool"]

\* Every request is answered once: an order is accepted or refused, a cancel is
\* done or refused, and a modify is refused or counts as one cancelled and one
\* accepted order. (BenchmarkEventSink::on_event)
EveryRequestIsAnswered ==
  Replaying /\ BetweenCalls => \A layer \in Layers, book_type \in BookTypes :
    LET count == sink[layer][book_type]
    IN  count.accepted + count.rejected + count.cancelled = position + count.modified

\* The orders of the workloads that only add and cancel all rest, none trades, and
\* every cancel finds its order: what passive_price and ActiveOrderIds are for.
PassiveWorkloadsOnlyRest ==
  name \in Generator!PassiveWorkloads =>
    \A layer \in Layers, book_type \in BookTypes :
      LET count == sink[layer][book_type]
      IN  count.trades = 0 /\ count.rejected = 0 /\ count.rested = count.accepted

\* A request of any workload is refused only when it names an order that has been
\* filled: prices are on the ladder, identifiers are new, and a cancelled order is
\* never named again. (ActiveOrderIds does not see the fills.)
OnlyFilledOrdersAreRefused ==
  Replaying => \A book_type \in BookTypes :
    /\ \A i \in DOMAIN answer(book_type) :
         answer(book_type)[i].event_type = "OrderRejected" =>
           answer(book_type)[i].reason = "OrderIdNotFound"
    /\ sink["book"][book_type].rejected > 0 => sink["book"][book_type].trades > 0

\* The measured replay starts from books as new as those of the warm-up: after as
\* many requests it has counted the same.
WarmupLeavesNoTrace ==
  phase = "measured" /\ BetweenCalls /\ position = warmup_ops => sink = warmup_sink

\* Without market orders, every request that an engine does not refuse changes the
\* book, and is told with one BookUpdated. (event_changes_book)
EngineAnnouncesEveryAcceptedRequest ==
  LET no_market == \A k \in DOMAIN trace : trace[k].bench_op_type # "NewMarket"
  IN  Replaying /\ BetweenCalls /\ no_market => \A book_type \in BookTypes :
        LET count == sink["engine"][book_type]
        IN  count.rejected + count.book_updated = position

\* same_price_fifo: the first half of the orders rest at one price, and each market
\* order of the second half takes the oldest of them, until there are no more.
FifoMatchesInOrder ==
  name = "same_price_fifo" =>
    /\ \A book_type \in BookTypes : \A i \in DOMAIN answer(book_type) :
         LET event == answer(book_type)[i]
         IN  event.event_type = "Trade" =>
               event.resting_order_id = event.aggressive_order_id - Generator!half
    /\ phase = "done" => \A layer \in Layers, book_type \in BookTypes :
         sink[layer][book_type].trades = Generator!half

\* The orders of modify_heavy only come to rest: its modifies use passive prices.
ModifiesUsePassivePrices ==
  name = "modify_heavy" => \A book_type \in BookTypes : sink["book"][book_type].trades = 0

\* Every benchmark comes to its end: the trace is generated, every process() call
\* of both replays returns.
EveryRunEnds == <>(phase \in {"done", "failed"})
=============================================================================
