------------------------- MODULE WorkloadGenerator -------------------------
(***************************************************************************)
(* benchmark/workload_generator.cpp: generate_workload() fills a trace     *)
(* with config.num_ops requests. One step is one iteration of the loop of  *)
(* the workload that config.name selects. The random engine is external:   *)
(* every outcome of its distributions is possible, so the percentages that *)
(* weigh the operations of a workload do not appear.                       *)
(***************************************************************************)
EXTENDS ExchangeTypes, FiniteSetsExt

CONSTANTS
  Workloads,     \* the names that config.name takes
  NumOps,        \* the values that config.num_ops takes
  MinPrice, MaxPrice, TickSize, MidPrice,   \* the prices of WorkloadConfig
  MaxQuantity,   \* config.max_quantity; config.min_quantity is 1
  PriceMod       \* the modulus of Price: 2^64 in the code

TrackingWorkloads == {"mostly_adds", "many_cancels", "modify_heavy", "mixed_realistic"}
SeededWorkloads == {"market_orders", "cross_heavy"}
all_workload_names ==
  TrackingWorkloads \cup SeededWorkloads
    \cup {"deep_book", "wide_price_range", "same_price_fifo"}

ASSUME WorkloadAssumption ==
  /\ Workloads \subseteq all_workload_names
  /\ NumOps \subseteq Nat
  /\ PriceMod \in Nat \ {0}
  /\ {MinPrice, MaxPrice, MidPrice} \subseteq 0 .. PriceMod - 1
  /\ TickSize \in 1 .. PriceMod - 1
  /\ MaxQuantity \in Nat \ {0}

VARIABLES
  name, num_ops,  \* config.name and config.num_ops: chosen at the start, never changed
  trace,
  ids,            \* ids_ of `active'; empty in a workload that has none
  next_id

config == <<name, num_ops>>
generatorVars == <<name, num_ops, trace, ids, next_id>>

BenchOpTypes == {"NewLimit", "NewMarket", "Cancel", "Modify"}

BenchRequest ==
  [bench_op_type : BenchOpTypes, order_id : Nat, symbol_id : Nat, side : Sides,
   order_type : OrderTypes, price : Nat, quantity : Nat]

GeneratorTypeOK ==
  /\ name \in Workloads
  /\ num_ops \in NumOps
  /\ trace \in Seq(BenchRequest) /\ Len(trace) <= num_ops
  /\ ids \in Seq(Nat)
  /\ next_id \in Nat \ {0}

GeneratorInit ==
  /\ name \in Workloads
  /\ num_ops \in NumOps
  /\ trace = <<>>
  /\ ids = <<>>
  /\ next_id = 1

-----------------------------------------------------------------------------
make_new_limit(id, side, price, qty) ==
  [bench_op_type |-> "NewLimit", order_id |-> id, symbol_id |-> 1, side |-> side,
   order_type |-> "Limit", price |-> price, quantity |-> qty]

make_new_market(id, side, qty) ==
  [bench_op_type |-> "NewMarket", order_id |-> id, symbol_id |-> 1, side |-> side,
   order_type |-> "Market", price |-> 0, quantity |-> qty]

make_cancel(id) ==
  [bench_op_type |-> "Cancel", order_id |-> id, symbol_id |-> 1, side |-> "Unknown",
   order_type |-> "Unknown", price |-> 0, quantity |-> 0]

make_modify(id, price, qty) ==
  [bench_op_type |-> "Modify", order_id |-> id, symbol_id |-> 1, side |-> "Unknown",
   order_type |-> "Limit", price |-> price, quantity |-> qty]

\* The outcomes of random_price(rng, a, b, tick_size), which swaps a and b when
\* they are in the wrong order.
random_price(a, b) ==
  LET lo == IF a <= b THEN a ELSE b
      hi == IF a <= b THEN b ELSE a
  IN  {lo + step * TickSize : step \in 0 .. (hi - lo) \div TickSize}

\* Prices are unsigned: what is added to or taken from the middle may wrap.
mid_plus(ticks) == (MidPrice + ticks * TickSize) % PriceMod

\* Mutant: the ranges of both sides include the middle.
passive_price_WithMid(side) ==
  IF side = "Buy" THEN random_price(MinPrice, MidPrice) ELSE random_price(MidPrice, MaxPrice)

passive_price(side) ==
  IF side = "Buy" THEN random_price(MinPrice, mid_plus(-1))
  ELSE random_price(mid_plus(1), MaxPrice)

aggressive_price(side) ==
  IF side = "Buy" THEN random_price(mid_plus(1), MaxPrice)
  ELSE random_price(MinPrice, mid_plus(-1))

\* The prices of deep_book, from narrow_lo to narrow_hi.
narrow_price(side) ==
  IF side = "Buy" THEN random_price(mid_plus(-5), mid_plus(-1))
  ELSE random_price(mid_plus(1), mid_plus(5))

random_quantity == 1 .. MaxQuantity

-----------------------------------------------------------------------------
(***************************************************************************)
(* ActiveOrderIds: the identifiers that cancels and modifies are drawn     *)
(* from. An index is what its distribution returned.                       *)
(***************************************************************************)
pick(idx) == ids[idx]

\* Mutant: the picked identifier stays, the last one goes.
ids_without_LosesLast(idx) == SubSeq(ids, 1, Len(ids) - 1)

\* ids_ after pick_and_remove: the last identifier takes the place of the picked one.
ids_without(idx) ==
  [k \in 1 .. Len(ids) - 1 |-> IF k = idx THEN ids[Len(ids)] ELSE ids[k]]

-----------------------------------------------------------------------------
\* Mutant: one iteration too many.
Generating_OneMore == Len(trace) <= num_ops

Generating == Len(trace) < num_ops

\* The part of market_orders and cross_heavy that fills the book.
Seeding == name \in SeededWorkloads /\ Len(trace) < num_ops \div 4

Tracks == name \in TrackingWorkloads

\* The iterations that do not fall back on a new order because no identifier is active.
Picks == Generating /\ Tracks /\ ids # <<>>

\* Mutant: the identifier is not advanced.
AddNew_SameId(req) == trace' = Append(trace, req) /\ UNCHANGED next_id

\* push_back of a request under a new identifier.
AddNew(req) == trace' = Append(trace, req) /\ next_id' = next_id + 1

\* The first branch of the workloads with active identifiers, the whole loop of
\* wide_price_range, the first loop of market_orders and cross_heavy.
GeneratePassive ==
  /\ Generating
  /\ Tracks \/ name = "wide_price_range" \/ Seeding
  /\ \E side \in BookSides, qty \in random_quantity : \E price \in passive_price(side) :
       AddNew(make_new_limit(next_id, side, price, qty))
  /\ ids' = IF Tracks THEN Append(ids, next_id) ELSE ids
  /\ UNCHANGED config

GenerateNarrow ==
  /\ Generating /\ name = "deep_book"
  /\ \E side \in BookSides, qty \in random_quantity : \E price \in narrow_price(side) :
       AddNew(make_new_limit(next_id, side, price, qty))
  /\ UNCHANGED <<config, ids>>

GenerateAggressive ==
  /\ \/ Picks /\ name = "mixed_realistic"
     \/ Generating /\ name = "cross_heavy" /\ ~Seeding
  /\ \E side \in BookSides, qty \in random_quantity : \E price \in aggressive_price(side) :
       AddNew(make_new_limit(next_id, side, price, qty))
  /\ UNCHANGED <<config, ids>>

GenerateMarket ==
  /\ \/ Picks /\ name = "mixed_realistic"
     \/ Generating /\ name = "market_orders" /\ ~Seeding
  /\ \E side \in BookSides, qty \in random_quantity :
       AddNew(make_new_market(next_id, side, qty))
  /\ UNCHANGED <<config, ids>>

GenerateCancel ==
  /\ Picks
  /\ \E idx \in DOMAIN ids :
       /\ trace' = Append(trace, make_cancel(pick(idx)))
       /\ ids' = ids_without(idx)
  /\ UNCHANGED <<config, next_id>>

\* The new price is always the middle; the identifier stays active.
GenerateModify ==
  /\ Picks /\ name \in {"modify_heavy", "mixed_realistic"}
  /\ \E idx \in DOMAIN ids, qty \in random_quantity :
       trace' = Append(trace, make_modify(pick(idx), MidPrice, qty))
  /\ UNCHANGED <<config, ids, next_id>>

\* same_price_fifo: one half sells, the other half buys at the market.
half == num_ops \div 2

GenerateFifo ==
  /\ Generating /\ name = "same_price_fifo"
  /\ AddNew(IF Len(trace) < half THEN make_new_limit(next_id, "Sell", mid_plus(1), 1)
            ELSE make_new_market(next_id, "Buy", 1))
  /\ UNCHANGED <<config, ids>>

Generate ==
  \/ GeneratePassive \/ GenerateNarrow \/ GenerateAggressive
  \/ GenerateMarket \/ GenerateCancel \/ GenerateModify \/ GenerateFifo

GeneratorSpec == GeneratorInit /\ [][Generate]_generatorVars

-----------------------------------------------------------------------------
IsNew(k) == trace[k].bench_op_type \in {"NewLimit", "NewMarket"}

\* The order that request k of the trace names can be alive: an earlier request
\* creates it as a limit order, and none before k cancels it.
CreatedBefore(k) ==
  \E j \in 1 .. k - 1 : trace[j].bench_op_type = "NewLimit" /\ trace[j].order_id = trace[k].order_id

CancelledBefore(k) ==
  \E j \in 1 .. k - 1 : trace[j].bench_op_type = "Cancel" /\ trace[j].order_id = trace[k].order_id

\* Every identifier is created once, and every cancel and every modify names an
\* order of an earlier request that no request between them cancels: replacing
\* the picked identifier by the last one neither loses nor repeats any.
TraceNamesLiveOrders ==
  \A k \in DOMAIN trace :
    IF IsNew(k)
    THEN \A j \in DOMAIN trace : IsNew(j) /\ trace[j].order_id = trace[k].order_id => j = k
    ELSE CreatedBefore(k) /\ ~CancelledBefore(k)

\* The workloads that add and cancel only.
PassiveWorkloads == {"mostly_adds", "many_cancels", "wide_price_range", "deep_book"}

\* The configurations whose ranges are what their names say: both sides of the
\* middle are in range, and nothing wraps. The command line does not check it.
SoundConfig ==
  /\ MinPrice + TickSize <= MidPrice /\ MidPrice + TickSize <= MaxPrice
  /\ 5 * TickSize <= MidPrice /\ MidPrice + 5 * TickSize < PriceMod

\* Non-crossing price generation: no bid that a passive workload makes could
\* trade with any of its asks. (The comment at passive_price.)
PassivePricesDoNotCross ==
  name \in PassiveWorkloads /\ SoundConfig =>
    \A j, k \in DOMAIN trace :
      trace[j].side = "Buy" /\ trace[k].side = "Sell" => trace[j].price < trace[k].price

-----------------------------------------------------------------------------
(***************************************************************************)
(* The inductive invariant.                                                *)
(***************************************************************************)

\* An active identifier was created as a limit order and not cancelled, and is
\* active once.
IdsAreLive ==
  /\ \A i \in DOMAIN ids :
       /\ \E k \in DOMAIN trace :
            trace[k].bench_op_type = "NewLimit" /\ trace[k].order_id = ids[i]
       /\ \A k \in DOMAIN trace :
            trace[k].bench_op_type = "Cancel" => trace[k].order_id # ids[i]
  /\ \A i, j \in DOMAIN ids : ids[i] = ids[j] => i = j

NextIdIsFresh == \A k \in DOMAIN trace : trace[k].order_id < next_id

PricesAreOfTheirSide ==
  name \in PassiveWorkloads /\ SoundConfig =>
    \A k \in DOMAIN trace :
      /\ trace[k].side = "Buy" => trace[k].price < MidPrice
      /\ trace[k].side = "Sell" => trace[k].price > MidPrice

GeneratorInv ==
  /\ GeneratorTypeOK
  /\ TraceNamesLiveOrders /\ IdsAreLive /\ NextIdIsFresh
  /\ PricesAreOfTheirSide
=============================================================================
