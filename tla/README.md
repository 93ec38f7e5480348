# A verification of the low-latency exchange engine

TLA+ models of the matching engine, its two order books and the benchmark that
drives them, model-checked with TLC on small instances, and theorems about both
books, the engine around the ladder book, the workload generator and what a
benchmark counts, checked with TLAPS for every value of the constants. Paths
below are relative to the repository.

## The system

One thread submits requests; a call runs to its end before the next begins;
nothing is stored outside memory. There are no callbacks, locks or messages, so
what is hard here is not interleaving but *data structure* behaviour over long
request sequences: intrusive lists, a free stack, caches and lookups that must
agree after every partial fill, sweep, cancel from the middle and modify. The
benchmark adds a generator that must name only orders that can be alive, and a
replay whose counters must mean the same for every target.

| Part | State | Operations | Talks to |
|---|---|---|---|
| `MapOrderBook` (`include/map_order_book.hpp`, `src/order_book.cpp`) | `bids_`, `asks_` (map of levels, each a list and a total), `order_lookup_` (side, price, iterator), `next_sequence_number_` | `submit` (new, modify, cancel), `best_*`, `contains_order`, `check_invariants` | returns a vector of `Event` |
| `LadderPoolOrderBook` (`include/ladder_pool_order_book.hpp`, `src/order_book_ladder_pool.cpp`) | two arrays of levels (`head`, `tail`, `total_quantity`), the node pool, `free_head_`, the cached best levels, `order_lookup_`, `next_sequence_number_` | the same | the same |
| `MatchingEngine<Book>` (`include/matching_engine.hpp`) | a book, `next_input_sequence_number` | `process`, the queries of the book | calls `submit` and `best_*`, returns the events with `BookUpdated` |
| Workload generator (`benchmark/workload_generator.cpp`) | `ActiveOrderIds`, `next_id`, the random engine | nine workloads | produces a trace |
| Adapters, runner, event sink (`benchmark/`) | a book or an engine, counters, latencies | `reset`, `process`, `warmup`, `run_benchmark`, `on_event` | replay a trace on one target: warm up, reset, measure |
| Command line (`benchmark/benchmark_main.cpp`) | options | one round per workload: generate, run, report | calls the generator and the runner |
| Allocation counter, demo (`benchmark/allocation_counter.cpp`, `src/main.cpp`) | counters / none | counting, printing | - |

### What makes each part correct

- *Either book*: price-time priority; a modify never loses the order it replaces;
  every unit of an accepted order is traded, rested or cancelled once; the events
  are enough to reconstruct the book; resting orders never cross; every call ends.
- *Ladder book*: every level's list is its orders by arrival in both directions;
  lookup and nodes correspond one to one; free nodes are exactly the free stack;
  the cached best levels are current; totals are the sums of the quantities.
- *Map book*: no empty level, no dangling iterator, lists in arrival order.
- *Engine*: a reader of `BookUpdated` always knows the top of the book and is told
  of every change; events are numbered by call.
- *Both books*: the same answers to the same requests.
- *Workload generator*: passive prices never cross; no identifier is issued twice;
  every cancel and modify names an order that was created and not cancelled since.
- *Runner, adapters, sink*: the four targets count the same book events; the
  counters add up to the requests; the measured replay does not depend on the
  warm-up; every run ends.

`PROJECT.json` lists the hazards one by one, at the line where each bites.

## The modules

| Module | Models |
|---|---|
| `ExchangeTypes` | `types.hpp`, `order.hpp`, `event.hpp`; the stateless request checks |
| `OrderHandler` | the activation record of `submit()`: what both books' handlers do apart from storage, and every event with its fields |
| `LadderPoolBook` | the ladder book: `OrderHandler` plus its storage |
| `MapBook` | the map book: `OrderHandler` plus its storage |
| `PriceTimeBook` | the abstract specification: resting orders as a function of their identifiers |
| `HandlerProperties`, `LadderPoolProperties`, `MapProperties` | the properties, the refinement mappings and `check_invariants` of each book |
| `EngineEvents` | `event_changes_book` and the loop over the events of a call |
| `MatchingEngine` | `process()`: a template over the book, whose variables and actions are its parameters |
| `MarketData` | a reader of `BookUpdated` (external) |
| `LadderMarketData` | engine and reader around the ladder book, with their properties |
| `TwoBooks` | both books given the same requests |
| `WorkloadGenerator` | `generate_workload`: nine workloads, `ActiveOrderIds`, the price generators |
| `BenchmarkRun` | adapters, `run_benchmark`, the sink and one round of `main`, on top of `TwoBooks` and `WorkloadGenerator` |
| `MCRequests`, `MC...` | the request sets and views of the TLC instances |
| `OrderHandler_proofs` | what the handler's steps keep, whichever book they are conjoined to; sums, remainders and the accounting of fills |
| `LadderPoolBook_proofs` | the ladder book's invariant, the properties that follow from it, totals and `check_invariants` |
| `LadderPoolRefinement_proofs` | the invariant of the events of a ladder call, and its consequences; the ladder book implements `PriceTimeBook`; its events tell it; every request is answered once |
| `MapBook_proofs` | the map book's invariant, the properties that follow from it, totals and `check_invariants`; it implements `PriceTimeBook`; the events tell it; every request is answered once |
| `TwoBooks_proofs` | the two books take the same steps, with the same events and quotes |
| `LadderMarketData_proofs` | the engine's invariant: what the reader was told, and the numbers of events |
| `WorkloadGenerator_proofs` | the generator's invariant, live identifiers and passive prices |
| `BenchmarkRun_proofs` | the benchmark's invariant: both books in both replays, and what the sinks count |

### How a call is modelled

`submit()` is split into steps at the iterations of its matching loop, and at the
point where `handle_modify_order` has cancelled and has not yet resubmitted. `pc`
says where the call is: `idle` -> (`resubmit` ->) `matching` -> `returned` -> `idle`.
No request is taken until `pc` is `idle`: the code cannot interleave calls. The
reason for the finer steps is that invariants are then checked *inside* calls, and
that the lengths of calls, not only their results, are visible. The locals of
`handle_new_order` (`incoming`, `events`, the request) are variables.

One step of the matching loop is one iteration of the inner `while`, together with
the refresh of the best level (or the erasure of the map level) when that iteration
empties the level: the code does both before it looks at another order. `Collect`
is the caller taking the returned vector.

An iteration of the outer loop that finds the best level empty would match nothing
and only refresh the best level, or erase the map level (`PassEmptyLevel`). It is
never taken, because every best level holds an order (`NoEmptyLevelIsMatched`), but
it belongs to the loop: should a mistake leave an emptied level as the best one, the
code would go round this iteration for ever, and `EveryCallReturns` and
`EveryRunEnds` would see it.

Reasons for rejection are operators that list the code's early returns in order
(`new_order_reason`, `modify_order_reason`, `cancel_order_reason`), the ones that
only a corrupted book could produce included (`OrderNotFound`, and
`InvalidLimitPrice` inside `remove_order` and `add_resting_order`).

In `LadderPoolBook` a vector of structs is one function per field; `SIZE_MAX` is
`invalid_node`/`invalid_level`, one past the largest index. Freed nodes keep their
stale contents, as in the code. Totals are sums modulo `QuantityMod` (2^32 in the
code). In `MapBook` a map is a function whose domain is the keys that are present,
and an iterator is the sequence number of the order in the list node it points to.

The engine is written once, for any book: `MatchingEngine` takes the book's events,
best prices and quantities as parameters, as the C++ template takes `Book`.
`LadderMarketData` instantiates it with the ladder book and adds a reader who sees
only the published events. What an engine around the map book publishes follows from
`books_agree`: the events it looks at and the quotes it reads are the same.

In `WorkloadGenerator` one step is one iteration of a generating loop. The random
engine is external: each draw may be anything in the range of its distribution, so
the percentages by which a workload mixes its operations disappear and its branches
become alternatives; the branches taken when no identifier is active are kept.
Prices are computed modulo `PriceMod`, as the unsigned arithmetic of the code does,
and `random_price` swaps the ends of its range when they are in the wrong order.

`BenchmarkRun` follows one workload through the program: the trace is generated, a
new target is warmed up with its first `WarmupOps` requests, `reset` replaces the
target, the whole trace is replayed, the sink counts. The program runs one target
per invocation; the model lets the four of them take every request in lockstep, so
that what they count can be compared at every request. A book and the engine around
it hold equal books, so two books serve four targets. An empty trace ends in the
exception that `run_benchmark` throws.

### Bounds

| Name | Meaning | In the code |
|---|---|---|
| `MaxSequence` | orders accepted in a behaviour (a guard on new and modify) | 64-bit counter |
| `MaxCalls` | `process()` calls of a behaviour (a guard) | 64-bit counter |
| `PoolCapacity` | nodes that may be constructed; the runs use as many as there are identifiers, so the bound never stops a step | memory |
| `QuantityMod` | modulus of `Quantity`; large enough to never wrap except in `ladder_total_wraps` | 2^32 |
| `PriceMod` | modulus of `Price`, in which the number of levels and the workload's prices are computed | 2^64 |
| `NumOps` | lengths of the traces | set by the command line |
| `WarmupOps` | requests of the warm-up; 2, so that traces are longer than it | 50000 |
| request sets | identifiers, prices, quantities (in `MCRequests`) | 64-, 64-, 32-bit |

Three identifiers give a level with a first, a middle and a last order; four or
five accepted orders let freed nodes be reused with the stack two deep. Three
levels let a best level empty with an occupied level behind an empty one. Two
quantities give full, partial and multi-order fills. `LiveContents` (a VIEW) leaves
out the orders still stored in freed nodes: `allocate_node` overwrites them before
the node is in use, and no definition reads them.

## The runs

| Run | Instance | States | Shows |
|---|---|---|---|
| `ladder_one_level` | 3 identifiers, 1 level, 2 quantities, 5 orders | 68,000 | lists, lookup and free stack stay exact; nodes are reused; matching makes progress |
| `ladder_levels` | 3 identifiers, 3 levels, 2 quantities, 4 limit orders | 700,000 | cached best levels, the code's `check_invariants`, no crossing, best price first |
| `ladder_requests` | prices below, above and between the levels, malformed requests, fairness | 70,000 | types; modifies lose nothing; refusals are justified and the whole range is tradable; one answer per request; every call returns |
| `ladder_refines` | 2 levels, 2 quantities, 4 orders | 442,000 | the ladder book implements `PriceTimeBook`; events tell the book; fills add up |
| `map_book` | 2 prices, 4 orders, malformed requests | 290,000 | the map book's `check_invariants`, iterators, list order; it implements `PriceTimeBook` |
| `engine_updates` | ladder book, 4 calls | 507,000 | `BookUpdated` is complete, true and never superfluous; numbering |
| `books_agree` | prices on the ladder | 482,000 | the two books answer and quote alike |
| `workload_traces` | all nine workloads, traces of 2 and 5 | 247,000 | traces name live orders; passive prices do not cross |
| `benchmark_counts` | eight workloads, traces of 0, 3 and 4, four targets, fairness | 265,000 | equal counts, counters that add up, warm-up without effect, every run ends |
| `ladder_total_wraps` (violation) | `QuantityMod = 4` | | a level's total is not the sum of its orders |
| `books_differ` (violation) | a price off the tick | | the books answer differently |
| `modify_heavy_trades` (violation) | one workload, traces of 4 | | orders of `modify_heavy` trade with each other |

The deadlock check is off where the program really stops: `engine_updates` (after
`MaxCalls` calls no request comes), `workload_traces` (the trace is full),
`benchmark_counts` and `modify_heavy_trades` (the benchmark is over). In the other
runs a cancel is always possible, so none may stop.

`benchmark_counts` leaves out `deep_book`, whose prices reach five ticks to either
side of the middle: a ladder wide enough for it has too many prices for the replay.
Its generation is in `workload_traces`, with the prices that leave the range; what
the books do with such prices is in `books_differ`. Traces of three have no pairs:
in `same_price_fifo` the last market order finds nothing, after an order was filled.
The properties of `BenchmarkRun` speak of one replay at a time; four requests
contain a fill, a cancel of a filled order, a modify across the spread and a market
order that finds nothing, each before and after a reset.

### Findings

- *Totals wrap.* `README.md:71` promises that a level's total is the sum of its
  orders; it is that sum modulo 2^32 (`order_book_ladder_pool.cpp:604`, and the map
  book alike). `check_invariants` computes the sum in the same width.
- *The books differ off the ladder.* `README.md:364` says the ladder book preserves
  the logical behaviour of the map book. A limit price outside the range or between
  two ticks is refused by one and rests in the other. On the ladder they agree.
- *`modify_heavy` trades.* The comment at `benchmark/workload_generator.cpp:385` asks
  for a valid passive price; line 386 uses the middle, which is passive for neither
  side, so a bid and an ask that were both modified trade with each other. The
  recorded results show 1,851,813 trades for this workload.

### Fairness

`FairSpec` assumes weak fairness of `Continue`, the steps of a call that has begun
and the caller taking its result: the thread inside `submit()` is never blocked and
keeps running. No fairness is assumed of requests. `BenchSpec` assumes weak fairness
of the whole next-state relation: the benchmark is one thread that nothing blocks and
that decides every step itself, the requests included.

## What is proved

The proof modules hold theorems for every value of the constants that satisfies the
modules' assumptions, and for every set of requests:

- `HandlerAssumption`: identifiers are numbers, and the requests are records of the
  types in `order.hpp` with quantities below `QuantityMod`;
- `LadderAssumption`: what the constructor of the ladder book checks, throwing
  otherwise; `PoolAssumption`: the bound on the pool is a number;
- `WorkloadAssumption`: prices and tick fit the type `Price`, the middle is anywhere;
- `BenchmarkAssumption`: the same of the benchmark's configuration, and that the
  identifiers of a trace are among those of the books and no bound of the model stops
  a replay (`MaxSequence` is at least the length of the trace).

### The ladder book's invariant

The properties are not inductive one by one. That unlinking leaves the lists in
arrival order needs the links of all neighbours; that a removal does not leave a
dangling lookup needs identifiers and nodes to correspond; that the best level is
current after a level empties needs the list's head to be empty exactly when no
order rests there; that resting does not cross needs that matching stopped because
no opposite order crosses *and* that the cached best is the best; that a new order
becomes the last of its level needs every resting order to have an earlier sequence
number. `IInv` is the conjunction in which all of these support each other:

- `TypeOK`;
- `BookIsSound`: `OrdersAreSound`, `ArrivalsDiffer`, `TimePriorityLinks`,
  `LookupIsExact`, `BestIsCurrent`, `NeverCrossed`, `NodesAreConserved`;
- `CallIsSound`: what the checks at the head of `handle_new_order` established is
  still true while the call is matching, or between the halves of a modify.

`TimePriorityLinks` states the links without a walk: the head is the earliest order
of the level, `next` of a node is the earliest of the later orders, and so on.
`NodesAreConserved` states the free stack without a walk too: the only set of free
nodes that contains the top and is closed under `next_free` is all of them. Both are
first-order, so no induction over a list is needed.

The proof has one lemma per action (`SubmitNewStep`, ..., `CollectStep`), built on
lemmas about the storage operations (`UnlinkKeepsOrder`, `PushKeepsOrder`,
`FreeingConservesNodes`, `AllocatingConservesNodes`, `UnlinkKeepsBest`,
`PushKeepsBest`, ...), and `NextIsSound` puts them together. From `Soundness`
(`Spec => []IInv`) follow `TypeCorrectness`, `TimePriority`, `ExactLookup`,
`CurrentBest`, `Uncrossed`, `ConservedNodes`, and the action properties
`ReusedNodes` and `MatchProgress`.

### Totals and the validator

A level's total is adjusted one order at a time; `TotalsAreSums` says that it is the
sum over the orders that rest at the level, modulo the width of `Quantity`, and is
inductive together with `IInv` (`LevelTotals`). Each step changes one level by one
order, so the proof needs what adding, removing or shrinking one term does to a sum
(`SumAdd`, `SumRemove`, `SumAgrees`) and that a remainder may be taken before or
after (`WrappedSum`). The sums are `SumFunctionOnSet` of the community modules,
which unfolds to a recursion over subsets; the library's induction theorems take an
operator and cannot be used, so `OrderHandler_proofs` proves induction over a *set*
of numbers (`NatInduct`, from the least element of a set) and from it, once, what is
needed about sums of any function over any finite set.

`ExactTotals` adds the condition under which the total is the sum itself:
`LevelsFit`, no level holds 2^32 units. The run `ladder_total_wraps` reaches the
other states. `ValidatorNeverFails` is that the code's `check_invariants` accepts
every state: the walk along `next` visits the resting orders of the level in order
of arrival and each once, hence ends within the pool, and the lengths of all walks
add up to the number of identifiers in the lookup. `MapLevelTotals` and
`MapValidatorNeverFails` are the same for the map book, where a level's total
disappears with its last order.

### Fills

`FillAccounting` is proved for both books (`QuantityIsAccountedFor`,
`MapQuantityIsAccountedFor`) from lemmas about the steps of `OrderHandler`, which
the books share: what each event that a step pushes reports is what the step takes
from the unfilled rest (`AccountedAppend`, `TradeBalances`, `RestBalances`, ...).
`AccountsBalance` is the inductive form; it adds that the account is opened by a
report without trades.

### The events of a ladder call

`BestPriceFirst`, `ModifyNeverLosesOrder` and `RefusalsAreJustified` speak of the
vector that the caller gets, so their invariant has to say what the vector holds in
the middle of a call. `EventsAreSound` does: the report so far is sound; before the
second half of a modify it is exactly the cancellation of the order that is
replaced; while the call matches it starts with the acceptance, and the last trade
was with a level that the best one has not become better than (`TradedSoFar`, by
`BestOnlyWorsens`). It is inductive together with `IInv` (`EventsStaySound`).
`RefusalsAreJustified` says that no price of the range that is on a tick is refused
(`RangeIsTradable`), and that what is refused is refused by the first check and not
by a step that another one follows (`NoInternalFailure`). That no other price rests
is `LadderIsPriceTime`, whose `TradablePrices` are those on the ladder.
`RefusedForAReason` needs in addition that the number of levels does not wrap. With
a range of 2^64 ticks `level_count` is 0 and the ladder refuses every price:
`RangeIsTradable` fails there, so the theorem excludes it by hypothesis. No run has
such a range, and no document promises it. Every other theorem holds with the wrap
too.

### What one call answers

`AnswerIsComing` says of a running call what its events hold so far: how many
acceptances and cancellations, no refusal, and that a filled order has traded. When
the call returns, `AnswersOnce` follows, for limit and market orders alike:

- the request was accepted, refused or cancelled an order, exactly one of these, or,
  for a modify, cancelled and accepted;
- exactly one refusal is reported if the call changed nothing and accepted no market
  order (`AcceptsMarket`), and none otherwise: a limit order, a modify or a cancel
  that changed nothing was refused;
- an accepted order that found no trade rests, or is cancelled if it is a market order.

`AnsweredOnce`, which states this of every returned call, is checked by
`ladder_requests`. Most of the proof is about `OrderHandler`, so the two books need one
short lemma per action each (`RequestsAreAnswered`, `MapRequestsAreAnswered`).

### The map book's invariant

Its `BookIsSound` is about sequences instead of links: `OrdersAreSound` (no level is
empty, every order is in the level of its side and price, and the lookup leads
there), `NoDanglingIterator` (the converse: what the lookup holds is in a list),
`ListsAreInArrivalOrder`, `NeverCrossed`, and `MapsAreFinite`, without which
`begin()` need not exist. Two changes reach a list. An erasure, at the front by a
fill or anywhere by a cancel, leaves the other orders in their order, and the level
leaves the map when it was the last one (`EraseKeepsBookSound`); `push_back` puts
behind all others an order whose sequence number is larger than theirs
(`PushKeepsBookSound`), which is why `CallIsSound` remembers that every resting
order arrived earlier than the incoming one. An iterator names its place uniquely
because no sequence number occurs twice (`OnePlace`, `IteratorOfPlace`).

### Both books implement the price-time book

`LadderIsPriceTime` and `MapIsPriceTime` prove that every step of either book, seen
through `resting_orders`, is a step of `PriceTimeBook` or a stutter: one lemma per
action again. What they rest on is that the order either book takes is the one that
the abstract book calls first (`FrontIsFirst`: the head of the cached best level,
the front of the list at `begin()`), that both stop matching exactly when no
opposite order crosses (`DoneMeansNoneCrosses`), and that a change of storage
changes `resting_orders` in one place only. In the map book
`resting_orders` follows the lookup, so its proof carries `OrdersAreRead`: the
lookup reads every order at rest, in every state.

### The events tell the book

A reader of the events can keep the book without ever asking for it:
`EventsTellTheLadder` and `EventsTellTheMaps` prove that replaying the events of any
step over a copy of what rested gives what rests afterwards. A step adds at most two
events (the last of a modify is followed by `OrderModified`), so the fold over them is
unfolded outright (`ReplayOfNone`, `ReplayOfOne`, `ReplayOfTwo`); what is left is one
lemma per change of the price-time book: a cancelled order disappears
(`CancelTells`), a trade takes what it reports from the order it names, or the order
when nothing is left (`FillTells`, `PartialFillTells`), a rested order appears
(`RestTells`), and no other event changes the copy (`SilentEvents`). Because both
books are price-time books step by step, the argument is the same for both, and the
run `ladder_refines` checks it for the ladder. It needs
`AccountsBalance` for one thing: a call starts with an empty report.

### The two books answer alike

The two instances of `PriceTimeBook` differ in `TradablePrices` alone: the prices on
the ladder against all prices. `books_differ` shows what a price off the ladder does;
`PricesAreOnTheLadder` excludes it, and asks nothing of requests that the stateless
checks refuse. Under that hypothesis the two books stay in step: `Coupled` says that
the two calls are at the same place, with the same remaining order and the same
events so far, and that the same orders rest. It is inductive together with the
invariants of the two books (`StaysCoupled`), and the argument is that the
price-time book has one answer: its refusals are a function of what rests and its
front is unique (`OneFront`), so two price-time books that agree and take a step of
the same call agree afterwards (`SubmitNewAgrees`, ..., `MatchAgrees`, `RunsAgree`).
`BooksAnswerAlike` follows. For `BooksQuoteAlike` both quotes are expressed by the
orders at rest: the best price of a side is that of its orders (`BestOfOrders`, for
either book) and the total of a level the sum over the orders of that price
(`QuantityOfLevel`, `QuantityOfList`), modulo the same width.

`TwoBooks` is stepped in lockstep, one iteration of either loop at a time, and a
call that returns early waits for the other; the books share nothing, so another
interleaving would change neither what they answer nor what they quote. The
hypothesis is that of the theorems and not an assumption of the module, because the
run `books_differ` uses the same module without it.

### The engine and its reader

`EngineRunsTheBook` lifts every theorem about the ladder book to the engine around
it. `EngineInv` is inductive together with `IInv` and relates what the reader was
told to the book at every moment of a call, not only when it returns
(`ReaderIsCurrent`):

- as long as no event of the running call is one that `event_changes_book` lists,
  the book is the one that the reader was told of, with the same top;
- from the first such event on it is another one, and the difference lasts until
  the call returns. That is not obvious of a call that cancels an order and adds it
  again, or fills and adds: some order that the reader knows has left or shrunk
  (`Shrunk`), and what arrives has a sequence number that no known order has
  (`NextArrival`), so nothing that follows can restore the old contents.

From this follow `NothingUnannounced` and `UpdatesTell`, the two directions. That
the announced top is that of the *orders* (`AnnouncedTop`) needs in addition that
the cached best is the best and that totals are sums; it holds while `LevelsFit`
does, because the code publishes the wrapped total otherwise. `EventsAreNumbered`
follows from `NumbersAreConsecutive`.

### The generator's invariant

`GeneratorInv` says that an active identifier was created, has not been cancelled
since and is active once, that `next_id` is fresh, and that passive bids stay below
the middle and asks above it. From it follow `LiveOrdersAreNamed` and
`PassiveOrdersDoNotCross`, the latter for configurations in which the ends of the
ranges of the two sides do not wrap or leave the range.

### The benchmark

The benchmark composes the generator and both books, and its theorems compose what is
proved of them. `BenchInv` says that the trace is sound, that the invariants of both
books hold and that a request runs only inside a replay; that a replay submits only
what the books' theorems allow follows from the generator's lemmas
(`IsSubmittable`). Each kind of count then has an invariant of its own:

- `AnswerInv`: what the sinks have counted adds up to the requests replayed, because
  each call answers once (`RequestsAreCounted`, `EnginesAnnounceChanges`);
- `Coupled` and `SinksAgree`: the two books are in step through both replays, hence
  all that is proved of the ladder's counts holds of the map's (`TargetsCountAlike`);
- `RefusalInv`: an order that the book knows was created by the trace, and *as long as
  nothing has traded* an order that the trace created and did not cancel is known to
  the book. It is what ties the generator's list of identifiers to the book, and its
  condition is the reason why a refusal proves an earlier trade
  (`RefusalsAreOfFilledOrders`). An order is known when it rests or when the running
  call will let it rest, otherwise the invariant fails in the middle of a modify;
- `PassiveInv`: in the workloads that only add and cancel every order stays on its
  side of the middle, so that `Match` is never enabled (`NothingMatches`); with
  `RefusalInv` this gives `PassiveOrdersRest`;
- `FifoInv`: in `same_price_fifo` the identifiers that wait, and how many were filled,
  are functions of the number of requests whose effect the book shows. Sequence
  numbers grow with the identifiers of the orders at the one price in use, so the
  front that a market order takes is the smallest identifier that waits, and with all
  quantities 1 it fills exactly that order (`FifoIsKept`, for the map book because
  both answer alike).

The theorems from `Coupled` on need `PricesFit`: the ends of the range and the middle
are on ticks, and the middle has as many ticks on either side as the workload uses.
The command line does not check it; its defaults and the run `benchmark_counts`
satisfy it.
`PassiveOrdersRest` needs `SoundConfig` in addition, that the prices around the
middle do not wrap.

### Only model-checked

- liveness (`EveryCallReturns`, `EveryRunEnds`); the variant of the matching loop is
  proved as `MatchProgress`;
- `WarmupLeavesNoTrace`, which compares two replays of one trace: a proof would have to
  carry the history of the first along the second.

## What is not modelled

- Symbols are carried but, as in the code, not told apart: a book matches orders of
  every symbol it is given, and the runs use one.
- `debug_print`, string conversions, clocks, latencies and their percentiles, CSV
  output, argument parsing, the allocation counter and the demo script only print
  or measure. The command line only rejects prices that are no numbers or negative: the
  generator is modelled for every range, tick and middle.
- A `bad_alloc` inside a call: no book survives one. The demo's `main` does not
  catch it, and the benchmark's ends with it, so no later call can see what it left.
- An engine around the map book: what it publishes is determined by the events and
  quotes that `BooksAnswerAlike` and `BooksQuoteAlike` prove equal; `SameCounts`
  compares what the sinks of the four targets count.
- The replay of `deep_book`, as said under *The runs*; its generation is. With a range
  that ends less than five ticks from the middle, which the command line accepts, the
  ladder refuses orders of this workload that rest in the maps, as `books_differ` shows.
- One thread uses a book; the code has no locks, and nothing is stored on disk, so
  there are neither interleavings nor restarts to model.

## Plan

1. Core, done: `ExchangeTypes`, `OrderHandler`, `LadderPoolBook` with its invariant
   proved; `PriceTimeBook`; `MapBook`; `MatchingEngine`; `TwoBooks`.
2. Benchmark, done: `WorkloadGenerator`, `BenchmarkRun`.
3. Proofs, done: the inductive invariants of both books, their validators, totals
   and fills; what their events tell, and that every request is answered once; the
   order of the events of the ladder book's calls; that both books implement
   `PriceTimeBook`, and answer and quote alike; the engine and its reader around the
   ladder book; the generator; the counts of the benchmark.
4. Left: what is listed above as only model-checked, and the order of events of the
   map book's calls as a theorem of its own (for prices on the ladder it follows from
   the ladder's, as both books answer alike).
