------------------------ MODULE LadderPoolProperties ------------------------
(***************************************************************************)
(* What makes LadderPoolBook correct.                                      *)
(***************************************************************************)
EXTENDS LadderPoolBook, HandlerProperties

\* The walk along a chain of nodes: visit[k] is the node reached after k links.
Walk(first, link) ==
  LET visit[k \in 0 .. PoolCapacity] ==
        IF k = 0 THEN first
        ELSE IF visit[k - 1] = invalid_node THEN invalid_node
        ELSE link[visit[k - 1]]
  IN  visit

remaining_of == [n \in Nodes |-> order[n].remaining_quantity]

\* The nodes on a walk, by their position.
Chain(visit) == {k \in 0 .. PoolCapacity : visit[k] # invalid_node}

-----------------------------------------------------------------------------
(***************************************************************************)
(* check_invariants, the validator that the demo program calls.            *)
(***************************************************************************)
check_level(s, l) ==
  LET visit == Walk(head[s][l], next)
      chain == Chain(visit)
      nodes == {visit[k] : k \in chain}
  IN  /\ visit[PoolCapacity] = invalid_node   \* the loop over the level ends
      /\ \A k \in chain :
           LET n == visit[k]
           IN  /\ n < pool_size /\ n \in in_use
               /\ prev[n] = IF k = 0 THEN invalid_node ELSE visit[k - 1]
               /\ order[n].side = s
               /\ order[n].price = level_index_to_price(l)
               /\ order[n].remaining_quantity # 0
               /\ lookup[order[n].order_id] = n
      /\ tail[s][l] = IF chain = {} THEN invalid_node ELSE visit[Max(chain)]
      /\ total_quantity[s][l] =
           SumFunctionOnSet(remaining_of, nodes) % QuantityMod

orders_in_levels ==
  SumFunctionOnSet(
    [sl \in BookSides \X Levels |-> Cardinality(Chain(Walk(head[sl[1]][sl[2]], next)))],
    BookSides \X Levels)

check_invariants ==
  /\ \A s \in BookSides, l \in Levels : check_level(s, l)
  /\ best["Buy"] = refresh_best_bid_from(level_count - 1, head["Buy"])
  /\ best["Sell"] = refresh_best_ask_from(0, head["Sell"])
  /\ orders_in_levels = Cardinality({id \in OrderIds : contains_order(id)})
  /\ best["Buy"] # invalid_level /\ best["Sell"] # invalid_level =>
       level_index_to_price(best["Buy"]) < level_index_to_price(best["Sell"])

\* The code's own validator accepts every state between two steps of a call, not
\* only those in which the demo program calls it.
CheckInvariants == check_invariants

-----------------------------------------------------------------------------
\* A limit price is refused only when it is 0, outside the range for which the
\* book was constructed, or between two ticks: the number of levels reaches up to
\* MaxPrice, for new orders and for modifies. (It does not when level_count wraps.)
RangeIsTradable ==
  \A i \in Positions(events, "OrderRejected") :
    events[i].reason = "InvalidLimitPrice" /\ events[i].price \in MinPrice .. MaxPrice =>
      events[i].price = 0 \/ (events[i].price - MinPrice) % TickSize # 0

\* A price is refused by the check at the head of a handler, before the call has
\* cancelled or stored anything, and only if it is off the ladder; the steps behind
\* that check, which check again, never fail. (price_to_level, remove_order,
\* add_resting_order and the order of handle_modify_order's calls.)
RefusalsAreJustified == NoInternalFailure /\ RangeIsTradable

-----------------------------------------------------------------------------
(***************************************************************************)
(* Time priority and the links.                                            *)
(***************************************************************************)

\* The orders that rest at level l of side s, by what the orders say of themselves.
Resting(s, l) ==
  {n \in in_use : order[n].side = s /\ order[n].price = level_index_to_price(l)}

Earlier(m, n) == order[m].sequence_number < order[n].sequence_number

\* n is the first, or the last, of the nodes S in order of arrival.
Earliest(n, S) ==
  IF S = {} THEN n = invalid_node ELSE n \in S /\ \A m \in S \ {n} : Earlier(n, m)

Latest(n, S) ==
  IF S = {} THEN n = invalid_node ELSE n \in S /\ \A m \in S \ {n} : Earlier(m, n)

Links(s, l) ==
  LET R == Resting(s, l)
  IN  /\ Earliest(head[s][l], R)
      /\ Latest(tail[s][l], R)
      /\ \A n \in R : /\ Earliest(next[n], {m \in R : Earlier(n, m)})
                     /\ Latest(prev[n], {m \in R : Earlier(m, n)})

\* The list of every level is the orders of that level in order of arrival, in
\* both directions: unlinking from the middle, appending and refilling a level
\* that became empty never reorder, drop or share a node.
TimePriorityLinks == \A s \in BookSides, l \in Levels : Links(s, l)

\* The lookup and the nodes in use correspond one to one: no resting order is
\* unreachable by its identifier, none of two nodes carries the same identifier,
\* and no identifier leads to a node that was freed or given to another order.
LookupIsExact ==
  /\ \A n \in in_use : /\ order[n].order_id \in OrderIds
                       /\ lookup[order[n].order_id] = n
  /\ \A id \in OrderIds : contains_order(id) =>
       lookup[id] \in in_use /\ order[lookup[id]].order_id = id

\* The orders at rest never cross, also while an incoming order is matched.
NeverCrossed ==
  \A m, n \in in_use :
    order[m].side = "Buy" /\ order[n].side = "Sell" => order[m].price < order[n].price

\* The cached best level is the best level at which an order rests, also when the
\* last order of a level has just left it.
BestIsCurrent ==
  \A s \in BookSides :
    /\ best[s] # invalid_level => Resting(s, best[s]) # {}
    /\ \A l \in Levels :
         Resting(s, l) # {} =>
           /\ best[s] # invalid_level
           /\ IF s = "Buy" THEN l <= best[s] ELSE l >= best[s]

-----------------------------------------------------------------------------
(***************************************************************************)
(* The pool.                                                               *)
(***************************************************************************)
Constructed == 0 .. pool_size - 1

Free == Constructed \ in_use

\* S holds the top of the free stack and, with each node, the one below it.
ClosedFromTop(S) ==
  /\ free_head # invalid_node => free_head \in S
  /\ \A n \in S : next_free[n] \in S \cup {invalid_node}

\* Every node that is constructed and not in use is on the free stack, and once:
\* no node leaks, none is free twice, and none is free and in a level. (The only
\* set of free nodes that is closed under next_free from the top is all of them.)
NodesAreConserved ==
  /\ in_use \subseteq Constructed
  /\ free_head \in Free \cup {invalid_node}
  /\ \A n \in Free : next_free[n] \in (Free \cup {invalid_node}) \ {free_head}
  /\ \A m, n \in Free : next_free[m] = next_free[n] => m = n
  /\ \A S \in SUBSET Free : ClosedFromTop(S) => S = Free

\* The vector grows only when every node is in use, so its size is the largest
\* number of orders that ever rested at the same time.
NodesAreReused == [][pool_size' # pool_size => in_use = Constructed]_vars

-----------------------------------------------------------------------------
(***************************************************************************)
(* The book as its callers see it.                                         *)
(***************************************************************************)
resting_orders ==
  [id \in OrderIds |-> IF contains_order(id) THEN order[lookup[id]] ELSE NoOrder]

\* A reader that applies the events of each call to its own copy has the book's
\* orders, prices and quantities, after every step.
EventsTellTheBook ==
  [][CopyOf(resting_orders') = FoldLeft(Replay, CopyOf(resting_orders), NewEvents)]_vars

\* The ladder, the pool and the caches implement the price-time book.
PriceTime ==
  INSTANCE PriceTimeBook
    WITH resting <- resting_orders,
         TradablePrices <- {level_index_to_price(l) : l \in Levels}

ImplementsPriceTimeBook == PriceTime!Spec

\* The code accumulates a level's quantity in 32 bits; this is the sum itself.
TotalQuantityIsExact ==
  \A s \in BookSides, l \in Levels :
    total_quantity[s][l] = SumFunctionOnSet(remaining_of, Resting(s, l))

\* No level holds as many units as a 32-bit counter wraps at.
LevelsFit ==
  \A s \in BookSides, l \in Levels :
    SumFunctionOnSet(remaining_of, Resting(s, l)) < QuantityMod

\* Inductive with IInv: what the counter of a level is, in the code's 32 bits.
TotalsAreSums ==
  \A s \in BookSides, l \in Levels :
    total_quantity[s][l] = SumFunctionOnSet(remaining_of, Resting(s, l)) % QuantityMod

\* submit() returns: the matching loop ends on every book.
EveryCallReturns == pc \in {"resubmit", "matching"} ~> pc = "returned"

-----------------------------------------------------------------------------
(***************************************************************************)
(* The inductive invariant.                                                *)
(***************************************************************************)

\* An order at rest has a side, a level, a symbol, something left to trade, and
\* arrived before the next order to arrive.
OrdersAreSound ==
  \A n \in in_use :
    /\ order[n].side \in BookSides
    /\ on_ladder(order[n].price)
    /\ order[n].remaining_quantity > 0
    /\ order[n].symbol_id # 0
    /\ order[n].sequence_number < next_sequence_number

ArrivalsDiffer ==
  \A m, n \in in_use : m # n => Earlier(m, n) \/ Earlier(n, m)

\* What the checks at the head of handle_new_order established still holds.
CallIsSound ==
  /\ pc = "resubmit" =>
       new_req.order_id \in OrderIds /\ new_order_reason(new_req) = "None"
  /\ pc = "matching" =>
       /\ new_req.order_type \in {"Limit", "Market"}
       /\ incoming.order_id \in OrderIds /\ ~contains_order(incoming.order_id)
       /\ incoming.side \in BookSides /\ incoming.symbol_id # 0
       /\ ~is_market => on_ladder(incoming.price)
       /\ incoming.sequence_number < next_sequence_number
       /\ \A n \in in_use : order[n].sequence_number < incoming.sequence_number

\* The parts that are about the book alone, whatever call is running.
BookIsSound ==
  /\ OrdersAreSound
  /\ ArrivalsDiffer
  /\ TimePriorityLinks
  /\ LookupIsExact
  /\ BestIsCurrent
  /\ NeverCrossed
  /\ NodesAreConserved

IInv == TypeOK /\ BookIsSound /\ CallIsSound

-----------------------------------------------------------------------------
(***************************************************************************)
(* The events: inductive together with IInv.                               *)
(***************************************************************************)

\* Limit prices are refused only for being 0 or off the ladder.
RefusedPricesAreOffLadder(evs) ==
  \A i \in Positions(evs, "OrderRejected") :
    evs[i].reason = "InvalidLimitPrice" => evs[i].price = 0 \/ ~on_ladder(evs[i].price)

ReportIsSound(evs) ==
  /\ TradesAreBestFirst(evs)
  /\ ModifiesAreComplete(evs)
  /\ RefusalsAreOfRequests(evs)
  /\ RefusedPricesAreOffLadder(evs)

\* handle_modify_order has reported the cancellation of the order it replaces.
ReplacedFirst(evs) ==
  /\ evs[1].event_type = "OrderCancelled"
  /\ evs[1].order_id = new_req.order_id /\ evs[1].side = new_req.side

accepted_at == IF modifying THEN 2 ELSE 1

\* What submit() has reported of an order that it accepted and is handling.
AcceptedSoFar(evs) ==
  /\ Positions(evs, "OrderAccepted") = {accepted_at}
  /\ evs[accepted_at] = OrderAccepted(new_req)
  /\ Positions(evs, "OrderRejected") = {} /\ Positions(evs, "OrderModified") = {}
  /\ modifying => ReplacedFirst(evs)

\* What the incoming order has traded was no worse than what it can trade now,
\* and the orders it traded with are gone, unless it is filled itself.
TradedSoFar ==
  LET s == Opposite(incoming.side)
  IN  \A i \in Positions(events, "Trade") :
        /\ events[i].side = incoming.side
        /\ best[s] # invalid_level =>
             ~Worse(incoming.side, events[i].price, level_index_to_price(best[s]))
        /\ events[i].resting_order_id \in OrderIds
        /\ contains_order(events[i].resting_order_id) => incoming.remaining_quantity = 0

EventsAreSound ==
  /\ ReportIsSound(events)
  /\ pc = "idle" => events = <<>>
  /\ pc \in {"idle", "returned"} => ~modifying
  /\ pc = "resubmit" => modifying /\ Len(events) = 1 /\ ReplacedFirst(events)
  /\ pc = "matching" =>
       /\ AcceptedSoFar(events) /\ TradedSoFar
       /\ incoming.side = new_req.side /\ incoming.price = new_req.price
=============================================================================
