--------------------------- MODULE LadderPoolBook ---------------------------
(***************************************************************************)
(* LadderPoolOrderBook (include/ladder_pool_order_book.hpp and             *)
(* src/order_book_ladder_pool.cpp): resting orders live in a pool of       *)
(* nodes; the nodes of one price level form an intrusive doubly linked     *)
(* list in arrival order; free nodes form a stack threaded through         *)
(* next_free; the index of the best occupied level of each side is cached. *)
(*                                                                         *)
(* A vector of structs is one function per field: order[n] is              *)
(* nodes_[n].order, head["Buy"][l] is bid_levels_[l].head, and in_use is   *)
(* the set of the nodes whose in_use is true.                              *)
(***************************************************************************)
EXTENDS OrderHandler, FiniteSetsExt

CONSTANTS
  MinPrice, MaxPrice, TickSize, \* the constructor's arguments
  PriceMod,                     \* the modulus of Price and of size_t: 2^64 in the code
  PoolCapacity                  \* bound on nodes_.size()

\* The constructor throws unless these hold.
ASSUME LadderAssumption ==
  /\ MinPrice \in Nat /\ MaxPrice \in Nat /\ TickSize \in Nat
  /\ TickSize # 0
  /\ MaxPrice >= MinPrice
  /\ (MaxPrice - MinPrice) % TickSize = 0
  /\ PriceMod \in Nat \ {0}

ASSUME PoolAssumption == PoolCapacity \in Nat

\* Mutant: the level at MaxPrice is forgotten.
level_count_NoPlusOne == ((MaxPrice - MinPrice) \div TickSize) % PriceMod

\* It wraps to 0 when every value of Price is on the ladder.
level_count == ((MaxPrice - MinPrice) \div TickSize + 1) % PriceMod
Levels == 0 .. level_count - 1
Nodes == 0 .. PoolCapacity - 1

\* Both are SIZE_MAX in the code: larger than every index in use.
invalid_level == level_count
invalid_node == PoolCapacity

VARIABLES
  head, tail, total_quantity,   \* the levels of each side
  best,                         \* best_bid_level_index_, best_ask_level_index_
  order, prev, next, next_free, in_use, \* the fields of the nodes
  pool_size,                    \* nodes_.size()
  free_head,                    \* free_head_
  lookup                        \* order_lookup_, invalid_node where absent

levelVars == <<head, tail, total_quantity, best>>
poolVars == <<order, prev, next, next_free, in_use, pool_size, free_head>>
bookVars == <<levelVars, poolVars, lookup>>
vars == <<handlerVars, bookVars>>

LadderTypeOK ==
  /\ head \in [BookSides -> [Levels -> Nodes \cup {invalid_node}]]
  /\ tail \in [BookSides -> [Levels -> Nodes \cup {invalid_node}]]
  /\ total_quantity \in [BookSides -> [Levels -> 0 .. QuantityMod - 1]]
  /\ best \in [BookSides -> Levels \cup {invalid_level}]
  /\ order \in [Nodes -> Order]
  /\ prev \in [Nodes -> Nodes \cup {invalid_node}]
  /\ next \in [Nodes -> Nodes \cup {invalid_node}]
  /\ next_free \in [Nodes -> Nodes \cup {invalid_node}]
  /\ in_use \in SUBSET Nodes
  /\ pool_size \in 0 .. PoolCapacity
  /\ free_head \in Nodes \cup {invalid_node}
  /\ lookup \in [OrderIds -> Nodes \cup {invalid_node}]

TypeOK == HandlerTypeOK /\ LadderTypeOK

Init ==
  /\ HandlerInit
  /\ head = [s \in BookSides |-> [l \in Levels |-> invalid_node]]
  /\ tail = [s \in BookSides |-> [l \in Levels |-> invalid_node]]
  /\ total_quantity = [s \in BookSides |-> [l \in Levels |-> 0]]
  /\ best = [s \in BookSides |-> invalid_level]
  /\ order = [n \in Nodes |-> NoOrder]
  /\ prev = [n \in Nodes |-> invalid_node]
  /\ next = [n \in Nodes |-> invalid_node]
  /\ next_free = [n \in Nodes |-> invalid_node]
  /\ in_use = {}
  /\ pool_size = 0
  /\ free_head = invalid_node
  /\ lookup = [id \in OrderIds |-> invalid_node]

-----------------------------------------------------------------------------
(***************************************************************************)
(* Prices and levels.                                                      *)
(***************************************************************************)

\* What price_to_level_index returns, and the index it stores when it is TRUE.
on_ladder(price) ==
  /\ price >= MinPrice /\ price <= MaxPrice
  /\ (price - MinPrice) % TickSize = 0
  /\ (price - MinPrice) \div TickSize < level_count

price_to_level_index(price) == (price - MinPrice) \div TickSize

level_index_to_price(l) == MinPrice + l * TickSize

contains_order(id) == lookup[id] # invalid_node

\* The scans for the best occupied level, over the heads h of one side.
\* Mutant: the scan for the best bid runs upwards.
refresh_best_bid_from_Upwards(start, h) ==
  LET occupied == {l \in Levels : l <= start /\ h[l] # invalid_node}
  IN  IF occupied = {} THEN invalid_level ELSE Min(occupied)

refresh_best_bid_from(start, h) ==
  LET occupied == {l \in Levels : l <= start /\ h[l] # invalid_node}
  IN  IF occupied = {} THEN invalid_level ELSE Max(occupied)

\* Mutant: the scan for the best ask runs downwards, as that for the best bid does.
refresh_best_ask_from_Downwards(start, h) ==
  LET occupied == {l \in Levels : l <= start /\ h[l] # invalid_node}
  IN  IF occupied = {} THEN invalid_level ELSE Max(occupied)

\* Mutant: the scan for the best ask does not test whether a level is empty.
refresh_best_ask_from_Untested(start, h) ==
  IF start \in Levels THEN start ELSE invalid_level

refresh_best_ask_from(start, h) ==
  LET occupied == {l \in Levels : l >= start /\ h[l] # invalid_node}
  IN  IF occupied = {} THEN invalid_level ELSE Min(occupied)

refresh_best(s, start, h) ==
  IF s = "Buy" THEN refresh_best_bid_from(start, h) ELSE refresh_best_ask_from(start, h)

-----------------------------------------------------------------------------
(***************************************************************************)
(* The node pool and the lists of the levels.                              *)
(***************************************************************************)

\* The node that allocate_node takes: the top of the free stack, or a new one.
allocated_node == IF free_head # invalid_node THEN free_head ELSE pool_size

allocate_node(o) ==
  LET n == allocated_node
  IN  /\ n \in Nodes
      /\ free_head' = IF free_head # invalid_node THEN next_free[n] ELSE free_head
      /\ pool_size' = IF free_head # invalid_node THEN pool_size ELSE pool_size + 1
      /\ order' = [order EXCEPT ![n] = o]
      /\ next_free' = [next_free EXCEPT ![n] = invalid_node]
      /\ in_use' = in_use \cup {n}

\* Mutant: the old tail is not linked forward to the new node.
push_back_level_NoForwardLink(s, l, n) ==
  /\ prev' = [prev EXCEPT ![n] = tail[s][l]]
  /\ next' = [next EXCEPT ![n] = invalid_node]
  /\ head' = IF tail[s][l] = invalid_node THEN [head EXCEPT ![s][l] = n] ELSE head
  /\ tail' = [tail EXCEPT ![s][l] = n]

push_back_level(s, l, n) ==
  LET last == tail[s][l]
  IN  /\ prev' = [prev EXCEPT ![n] = last]
      /\ next' = [m \in Nodes |-> CASE m = n -> invalid_node
                                    [] m # n /\ m = last -> n
                                    [] OTHER -> next[m]]
      /\ head' = IF last = invalid_node THEN [head EXCEPT ![s][l] = n] ELSE head
      /\ tail' = [tail EXCEPT ![s][l] = n]

AllocateAndPush(s, l, o) == allocate_node(o) /\ push_back_level(s, l, allocated_node)

NextWithout(n) ==
  [m \in Nodes |-> CASE m = n -> invalid_node
                    [] m # n /\ m = prev[n] -> next[n]
                    [] OTHER -> next[m]]

PrevWithout(n) ==
  [m \in Nodes |-> CASE m = n -> invalid_node
                    [] m # n /\ m = next[n] -> prev[n]
                    [] OTHER -> prev[m]]

\* Mutant: removing the last order of a list leaves the tail behind.
unlink_from_level_StaleTail(s, l, n) ==
  /\ next' = NextWithout(n) /\ prev' = PrevWithout(n)
  /\ head' = IF prev[n] = invalid_node THEN [head EXCEPT ![s][l] = next[n]] ELSE head
  /\ UNCHANGED tail

\* Mutant: removing the only order of a list leaves the head behind.
unlink_from_level_StaleHead(s, l, n) ==
  /\ next' = NextWithout(n) /\ prev' = PrevWithout(n)
  /\ head' = IF prev[n] = invalid_node /\ next[n] # invalid_node
             THEN [head EXCEPT ![s][l] = next[n]] ELSE head
  /\ tail' = IF next[n] = invalid_node THEN [tail EXCEPT ![s][l] = prev[n]] ELSE tail

unlink_from_level(s, l, n) ==
  /\ next' = NextWithout(n) /\ prev' = PrevWithout(n)
  /\ head' = IF prev[n] = invalid_node THEN [head EXCEPT ![s][l] = next[n]] ELSE head
  /\ tail' = IF next[n] = invalid_node THEN [tail EXCEPT ![s][l] = prev[n]] ELSE tail

\* Mutant: the node does not remember what was on top of the stack.
free_node_LosesStack(n) ==
  /\ next_free' = [next_free EXCEPT ![n] = invalid_node]
  /\ in_use' = in_use \ {n}
  /\ free_head' = n
  /\ UNCHANGED pool_size

\* Mutant: the node never becomes the top of the stack.
free_node_NotPushed(n) ==
  /\ next_free' = [next_free EXCEPT ![n] = free_head]
  /\ in_use' = in_use \ {n}
  /\ UNCHANGED <<free_head, pool_size>>

\* The order in the node stays as it is.
free_node(n) ==
  /\ next_free' = [next_free EXCEPT ![n] = free_head]
  /\ in_use' = in_use \ {n}
  /\ free_head' = n
  /\ UNCHANGED pool_size

UnlinkAndFree(s, l, n) == unlink_from_level(s, l, n) /\ free_node(n)

-----------------------------------------------------------------------------
(***************************************************************************)
(* The reasons for which the handlers refuse a request, in the order of    *)
(* the code's early returns; "None" when they go on.                       *)
(***************************************************************************)

\* Mutant: an active identifier is accepted again.
new_order_reason_AllowsDuplicate(req) ==
  IF is_valid_new_order_request(req) # "None" THEN is_valid_new_order_request(req)
  ELSE IF req.order_type = "Limit" /\ ~on_ladder(req.price) THEN "InvalidLimitPrice"
  ELSE "None"

new_order_reason(req) ==
  IF is_valid_new_order_request(req) # "None" THEN is_valid_new_order_request(req)
  ELSE IF req.order_type = "Limit" /\ ~on_ladder(req.price) THEN "InvalidLimitPrice"
  ELSE IF contains_order(req.order_id) THEN "DuplicateActiveOrderId"
  ELSE "None"

\* Mutant: the new price is not checked before the old order is cancelled.
modify_order_reason_AnyPrice(req) ==
  IF is_valid_modify_order_request(req) # "None" THEN is_valid_modify_order_request(req)
  ELSE IF ~contains_order(req.order_id) THEN "OrderIdNotFound"
  ELSE "None"

modify_order_reason(req) ==
  IF is_valid_modify_order_request(req) # "None" THEN is_valid_modify_order_request(req)
  ELSE IF req.order_type = "Limit" /\ ~on_ladder(req.price) THEN "InvalidLimitPrice"
  ELSE IF ~contains_order(req.order_id) THEN "OrderIdNotFound"
  ELSE "None"

\* handle_cancel_order's checks and those of remove_order, which it calls.
cancel_order_reason(req) ==
  IF is_valid_cancel_order_request(req) # "None" THEN is_valid_cancel_order_request(req)
  ELSE IF ~contains_order(req.order_id) THEN "OrderIdNotFound"
  ELSE IF lookup[req.order_id] \notin in_use THEN "OrderNotFound"
  ELSE IF ~on_ladder(order[lookup[req.order_id]].price) THEN "InvalidLimitPrice"
  ELSE "None"

-----------------------------------------------------------------------------
(***************************************************************************)
(* Cancel.                                                                 *)
(***************************************************************************)

\* remove_order of an order that passed the checks above.
remove_order(id) ==
  LET n == lookup[id]
      o == order[n]
      s == o.side
      l == price_to_level_index(o.price)
  IN  /\ total_quantity' =
           [total_quantity EXCEPT ![s][l] = (@ - o.remaining_quantity) % QuantityMod]
      /\ UnlinkAndFree(s, l, n)
      /\ best' = IF head'[s][l] = invalid_node /\ best[s] = l
                 THEN [best EXCEPT ![s] = refresh_best(s, l, head'[s])]
                 ELSE best
      /\ lookup' = [lookup EXCEPT ![id] = invalid_node]
      /\ UNCHANGED order

\* handle_cancel_order: the storage it changes, and the one event it adds.
CancelStorage(req) ==
  IF cancel_order_reason(req) = "None" THEN remove_order(req.order_id)
  ELSE UNCHANGED bookVars

cancel_event(req) ==
  IF cancel_order_reason(req) = "None" THEN OrderCancelled(order[lookup[req.order_id]])
  ELSE CancelRejected(req, cancel_order_reason(req))

SubmitCancel(req) ==
  /\ pc = "idle"
  /\ Answer(cancel_event(req))
  /\ CancelStorage(req)

-----------------------------------------------------------------------------
(***************************************************************************)
(* Modify = Cancel + New Order.                                            *)
(***************************************************************************)
SubmitModify(req) ==
  /\ Ready
  /\ IF modify_order_reason(req) # "None"
     THEN /\ Answer(ModifyRejected(req, modify_order_reason(req)))
          /\ UNCHANGED bookVars
     ELSE LET cancel_req == [order_id |-> req.order_id]
          IN  /\ BeginModify(req, order[lookup[req.order_id]], cancel_event(cancel_req))
              /\ CancelStorage(cancel_req)

\* handle_modify_order calls handle_new_order.
Resubmit ==
  /\ pc = "resubmit"
  /\ handle_new_order(new_req, new_order_reason(new_req), events)
  /\ UNCHANGED bookVars

-----------------------------------------------------------------------------
(***************************************************************************)
(* New orders.                                                             *)
(***************************************************************************)
SubmitNew(req) ==
  /\ Ready
  /\ handle_new_order(req, new_order_reason(req), <<>>)
  /\ UNCHANGED bookVars

\* The conditions of the matching loop over the levels of side s.
CanMatch(s) ==
  /\ incoming.remaining_quantity > 0
  /\ best[s] # invalid_level
  /\ Crosses(level_index_to_price(best[s]))

\* Mutant: the newest order of the level trades first.
front_node_Newest(s) == tail[s][best[s]]

\* The first order of the best level of side s, and its node.
front_node(s) == head[s][best[s]]
front_order(s) == order[front_node(s)]

\* One iteration of the matching loop against side s.
MatchFront(s) ==
  LET l == best[s]
      n == front_node(s)
      resting == front_order(s)
      qty == trade_qty(resting)
  IN  /\ TradeWith(resting)
      /\ total_quantity' = [total_quantity EXCEPT ![s][l] = (@ - qty) % QuantityMod]
      /\ IF resting.remaining_quantity = qty
         THEN /\ order' = [order EXCEPT ![n].remaining_quantity = 0]
              /\ lookup' = [lookup EXCEPT ![resting.order_id] = invalid_node]
              /\ UnlinkAndFree(s, l, n)
              /\ best' = IF head'[s][l] = invalid_node
                         THEN [best EXCEPT ![s] = refresh_best(s, l, head'[s])]
                         ELSE best
         ELSE /\ order' = [order EXCEPT ![n].remaining_quantity = @ - qty,
                                        ![n].order_status = "PartiallyFilled"]
              /\ UNCHANGED <<head, tail, best, lookup, prev, next, next_free, in_use,
                             pool_size, free_head>>

\* The outer loop finds the best level empty: its inner loop trades nothing, and
\* the best level is looked for again. (With a current best level it never does.)
PassEmptyLevel(s) ==
  /\ best' = [best EXCEPT ![s] = refresh_best(s, best[s], head[s])]
  /\ UNCHANGED <<handlerVars, head, tail, total_quantity, poolVars, lookup>>

MatchBest(s) ==
  IF front_node(s) = invalid_node THEN PassEmptyLevel(s) ELSE MatchFront(s)

match_buy ==
  /\ pc = "matching" /\ incoming.side = "Buy"
  /\ CanMatch("Sell")
  /\ MatchBest("Sell")

match_sell ==
  /\ pc = "matching" /\ incoming.side = "Sell"
  /\ CanMatch("Buy")
  /\ MatchBest("Buy")

MatchingDone == pc = "matching" /\ ~CanMatch(Opposite(incoming.side))

\* add_resting_order: what is left of a limit order enters the book.
add_resting_order ==
  /\ MatchingDone
  /\ incoming.remaining_quantity > 0 /\ ~is_market
  /\ UNCHANGED next_sequence_number
  /\ LET s == incoming.side
         l == price_to_level_index(incoming.price)
     IN  IF ~on_ladder(incoming.price)
         THEN /\ Return(new_req, Append(events,
                   [NewRejected(new_req, "InvalidLimitPrice")
                      EXCEPT !.quantity = incoming.remaining_quantity]))
              /\ UNCHANGED bookVars
         ELSE /\ AllocateAndPush(s, l, [incoming EXCEPT !.order_status = "Resting"])
              /\ total_quantity' = [total_quantity EXCEPT
                   ![s][l] = (@ + incoming.remaining_quantity) % QuantityMod]
              /\ best' = IF \/ best[s] = invalid_level
                            \/ s = "Buy" /\ l > best[s]
                            \/ s = "Sell" /\ l < best[s]
                         THEN [best EXCEPT ![s] = l] ELSE best
              /\ lookup' = [lookup EXCEPT ![incoming.order_id] = allocated_node]
              /\ Return(new_req, Append(events, OrderRested(incoming)))

\* The order is filled, or it is a market order and its remainder is cancelled.
NothingRests ==
  /\ MatchingDone
  /\ incoming.remaining_quantity = 0 \/ is_market
  /\ FinishWithoutResting
  /\ UNCHANGED bookVars

-----------------------------------------------------------------------------
Submit ==
  \/ \E req \in NewOrderRequests : SubmitNew(req)
  \/ \E req \in ModifyOrderRequests : SubmitModify(req)
  \/ \E req \in CancelOrderRequests : SubmitCancel(req)

\* The steps that follow once a call has started.
Continue ==
  \/ Resubmit
  \/ match_buy \/ match_sell
  \/ add_resting_order \/ NothingRests
  \/ Collect /\ UNCHANGED bookVars

Next == Submit \/ Continue

Spec == Init /\ [][Next]_vars

\* The thread that called submit() keeps running until the call returns.
FairSpec == Spec /\ WF_vars(Continue)
=============================================================================
