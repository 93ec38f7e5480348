----------------------- MODULE LadderPoolBook_proofs -----------------------
(***************************************************************************)
(* LadderPoolBook, for every ladder, pool capacity and set of requests:    *)
(* IInv is inductive, and the safety properties follow from it.            *)
(***************************************************************************)
EXTENDS LadderPoolProperties, OrderHandler_proofs

-----------------------------------------------------------------------------
(***************************************************************************)
(* Numbers.                                                                *)
(***************************************************************************)

LEMMA MultiplesGrow ==
  ASSUME NEW t \in Nat \ {0}, NEW a \in Nat, NEW b \in Nat, a < b
  PROVE  a * t < b * t
<1>1. PICK d \in Nat \ {0} : b = a + d
  <2>1. b - a \in Nat \ {0} /\ b = a + (b - a)
    OBVIOUS
  <2> QED BY <2>1
<1>2. d * t >= 1
  OBVIOUS
<1>3. b * t = a * t + d * t
  BY <1>1
<1> QED BY <1>2, <1>3

LEMMA DivideExactly ==
  ASSUME NEW p \in Nat, NEW t \in Nat \ {0}, p % t = 0
  PROVE  p \div t \in Nat /\ p = (p \div t) * t
  OBVIOUS

-----------------------------------------------------------------------------
(***************************************************************************)
(* The ladder.                                                             *)
(***************************************************************************)
LEMMA LadderFacts ==
  /\ level_count \in Nat
  /\ Levels \subseteq Nat
  /\ invalid_level \notin Levels
  /\ Nodes \subseteq Nat /\ PoolCapacity \in Nat
  /\ invalid_node \notin Nodes
<1>1. (MaxPrice - MinPrice) \div TickSize \in Nat
  BY LadderAssumption, DivideExactly
<1>2. level_count \in Nat
  <2> DEFINE levels == (MaxPrice - MinPrice) \div TickSize + 1
  <2>1. levels \in Nat
    BY <1>1
  <2> HIDE DEF levels
  <2>2. levels % PriceMod \in Nat
    BY <2>1, LadderAssumption
  <2> QED BY <2>2 DEF level_count, levels
<1> QED BY <1>2, PoolAssumption DEF Levels, invalid_level, Nodes, invalid_node

\* price_to_level_index and level_index_to_price are inverse on the ladder.
LEMMA PriceOfLevel ==
  ASSUME NEW p \in Nat, on_ladder(p)
  PROVE  /\ price_to_level_index(p) \in Levels
         /\ level_index_to_price(price_to_level_index(p)) = p
<1>1. p - MinPrice \in Nat /\ (p - MinPrice) % TickSize = 0
  BY LadderAssumption DEF on_ladder
<1>2. /\ (p - MinPrice) \div TickSize \in Nat
      /\ p - MinPrice = ((p - MinPrice) \div TickSize) * TickSize
  BY <1>1, LadderAssumption, DivideExactly
<1>3. price_to_level_index(p) \in Levels
  BY <1>2, LadderFacts DEF on_ladder, price_to_level_index, Levels
<1>4. level_index_to_price(price_to_level_index(p)) = p
  BY <1>2, LadderAssumption DEF level_index_to_price, price_to_level_index
<1> QED BY <1>3, <1>4

\* A higher level has a higher price, so a price has one level.
LEMMA LevelPricesGrow ==
  ASSUME NEW a \in Levels, NEW b \in Levels
  PROVE  /\ level_index_to_price(a) \in Nat
         /\ a < b => level_index_to_price(a) < level_index_to_price(b)
         /\ level_index_to_price(a) = level_index_to_price(b) => a = b
<1>1. a \in Nat /\ b \in Nat
  BY LadderFacts
<1>2. a * TickSize \in Nat /\ b * TickSize \in Nat
  BY <1>1, LadderAssumption
<1>3. /\ a < b => a * TickSize < b * TickSize
      /\ b < a => b * TickSize < a * TickSize
  BY <1>1, LadderAssumption, MultiplesGrow
<1> QED BY <1>1, <1>2, <1>3, LadderAssumption DEF level_index_to_price

-----------------------------------------------------------------------------
(***************************************************************************)
(* The lists of the levels.                                                *)
(***************************************************************************)

\* Arrival is a strict total order of the orders at rest.
LEMMA ArrivalOrder ==
  ASSUME IInv
  PROVE  /\ \A m \in in_use : ~Earlier(m, m)
         /\ \A m, n \in in_use : m # n => Earlier(m, n) \/ Earlier(n, m)
         /\ \A m, n \in in_use : Earlier(m, n) => ~Earlier(n, m)
         /\ \A m, n, k \in in_use : Earlier(m, n) /\ Earlier(n, k) => Earlier(m, k)
<1>1. \A n \in in_use : order[n].sequence_number \in Nat
  BY DEF IInv, BookIsSound, TypeOK, LadderTypeOK, Order
<1> QED BY <1>1 DEF IInv, BookIsSound, ArrivalsDiffer, Earlier

\* Every order at rest belongs to one level of one side.
LEMMA LevelOfOrder ==
  ASSUME IInv
  PROVE  /\ in_use \subseteq Nodes
         /\ \A n \in in_use :
              /\ order[n] \in Order
              /\ order[n].side \in BookSides
              /\ price_to_level_index(order[n].price) \in Levels
              /\ n \in Resting(order[n].side, price_to_level_index(order[n].price))
         /\ \A s \in BookSides, l \in Levels : \A n \in Resting(s, l) :
              /\ n \in in_use
              /\ order[n].side = s
              /\ price_to_level_index(order[n].price) = l
<1>1. in_use \subseteq Nodes /\ \A n \in in_use : order[n] \in Order
  BY DEF IInv, BookIsSound, TypeOK, LadderTypeOK
<1>2. ASSUME NEW n \in in_use
      PROVE  /\ order[n].side \in BookSides
             /\ price_to_level_index(order[n].price) \in Levels
             /\ n \in Resting(order[n].side, price_to_level_index(order[n].price))
  <2>1. order[n].price \in Nat /\ on_ladder(order[n].price) /\ order[n].side \in BookSides
    BY <1>1 DEF IInv, BookIsSound, OrdersAreSound, Order
  <2> QED BY <2>1, PriceOfLevel DEF Resting
<1>3. ASSUME NEW s \in BookSides, NEW l \in Levels, NEW n \in Resting(s, l)
      PROVE  /\ n \in in_use /\ order[n].side = s
             /\ price_to_level_index(order[n].price) = l
  <2>1. /\ n \in in_use /\ order[n].side = s
        /\ order[n].price = level_index_to_price(l)
    BY DEF Resting
  <2>2. order[n].price \in Nat /\ on_ladder(order[n].price)
    BY <1>1, <2>1 DEF IInv, BookIsSound, OrdersAreSound, Order
  <2> QED BY <2>1, <2>2, PriceOfLevel, LevelPricesGrow
<1> QED BY <1>1, <1>2, <1>3

\* A step leaves alone what the lists depend on in the orders of S.
SameOrders(S) ==
  \A n \in S : /\ order'[n].side = order[n].side
               /\ order'[n].price = order[n].price
               /\ order'[n].sequence_number = order[n].sequence_number

\* The neighbours of a node are of its level, and are next to it from both sides.
LEMMA Neighbours ==
  ASSUME IInv, NEW s \in BookSides, NEW l \in Levels, NEW n \in Resting(s, l)
  PROVE  /\ prev[n] # invalid_node =>
              /\ prev[n] \in Resting(s, l) /\ Earlier(prev[n], n)
              /\ \A m \in Resting(s, l) : Earlier(m, n) => m = prev[n] \/ Earlier(m, prev[n])
         /\ prev[n] = invalid_node => \A m \in Resting(s, l) : ~Earlier(m, n)
         /\ next[n] # invalid_node =>
              /\ next[n] \in Resting(s, l) /\ Earlier(n, next[n])
              /\ \A m \in Resting(s, l) : Earlier(n, m) => m = next[n] \/ Earlier(next[n], m)
         /\ next[n] = invalid_node => \A m \in Resting(s, l) : ~Earlier(n, m)
<1>1. invalid_node \notin Resting(s, l)
  BY LadderFacts, LevelOfOrder
<1>2. /\ Earliest(next[n], {m \in Resting(s, l) : Earlier(n, m)})
      /\ Latest(prev[n], {m \in Resting(s, l) : Earlier(m, n)})
  BY DEF IInv, BookIsSound, TimePriorityLinks, Links
<1> QED BY <1>1, <1>2 DEF Earliest, Latest

\* unlink_from_level and free_node keep every list in order of arrival.
LEMMA UnlinkKeepsOrder ==
  ASSUME IInv, NEW s0 \in BookSides, NEW l0 \in Levels, NEW n0 \in Resting(s0, l0),
         UnlinkAndFree(s0, l0, n0), SameOrders(in_use \ {n0})
  PROVE  TimePriorityLinks'
<1> SUFFICES ASSUME NEW s \in BookSides, NEW l \in Levels PROVE Links(s, l)'
  BY DEF TimePriorityLinks
<1> DEFINE R == Resting(s, l)
<1>0. /\ R \subseteq in_use /\ n0 \in in_use /\ in_use \subseteq Nodes
      /\ invalid_node \notin in_use
  BY LevelOfOrder, LadderFacts
<1>1. Resting(s, l)' = R \ {n0}
  BY <1>0 DEF Resting, UnlinkAndFree, unlink_from_level, free_node, NextWithout, PrevWithout, SameOrders
<1>2. \A m, n \in R \ {n0} : Earlier(m, n)' <=> Earlier(m, n)
  BY <1>0 DEF Earlier, SameOrders
<1>3. /\ Earliest(head[s][l], R) /\ Latest(tail[s][l], R)
      /\ \A n \in R : /\ Earliest(next[n], {m \in R : Earlier(n, m)})
                     /\ Latest(prev[n], {m \in R : Earlier(m, n)})
  BY DEF IInv, BookIsSound, TimePriorityLinks, Links
<1>4. /\ head \in [BookSides -> [Levels -> Nodes \cup {invalid_node}]]
      /\ tail \in [BookSides -> [Levels -> Nodes \cup {invalid_node}]]
  BY DEF IInv, BookIsSound, TypeOK, LadderTypeOK
<1>5. /\ \A n \in R \ {n0} : next'[n] = IF n = prev[n0] THEN next[n0] ELSE next[n]
      /\ \A n \in R \ {n0} : prev'[n] = IF n = next[n0] THEN prev[n0] ELSE prev[n]
  BY <1>0 DEF UnlinkAndFree, unlink_from_level, free_node, NextWithout, PrevWithout
<1>6. CASE ~(s = s0 /\ l = l0)
  <2>1. n0 \notin R /\ prev[n0] \notin R /\ next[n0] \notin R
    BY <1>0, <1>6, Neighbours, LevelOfOrder
  <2>2. head'[s][l] = head[s][l] /\ tail'[s][l] = tail[s][l]
    BY <1>4, <1>6 DEF UnlinkAndFree, unlink_from_level, free_node, NextWithout, PrevWithout
  <2> QED BY <1>1, <1>2, <1>3, <1>5, <2>1, <2>2 DEF Links, Earliest, Latest
<1>7. CASE s = s0 /\ l = l0
  <2> HIDE DEF R
  <2>1. head'[s][l] = IF prev[n0] = invalid_node THEN next[n0] ELSE head[s][l]
    BY <1>4, <1>7 DEF UnlinkAndFree, unlink_from_level, free_node, NextWithout, PrevWithout
  <2>2. tail'[s][l] = IF next[n0] = invalid_node THEN prev[n0] ELSE tail[s][l]
    BY <1>4, <1>7 DEF UnlinkAndFree, unlink_from_level, free_node, NextWithout, PrevWithout
  <2>3. n0 \in R
    BY <1>7 DEF R
  <2>4. /\ \A m \in R : ~Earlier(m, m)
        /\ \A m, n \in R : m # n => Earlier(m, n) \/ Earlier(n, m)
        /\ \A m, n \in R : Earlier(m, n) => ~Earlier(n, m)
        /\ \A m, n, k \in R : Earlier(m, n) /\ Earlier(n, k) => Earlier(m, k)
    BY <1>0, ArrivalOrder
  <2>5. \A n \in R :
         /\ prev[n] # invalid_node =>
              /\ prev[n] \in R /\ Earlier(prev[n], n)
              /\ \A m \in R : Earlier(m, n) => m = prev[n] \/ Earlier(m, prev[n])
         /\ prev[n] = invalid_node => \A m \in R : ~Earlier(m, n)
         /\ next[n] # invalid_node =>
              /\ next[n] \in R /\ Earlier(n, next[n])
              /\ \A m \in R : Earlier(n, m) => m = next[n] \/ Earlier(next[n], m)
         /\ next[n] = invalid_node => \A m \in R : ~Earlier(n, m)
    BY Neighbours DEF R
  <2>6. invalid_node \notin R
    BY <1>0
  <2>7. Earliest(head'[s][l], R \ {n0})
    BY <1>3, <2>1, <2>3, <2>4, <2>5, <2>6 DEF Earliest
  <2>8. Latest(tail'[s][l], R \ {n0})
    BY <1>3, <2>2, <2>3, <2>4, <2>5, <2>6 DEF Latest
  <2>9. ASSUME NEW n \in R \ {n0}
        PROVE  Earliest(next'[n], {m \in R \ {n0} : Earlier(n, m)})
    BY <1>5, <2>3, <2>4, <2>5, <2>6 DEF Earliest
  <2>10. ASSUME NEW n \in R \ {n0}
        PROVE  Latest(prev'[n], {m \in R \ {n0} : Earlier(m, n)})
    BY <1>5, <2>3, <2>4, <2>5, <2>6 DEF Latest
  <2> QED BY <1>1, <1>2, <2>7, <2>8, <2>9, <2>10 DEF Links, Earliest, Latest
<1> QED BY <1>6, <1>7

\* allocate_node never hands out a node that holds an order.
LEMMA AllocatedNodeIsFree ==
  ASSUME IInv
  PROVE  allocated_node \notin in_use
<1>1. free_head # invalid_node => free_head \notin in_use
  BY DEF IInv, BookIsSound, NodesAreConserved, Free
<1>2. pool_size \notin in_use
  BY LadderFacts DEF IInv, BookIsSound, NodesAreConserved, Constructed, TypeOK, LadderTypeOK
<1> QED BY <1>1, <1>2 DEF allocated_node

\* allocate_node and push_back_level keep every list in order of arrival.
LEMMA PushKeepsOrder ==
  ASSUME IInv, NEW s0 \in BookSides, NEW l0 \in Levels, NEW o \in Order,
         o.side = s0, o.price = level_index_to_price(l0),
         \A n \in in_use : order[n].sequence_number < o.sequence_number,
         AllocateAndPush(s0, l0, o)
  PROVE  TimePriorityLinks'
<1> SUFFICES ASSUME NEW s \in BookSides, NEW l \in Levels PROVE Links(s, l)'
  BY DEF TimePriorityLinks
<1>a. PICK a : a = allocated_node
  OBVIOUS
<1>b. PICK last : last = tail[s0][l0]
  OBVIOUS
<1>c. PICK R : R = Resting(s, l)
  OBVIOUS
<1>0. /\ R \subseteq in_use /\ in_use \subseteq Nodes
      /\ invalid_node \notin Nodes
      /\ a \in Nodes /\ a \notin in_use
  BY <1>a, <1>c, LevelOfOrder, LadderFacts, AllocatedNodeIsFree DEF AllocateAndPush, allocate_node, push_back_level
<1>1. /\ order \in [Nodes -> Order]
      /\ head \in [BookSides -> [Levels -> Nodes \cup {invalid_node}]]
      /\ tail \in [BookSides -> [Levels -> Nodes \cup {invalid_node}]]
      /\ prev \in [Nodes -> Nodes \cup {invalid_node}]
  BY DEF IInv, BookIsSound, TypeOK, LadderTypeOK
<1>2. /\ in_use' = in_use \cup {a}
      /\ order'[a] = o
      /\ \A n \in in_use : order'[n] = order[n]
  BY <1>0, <1>1, <1>a DEF AllocateAndPush, allocate_node, push_back_level
<1>3. /\ Earliest(head[s][l], R) /\ Latest(tail[s][l], R)
      /\ \A n \in R : /\ Earliest(next[n], {m \in R : Earlier(n, m)})
                     /\ Latest(prev[n], {m \in R : Earlier(m, n)})
  BY <1>c DEF IInv, BookIsSound, TimePriorityLinks, Links
<1>4. /\ \A m, n \in in_use : Earlier(m, n)' <=> Earlier(m, n)
      /\ \A m \in in_use : Earlier(m, a)' /\ ~Earlier(a, m)'
      /\ ~Earlier(a, a)'
  <2>1. /\ \A m \in in_use : order[m].sequence_number \in Nat
        /\ o.sequence_number \in Nat
    BY <1>0, <1>1 DEF Order
  <2> QED BY <1>0, <1>2, <2>1 DEF Earlier
<1>5. /\ \A n \in R : prev'[n] = prev[n]
      /\ \A n \in R : next'[n] = IF n = last THEN a ELSE next[n]
      /\ prev'[a] = last
      /\ next'[a] = invalid_node
  BY <1>0, <1>1, <1>a, <1>b DEF AllocateAndPush, allocate_node, push_back_level
<1>6. CASE ~(s = s0 /\ l = l0)
  <2>1. Resting(s, l)' = R
    <3>1. a \notin Resting(s, l)'
      BY <1>2, <1>6, LevelPricesGrow DEF Resting
    <3> QED BY <1>2, <1>c, <3>1 DEF Resting
  <2>2. last \notin R
    <3>1. last = invalid_node \/ last \in Resting(s0, l0)
      BY <1>b DEF IInv, BookIsSound, TimePriorityLinks, Links, Latest
    <3> QED BY <1>0, <1>6, <1>c, <3>1, LevelOfOrder
  <2>3. head'[s][l] = head[s][l] /\ tail'[s][l] = tail[s][l]
    BY <1>1, <1>6 DEF AllocateAndPush, allocate_node, push_back_level
  <2>4. \A n \in R : next'[n] = next[n]
    BY <1>5, <2>2
  <2> QED BY <1>0, <1>3, <1>4, <1>5, <2>1, <2>3, <2>4 DEF Links, Earliest, Latest
<1>7. CASE s = s0 /\ l = l0
  <2>1. Resting(s, l)' = R \cup {a}
    BY <1>0, <1>2, <1>7, <1>c DEF Resting
  <2>2. /\ head'[s][l] = IF last = invalid_node THEN a ELSE head[s][l]
        /\ tail'[s][l] = a
    BY <1>1, <1>7, <1>a, <1>b DEF AllocateAndPush, allocate_node, push_back_level
  <2>3. Latest(last, R)
    BY <1>3, <1>7, <1>b
  <2>4. /\ \A m \in R : ~Earlier(m, m)
        /\ \A m, n \in R : m # n => Earlier(m, n) \/ Earlier(n, m)
        /\ \A m, n \in R : Earlier(m, n) => ~Earlier(n, m)
    BY <1>0, ArrivalOrder
  <2>5. Earliest(head[s][l], R) /\ (last = invalid_node <=> R = {})
    BY <1>0, <1>3, <2>3 DEF Latest
  <2>6. Earliest(head[s][l], R \cup {a})'
    BY <1>0, <1>4, <2>2, <2>5 DEF Earliest
  <2>7. Latest(tail[s][l], R \cup {a})'
    BY <1>0, <1>4, <2>2 DEF Latest
  <2>8. ASSUME NEW n \in R \cup {a}
        PROVE  Earliest(next[n], {m \in R \cup {a} : Earlier(n, m)})'
    <3>1. CASE n = a
      BY <1>0, <1>4, <1>5, <3>1 DEF Earliest
    <3>2. CASE n \in R /\ n = last
      BY <1>0, <1>4, <1>5, <2>3, <2>4, <3>2 DEF Earliest, Latest
    <3>3. CASE n \in R /\ n # last
      BY <1>0, <1>3, <1>4, <1>5, <2>3, <2>4, <3>3 DEF Earliest, Latest
    <3> QED BY <3>1, <3>2, <3>3
  <2>9. ASSUME NEW n \in R \cup {a}
        PROVE  Latest(prev[n], {m \in R \cup {a} : Earlier(m, n)})'
    <3>1. CASE n = a
      <4>1. {m \in R \cup {a} : Earlier(m, n)}' = R
        BY <1>0, <1>4, <3>1
      <4>2. Latest(last, R)'
        BY <1>0, <1>4, <2>3 DEF Latest
      <4> QED BY <1>5, <3>1, <4>1, <4>2
    <3>2. CASE n \in R
      <4>1. {m \in R \cup {a} : Earlier(m, n)}' = {m \in R : Earlier(m, n)}
        BY <1>0, <1>4, <3>2
      <4>2. \A S \in SUBSET R : Latest(prev[n], S) => Latest(prev[n], S)'
        <5>1. prev'[n] = prev[n]
          BY <1>5, <3>2
        <5>2. ASSUME NEW S \in SUBSET R, Latest(prev[n], S) PROVE Latest(prev[n], S)'
          BY <1>0, <1>4, <5>1, <5>2 DEF Latest
        <5> QED BY <5>2
      <4> QED BY <1>3, <3>2, <4>1, <4>2
    <3> QED BY <3>1, <3>2
  <2> QED BY <2>1, <2>6, <2>7, <2>8, <2>9 DEF Links
<1> QED BY <1>6, <1>7

-----------------------------------------------------------------------------
(***************************************************************************)
(* The pool.                                                               *)
(***************************************************************************)

\* free_node puts the node on the free stack and loses none.
LEMMA FreeingConservesNodes ==
  ASSUME IInv, NEW s0, NEW l0, NEW n0 \in in_use, UnlinkAndFree(s0, l0, n0)
  PROVE  NodesAreConserved'
<1>1. /\ pool_size \in Nat /\ in_use \subseteq Constructed
      /\ n0 \in Nodes /\ n0 \notin Free /\ n0 # invalid_node
      /\ invalid_node \notin Free /\ Free \subseteq Nodes
      /\ next_free \in [Nodes -> Nodes \cup {invalid_node}]
  BY LadderFacts DEF IInv, BookIsSound, NodesAreConserved, TypeOK, LadderTypeOK, Free, Constructed, Nodes, invalid_node
<1>2. /\ Free' = Free \cup {n0} /\ in_use' \subseteq Constructed'
      /\ free_head' = n0
  BY <1>1 DEF UnlinkAndFree, unlink_from_level, free_node, NextWithout, PrevWithout, Free, Constructed
<1>3. /\ next_free'[n0] = free_head
      /\ \A n \in Free : next_free'[n] = next_free[n]
  BY <1>1 DEF UnlinkAndFree, unlink_from_level, free_node, NextWithout, PrevWithout
<1>4. /\ free_head \in Free \cup {invalid_node}
      /\ \A n \in Free : next_free[n] \in (Free \cup {invalid_node}) \ {free_head}
      /\ \A m, n \in Free : next_free[m] = next_free[n] => m = n
      /\ \A S \in SUBSET Free : ClosedFromTop(S) => S = Free
  BY DEF IInv, BookIsSound, NodesAreConserved
<1>5. \A n \in Free' : next_free'[n] \in (Free' \cup {invalid_node}) \ {free_head'}
  BY <1>1, <1>2, <1>3, <1>4
<1>6. \A m, n \in Free' : next_free'[m] = next_free'[n] => m = n
  BY <1>1, <1>2, <1>3, <1>4
<1>7. ASSUME NEW S \in SUBSET Free', ClosedFromTop(S)'
      PROVE  S = Free'
  <2>1. n0 \in S /\ \A n \in S : next_free'[n] \in S \cup {invalid_node}
    BY <1>1, <1>2, <1>7 DEF ClosedFromTop
  <2>2. S \ {n0} \in SUBSET Free
    BY <1>2
  <2>3. ClosedFromTop(S \ {n0})
    BY <1>1, <1>3, <1>4, <2>1, <2>2 DEF ClosedFromTop
  <2> QED BY <1>2, <1>4, <2>1, <2>2, <2>3
<1> QED BY <1>2, <1>5, <1>6, <1>7 DEF NodesAreConserved

\* allocate_node takes the top of the free stack, or a node that is new.
LEMMA AllocatingConservesNodes ==
  ASSUME IInv, NEW s0, NEW l0, NEW o, AllocateAndPush(s0, l0, o)
  PROVE  /\ NodesAreConserved'
         /\ pool_size' \in 0 .. PoolCapacity
         /\ pool_size' # pool_size => in_use = Constructed
<1>1. /\ pool_size \in Nat /\ pool_size <= PoolCapacity /\ in_use \subseteq Constructed
      /\ invalid_node \notin Free /\ Free \subseteq Nodes
      /\ next_free \in [Nodes -> Nodes \cup {invalid_node}]
  <2>1. pool_size \in 0 .. PoolCapacity /\ in_use \subseteq Constructed
    BY DEF IInv, BookIsSound, NodesAreConserved, TypeOK, LadderTypeOK
  <2>2. Free \subseteq Nodes
    BY <2>1, PoolAssumption DEF Free, Constructed, Nodes
  <2>3. next_free \in [Nodes -> Nodes \cup {invalid_node}]
    BY DEF IInv, BookIsSound, TypeOK, LadderTypeOK
  <2>4. pool_size \in Nat /\ pool_size <= PoolCapacity
    BY <2>1, PoolAssumption
  <2>5. invalid_node \notin Free
    BY <2>2, LadderFacts
  <2> QED BY <2>1, <2>2, <2>3, <2>4, <2>5
<1>2. /\ free_head \in Free \cup {invalid_node}
      /\ \A n \in Free : next_free[n] \in (Free \cup {invalid_node}) \ {free_head}
      /\ \A m, n \in Free : next_free[m] = next_free[n] => m = n
      /\ \A S \in SUBSET Free : ClosedFromTop(S) => S = Free
  BY DEF IInv, BookIsSound, NodesAreConserved
<1>3. CASE free_head = invalid_node
  <2>1. Free = {}
    <3>1. ClosedFromTop({})
      BY <1>3 DEF ClosedFromTop
    <3>2. {} \in SUBSET Free
      OBVIOUS
    <3> QED BY <1>2, <3>1, <3>2
  <2>2. in_use = Constructed
    BY <1>1, <2>1 DEF Free
  <2>3. /\ allocated_node = pool_size /\ pool_size \in Nodes
        /\ pool_size' = pool_size + 1 /\ in_use' = in_use \cup {pool_size}
        /\ free_head' = free_head
    BY <1>3 DEF AllocateAndPush, allocate_node, push_back_level, allocated_node
  <2>4. Constructed' = Constructed \cup {pool_size}
    BY <1>1, <2>3 DEF Constructed
  <2>5. Free' = {}
    BY <2>2, <2>3, <2>4 DEF Free
  <2> QED BY <1>1, <1>3, <2>2, <2>3, <2>4, <2>5, LadderFacts DEF NodesAreConserved, Nodes
<1>4. CASE free_head # invalid_node
  <2>1. /\ allocated_node = free_head /\ free_head \in Free
        /\ pool_size' = pool_size /\ in_use' = in_use \cup {free_head}
        /\ free_head' = next_free[free_head]
    BY <1>2, <1>4 DEF AllocateAndPush, allocate_node, push_back_level, allocated_node
  <2>2. Free' = Free \ {free_head} /\ in_use' \subseteq Constructed'
    BY <1>1, <2>1 DEF Free, Constructed
  <2>3. \A n \in Free' : next_free'[n] = next_free[n]
    BY <1>1, <2>1, <2>2 DEF AllocateAndPush, allocate_node, push_back_level
  <2>4. free_head' \in Free' \cup {invalid_node}
    BY <1>2, <2>1, <2>2
  <2>5. \A n \in Free' : next_free'[n] \in (Free' \cup {invalid_node}) \ {free_head'}
    BY <1>2, <2>1, <2>2, <2>3
  <2>6. \A m, n \in Free' : next_free'[m] = next_free'[n] => m = n
    BY <1>2, <2>2, <2>3
  <2>7. ASSUME NEW S \in SUBSET Free', ClosedFromTop(S)'
        PROVE  S = Free'
    <3>1. ClosedFromTop(S \cup {free_head})
      BY <2>1, <2>2, <2>3, <2>7 DEF ClosedFromTop
    <3>2. S \cup {free_head} = Free
      BY <1>2, <2>1, <2>2, <3>1
    <3> QED BY <2>2, <3>2
  <2> QED BY <1>1, <2>1, <2>2, <2>4, <2>5, <2>6, <2>7 DEF NodesAreConserved
<1> QED BY <1>3, <1>4

-----------------------------------------------------------------------------
(***************************************************************************)
(* The cached best levels.                                                 *)
(***************************************************************************)

\* Level l is no better than level b for orders of side s.
NoBetter(s, l, b) == IF s = "Buy" THEN l <= b ELSE l >= b

\* The scans find the best occupied level among those they look at.
LEMMA RefreshFindsBest ==
  ASSUME NEW s \in BookSides, NEW start \in Levels, NEW h
  PROVE  /\ refresh_best(s, start, h) \in Levels \cup {invalid_level}
         /\ refresh_best(s, start, h) # invalid_level =>
              h[refresh_best(s, start, h)] # invalid_node
         /\ \A l \in Levels :
              NoBetter(s, l, start) /\ h[l] # invalid_node =>
                /\ refresh_best(s, start, h) # invalid_level
                /\ NoBetter(s, l, refresh_best(s, start, h))
<1>1. CASE s = "Buy"
  <2> DEFINE S == {l \in Levels : l <= start /\ h[l] # invalid_node}
  <2>1. refresh_best(s, start, h) = IF S = {} THEN invalid_level ELSE Max(S)
    BY <1>1 DEF refresh_best, refresh_best_bid_from
  <2>2. \A l \in S : l \in Levels /\ h[l] # invalid_node
    OBVIOUS
  <2>3. \A l \in Levels : NoBetter(s, l, start) /\ h[l] # invalid_node => l \in S
    BY <1>1 DEF NoBetter
  <2>4. level_count \in Nat /\ S \in SUBSET (0 .. level_count)
    BY LadderFacts DEF Levels
  <2> HIDE DEF S
  <2>5. S # {} => Max(S) \in S /\ \A y \in S : Max(S) >= y
    BY <2>4, MaxInSet
  <2>6. \A l \in S : NoBetter(s, l, Max(S))
    BY <1>1, <2>2, <2>5, LadderFacts DEF NoBetter
  <2> QED BY <2>1, <2>2, <2>3, <2>5, <2>6, LadderFacts
<1>2. CASE s = "Sell"
  <2> DEFINE S == {l \in Levels : l >= start /\ h[l] # invalid_node}
  <2>1. refresh_best(s, start, h) = IF S = {} THEN invalid_level ELSE Min(S)
    BY <1>2 DEF refresh_best, refresh_best_ask_from
  <2>2. \A l \in S : l \in Levels /\ h[l] # invalid_node
    OBVIOUS
  <2>3. \A l \in Levels : NoBetter(s, l, start) /\ h[l] # invalid_node => l \in S
    BY <1>2 DEF NoBetter
  <2>4. S \in SUBSET Nat
    BY LadderFacts
  <2> HIDE DEF S
  <2>5. S # {} => Min(S) \in S /\ \A y \in S : Min(S) <= y
    BY <2>4, MinInSet
  <2>6. \A l \in S : NoBetter(s, l, Min(S))
    BY <1>2, <2>2, <2>4, <2>5, LadderFacts DEF NoBetter
  <2> QED BY <2>1, <2>2, <2>3, <2>5, <2>6, LadderFacts
<1> QED BY <1>1, <1>2 DEF BookSides

\* A level has a head exactly when an order rests there.
LEMMA HeadWhenOccupied ==
  ASSUME in_use \subseteq Nodes, TimePriorityLinks,
         NEW s \in BookSides, NEW l \in Levels
  PROVE  /\ head[s][l] # invalid_node <=> Resting(s, l) # {}
         /\ Resting(s, l) # {} => head[s][l] \in Resting(s, l)
<1>1. Earliest(head[s][l], Resting(s, l))
  BY DEF TimePriorityLinks, Links
<1>2. invalid_node \notin Resting(s, l)
  BY LadderFacts DEF Resting
<1> QED BY <1>1, <1>2 DEF Earliest

LEMMA HeadWhenOccupiedNext ==
  ASSUME in_use' \subseteq Nodes, TimePriorityLinks',
         NEW s \in BookSides, NEW l \in Levels
  PROVE  head'[s][l] # invalid_node <=> Resting(s, l)' # {}
<1>1. Earliest(head[s][l], Resting(s, l))'
  BY DEF TimePriorityLinks, Links
<1>2. invalid_node \notin Resting(s, l)'
  BY LadderFacts DEF Resting
<1> QED BY <1>1, <1>2 DEF Earliest

LEMMA RestingAfterUnlink ==
  ASSUME IInv, NEW s0 \in BookSides, NEW l0 \in Levels, NEW n0 \in Resting(s0, l0),
         UnlinkAndFree(s0, l0, n0), SameOrders(in_use \ {n0})
  PROVE  \A s, l : Resting(s, l)' = Resting(s, l) \ {n0}
  BY DEF Resting, UnlinkAndFree, unlink_from_level, free_node, NextWithout, PrevWithout, SameOrders

LEMMA UnlinkKeepsBest ==
  ASSUME IInv, NEW s0 \in BookSides, NEW l0 \in Levels, NEW n0 \in Resting(s0, l0),
         UnlinkAndFree(s0, l0, n0), SameOrders(in_use \ {n0}),
         best' = IF head'[s0][l0] = invalid_node /\ best[s0] = l0
                 THEN [best EXCEPT ![s0] = refresh_best(s0, l0, head'[s0])] ELSE best
  PROVE  best' \in [BookSides -> Levels \cup {invalid_level}] /\ BestIsCurrent'
<1>1. /\ best \in [BookSides -> Levels \cup {invalid_level}]
      /\ in_use' \subseteq Nodes
  BY DEF IInv, TypeOK, LadderTypeOK, UnlinkAndFree, unlink_from_level, free_node, NextWithout, PrevWithout
<1>2. \A s \in BookSides, l \in Levels : head'[s][l] # invalid_node <=> Resting(s, l)' # {}
  BY <1>1, UnlinkKeepsOrder, HeadWhenOccupiedNext
<1>3. \A s \in BookSides, l \in Levels : Resting(s, l)' = Resting(s, l) \ {n0}
  BY RestingAfterUnlink
<1>4. \A s \in BookSides :
        /\ best[s] # invalid_level => Resting(s, best[s]) # {}
        /\ \A l \in Levels :
             Resting(s, l) # {} => best[s] # invalid_level /\ NoBetter(s, l, best[s])
  BY DEF IInv, BookIsSound, BestIsCurrent, NoBetter
<1>5. ASSUME NEW s \in BookSides, ~(s = s0 /\ head'[s0][l0] = invalid_node /\ best[s0] = l0)
      PROVE  /\ best'[s] = best[s]
             /\ best'[s] # invalid_level => Resting(s, best[s])' # {}
  <2>1. best'[s] = best[s]
    BY <1>1, <1>5
  <2>2. CASE s = s0 /\ best[s] = l0
    BY <1>2, <1>5, <2>1, <2>2
  <2>3. CASE ~(s = s0 /\ best[s] = l0)
    <3>1. best[s] # invalid_level => n0 \notin Resting(s, best[s])
      BY <1>1, <2>3, LevelOfOrder
    <3> QED BY <1>1, <1>3, <1>4, <2>1, <3>1
  <2> QED BY <2>1, <2>2, <2>3
<1>6. ASSUME NEW s \in BookSides
      PROVE  /\ best'[s] \in Levels \cup {invalid_level}
             /\ best'[s] # invalid_level => Resting(s, best[s])' # {}
             /\ \A l \in Levels :
                  Resting(s, l)' # {} => best'[s] # invalid_level /\ NoBetter(s, l, best'[s])
  <2>1. CASE s = s0 /\ head'[s0][l0] = invalid_node /\ best[s0] = l0
    <3>1. best'[s] = refresh_best(s0, l0, head'[s0])
      BY <1>1, <2>1
    <3>2. \A l \in Levels : Resting(s, l)' # {} => NoBetter(s, l, l0) /\ head'[s][l] # invalid_node
      BY <1>2, <1>3, <1>4, <2>1
    <3> QED BY <1>2, <2>1, <3>1, <3>2, RefreshFindsBest
  <2>2. CASE ~(s = s0 /\ head'[s0][l0] = invalid_node /\ best[s0] = l0)
    BY <1>1, <1>3, <1>4, <1>5, <2>2
  <2> QED BY <2>1, <2>2
<1>7. best' \in [BookSides -> Levels \cup {invalid_level}]
  BY <1>1, <1>6, RefreshFindsBest
<1> QED BY <1>6, <1>7 DEF BestIsCurrent, NoBetter

LEMMA PushedNode ==
  ASSUME IInv, NEW s0 \in BookSides, NEW l0 \in Levels, NEW o \in Order,
         o.side = s0, o.price = level_index_to_price(l0), AllocateAndPush(s0, l0, o)
  PROVE  /\ allocated_node \in Nodes /\ allocated_node \notin in_use
         /\ in_use' = in_use \cup {allocated_node}
         /\ order'[allocated_node] = o
         /\ \A n \in in_use : order'[n] = order[n]
         /\ order' \in [Nodes -> Order]
         /\ \A s \in BookSides, l \in Levels :
              Resting(s, l)' = IF s = s0 /\ l = l0
                               THEN Resting(s, l) \cup {allocated_node} ELSE Resting(s, l)
<1>1. allocated_node \in Nodes /\ allocated_node \notin in_use
  BY AllocatedNodeIsFree DEF AllocateAndPush, allocate_node, push_back_level
<1>2. order \in [Nodes -> Order] /\ in_use \subseteq Nodes
  BY DEF IInv, TypeOK, LadderTypeOK
<1>3. /\ in_use' = in_use \cup {allocated_node}
      /\ order'[allocated_node] = o
      /\ \A n \in in_use : order'[n] = order[n]
      /\ order' \in [Nodes -> Order]
  BY <1>1, <1>2 DEF AllocateAndPush, allocate_node, push_back_level
<1>4. ASSUME NEW s \in BookSides, NEW l \in Levels
      PROVE  Resting(s, l)' = IF s = s0 /\ l = l0
                              THEN Resting(s, l) \cup {allocated_node} ELSE Resting(s, l)
  BY <1>1, <1>3, LevelPricesGrow DEF Resting
<1> QED BY <1>1, <1>3, <1>4

LEMMA PushKeepsBest ==
  ASSUME IInv, NEW s0 \in BookSides, NEW l0 \in Levels, NEW o \in Order,
         o.side = s0, o.price = level_index_to_price(l0), AllocateAndPush(s0, l0, o),
         best' = IF \/ best[s0] = invalid_level
                    \/ s0 = "Buy" /\ l0 > best[s0]
                    \/ s0 = "Sell" /\ l0 < best[s0]
                 THEN [best EXCEPT ![s0] = l0] ELSE best
  PROVE  best' \in [BookSides -> Levels \cup {invalid_level}] /\ BestIsCurrent'
<1>1. best \in [BookSides -> Levels \cup {invalid_level}]
  BY DEF IInv, TypeOK, LadderTypeOK
<1>2. \A s \in BookSides, l \in Levels :
        Resting(s, l)' = IF s = s0 /\ l = l0
                         THEN Resting(s, l) \cup {allocated_node} ELSE Resting(s, l)
  BY PushedNode
<1>3. \A s \in BookSides :
        /\ best[s] # invalid_level => Resting(s, best[s]) # {}
        /\ \A l \in Levels :
             Resting(s, l) # {} => best[s] # invalid_level /\ NoBetter(s, l, best[s])
  BY DEF IInv, BookIsSound, BestIsCurrent, NoBetter
<1>4. Levels \subseteq Nat /\ invalid_level \notin Levels
  BY LadderFacts
<1>5. ASSUME NEW s \in BookSides
      PROVE  /\ best'[s] \in Levels \cup {invalid_level}
             /\ best'[s] # invalid_level => Resting(s, best[s])' # {}
             /\ \A l \in Levels :
                  Resting(s, l)' # {} => best'[s] # invalid_level /\ NoBetter(s, l, best'[s])
  <2>1. CASE s # s0
    BY <1>1, <1>2, <1>3, <2>1
  <2>2. CASE s = s0 /\ best[s0] = invalid_level
    BY <1>1, <1>2, <1>3, <1>4, <2>2 DEF NoBetter
  <2>3. CASE s = s0 /\ best[s0] # invalid_level
    <3>1. best[s0] \in Levels
      BY <1>1, <2>3
    <3>2. best'[s0] = IF \/ s0 = "Buy" /\ l0 > best[s0]
                         \/ s0 = "Sell" /\ l0 < best[s0] THEN l0 ELSE best[s0]
      BY <1>1, <2>3
    <3>3. best'[s] \in {l0, best[s]}
      BY <2>3, <3>2
    <3>4. Resting(s, l0)' # {} /\ Resting(s, best[s0])' # {}
      BY <1>2, <1>3, <2>3, <3>1, <3>3
    <3>5. ASSUME NEW l \in Levels, Resting(s, l)' # {}
          PROVE  NoBetter(s, l, best'[s])
      <4>1. l = l0 \/ NoBetter(s, l, best[s])
        BY <1>2, <1>3, <2>3, <3>5
      <4>2. l \in Nat /\ l0 \in Nat /\ best[s] \in Nat
        BY <1>4, <2>3, <3>1
      <4> QED BY <2>3, <3>2, <4>1, <4>2 DEF NoBetter, BookSides
    <3> QED BY <1>4, <2>3, <3>1, <3>3, <3>4, <3>5
  <2> QED BY <2>1, <2>2, <2>3
<1>6. best' \in [BookSides -> Levels \cup {invalid_level}]
  BY <1>1
<1> QED BY <1>5, <1>6 DEF BestIsCurrent, NoBetter

-----------------------------------------------------------------------------
(***************************************************************************)
(* The four things that a step may do to the book keep it sound.           *)
(***************************************************************************)
TotalsAreTyped ==
  total_quantity \in [BookSides -> [Levels -> 0 .. QuantityMod - 1]]

LEMMA UnchangedBookIsSound ==
  ASSUME IInv, UNCHANGED bookVars,
         next_sequence_number' \in {next_sequence_number, next_sequence_number + 1}
  PROVE  LadderTypeOK' /\ BookIsSound'
<1> USE DEF bookVars, levelVars, poolVars
<1>1. LadderTypeOK'
  BY DEF IInv, TypeOK, LadderTypeOK
<1>2. OrdersAreSound'
  <2>1. \A n \in in_use : order[n].sequence_number < next_sequence_number'
    BY DEF IInv, BookIsSound, OrdersAreSound, TypeOK, HandlerTypeOK, LadderTypeOK, Order
  <2> QED BY <2>1 DEF IInv, BookIsSound, OrdersAreSound
<1>3. ArrivalsDiffer'
  BY DEF IInv, BookIsSound, ArrivalsDiffer, Earlier
<1>4. TimePriorityLinks'
  BY DEF IInv, BookIsSound, TimePriorityLinks, Links, Resting, Earlier, Earliest, Latest
<1>5. LookupIsExact'
  BY DEF IInv, BookIsSound, LookupIsExact, contains_order
<1>6. BestIsCurrent'
  BY DEF IInv, BookIsSound, BestIsCurrent, Resting
<1>7. NeverCrossed'
  BY DEF IInv, BookIsSound, NeverCrossed
<1>8. NodesAreConserved'
  BY DEF IInv, BookIsSound, NodesAreConserved, Free, Constructed, ClosedFromTop
<1> QED BY <1>1, <1>2, <1>3, <1>4, <1>5, <1>6, <1>7, <1>8 DEF BookIsSound

\* A cancel, or a fill that empties the resting order.
LEMMA RemovalKeepsBookSound ==
  ASSUME IInv, NEW n0 \in in_use, NEW s0 \in BookSides, NEW l0 \in Levels,
         n0 \in Resting(s0, l0),
         UnlinkAndFree(s0, l0, n0),
         order' \in [Nodes -> Order],
         \A n \in in_use \ {n0} : order'[n] = order[n],
         lookup' = [lookup EXCEPT ![order[n0].order_id] = invalid_node],
         best' = IF head'[s0][l0] = invalid_node /\ best[s0] = l0
                 THEN [best EXCEPT ![s0] = refresh_best(s0, l0, head'[s0])] ELSE best,
         TotalsAreTyped',
         UNCHANGED next_sequence_number
  PROVE  LadderTypeOK' /\ BookIsSound'
<1>1. SameOrders(in_use \ {n0}) /\ in_use' = in_use \ {n0}
  BY DEF SameOrders, UnlinkAndFree, unlink_from_level, free_node, NextWithout, PrevWithout
<1>2. LadderTypeOK
  BY DEF IInv, TypeOK
<1>3. best' \in [BookSides -> Levels \cup {invalid_level}] /\ BestIsCurrent'
  BY <1>1, UnlinkKeepsBest
<1>4. LadderTypeOK'
  <2>1. n0 \in Nodes /\ prev[n0] \in Nodes \cup {invalid_node}
        /\ next[n0] \in Nodes \cup {invalid_node}
    BY <1>2 DEF LadderTypeOK
  <2>2. head' \in [BookSides -> [Levels -> Nodes \cup {invalid_node}]]
        /\ tail' \in [BookSides -> [Levels -> Nodes \cup {invalid_node}]]
    BY <1>2, <2>1 DEF LadderTypeOK, UnlinkAndFree, unlink_from_level, free_node, NextWithout, PrevWithout
  <2>3. prev' \in [Nodes -> Nodes \cup {invalid_node}]
        /\ next' \in [Nodes -> Nodes \cup {invalid_node}]
    BY <1>2, <2>1 DEF LadderTypeOK, UnlinkAndFree, unlink_from_level, free_node, NextWithout, PrevWithout
  <2>4. next_free' \in [Nodes -> Nodes \cup {invalid_node}]
        /\ in_use' \in SUBSET Nodes /\ pool_size' \in 0 .. PoolCapacity
        /\ free_head' \in Nodes \cup {invalid_node}
    BY <1>2, <2>1 DEF LadderTypeOK, UnlinkAndFree, unlink_from_level, free_node, NextWithout, PrevWithout
  <2>5. lookup' \in [OrderIds -> Nodes \cup {invalid_node}]
    BY <1>2 DEF LadderTypeOK
  <2> QED BY <1>3, <2>2, <2>3, <2>4, <2>5 DEF LadderTypeOK, TotalsAreTyped
<1>5. OrdersAreSound'
  BY <1>1 DEF IInv, BookIsSound, OrdersAreSound
<1>6. ArrivalsDiffer'
  BY <1>1 DEF IInv, BookIsSound, ArrivalsDiffer, Earlier
<1>7. TimePriorityLinks'
  BY <1>1, UnlinkKeepsOrder
<1>8. LookupIsExact'
  BY <1>1, <1>2 DEF IInv, BookIsSound, LookupIsExact, contains_order, LadderTypeOK
<1>9. NeverCrossed'
  BY <1>1 DEF IInv, BookIsSound, NeverCrossed
<1>10. NodesAreConserved'
  BY FreeingConservesNodes
<1> QED BY <1>3, <1>4, <1>5, <1>6, <1>7, <1>8, <1>9, <1>10 DEF BookIsSound

\* A fill that leaves something of the resting order.
LEMMA PartialFillKeepsBookSound ==
  ASSUME IInv, NEW n0 \in in_use,
         order' \in [Nodes -> Order],
         \A n \in in_use \ {n0} : order'[n] = order[n],
         order'[n0].order_id = order[n0].order_id,
         order'[n0].symbol_id = order[n0].symbol_id,
         order'[n0].side = order[n0].side,
         order'[n0].price = order[n0].price,
         order'[n0].sequence_number = order[n0].sequence_number,
         order'[n0].remaining_quantity > 0,
         UNCHANGED <<head, tail, best, lookup, prev, next, next_free, in_use,
                     pool_size, free_head, next_sequence_number>>,
         TotalsAreTyped'
  PROVE  LadderTypeOK' /\ BookIsSound'
<1>1. \A n \in in_use : /\ order'[n].order_id = order[n].order_id
                        /\ order'[n].side = order[n].side
                        /\ order'[n].price = order[n].price
                        /\ order'[n].sequence_number = order[n].sequence_number
  OBVIOUS
<1>2. LadderTypeOK'
  BY DEF IInv, TypeOK, LadderTypeOK, TotalsAreTyped
<1>3. OrdersAreSound'
  BY DEF IInv, BookIsSound, OrdersAreSound
<1>4. ArrivalsDiffer'
  BY <1>1 DEF IInv, BookIsSound, ArrivalsDiffer, Earlier
<1>5. \A s, l : Resting(s, l)' = Resting(s, l)
  BY <1>1 DEF Resting
<1>6. TimePriorityLinks'
  <2>1. \A s, l : Resting(s, l) \subseteq in_use
    BY DEF Resting
  <2>2. \A m, n \in in_use : Earlier(m, n)' <=> Earlier(m, n)
    BY <1>1 DEF Earlier
  <2> QED BY <1>5, <2>1, <2>2 DEF IInv, BookIsSound, TimePriorityLinks, Links, Earliest, Latest
<1>7. LookupIsExact'
  BY <1>1 DEF IInv, BookIsSound, LookupIsExact, contains_order
<1>8. BestIsCurrent'
  BY <1>5 DEF IInv, BookIsSound, BestIsCurrent
<1>9. NeverCrossed'
  BY <1>1 DEF IInv, BookIsSound, NeverCrossed
<1>10. NodesAreConserved'
  BY DEF IInv, BookIsSound, NodesAreConserved, Free, Constructed, ClosedFromTop
<1> QED BY <1>2, <1>3, <1>4, <1>6, <1>7, <1>8, <1>9, <1>10 DEF BookIsSound

\* An order comes to rest.
LEMMA PushKeepsBookSound ==
  ASSUME IInv, NEW s0 \in BookSides, NEW l0 \in Levels, NEW o \in Order,
         o.side = s0, o.price = level_index_to_price(l0), on_ladder(o.price),
         o.remaining_quantity > 0, o.symbol_id # 0,
         o.order_id \in OrderIds, ~contains_order(o.order_id),
         \A n \in in_use : order[n].sequence_number < o.sequence_number,
         o.sequence_number < next_sequence_number,
         \A n \in in_use : order[n].side # s0 =>
            IF s0 = "Buy" THEN o.price < order[n].price ELSE order[n].price < o.price,
         AllocateAndPush(s0, l0, o),
         best' = IF \/ best[s0] = invalid_level
                    \/ s0 = "Buy" /\ l0 > best[s0]
                    \/ s0 = "Sell" /\ l0 < best[s0]
                 THEN [best EXCEPT ![s0] = l0] ELSE best,
         lookup' = [lookup EXCEPT ![o.order_id] = allocated_node],
         TotalsAreTyped',
         UNCHANGED next_sequence_number
  PROVE  LadderTypeOK' /\ BookIsSound'
<1>a. PICK a : a = allocated_node
  OBVIOUS
<1>1. /\ a \in Nodes /\ a \notin in_use
      /\ in_use' = in_use \cup {a}
      /\ order'[a] = o
      /\ \A n \in in_use : order'[n] = order[n]
      /\ order' \in [Nodes -> Order]
  BY <1>a, PushedNode
<1>2. LadderTypeOK /\ invalid_node \notin Nodes /\ in_use \subseteq Nodes
  BY LadderFacts DEF IInv, TypeOK, LadderTypeOK
<1>3. best' \in [BookSides -> Levels \cup {invalid_level}] /\ BestIsCurrent'
  BY PushKeepsBest
<1>4. LadderTypeOK'
  <2>1. /\ tail[s0][l0] \in Nodes \cup {invalid_node}
        /\ next_free[a] \in Nodes \cup {invalid_node}
    BY <1>1, <1>2 DEF LadderTypeOK
  <2>2. /\ head' \in [BookSides -> [Levels -> Nodes \cup {invalid_node}]]
        /\ tail' \in [BookSides -> [Levels -> Nodes \cup {invalid_node}]]
    BY <1>a, <1>1, <1>2, <2>1 DEF LadderTypeOK, AllocateAndPush, allocate_node, push_back_level
  <2>3. /\ prev' \in [Nodes -> Nodes \cup {invalid_node}]
        /\ next' \in [Nodes -> Nodes \cup {invalid_node}]
    BY <1>a, <1>1, <1>2, <2>1 DEF LadderTypeOK, AllocateAndPush, allocate_node, push_back_level
  <2>4. /\ next_free' \in [Nodes -> Nodes \cup {invalid_node}]
        /\ in_use' \in SUBSET Nodes
        /\ free_head' \in Nodes \cup {invalid_node}
    BY <1>a, <1>1, <1>2, <2>1 DEF LadderTypeOK, AllocateAndPush, allocate_node, push_back_level
  <2>5. lookup' \in [OrderIds -> Nodes \cup {invalid_node}]
    BY <1>a, <1>1, <1>2 DEF LadderTypeOK
  <2>6. pool_size' \in 0 .. PoolCapacity
    BY AllocatingConservesNodes
  <2> QED BY <1>1, <1>3, <2>2, <2>3, <2>4, <2>5, <2>6 DEF LadderTypeOK, TotalsAreTyped
<1>5. OrdersAreSound'
  BY <1>1 DEF IInv, BookIsSound, OrdersAreSound
<1>6. ArrivalsDiffer'
  BY <1>1 DEF IInv, BookIsSound, ArrivalsDiffer, Earlier
<1>7. TimePriorityLinks'
  BY PushKeepsOrder
<1>8. LookupIsExact'
  <2>1. ASSUME NEW n \in in_use'
        PROVE  order'[n].order_id \in OrderIds /\ lookup'[order'[n].order_id] = n
    <3>1. CASE n = a
      BY <1>a, <1>1, <1>2, <3>1 DEF LadderTypeOK
    <3>2. CASE n \in in_use
      <4>1. /\ order[n].order_id \in OrderIds /\ lookup[order[n].order_id] = n
            /\ n # invalid_node
        BY <1>2, <3>2 DEF IInv, BookIsSound, LookupIsExact
      <4>2. order[n].order_id # o.order_id
        BY <4>1 DEF contains_order
      <4> QED BY <1>1, <1>2, <3>2, <4>1, <4>2 DEF LadderTypeOK
    <3> QED BY <1>1, <3>1, <3>2
  <2>2. ASSUME NEW id \in OrderIds, lookup'[id] # invalid_node
        PROVE  lookup'[id] \in in_use' /\ order'[lookup'[id]].order_id = id
    <3>1. CASE id = o.order_id
      BY <1>a, <1>1, <1>2, <3>1 DEF LadderTypeOK
    <3>2. CASE id # o.order_id
      <4>1. lookup'[id] = lookup[id]
        BY <1>2, <3>2 DEF LadderTypeOK
      <4>2. lookup[id] \in in_use /\ order[lookup[id]].order_id = id
        BY <2>2, <4>1 DEF IInv, BookIsSound, LookupIsExact, contains_order
      <4> QED BY <1>1, <4>1, <4>2
    <3> QED BY <3>1, <3>2
  <2> QED BY <2>1, <2>2 DEF LookupIsExact, contains_order
<1>9. NeverCrossed'
  <2> SUFFICES ASSUME NEW m \in in_use', NEW n \in in_use',
                      order'[m].side = "Buy", order'[n].side = "Sell"
               PROVE  order'[m].price < order'[n].price
    BY DEF NeverCrossed
  <2>1. CASE m \in in_use /\ n \in in_use
    BY <1>1, <2>1 DEF IInv, BookIsSound, NeverCrossed
  <2>2. CASE m = a /\ n \in in_use
    BY <1>1, <2>2
  <2>3. CASE m \in in_use /\ n = a
    BY <1>1, <2>3
  <2> QED BY <1>1, <2>1, <2>2, <2>3
<1>10. NodesAreConserved'
  BY AllocatingConservesNodes
<1> QED BY <1>3, <1>4, <1>5, <1>6, <1>7, <1>8, <1>9, <1>10 DEF BookIsSound

-----------------------------------------------------------------------------
(***************************************************************************)
(* The steps.                                                              *)
(***************************************************************************)

\* The initial book is empty.
LEMMA InitIsSound == Init => IInv
<1> SUFFICES ASSUME Init PROVE IInv
  OBVIOUS
<1>1. HandlerTypeOK
  <2>1. <<>> \in Seq(Event)
    OBVIOUS
  <2>2. /\ next_sequence_number = 1 /\ pc = "idle" /\ new_req = NoRequest
        /\ modifying = FALSE /\ incoming = NoOrder /\ events = <<>>
    BY DEF Init, HandlerInit
  <2>3. modifying \in BOOLEAN
    BY <2>2
  <2> QED BY <2>1, <2>2, <2>3, NoRequestType DEF HandlerTypeOK
<1>2. LadderTypeOK
  <2>1. 0 \in 0 .. QuantityMod - 1 /\ 0 \in 0 .. PoolCapacity
    BY PoolAssumption, HandlerAssumption
  <2>2. /\ order \in [Nodes -> Order]
        /\ head \in [BookSides -> [Levels -> Nodes \cup {invalid_node}]]
        /\ tail \in [BookSides -> [Levels -> Nodes \cup {invalid_node}]]
        /\ total_quantity \in [BookSides -> [Levels -> 0 .. QuantityMod - 1]]
    BY <2>1, NoRequestType DEF Init
  <2> QED BY <2>1, <2>2 DEF Init, LadderTypeOK
<1>3. in_use = {} /\ pool_size = 0 /\ free_head = invalid_node
  BY DEF Init
<1>4. OrdersAreSound /\ ArrivalsDiffer /\ NeverCrossed
  BY <1>3 DEF OrdersAreSound, ArrivalsDiffer, NeverCrossed
<1>5. \A s, l : Resting(s, l) = {}
  BY <1>3 DEF Resting
<1>6. TimePriorityLinks
  BY <1>5 DEF Init, TimePriorityLinks, Links, Earliest, Latest
<1>7. LookupIsExact
  BY <1>3 DEF Init, LookupIsExact, contains_order
<1>8. BestIsCurrent
  BY <1>5 DEF Init, BestIsCurrent
<1>9. NodesAreConserved
  BY <1>3 DEF NodesAreConserved, Free, Constructed
<1>10. CallIsSound
  BY DEF Init, HandlerInit, CallIsSound
<1> QED BY <1>1, <1>2, <1>4, <1>6, <1>7, <1>8, <1>9, <1>10 DEF IInv, TypeOK, BookIsSound

\* What a new order that passed the checks is known to be.
LEMMA AcceptedOrder ==
  ASSUME NEW req \in NewOrderRequest, new_order_reason(req) = "None"
  PROVE  /\ req.order_type \in {"Limit", "Market"}
         /\ req.side \in BookSides /\ req.symbol_id # 0
         /\ req.order_type # "Market" => on_ladder(req.price)
         /\ ~contains_order(req.order_id)
<1>1. is_valid_new_order_request(req) = "None"
  BY DEF new_order_reason
<1>2. /\ req.order_type # "Unknown" /\ req.side # "Unknown" /\ req.symbol_id # 0
  BY <1>1 DEF is_valid_new_order_request
<1>3. req.order_type \in {"Limit", "Market"} /\ req.side \in BookSides
  BY <1>2 DEF NewOrderRequest, OrderTypes, Sides, BookSides
<1> QED BY <1>1, <1>2, <1>3 DEF new_order_reason

LEMMA LadderReasons ==
  /\ \A req : new_order_reason(req) \in Reasons
  /\ \A req : modify_order_reason(req) \in Reasons
  /\ \A req : cancel_order_reason(req) \in Reasons
<1>1. {"InvalidLimitPrice", "DuplicateActiveOrderId", "OrderIdNotFound", "OrderNotFound",
       "None"} \subseteq Reasons
  BY DEF Reasons
<1> QED BY <1>1, RequestReasons
  DEF new_order_reason, modify_order_reason, cancel_order_reason

LEMMA NewOrderStep ==
  ASSUME IInv, NEW req \in NewOrderRequest, req.order_id \in OrderIds,
         NEW evs \in Seq(Event),
         handle_new_order(req, new_order_reason(req), evs), UNCHANGED bookVars
  PROVE  IInv'
<1>1. HandlerTypeOK'
  BY HandleNewOrderType, LadderReasons DEF IInv, TypeOK
<1>2. LadderTypeOK' /\ BookIsSound'
  BY UnchangedBookIsSound DEF handle_new_order
<1>3. CallIsSound'
  <2>1. CASE new_order_reason(req) # "None"
    BY <2>1 DEF handle_new_order, Return, CallIsSound
  <2>2. CASE new_order_reason(req) = "None"
    <3>1. /\ pc' = "matching" /\ new_req' = req
          /\ incoming'.order_id = req.order_id /\ incoming'.side = req.side
          /\ incoming'.symbol_id = req.symbol_id /\ incoming'.price = req.price
          /\ incoming'.sequence_number = next_sequence_number
          /\ next_sequence_number' = next_sequence_number + 1
      BY <2>2 DEF handle_new_order
    <3>2. next_sequence_number < next_sequence_number + 1
      BY DEF IInv, TypeOK, HandlerTypeOK
    <3>3. in_use' = in_use /\ order' = order /\ lookup' = lookup
      BY DEF bookVars, poolVars
    <3>4. \A n \in in_use : order[n].sequence_number < next_sequence_number
      BY DEF IInv, BookIsSound, OrdersAreSound
    <3> QED BY <2>2, <3>1, <3>2, <3>3, <3>4, AcceptedOrder
      DEF CallIsSound, contains_order, is_market
  <2> QED BY <2>1, <2>2
<1> QED BY <1>1, <1>2, <1>3 DEF IInv, TypeOK

\* submit() of a new order, and the second half of a modify.
LEMMA SubmitNewStep ==
  ASSUME IInv, NEW req \in NewOrderRequest, req.order_id \in OrderIds, SubmitNew(req)
  PROVE  IInv'
<1>1. req \in NewOrderRequest /\ req.order_id \in OrderIds
  OBVIOUS
<1>2. <<>> \in Seq(Event)
  OBVIOUS
<1> QED BY <1>1, <1>2, NewOrderStep DEF SubmitNew

LEMMA ResubmitStep ==
  ASSUME IInv, Resubmit
  PROVE  IInv'
<1>1. /\ new_req \in NewOrderRequest /\ new_req.order_id \in OrderIds
      /\ events \in Seq(Event)
  BY DEF IInv, TypeOK, HandlerTypeOK, CallIsSound, Resubmit
<1> QED BY <1>1, NewOrderStep DEF Resubmit

\* The order that an identifier leads to.
LEMMA LookedUpOrder ==
  ASSUME IInv, NEW id \in OrderIds, contains_order(id)
  PROVE  /\ lookup[id] \in in_use
         /\ order[lookup[id]] \in Order
         /\ order[lookup[id]].order_id = id
         /\ order[lookup[id]].side \in BookSides
         /\ order[lookup[id]].symbol_id # 0
         /\ on_ladder(order[lookup[id]].price)
<1>1. lookup[id] \in in_use /\ order[lookup[id]].order_id = id
  BY DEF IInv, BookIsSound, LookupIsExact
<1> QED BY <1>1, LevelOfOrder DEF IInv, BookIsSound, OrdersAreSound

\* remove_order is refused only to an identifier that the book does not hold.
LEMMA CancelIsNeverRefusedInside ==
  ASSUME IInv, NEW id \in OrderIds, id # 0, contains_order(id)
  PROVE  cancel_order_reason([order_id |-> id]) = "None"
  BY LookedUpOrder DEF cancel_order_reason, is_valid_cancel_order_request

LEMMA CancelStorageStep ==
  ASSUME IInv, NEW req \in CancelOrderRequest, req.order_id \in OrderIds,
         CancelStorage(req), UNCHANGED next_sequence_number
  PROVE  /\ LadderTypeOK' /\ BookIsSound'
         /\ cancel_event(req) \in Event
         /\ cancel_order_reason(req) = "None" =>
              /\ contains_order(req.order_id)
              /\ lookup' = [lookup EXCEPT ![req.order_id] = invalid_node]
<1>1. CASE cancel_order_reason(req) # "None"
  <2>1. UNCHANGED bookVars
    BY <1>1 DEF CancelStorage
  <2>2. cancel_event(req) \in Event
    BY <1>1, LadderReasons, RejectionTypes DEF cancel_event
  <2> QED BY <1>1, <2>1, <2>2, UnchangedBookIsSound
<1>2. CASE cancel_order_reason(req) = "None"
  <2>1. contains_order(req.order_id)
    BY <1>2 DEF cancel_order_reason
  <2>a. PICK n0 : n0 = lookup[req.order_id]
    OBVIOUS
  <2>b. PICK s0 : s0 = order[n0].side
    OBVIOUS
  <2>c. PICK l0 : l0 = price_to_level_index(order[n0].price)
    OBVIOUS
  <2>2. /\ n0 \in in_use /\ order[n0] \in Order /\ order[n0].order_id = req.order_id
        /\ s0 \in BookSides /\ l0 \in Levels /\ n0 \in Resting(s0, l0)
    BY <2>1, <2>a, <2>b, <2>c, LookedUpOrder, LevelOfOrder
  <2>3. /\ total_quantity' = [total_quantity EXCEPT
              ![s0][l0] = (@ - order[n0].remaining_quantity) % QuantityMod]
        /\ UnlinkAndFree(s0, l0, n0)
        /\ best' = IF head'[s0][l0] = invalid_node /\ best[s0] = l0
                   THEN [best EXCEPT ![s0] = refresh_best(s0, l0, head'[s0])] ELSE best
        /\ lookup' = [lookup EXCEPT ![req.order_id] = invalid_node]
        /\ UNCHANGED order
    BY <1>2, <2>a, <2>b, <2>c DEF CancelStorage, remove_order
  <2>4. TotalsAreTyped'
    <3>1. /\ total_quantity \in [BookSides -> [Levels -> 0 .. QuantityMod - 1]]
          /\ order[n0].remaining_quantity \in Nat
      BY <2>2 DEF IInv, TypeOK, LadderTypeOK, Order
    <3>2. (total_quantity[s0][l0] - order[n0].remaining_quantity) % QuantityMod
            \in 0 .. QuantityMod - 1
      BY <2>2, <3>1, HandlerAssumption
    <3> QED BY <2>2, <2>3, <3>1, <3>2 DEF TotalsAreTyped
  <2>5. order' \in [Nodes -> Order] /\ \A n \in in_use \ {n0} : order'[n] = order[n]
    BY <2>3 DEF IInv, TypeOK, LadderTypeOK
  <2>6. LadderTypeOK' /\ BookIsSound'
    BY <2>2, <2>3, <2>4, <2>5, RemovalKeepsBookSound
  <2>7. cancel_event(req) \in Event
    BY <1>2, <2>a, <2>2, OrderEventTypes DEF cancel_event
  <2> QED BY <2>1, <2>3, <2>6, <2>7
<1> QED BY <1>1, <1>2

LEMMA SubmitCancelStep ==
  ASSUME IInv, NEW req \in CancelOrderRequest, req.order_id \in OrderIds, SubmitCancel(req)
  PROVE  IInv'
<1>1. req \in CancelOrderRequest /\ req.order_id \in OrderIds
  OBVIOUS
<1>2. UNCHANGED next_sequence_number /\ pc' = "returned"
  BY DEF SubmitCancel, Answer
<1>3. LadderTypeOK' /\ BookIsSound' /\ cancel_event(req) \in Event
  BY <1>1, <1>2, CancelStorageStep DEF SubmitCancel
<1>4. HandlerTypeOK'
  BY <1>3, AnswerType DEF SubmitCancel, IInv, TypeOK
<1> QED BY <1>2, <1>3, <1>4 DEF IInv, TypeOK, CallIsSound

\* The first half of a modify: what it hands on will be accepted.
LEMMA SubmitModifyStep ==
  ASSUME IInv, NEW req \in ModifyOrderRequest, req.order_id \in OrderIds, SubmitModify(req)
  PROVE  IInv'
<1>1. req \in ModifyOrderRequest /\ req.order_id \in OrderIds
  OBVIOUS
<1>2. CASE modify_order_reason(req) # "None"
  <2>1. ModifyRejected(req, modify_order_reason(req)) \in Event
    BY <1>1, LadderReasons, RejectionTypes
  <2>2. HandlerTypeOK'
    BY <1>2, <2>1, AnswerType DEF SubmitModify, IInv, TypeOK
  <2>3. UNCHANGED next_sequence_number /\ pc' = "returned" /\ UNCHANGED bookVars
    BY <1>2 DEF SubmitModify, Answer
  <2>4. LadderTypeOK' /\ BookIsSound'
    BY <2>3, UnchangedBookIsSound
  <2> QED BY <2>2, <2>3, <2>4 DEF IInv, TypeOK, CallIsSound
<1>3. CASE modify_order_reason(req) = "None"
  <2> DEFINE cancel_req == [order_id |-> req.order_id]
  <2>a. PICK old : old = order[lookup[req.order_id]]
    OBVIOUS
  <2>1. /\ BeginModify(req, old, cancel_event(cancel_req))
        /\ CancelStorage(cancel_req)
    BY <1>3, <2>a DEF SubmitModify
  <2>2. /\ is_valid_modify_order_request(req) = "None"
        /\ req.order_type = "Limit" => on_ladder(req.price)
        /\ contains_order(req.order_id)
    BY <1>3 DEF modify_order_reason
  <2>3. /\ req.order_type # "Unknown" /\ req.order_id # 0
        /\ req.order_type = "Limit" => req.price # 0
        /\ req.quantity # 0
    BY <2>2 DEF is_valid_modify_order_request
  <2>4. old \in Order /\ old.side \in BookSides /\ old.symbol_id # 0
    BY <1>1, <2>2, <2>a, LookedUpOrder
  <2>5. UNCHANGED next_sequence_number /\ pc' = "resubmit"
    BY <2>1 DEF BeginModify
  <2>6. cancel_req \in CancelOrderRequest /\ cancel_req.order_id \in OrderIds
    BY <1>1 DEF CancelOrderRequest, ModifyOrderRequest
  <2>7. cancel_order_reason(cancel_req) = "None"
    BY <1>1, <2>2, <2>3, CancelIsNeverRefusedInside
  <2>8. /\ LadderTypeOK' /\ BookIsSound' /\ cancel_event(cancel_req) \in Event
        /\ lookup' = [lookup EXCEPT ![req.order_id] = invalid_node]
    BY <2>1, <2>5, <2>6, <2>7, CancelStorageStep
  <2>9. HandlerTypeOK'
    BY <1>1, <2>1, <2>4, <2>8, BeginModifyType DEF IInv, TypeOK
  <2>10. ~contains_order(req.order_id)'
    BY <1>1, <2>8 DEF contains_order, IInv, TypeOK, LadderTypeOK
  <2>11. /\ new_req'.order_type = req.order_type /\ new_req'.order_id = req.order_id
         /\ new_req'.symbol_id = old.symbol_id /\ new_req'.side = old.side
         /\ new_req'.price = req.price /\ new_req'.quantity = req.quantity
    BY <2>1 DEF BeginModify
  <2>12. is_valid_new_order_request(new_req)' = "None"
    BY <2>3, <2>4, <2>11 DEF is_valid_new_order_request, BookSides
  <2>13. new_order_reason(new_req)' = "None"
    BY <2>2, <2>10, <2>11, <2>12 DEF new_order_reason, contains_order
  <2> QED BY <1>1, <2>5, <2>8, <2>9, <2>11, <2>13 DEF IInv, TypeOK, CallIsSound
<1> QED BY <1>2, <1>3

\* The order at the front of the best level of a side.
LEMMA FrontOrder ==
  ASSUME IInv, NEW s \in BookSides, best[s] # invalid_level
  PROVE  /\ best[s] \in Levels
         /\ front_node(s) \in Resting(s, best[s])
         /\ front_node(s) \in in_use /\ front_order(s) \in Order
         /\ front_order(s).remaining_quantity > 0
<1>1. best[s] \in Levels /\ in_use \subseteq Nodes
  BY DEF IInv, TypeOK, LadderTypeOK
<1>2. Resting(s, best[s]) # {} /\ TimePriorityLinks
  BY DEF IInv, BookIsSound, BestIsCurrent
<1>3. front_node(s) \in Resting(s, best[s])
  BY <1>1, <1>2, HeadWhenOccupied DEF front_node
<1>4. front_node(s) \in in_use /\ front_order(s) \in Order
  BY <1>1, <1>3, LevelOfOrder DEF front_order
<1> QED BY <1>1, <1>3, <1>4 DEF IInv, BookIsSound, OrdersAreSound, front_order

\* The best level always has an order at its front, so every iteration trades.
LEMMA NoEmptyLevelIsMatched ==
  ASSUME IInv
  PROVE  /\ match_buy => /\ pc = "matching" /\ incoming.side = "Buy"
                         /\ CanMatch("Sell") /\ MatchFront("Sell")
         /\ match_sell => /\ pc = "matching" /\ incoming.side = "Sell"
                          /\ CanMatch("Buy") /\ MatchFront("Buy")
<1>1. ASSUME NEW s \in BookSides, CanMatch(s)
      PROVE  front_node(s) # invalid_node
  <2>1. front_node(s) \in in_use /\ in_use \subseteq Nodes
    BY <1>1, FrontOrder DEF CanMatch, IInv, TypeOK, LadderTypeOK
  <2> QED BY <2>1, LadderFacts DEF Nodes
<1> QED BY <1>1 DEF match_buy, match_sell, MatchBest, BookSides

\* One iteration of the matching loop.
LEMMA MatchStep ==
  ASSUME IInv, pc = "matching", NEW s \in BookSides, CanMatch(s), MatchFront(s)
  PROVE  IInv'
<1>a. PICK n0 : n0 = front_node(s)
  OBVIOUS
<1>b. PICK l0 : l0 = best[s]
  OBVIOUS
<1>c. PICK resting : resting = order[n0]
  OBVIOUS
<1>d. PICK qty : qty = trade_qty(resting)
  OBVIOUS
<1>1. /\ best[s] # invalid_level /\ incoming.remaining_quantity > 0
  BY DEF CanMatch
<1>2. /\ l0 \in Levels /\ n0 \in Resting(s, l0) /\ n0 \in in_use
      /\ resting \in Order /\ resting.remaining_quantity > 0
      /\ n0 \in Nodes /\ order \in [Nodes -> Order]
  BY <1>1, <1>a, <1>b, <1>c, FrontOrder, LevelOfOrder DEF front_order, IInv, TypeOK, LadderTypeOK
<1>3. /\ qty \in Nat /\ qty <= resting.remaining_quantity
  BY <1>2, <1>d, TradeQuantity DEF IInv, TypeOK
<1>4. /\ TradeWith(resting)
      /\ total_quantity' = [total_quantity EXCEPT ![s][l0] = (@ - qty) % QuantityMod]
  BY <1>a, <1>b, <1>c, <1>d DEF MatchFront, front_order
<1>5. TotalsAreTyped'
  <2>1. total_quantity \in [BookSides -> [Levels -> 0 .. QuantityMod - 1]]
    BY DEF IInv, TypeOK, LadderTypeOK
  <2>2. (total_quantity[s][l0] - qty) % QuantityMod \in 0 .. QuantityMod - 1
    BY <1>2, <1>3, <2>1, HandlerAssumption
  <2> QED BY <1>2, <1>4, <2>1, <2>2 DEF TotalsAreTyped
<1>6. HandlerTypeOK' /\ UNCHANGED next_sequence_number
  BY <1>2, <1>4, TradeWithType DEF IInv, TypeOK, TradeWith
<1>7. CASE resting.remaining_quantity = qty
  <2>1. /\ order' = [order EXCEPT ![n0].remaining_quantity = 0]
        /\ lookup' = [lookup EXCEPT ![resting.order_id] = invalid_node]
        /\ UnlinkAndFree(s, l0, n0)
        /\ best' = IF head'[s][l0] = invalid_node /\ best[s] = l0
                   THEN [best EXCEPT ![s] = refresh_best(s, l0, head'[s])] ELSE best
    BY <1>7, <1>a, <1>b, <1>c, <1>d DEF MatchFront, front_order
  <2>2. /\ order' \in [Nodes -> Order]
        /\ \A n \in in_use \ {n0} : order'[n] = order[n]
    <3>1. [order[n0] EXCEPT !.remaining_quantity = 0] \in Order
      BY <1>2 DEF Order
    <3> QED BY <1>2, <2>1, <3>1, LevelOfOrder
  <2>3. LadderTypeOK' /\ BookIsSound'
    BY <1>2, <1>5, <1>6, <1>c, <2>1, <2>2, RemovalKeepsBookSound
  <2>4. CallIsSound'
    <3>1. /\ pc' = pc /\ new_req' = new_req
          /\ incoming'.order_id = incoming.order_id
          /\ incoming'.side = incoming.side /\ incoming'.symbol_id = incoming.symbol_id
          /\ incoming'.price = incoming.price
          /\ incoming'.sequence_number = incoming.sequence_number
      BY <1>4 DEF TradeWith, IInv, TypeOK, HandlerTypeOK, Order
    <3>2. /\ in_use' \subseteq in_use
          /\ \A n \in in_use' : order'[n].sequence_number = order[n].sequence_number
      BY <2>1, <2>2 DEF UnlinkAndFree, unlink_from_level, free_node, NextWithout, PrevWithout
    <3>3. \A id \in OrderIds : lookup'[id] \in {lookup[id], invalid_node}
      BY <2>1 DEF IInv, TypeOK, LadderTypeOK
    <3> QED BY <1>6, <3>1, <3>2, <3>3 DEF IInv, CallIsSound, contains_order, is_market
  <2> QED BY <1>6, <2>3, <2>4 DEF IInv, TypeOK
<1>8. CASE resting.remaining_quantity # qty
  <2>1. /\ order' = [order EXCEPT ![n0].remaining_quantity = @ - qty,
                                  ![n0].order_status = "PartiallyFilled"]
        /\ UNCHANGED <<head, tail, best, lookup, prev, next, next_free, in_use,
                       pool_size, free_head>>
    BY <1>8, <1>a, <1>b, <1>c, <1>d DEF MatchFront, front_order
  <2>2. /\ resting.remaining_quantity - qty \in Nat
        /\ resting.remaining_quantity - qty > 0
        /\ "PartiallyFilled" \in OrderStatuses
    BY <1>2, <1>3, <1>8 DEF Order, OrderStatuses
  <2>3. order'[n0] = [resting EXCEPT !.remaining_quantity = @ - qty,
                                     !.order_status = "PartiallyFilled"]
    BY <1>2, <1>c, <2>1
  <2>4. /\ order'[n0] \in Order
        /\ order'[n0].remaining_quantity = resting.remaining_quantity - qty
        /\ order'[n0].order_id = resting.order_id /\ order'[n0].symbol_id = resting.symbol_id
        /\ order'[n0].side = resting.side /\ order'[n0].price = resting.price
        /\ order'[n0].sequence_number = resting.sequence_number
    BY <1>2, <2>2, <2>3 DEF Order
  <2>5. /\ \A n \in Nodes \ {n0} : order'[n] = order[n]
        /\ order' \in [Nodes -> Order]
    BY <1>2, <2>1, <2>4
  <2>6. LadderTypeOK' /\ BookIsSound'
    BY <1>2, <1>5, <1>6, <1>c, <2>1, <2>2, <2>4, <2>5, LevelOfOrder, PartialFillKeepsBookSound
  <2>7. CallIsSound'
    <3>1. /\ pc' = pc /\ new_req' = new_req
          /\ incoming'.order_id = incoming.order_id
          /\ incoming'.side = incoming.side /\ incoming'.symbol_id = incoming.symbol_id
          /\ incoming'.price = incoming.price
          /\ incoming'.sequence_number = incoming.sequence_number
      BY <1>4 DEF TradeWith, IInv, TypeOK, HandlerTypeOK, Order
    <3>2. \A n \in in_use : order'[n].sequence_number = order[n].sequence_number
      BY <1>c, <2>4, <2>5, LevelOfOrder
    <3> QED BY <1>6, <2>1, <3>1, <3>2 DEF IInv, CallIsSound, contains_order, is_market
  <2> QED BY <1>6, <2>6, <2>7 DEF IInv, TypeOK
<1> QED BY <1>7, <1>8

\* After the matching loop, what is left of a limit order crosses no order.
LEMMA RemainderDoesNotCross ==
  ASSUME IInv, MatchingDone, incoming.remaining_quantity > 0, ~is_market,
         NEW n \in in_use, order[n].side # incoming.side
  PROVE  IF incoming.side = "Buy" THEN incoming.price < order[n].price
                                 ELSE order[n].price < incoming.price
<1>a. PICK s : s = Opposite(incoming.side)
  OBVIOUS
<1>b. PICK l : l = price_to_level_index(order[n].price)
  OBVIOUS
<1>1. incoming.side \in BookSides /\ incoming.price \in Nat
  BY DEF IInv, TypeOK, HandlerTypeOK, CallIsSound, MatchingDone, Order
<1>2. /\ order[n] \in Order /\ order[n].side = s
      /\ l \in Levels /\ n \in Resting(s, l) /\ s \in BookSides
  BY <1>a, <1>b, <1>1, LevelOfOrder DEF Opposite, BookSides
<1>3. /\ best[s] # invalid_level /\ best[s] \in Levels
      /\ NoBetter(s, l, best[s])
  BY <1>2 DEF IInv, BookIsSound, BestIsCurrent, NoBetter, TypeOK, LadderTypeOK
<1>4. ~Crosses(level_index_to_price(best[s]))
  BY <1>3, <1>a DEF MatchingDone, CanMatch
<1>5. order[n].price = level_index_to_price(l)
  BY <1>2 DEF Resting
<1>6. /\ level_index_to_price(l) \in Nat /\ level_index_to_price(best[s]) \in Nat
      /\ l < best[s] => level_index_to_price(l) < level_index_to_price(best[s])
      /\ best[s] < l => level_index_to_price(best[s]) < level_index_to_price(l)
  BY <1>2, <1>3, LevelPricesGrow
<1>7. l \in Nat /\ best[s] \in Nat
  BY <1>2, <1>3, LadderFacts
<1>8. CASE incoming.side = "Buy"
  <2>1. s = "Sell"
    BY <1>8, <1>a DEF Opposite
  <2>2. l >= best[s]
    BY <1>3, <2>1 DEF NoBetter
  <2>3. incoming.price < level_index_to_price(best[s])
    BY <1>1, <1>4, <1>6, <1>8 DEF Crosses
  <2>4. level_index_to_price(best[s]) <= level_index_to_price(l)
    BY <1>6, <1>7, <2>2
  <2> QED BY <1>1, <1>5, <1>6, <1>8, <2>3, <2>4
<1>9. CASE incoming.side = "Sell"
  <2>1. s = "Buy"
    BY <1>9, <1>a DEF Opposite
  <2>2. l <= best[s]
    BY <1>3, <2>1 DEF NoBetter
  <2>3. level_index_to_price(best[s]) < incoming.price
    BY <1>1, <1>4, <1>6, <1>9 DEF Crosses
  <2>4. level_index_to_price(l) <= level_index_to_price(best[s])
    BY <1>6, <1>7, <2>2
  <2> QED BY <1>1, <1>5, <1>6, <1>9, <2>3, <2>4
<1> QED BY <1>1, <1>8, <1>9 DEF BookSides

\* What is left of a limit order comes to rest.
LEMMA AddRestingOrderStep ==
  ASSUME IInv, add_resting_order
  PROVE  IInv'
<1>a. PICK s0 : s0 = incoming.side
  OBVIOUS
<1>b. PICK l0 : l0 = price_to_level_index(incoming.price)
  OBVIOUS
<1>c. PICK o : o = [incoming EXCEPT !.order_status = "Resting"]
  OBVIOUS
<1>1. /\ pc = "matching" /\ MatchingDone /\ ~is_market
      /\ incoming.remaining_quantity > 0 /\ UNCHANGED next_sequence_number
  BY DEF add_resting_order, MatchingDone
<1>2. /\ incoming \in Order /\ events \in Seq(Event) /\ new_req \in NewOrderRequest
      /\ incoming.price \in Nat
  BY DEF IInv, TypeOK, HandlerTypeOK, Order
<1>3. /\ s0 \in BookSides /\ on_ladder(incoming.price) /\ incoming.symbol_id # 0
      /\ incoming.order_id \in OrderIds /\ ~contains_order(incoming.order_id)
      /\ incoming.sequence_number < next_sequence_number
      /\ \A n \in in_use : order[n].sequence_number < incoming.sequence_number
  BY <1>1, <1>a DEF IInv, CallIsSound
<1>4. l0 \in Levels /\ level_index_to_price(l0) = incoming.price
  BY <1>2, <1>3, <1>b, PriceOfLevel
<1>5. /\ o \in Order /\ o.side = s0 /\ o.price = incoming.price
      /\ o.remaining_quantity = incoming.remaining_quantity
      /\ o.symbol_id = incoming.symbol_id /\ o.order_id = incoming.order_id
      /\ o.sequence_number = incoming.sequence_number
  BY <1>2, <1>a, <1>c DEF Order, OrderStatuses
<1>6. /\ AllocateAndPush(s0, l0, o)
      /\ total_quantity' = [total_quantity EXCEPT
           ![s0][l0] = (@ + incoming.remaining_quantity) % QuantityMod]
      /\ best' = IF \/ best[s0] = invalid_level
                    \/ s0 = "Buy" /\ l0 > best[s0]
                    \/ s0 = "Sell" /\ l0 < best[s0]
                 THEN [best EXCEPT ![s0] = l0] ELSE best
      /\ lookup' = [lookup EXCEPT ![incoming.order_id] = allocated_node]
      /\ Return(new_req, Append(events, OrderRested(incoming)))
  BY <1>3, <1>a, <1>b, <1>c DEF add_resting_order
<1>7. TotalsAreTyped'
  <2>1. /\ total_quantity \in [BookSides -> [Levels -> 0 .. QuantityMod - 1]]
        /\ incoming.remaining_quantity \in Nat
    BY <1>2 DEF IInv, TypeOK, LadderTypeOK, Order
  <2>2. (total_quantity[s0][l0] + incoming.remaining_quantity) % QuantityMod
          \in 0 .. QuantityMod - 1
    BY <1>3, <1>4, <2>1, HandlerAssumption
  <2> QED BY <1>3, <1>4, <1>6, <2>1, <2>2 DEF TotalsAreTyped
<1>8. \A n \in in_use : order[n].side # s0 =>
        IF s0 = "Buy" THEN o.price < order[n].price ELSE order[n].price < o.price
  BY <1>1, <1>5, <1>a, RemainderDoesNotCross
<1>9. LadderTypeOK' /\ BookIsSound'
  BY <1>1, <1>3, <1>4, <1>5, <1>6, <1>7, <1>8, PushKeepsBookSound
<1>10. HandlerTypeOK'
  <2>1. Append(events, OrderRested(incoming)) \in Seq(Event)
    BY <1>2, OrderEventTypes, AppendProperties
  <2> QED BY <1>1, <1>2, <1>6, <2>1, ReturnType DEF IInv, TypeOK
<1>11. pc' = "returned"
  BY <1>6 DEF Return
<1> QED BY <1>9, <1>10, <1>11 DEF IInv, TypeOK, CallIsSound

\* The call ends and nothing rests.
LEMMA NothingRestsStep ==
  ASSUME IInv, NothingRests
  PROVE  IInv'
<1>1. HandlerTypeOK'
  BY FinishWithoutRestingType DEF NothingRests, IInv, TypeOK
<1>2. UNCHANGED next_sequence_number /\ pc' = "returned" /\ UNCHANGED bookVars
  BY DEF NothingRests, FinishWithoutResting, Return
<1>3. LadderTypeOK' /\ BookIsSound'
  BY <1>2, UnchangedBookIsSound
<1> QED BY <1>1, <1>2, <1>3 DEF IInv, TypeOK, CallIsSound

LEMMA CollectStep ==
  ASSUME IInv, Collect, UNCHANGED bookVars
  PROVE  IInv'
<1>1. HandlerTypeOK'
  BY CollectType DEF IInv, TypeOK
<1>2. UNCHANGED next_sequence_number /\ pc' = "idle"
  BY DEF Collect
<1>3. LadderTypeOK' /\ BookIsSound'
  BY <1>2, UnchangedBookIsSound
<1> QED BY <1>1, <1>2, <1>3 DEF IInv, TypeOK, CallIsSound

LEMMA StutterStep ==
  ASSUME IInv, UNCHANGED vars
  PROVE  IInv'
<1>1. UNCHANGED handlerVars /\ UNCHANGED bookVars
  BY DEF vars
<1>2. HandlerTypeOK'
  BY <1>1 DEF IInv, TypeOK, HandlerTypeOK, handlerVars
<1>3. LadderTypeOK' /\ BookIsSound'
  BY <1>1, UnchangedBookIsSound DEF handlerVars
<1>4. CallIsSound'
  BY <1>1 DEF IInv, CallIsSound, handlerVars, bookVars, poolVars, contains_order,
              is_market, new_order_reason
<1> QED BY <1>2, <1>3, <1>4 DEF IInv, TypeOK

LEMMA NextIsSound == IInv /\ [Next]_vars => IInv'
<1> SUFFICES ASSUME IInv, [Next]_vars PROVE IInv'
  OBVIOUS
<1>1. ASSUME NEW req \in NewOrderRequests, SubmitNew(req) PROVE IInv'
  BY <1>1, HandlerAssumption, SubmitNewStep
<1>2. ASSUME NEW req \in ModifyOrderRequests, SubmitModify(req) PROVE IInv'
  BY <1>2, HandlerAssumption, SubmitModifyStep
<1>3. ASSUME NEW req \in CancelOrderRequests, SubmitCancel(req) PROVE IInv'
  BY <1>3, HandlerAssumption, SubmitCancelStep
<1>4. CASE Resubmit
  BY <1>4, ResubmitStep
<1>5. CASE match_buy
  BY <1>5, MatchStep, NoEmptyLevelIsMatched DEF BookSides
<1>6. CASE match_sell
  BY <1>6, MatchStep, NoEmptyLevelIsMatched DEF BookSides
<1>7. CASE add_resting_order
  BY <1>7, AddRestingOrderStep
<1>8. CASE NothingRests
  BY <1>8, NothingRestsStep
<1>9. CASE Collect /\ UNCHANGED bookVars
  BY <1>9, CollectStep
<1>10. CASE UNCHANGED vars
  BY <1>10, StutterStep
<1> QED BY <1>1, <1>2, <1>3, <1>4, <1>5, <1>6, <1>7, <1>8, <1>9, <1>10
  DEF Next, Submit, Continue

-----------------------------------------------------------------------------
(***************************************************************************)
(* The theorems.                                                           *)
(***************************************************************************)

\* IInv holds in every reachable state.
THEOREM Soundness == Spec => []IInv
<1>1. Init => IInv
  BY InitIsSound
<1>2. IInv /\ [Next]_vars => IInv'
  BY NextIsSound
<1> QED BY <1>1, <1>2, PTL DEF Spec

\* Every variable of the book and of the handler keeps its type; in particular a
\* node index is never out of the pool and a level index never off the ladder.
THEOREM TypeCorrectness == Spec => []TypeOK
<1>1. IInv => TypeOK
  BY DEF IInv
<1> QED BY <1>1, Soundness, PTL

\* Every level's list is its orders in order of arrival, in both directions.
THEOREM TimePriority == Spec => []TimePriorityLinks
<1>1. IInv => TimePriorityLinks
  BY DEF IInv, BookIsSound
<1> QED BY <1>1, Soundness, PTL

\* Identifiers and nodes in use correspond one to one.
THEOREM ExactLookup == Spec => []LookupIsExact
<1>1. IInv => LookupIsExact
  BY DEF IInv, BookIsSound
<1> QED BY <1>1, Soundness, PTL

\* The cached best level is the best occupied level.
THEOREM CurrentBest == Spec => []BestIsCurrent
<1>1. IInv => BestIsCurrent
  BY DEF IInv, BookIsSound
<1> QED BY <1>1, Soundness, PTL

\* Orders at rest never cross.
THEOREM Uncrossed == Spec => []NeverCrossed
<1>1. IInv => NeverCrossed
  BY DEF IInv, BookIsSound
<1> QED BY <1>1, Soundness, PTL

\* No node leaks, is free twice, or is free while it is in a level.
THEOREM ConservedNodes == Spec => []NodesAreConserved
<1>1. IInv => NodesAreConserved
  BY DEF IInv, BookIsSound
<1> QED BY <1>1, Soundness, PTL

\* The pool grows only when every node is in use: only add_resting_order makes it
\* grow, and then the free stack is empty, so that no node is free.
THEOREM ReusedNodes == Spec => NodesAreReused
<1>1. ASSUME IInv, [Next]_vars, pool_size' # pool_size
      PROVE  in_use = Constructed
  <2>1. CASE add_resting_order
    <3>1. PICK s, l, o : AllocateAndPush(s, l, o)
      BY <1>1, <2>1 DEF add_resting_order, bookVars, poolVars
    <3> QED BY <1>1, <3>1, AllocatingConservesNodes
  <2>2. ASSUME NEW req, CancelStorage(req)
        PROVE  pool_size' = pool_size
    BY <2>2 DEF CancelStorage, remove_order, UnlinkAndFree, free_node, bookVars, poolVars
  <2>3. ASSUME NEW s, MatchFront(s)
        PROVE  pool_size' = pool_size
    BY <2>3 DEF MatchFront, UnlinkAndFree, free_node
  <2>4. UNCHANGED bookVars => pool_size' = pool_size
    BY DEF bookVars, poolVars
  <2>5. /\ \A req \in NewOrderRequests : SubmitNew(req) => pool_size' = pool_size
        /\ \A req \in ModifyOrderRequests : SubmitModify(req) => pool_size' = pool_size
        /\ \A req \in CancelOrderRequests : SubmitCancel(req) => pool_size' = pool_size
    BY <2>2, <2>4 DEF SubmitNew, SubmitModify, SubmitCancel
  <2>6. Resubmit \/ NothingRests \/ UNCHANGED vars => pool_size' = pool_size
    BY <2>4 DEF Resubmit, NothingRests, vars
  <2>7. match_buy \/ match_sell => pool_size' = pool_size
    BY <1>1, <2>3, NoEmptyLevelIsMatched
  <2> QED BY <1>1, <2>1, <2>4, <2>5, <2>6, <2>7 DEF Next, Submit, Continue
<1>2. IInv /\ [Next]_vars => [pool_size' # pool_size => in_use = Constructed]_vars
  BY <1>1
<1> QED BY <1>2, Soundness, PTL DEF Spec, NodesAreReused

\* Every iteration of the matching loop leaves less to match: the order at the
\* front of an occupied level has something left to trade.
THEOREM MatchProgress == Spec => MatchingMakesProgress
<1> DEFINE Progress ==
      pc = "matching" /\ pc' = "matching" =>
        incoming'.remaining_quantity < incoming.remaining_quantity
<1>1. ASSUME IInv, [Next]_vars, ~UNCHANGED handlerVars
      PROVE  Progress
  <2>1. ASSUME NEW s \in BookSides, pc = "matching", s = Opposite(incoming.side),
               CanMatch(s), MatchFront(s)
        PROVE  incoming'.remaining_quantity < incoming.remaining_quantity
    <3>1. /\ incoming \in Order /\ front_order(s) \in Order
          /\ front_order(s).remaining_quantity > 0
      BY <1>1, <2>1, FrontOrder DEF IInv, TypeOK, HandlerTypeOK, CanMatch
    <3>2. incoming' = [incoming EXCEPT !.remaining_quantity =
                         @ - trade_qty(front_order(s))]
      BY <2>1 DEF MatchFront, TradeWith
    <3>3. incoming.remaining_quantity > 0
      BY <2>1 DEF CanMatch
    <3> QED BY <3>1, <3>2, <3>3 DEF trade_qty, Order
  <2>2. CASE match_buy
    BY <1>1, <2>1, <2>2, NoEmptyLevelIsMatched DEF Opposite, BookSides
  <2>3. CASE match_sell
    BY <1>1, <2>1, <2>3, NoEmptyLevelIsMatched DEF Opposite, BookSides
  <2>4. CASE add_resting_order \/ NothingRests
    BY <2>4 DEF add_resting_order, NothingRests, FinishWithoutResting, Return
  <2>5. CASE Submit \/ Resubmit \/ Collect
    BY <2>5 DEF Submit, SubmitNew, SubmitModify, SubmitCancel, Ready, Resubmit, Collect
  <2>6. CASE UNCHANGED vars
    BY <1>1, <2>6 DEF vars
  <2> QED BY <1>1, <2>2, <2>3, <2>4, <2>5, <2>6 DEF Next, Continue
<1>2. IInv /\ [Next]_vars => [Progress]_handlerVars
  BY <1>1
<1> QED BY <1>2, Soundness, PTL DEF Spec, MatchingMakesProgress

-----------------------------------------------------------------------------
(***************************************************************************)
(* The quantity of a level.                                                *)
(***************************************************************************)
Quantity(s, l) == SumFunctionOnSet(remaining_of, Resting(s, l))

LEMMA PoolIsFinite ==
  ASSUME IInv
  PROVE  /\ IsFiniteSet(Nodes) /\ IsFiniteSet(in_use)
         /\ \A n \in Nodes : remaining_of[n] = order[n].remaining_quantity
         /\ \A n \in Nodes : remaining_of[n] \in Nat
         /\ \A s, l : /\ IsFiniteSet(Resting(s, l)) /\ Resting(s, l) \subseteq Nodes
                      /\ Quantity(s, l) \in Nat
<1>1. IsFiniteSet(Nodes)
  BY LadderFacts, FS_Interval DEF Nodes
<1>2. in_use \subseteq Nodes /\ order \in [Nodes -> Order]
  BY DEF IInv, TypeOK, LadderTypeOK
<1>3. \A n \in Nodes : remaining_of[n] = order[n].remaining_quantity /\ remaining_of[n] \in Nat
  BY <1>2 DEF remaining_of, Order
<1>4. IsFiniteSet(in_use)
  BY <1>1, <1>2, FS_Subset
<1>5. ASSUME NEW s, NEW l
      PROVE  /\ IsFiniteSet(Resting(s, l)) /\ Resting(s, l) \subseteq Nodes
             /\ Quantity(s, l) \in Nat
  <2>1. Resting(s, l) \subseteq Nodes
    BY <1>2 DEF Resting
  <2>2. IsFiniteSet(Resting(s, l))
    BY <1>1, <2>1, FS_Subset
  <2> QED BY <1>3, <2>1, <2>2, SumType DEF Quantity
<1> QED BY <1>1, <1>3, <1>4, <1>5

\* A level whose orders and their quantities a step leaves alone.
LEMMA SameLevelQuantity ==
  ASSUME IInv, order' \in [Nodes -> Order], NEW s, NEW l, NEW S \in SUBSET Resting(s, l),
         \A n \in S : order'[n].remaining_quantity = order[n].remaining_quantity
  PROVE  SumFunctionOnSet(remaining_of', S) = SumFunctionOnSet(remaining_of, S)
<1>1. S \subseteq Nodes /\ IsFiniteSet(S)
  BY PoolIsFinite, FS_Subset
<1>2. \A n \in S : remaining_of'[n] = remaining_of[n]
  BY <1>1, PoolIsFinite DEF remaining_of
<1> QED BY <1>1, <1>2, SumAgrees

\* The counter of a level follows the orders of the level, modulo 2^32.
LEMMA OneTotalChanges ==
  ASSUME IInv, TotalsAreSums, NEW s0 \in BookSides, NEW l0 \in Levels, NEW d \in Nat,
         \/ /\ total_quantity'[s0][l0] = (total_quantity[s0][l0] - d) % QuantityMod
            /\ Quantity(s0, l0)' = Quantity(s0, l0) - d
         \/ /\ total_quantity'[s0][l0] = (total_quantity[s0][l0] + d) % QuantityMod
            /\ Quantity(s0, l0)' = Quantity(s0, l0) + d,
         \A s \in BookSides, l \in Levels : ~(s = s0 /\ l = l0) =>
           /\ total_quantity'[s][l] = total_quantity[s][l]
           /\ Quantity(s, l)' = Quantity(s, l)
  PROVE  TotalsAreSums'
<1>1. total_quantity[s0][l0] = Quantity(s0, l0) % QuantityMod
  BY DEF TotalsAreSums, Quantity
<1>2. QuantityMod \in Nat \ {0} /\ Quantity(s0, l0) \in Int
  BY PoolIsFinite, HandlerAssumption
<1>3. total_quantity'[s0][l0] = Quantity(s0, l0)' % QuantityMod
  <2>a. PICK q \in Int : q = Quantity(s0, l0)
    BY <1>2
  <2>1. /\ ((q % QuantityMod) - d) % QuantityMod = (q - d) % QuantityMod
        /\ ((q % QuantityMod) + d) % QuantityMod = (q + d) % QuantityMod
    <3>1. d \in Int
      OBVIOUS
    <3> QED BY <1>2, <3>1, WrappedSum, Zenon
  <2> QED BY <1>1, <2>a, <2>1
<1> QED BY <1>3 DEF TotalsAreSums, Quantity

\* A cancel, or a fill that empties the resting order.
LEMMA RemovalKeepsTotals ==
  ASSUME IInv, TotalsAreSums, NEW s0 \in BookSides, NEW l0 \in Levels,
         NEW n0 \in Resting(s0, l0), UnlinkAndFree(s0, l0, n0), order' \in [Nodes -> Order],
         \A n \in in_use \ {n0} : order'[n] = order[n],
         total_quantity' = [total_quantity EXCEPT
           ![s0][l0] = (@ - order[n0].remaining_quantity) % QuantityMod]
  PROVE  /\ TotalsAreSums'
         /\ Quantity(s0, l0)' = Quantity(s0, l0) - order[n0].remaining_quantity
<1>1. \A s, l : Resting(s, l)' = Resting(s, l) \ {n0}
  BY RestingAfterUnlink DEF SameOrders
<1>2. \A s, l : SumFunctionOnSet(remaining_of', Resting(s, l) \ {n0})
                  = SumFunctionOnSet(remaining_of, Resting(s, l) \ {n0})
  <2> SUFFICES ASSUME NEW s, NEW l
               PROVE  SumFunctionOnSet(remaining_of', Resting(s, l) \ {n0})
                        = SumFunctionOnSet(remaining_of, Resting(s, l) \ {n0})
    OBVIOUS
  <2>1. \A n \in Resting(s, l) \ {n0} :
          order'[n].remaining_quantity = order[n].remaining_quantity
    BY DEF Resting
  <2> QED BY <2>1, SameLevelQuantity
<1>3. /\ Quantity(s0, l0) = remaining_of[n0]
                               + SumFunctionOnSet(remaining_of, Resting(s0, l0) \ {n0})
      /\ SumFunctionOnSet(remaining_of, Resting(s0, l0) \ {n0}) \in Nat
      /\ remaining_of[n0] = order[n0].remaining_quantity /\ remaining_of[n0] \in Nat
  <2>1. IsFiniteSet(Resting(s0, l0)) /\ Resting(s0, l0) \subseteq Nodes
        /\ \A n \in Nodes : remaining_of[n] \in Nat
    BY PoolIsFinite
  <2>2. IsFiniteSet(Resting(s0, l0) \ {n0})
    BY <2>1, FS_Subset
  <2> QED BY <2>1, <2>2, SumRemove, SumType, PoolIsFinite DEF Quantity
<1>4. Quantity(s0, l0)' = Quantity(s0, l0) - order[n0].remaining_quantity
  <2>1. Quantity(s0, l0)' = SumFunctionOnSet(remaining_of, Resting(s0, l0) \ {n0})
    BY <1>1, <1>2 DEF Quantity
  <2> QED BY <1>3, <2>1
<1>5. \A s \in BookSides, l \in Levels : ~(s = s0 /\ l = l0) => Quantity(s, l)' = Quantity(s, l)
  <2>1. \A s \in BookSides, l \in Levels : ~(s = s0 /\ l = l0) => n0 \notin Resting(s, l)
    BY LevelOfOrder
  <2> QED BY <1>1, <1>2, <2>1 DEF Quantity
<1>6. /\ total_quantity'[s0][l0]
           = (total_quantity[s0][l0] - order[n0].remaining_quantity) % QuantityMod
      /\ \A s \in BookSides, l \in Levels : ~(s = s0 /\ l = l0) =>
           total_quantity'[s][l] = total_quantity[s][l]
  BY DEF IInv, TypeOK, LadderTypeOK
<1> QED BY <1>3, <1>4, <1>5, <1>6, OneTotalChanges

\* A fill that leaves something of the resting order.
LEMMA PartialFillKeepsTotals ==
  ASSUME IInv, TotalsAreSums, NEW s0 \in BookSides, NEW l0 \in Levels,
         NEW n0 \in Resting(s0, l0), NEW qty \in Nat,
         UNCHANGED in_use, order' \in [Nodes -> Order],
         \A n \in in_use \ {n0} : order'[n] = order[n],
         order'[n0].side = order[n0].side, order'[n0].price = order[n0].price,
         order'[n0].remaining_quantity = order[n0].remaining_quantity - qty,
         total_quantity' = [total_quantity EXCEPT ![s0][l0] = (@ - qty) % QuantityMod]
  PROVE  /\ TotalsAreSums'
         /\ Quantity(s0, l0)' = Quantity(s0, l0) - qty
<1>1. \A s, l : Resting(s, l)' = Resting(s, l)
  BY DEF Resting
<1>2. \A s, l : SumFunctionOnSet(remaining_of', Resting(s, l) \ {n0})
                  = SumFunctionOnSet(remaining_of, Resting(s, l) \ {n0})
  <2> SUFFICES ASSUME NEW s, NEW l
               PROVE  SumFunctionOnSet(remaining_of', Resting(s, l) \ {n0})
                        = SumFunctionOnSet(remaining_of, Resting(s, l) \ {n0})
    OBVIOUS
  <2>1. \A n \in Resting(s, l) \ {n0} :
          order'[n].remaining_quantity = order[n].remaining_quantity
    BY DEF Resting
  <2> QED BY <2>1, SameLevelQuantity
<1>a. PICK others : others = SumFunctionOnSet(remaining_of, Resting(s0, l0) \ {n0})
  OBVIOUS
<1>3. /\ IsFiniteSet(Resting(s0, l0)) /\ Resting(s0, l0) \subseteq Nodes
      /\ \A n \in Nodes : remaining_of[n] \in Nat
      /\ \A n \in Nodes : remaining_of'[n] \in Nat
      /\ remaining_of[n0] = order[n0].remaining_quantity
      /\ remaining_of'[n0] = order'[n0].remaining_quantity
      /\ n0 \in Nodes
  <2>1. \A n \in Nodes : remaining_of'[n] = order'[n].remaining_quantity /\ remaining_of'[n] \in Nat
    BY DEF remaining_of, Order
  <2> QED BY <2>1, PoolIsFinite
<1>4. Quantity(s0, l0) = remaining_of[n0] + others
  BY <1>3, <1>a, SumRemove DEF Quantity
<1>5. Quantity(s0, l0)' = remaining_of'[n0] + others
  <2>1. SumFunctionOnSet(remaining_of', Resting(s0, l0))
          = remaining_of'[n0] + SumFunctionOnSet(remaining_of', Resting(s0, l0) \ {n0})
    BY <1>3, SumRemove
  <2> QED BY <1>1, <1>2, <1>a, <2>1 DEF Quantity
<1>6. others \in Nat
  <2>1. IsFiniteSet(Resting(s0, l0) \ {n0})
    BY <1>3, FS_Subset
  <2> QED BY <1>3, <1>a, <2>1, SumType
<1>7. Quantity(s0, l0)' = Quantity(s0, l0) - qty
  <2>1. /\ remaining_of[n0] \in Nat
        /\ remaining_of'[n0] = remaining_of[n0] - qty
    BY <1>3
  <2> QED BY <1>4, <1>5, <1>6, <2>1
<1>8. \A s \in BookSides, l \in Levels : ~(s = s0 /\ l = l0) => Quantity(s, l)' = Quantity(s, l)
  <2>1. \A s \in BookSides, l \in Levels : ~(s = s0 /\ l = l0) => n0 \notin Resting(s, l)
    BY LevelOfOrder
  <2>2. \A s \in BookSides, l \in Levels : ~(s = s0 /\ l = l0) => Resting(s, l) \ {n0} = Resting(s, l)
    BY <2>1
  <2> QED BY <1>1, <1>2, <2>2 DEF Quantity
<1>9. /\ total_quantity'[s0][l0] = (total_quantity[s0][l0] - qty) % QuantityMod
      /\ \A s \in BookSides, l \in Levels : ~(s = s0 /\ l = l0) =>
           total_quantity'[s][l] = total_quantity[s][l]
  BY DEF IInv, TypeOK, LadderTypeOK
<1> QED BY <1>7, <1>8, <1>9, OneTotalChanges

\* An order enters the book.
LEMMA PushKeepsTotals ==
  ASSUME IInv, TotalsAreSums, NEW s0 \in BookSides, NEW l0 \in Levels, NEW o \in Order,
         o.side = s0, o.price = level_index_to_price(l0), AllocateAndPush(s0, l0, o),
         total_quantity' = [total_quantity EXCEPT
           ![s0][l0] = (@ + o.remaining_quantity) % QuantityMod]
  PROVE  /\ TotalsAreSums'
         /\ Quantity(s0, l0)' = Quantity(s0, l0) + o.remaining_quantity
<1>a. PICK n0 : n0 = allocated_node
  OBVIOUS
<1>1. /\ n0 \in Nodes /\ n0 \notin in_use /\ order'[n0] = o
      /\ \A n \in in_use : order'[n] = order[n]
      /\ order' \in [Nodes -> Order]
      /\ \A s \in BookSides, l \in Levels :
           Resting(s, l)' = IF s = s0 /\ l = l0 THEN Resting(s, l) \cup {n0} ELSE Resting(s, l)
  BY <1>a, PushedNode
<1>2. ASSUME NEW s, NEW l
      PROVE  SumFunctionOnSet(remaining_of', Resting(s, l)) = Quantity(s, l)
  <2>1. \A n \in Resting(s, l) : order'[n].remaining_quantity = order[n].remaining_quantity
    BY <1>1 DEF Resting
  <2> QED BY <1>1, <2>1, SameLevelQuantity DEF Quantity
<1>3. Quantity(s0, l0)' = Quantity(s0, l0) + o.remaining_quantity
  <2>1. \A n \in Nodes : remaining_of'[n] \in Nat /\ remaining_of'[n] = order'[n].remaining_quantity
    BY <1>1 DEF remaining_of, Order
  <2>2. n0 \notin Resting(s0, l0)
    BY <1>1 DEF Resting
  <2>3. /\ Resting(s0, l0) \subseteq Nodes /\ IsFiniteSet(Resting(s0, l0))
        /\ Quantity(s0, l0) \in Nat
    BY PoolIsFinite
  <2>4. SumFunctionOnSet(remaining_of', Resting(s0, l0) \cup {n0})
          = remaining_of'[n0] + SumFunctionOnSet(remaining_of', Resting(s0, l0))
    BY <1>1, <2>1, <2>2, <2>3, SumAdd
  <2>5. remaining_of'[n0] = o.remaining_quantity /\ o.remaining_quantity \in Nat
    BY <1>1, <2>1
  <2>6. Quantity(s0, l0)' = remaining_of'[n0] + Quantity(s0, l0)
    BY <1>1, <1>2, <2>4 DEF Quantity
  <2> QED BY <2>3, <2>5, <2>6
<1>4. \A s \in BookSides, l \in Levels : ~(s = s0 /\ l = l0) => Quantity(s, l)' = Quantity(s, l)
  BY <1>1, <1>2 DEF Quantity
<1>5. /\ total_quantity'[s0][l0] = (total_quantity[s0][l0] + o.remaining_quantity) % QuantityMod
      /\ \A s \in BookSides, l \in Levels : ~(s = s0 /\ l = l0) =>
           total_quantity'[s][l] = total_quantity[s][l]
  BY DEF IInv, TypeOK, LadderTypeOK
<1>6. o.remaining_quantity \in Nat
  BY DEF Order
<1> QED BY <1>3, <1>4, <1>5, <1>6, OneTotalChanges

-----------------------------------------------------------------------------
LEMMA SameBookSameTotals ==
  ASSUME TotalsAreSums, UNCHANGED bookVars
  PROVE  TotalsAreSums'
  BY DEF TotalsAreSums, Resting, remaining_of, bookVars, levelVars, poolVars

LEMMA CancelKeepsTotals ==
  ASSUME IInv, TotalsAreSums, NEW req \in CancelOrderRequest, req.order_id \in OrderIds,
         CancelStorage(req)
  PROVE  TotalsAreSums'
<1>1. CASE cancel_order_reason(req) # "None"
  BY <1>1, SameBookSameTotals DEF CancelStorage
<1>2. CASE cancel_order_reason(req) = "None"
  <2>1. contains_order(req.order_id)
    BY <1>2 DEF cancel_order_reason
  <2>a. PICK n0 : n0 = lookup[req.order_id]
    OBVIOUS
  <2>b. PICK s0 : s0 = order[n0].side
    OBVIOUS
  <2>c. PICK l0 : l0 = price_to_level_index(order[n0].price)
    OBVIOUS
  <2>2. s0 \in BookSides /\ l0 \in Levels /\ n0 \in Resting(s0, l0)
    BY <2>1, <2>a, <2>b, <2>c, LookedUpOrder, LevelOfOrder
  <2>3. /\ total_quantity' = [total_quantity EXCEPT
              ![s0][l0] = (@ - order[n0].remaining_quantity) % QuantityMod]
        /\ UnlinkAndFree(s0, l0, n0)
        /\ UNCHANGED order
    BY <1>2, <2>a, <2>b, <2>c DEF CancelStorage, remove_order
  <2>4. order' \in [Nodes -> Order] /\ \A n \in in_use \ {n0} : order'[n] = order[n]
    BY <2>3 DEF IInv, TypeOK, LadderTypeOK
  <2> QED BY <2>2, <2>3, <2>4, RemovalKeepsTotals
<1> QED BY <1>1, <1>2

LEMMA MatchKeepsTotals ==
  ASSUME IInv, TotalsAreSums, pc = "matching", NEW s \in BookSides, CanMatch(s), MatchFront(s)
  PROVE  TotalsAreSums'
<1>a. PICK n0 : n0 = front_node(s)
  OBVIOUS
<1>b. PICK l0 : l0 = best[s]
  OBVIOUS
<1>c. PICK resting : resting = order[n0]
  OBVIOUS
<1>d. PICK qty : qty = trade_qty(resting)
  OBVIOUS
<1>1. /\ l0 \in Levels /\ n0 \in Resting(s, l0)
      /\ resting \in Order /\ resting.remaining_quantity > 0
      /\ n0 \in Nodes /\ order \in [Nodes -> Order]
  BY <1>a, <1>b, <1>c, FrontOrder, LevelOfOrder
  DEF front_order, CanMatch, IInv, TypeOK, LadderTypeOK
<1>2. /\ qty \in Nat /\ qty <= resting.remaining_quantity
  BY <1>1, <1>d, TradeQuantity DEF IInv, TypeOK
<1>3. total_quantity' = [total_quantity EXCEPT ![s][l0] = (@ - qty) % QuantityMod]
  BY <1>a, <1>b, <1>c, <1>d DEF MatchFront, front_order
<1>4. CASE resting.remaining_quantity = qty
  <2>1. /\ order' = [order EXCEPT ![n0].remaining_quantity = 0]
        /\ UnlinkAndFree(s, l0, n0)
    BY <1>4, <1>a, <1>b, <1>c, <1>d DEF MatchFront, front_order
  <2>2. [order[n0] EXCEPT !.remaining_quantity = 0] \in Order
    BY <1>1, <1>c DEF Order
  <2>3. /\ order' \in [Nodes -> Order]
        /\ \A n \in in_use \ {n0} : order'[n] = order[n]
    BY <1>1, <2>1, <2>2, LevelOfOrder
  <2> QED BY <1>1, <1>3, <1>4, <1>c, <2>1, <2>3, RemovalKeepsTotals
<1>5. CASE resting.remaining_quantity # qty
  <2>1. /\ order' = [order EXCEPT ![n0].remaining_quantity = @ - qty,
                                  ![n0].order_status = "PartiallyFilled"]
        /\ UNCHANGED in_use
    BY <1>5, <1>a, <1>b, <1>c, <1>d DEF MatchFront, front_order
  <2>2. resting.remaining_quantity - qty \in Nat /\ "PartiallyFilled" \in OrderStatuses
    BY <1>1, <1>2 DEF Order, OrderStatuses
  <2>3. order'[n0] = [resting EXCEPT !.remaining_quantity = @ - qty,
                                     !.order_status = "PartiallyFilled"]
    BY <1>1, <1>c, <2>1
  <2>4. /\ order'[n0] \in Order
        /\ order'[n0].remaining_quantity = resting.remaining_quantity - qty
        /\ order'[n0].side = resting.side /\ order'[n0].price = resting.price
    BY <1>1, <2>2, <2>3 DEF Order
  <2>5. /\ \A n \in Nodes \ {n0} : order'[n] = order[n]
        /\ order' \in [Nodes -> Order]
    BY <1>1, <2>1, <2>4
  <2>6. \A n \in in_use \ {n0} : order'[n] = order[n]
    BY <2>5, LevelOfOrder
  <2>7. /\ order'[n0].side = order[n0].side /\ order'[n0].price = order[n0].price
        /\ order'[n0].remaining_quantity = order[n0].remaining_quantity - qty
        /\ UNCHANGED in_use
    BY <1>c, <2>1, <2>4
  <2> QED BY <1>1, <1>2, <1>3, <2>5, <2>6, <2>7, PartialFillKeepsTotals
<1> QED BY <1>4, <1>5

LEMMA AddRestingOrderKeepsTotals ==
  ASSUME IInv, TotalsAreSums, add_resting_order
  PROVE  TotalsAreSums'
<1>a. PICK s0 : s0 = incoming.side
  OBVIOUS
<1>b. PICK l0 : l0 = price_to_level_index(incoming.price)
  OBVIOUS
<1>c. PICK o : o = [incoming EXCEPT !.order_status = "Resting"]
  OBVIOUS
<1>1. pc = "matching" /\ ~is_market
  BY DEF add_resting_order, MatchingDone
<1>2. incoming \in Order /\ incoming.price \in Nat
  BY DEF IInv, TypeOK, HandlerTypeOK, Order
<1>3. s0 \in BookSides /\ on_ladder(incoming.price)
  BY <1>1, <1>a DEF IInv, CallIsSound
<1>4. l0 \in Levels /\ level_index_to_price(l0) = incoming.price
  BY <1>2, <1>3, <1>b, PriceOfLevel
<1>5. /\ o \in Order /\ o.side = s0 /\ o.price = incoming.price
      /\ o.remaining_quantity = incoming.remaining_quantity
  BY <1>2, <1>a, <1>c DEF Order, OrderStatuses
<1>6. /\ AllocateAndPush(s0, l0, o)
      /\ total_quantity' = [total_quantity EXCEPT
           ![s0][l0] = (@ + incoming.remaining_quantity) % QuantityMod]
  BY <1>3, <1>a, <1>b, <1>c DEF add_resting_order
<1> QED BY <1>3, <1>4, <1>5, <1>6, PushKeepsTotals

LEMMA TotalsStaySums == IInv /\ TotalsAreSums /\ [Next]_vars => TotalsAreSums'
<1> SUFFICES ASSUME IInv, TotalsAreSums, [Next]_vars PROVE TotalsAreSums'
  OBVIOUS
<1>1. ASSUME NEW req \in NewOrderRequests, SubmitNew(req) PROVE TotalsAreSums'
  BY <1>1, SameBookSameTotals DEF SubmitNew
<1>2. ASSUME NEW req \in ModifyOrderRequests, SubmitModify(req) PROVE TotalsAreSums'
  <2>1. CASE modify_order_reason(req) # "None"
    BY <1>2, <2>1, SameBookSameTotals DEF SubmitModify
  <2>2. CASE modify_order_reason(req) = "None"
    <3>1. CancelStorage([order_id |-> req.order_id])
      BY <1>2, <2>2 DEF SubmitModify
    <3>2. req.order_id \in OrderIds /\ [order_id |-> req.order_id] \in CancelOrderRequest
      BY HandlerAssumption DEF CancelOrderRequest
    <3> QED BY <3>1, <3>2, CancelKeepsTotals
  <2> QED BY <2>1, <2>2
<1>3. ASSUME NEW req \in CancelOrderRequests, SubmitCancel(req) PROVE TotalsAreSums'
  <2>1. req \in CancelOrderRequest /\ req.order_id \in OrderIds
    BY HandlerAssumption
  <2> QED BY <1>3, <2>1, CancelKeepsTotals DEF SubmitCancel
<1>4. CASE Resubmit
  BY <1>4, SameBookSameTotals DEF Resubmit
<1>5. CASE match_buy
  BY <1>5, MatchKeepsTotals, NoEmptyLevelIsMatched DEF BookSides
<1>6. CASE match_sell
  BY <1>6, MatchKeepsTotals, NoEmptyLevelIsMatched DEF BookSides
<1>7. CASE add_resting_order
  BY <1>7, AddRestingOrderKeepsTotals
<1>8. CASE NothingRests
  BY <1>8, SameBookSameTotals DEF NothingRests
<1>9. CASE Collect /\ UNCHANGED bookVars
  BY <1>9, SameBookSameTotals
<1>10. CASE UNCHANGED vars
  BY <1>10, SameBookSameTotals DEF vars
<1> QED BY <1>1, <1>2, <1>3, <1>4, <1>5, <1>6, <1>7, <1>8, <1>9, <1>10
  DEF Next, Submit, Continue

LEMMA EmptyTotals == Init => TotalsAreSums
<1> SUFFICES ASSUME Init, NEW s \in BookSides, NEW l \in Levels
             PROVE  total_quantity[s][l] = SumFunctionOnSet(remaining_of, Resting(s, l)) % QuantityMod
  BY DEF TotalsAreSums
<1>1. total_quantity[s][l] = 0 /\ Resting(s, l) = {}
  BY DEF Init, Resting
<1>2. 0 % QuantityMod = 0
  BY HandlerAssumption
<1> QED BY <1>1, <1>2, SumEmpty

\* Through any sequence of rests, fills and cancels, the counter of a level is what
\* its orders add up to, in the counter's 32 bits. (total_quantity of each level)
THEOREM LevelTotals == Spec => []TotalsAreSums
<1>1. Init => IInv /\ TotalsAreSums
  BY InitIsSound, EmptyTotals
<1>2. IInv /\ TotalsAreSums /\ [Next]_vars => IInv' /\ TotalsAreSums'
  BY NextIsSound, TotalsStaySums
<1> QED BY <1>1, <1>2, PTL DEF Spec

\* A counter that never wrapped is the sum that it counts.
LEMMA TotalsAreExact == TotalsAreSums /\ LevelsFit /\ IInv => TotalQuantityIsExact
<1> SUFFICES ASSUME TotalsAreSums, LevelsFit, IInv, NEW s \in BookSides, NEW l \in Levels
             PROVE  total_quantity[s][l] = SumFunctionOnSet(remaining_of, Resting(s, l))
  BY DEF TotalQuantityIsExact
<1>1. PICK q : q = SumFunctionOnSet(remaining_of, Resting(s, l))
  OBVIOUS
<1>2. q \in Nat /\ q < QuantityMod
  <2>1. Quantity(s, l) \in Nat
    BY PoolIsFinite
  <2> QED BY <1>1, <2>1 DEF Quantity, LevelsFit
<1>3. q % QuantityMod = q
  BY <1>2, HandlerAssumption, SmallRemainder
<1> QED BY <1>1, <1>3 DEF TotalsAreSums

\* The counter is the sum itself unless a level holds 2^32 units: nothing but that
\* overflow can make best_bid_quantity or best_ask_quantity wrong.
THEOREM ExactTotals == Spec => [](LevelsFit => TotalQuantityIsExact)
<1>1. IInv /\ TotalsAreSums => (LevelsFit => TotalQuantityIsExact)
  BY TotalsAreExact
<1> QED BY <1>1, Soundness, LevelTotals, PTL

-----------------------------------------------------------------------------
\* The recursion of a walk.
WalkStep(first, link, g, k) ==
  IF k = 0 THEN first
  ELSE IF g[k - 1] = invalid_node THEN invalid_node ELSE link[g[k - 1]]

IsWalk(first, link, g) == g = [k \in 0 .. PoolCapacity |-> WalkStep(first, link, g, k)]

LEMMA WalkIsChosen ==
  ASSUME NEW first, NEW link
  PROVE  Walk(first, link) = CHOOSE g : IsWalk(first, link, g)
  BY DEF Walk, IsWalk, WalkStep

LEMMA WalkExists ==
  ASSUME NEW first, NEW link
  PROVE  \E g : IsWalk(first, link, g)
<1> DEFINE Partial(n, g) == g = [k \in 0 .. n |-> WalkStep(first, link, g, k)]
           Solved == {n \in Nat : \E g : Partial(n, g)}
<1>1. 0 \in Solved
  <2> DEFINE g == [k \in 0 .. 0 |-> first]
  <2>1. g = [k \in 0 .. 0 |-> WalkStep(first, link, g, k)]
    BY DEF WalkStep
  <2> QED BY <2>1
<1>2. ASSUME NEW n \in Nat, n \in Solved PROVE n + 1 \in Solved
  <2>1. PICK h : Partial(n, h)
    BY <1>2
  <2> DEFINE g == [k \in 0 .. n + 1 |-> WalkStep(first, link, h, k)]
  <2>2. \A k \in 0 .. n : g[k] = h[k]
    <3>1. \A k \in 0 .. n : h[k] = WalkStep(first, link, h, k)
      BY <2>1
    <3> QED BY <3>1
  <2>3. \A k \in 0 .. n + 1 : WalkStep(first, link, h, k) = WalkStep(first, link, g, k)
    <3>1. \A k \in 0 .. n + 1 : k # 0 => k - 1 \in 0 .. n
      OBVIOUS
    <3> HIDE DEF g
    <3> QED BY <2>2, <3>1 DEF WalkStep
  <2>4. g = [k \in 0 .. n + 1 |-> WalkStep(first, link, g, k)]
    <3> DEFINE j == [k \in 0 .. n + 1 |-> WalkStep(first, link, g, k)]
    <3>1. \A k \in 0 .. n + 1 : g[k] = j[k]
      BY <2>3
    <3> QED BY <3>1
  <2> HIDE DEF g
  <2> QED BY <2>4
<1> HIDE DEF Solved
<1>3. PoolCapacity \in Solved
  BY <1>1, <1>2, NatInduct, PoolAssumption
<1> QED BY <1>3 DEF Solved, IsWalk

\* What a walk visits.
LEMMA WalkEquation ==
  ASSUME NEW first, NEW link
  PROVE  LET visit == Walk(first, link)
         IN  /\ visit[0] = first
             /\ \A k \in 1 .. PoolCapacity :
                  visit[k] = IF visit[k - 1] = invalid_node THEN invalid_node
                             ELSE link[visit[k - 1]]
<1> DEFINE visit == Walk(first, link)
<1>1. IsWalk(first, link, visit)
  BY WalkIsChosen, WalkExists
<1> HIDE DEF visit
<1>2. \A k \in 0 .. PoolCapacity : visit[k] = WalkStep(first, link, visit, k)
  BY <1>1 DEF IsWalk
<1>3. 0 \in 0 .. PoolCapacity /\ \A k \in 1 .. PoolCapacity : k \in 0 .. PoolCapacity /\ k # 0
  BY PoolAssumption
<1>4. visit[0] = first
  BY <1>2, <1>3 DEF WalkStep
<1>5. \A k \in 1 .. PoolCapacity :
        visit[k] = IF visit[k - 1] = invalid_node THEN invalid_node ELSE link[visit[k - 1]]
  BY <1>2, <1>3 DEF WalkStep
<1> QED BY <1>4, <1>5 DEF visit

-----------------------------------------------------------------------------
(***************************************************************************)
(* The walk along the list of a level visits the orders of the level.      *)
(***************************************************************************)

\* Position k of the walk: either node k has no node before it but those already
\* visited, or the walk has ended and every order of the level was visited.
Visited(visit, k, R) ==
  IF visit[k] # invalid_node
  THEN /\ visit[k] \in R
       /\ {n \in R : ~Earlier(visit[k], n)} = {visit[j] : j \in 0 .. k}
       /\ \A j \in 0 .. k - 1 : visit[j] # invalid_node /\ Earlier(visit[j], visit[k])
  ELSE R = {visit[j] : j \in {i \in 0 .. k : visit[i] # invalid_node}}

LEMMA WalkVisits ==
  ASSUME IInv, NEW s \in BookSides, NEW l \in Levels,
         NEW visit, visit = Walk(head[s][l], next)
  PROVE  \A k \in 0 .. PoolCapacity : Visited(visit, k, Resting(s, l))
<1>a. PICK R : R = Resting(s, l)
  OBVIOUS
<1>1. /\ visit[0] = head[s][l]
      /\ \A k \in 1 .. PoolCapacity :
           visit[k] = IF visit[k - 1] = invalid_node THEN invalid_node
                      ELSE next[visit[k - 1]]
  BY WalkEquation
<1>2. /\ R \subseteq in_use /\ invalid_node \notin R
      /\ Earliest(head[s][l], R)
  BY <1>a, LadderFacts, LevelOfOrder DEF IInv, BookIsSound, TimePriorityLinks, Links, Resting
<1>3. /\ \A m \in R : ~Earlier(m, m)
      /\ \A m, n \in R : m # n => Earlier(m, n) \/ Earlier(n, m)
      /\ \A m, n \in R : Earlier(m, n) => ~Earlier(n, m)
      /\ \A m, n, k \in R : Earlier(m, n) /\ Earlier(n, k) => Earlier(m, k)
  BY <1>2, ArrivalOrder
<1>4. Visited(visit, 0, R)
  <2>1. CASE R = {}
    <3>1. visit[0] = invalid_node
      BY <1>1, <1>2, <2>1 DEF Earliest
    <3>2. \A i \in 0 .. 0 : visit[i] = invalid_node
      BY <3>1
    <3> QED BY <2>1, <3>1, <3>2 DEF Visited
  <2>2. CASE R # {}
    <3>1. visit[0] \in R /\ \A n \in R \ {visit[0]} : Earlier(visit[0], n)
      BY <1>1, <1>2, <2>2 DEF Earliest
    <3>2. {n \in R : ~Earlier(visit[0], n)} = {visit[0]}
      BY <1>3, <3>1
    <3>3. {visit[j] : j \in 0 .. 0} = {visit[0]} /\ 0 .. 0 - 1 = {}
      OBVIOUS
    <3> QED BY <1>2, <3>1, <3>2, <3>3 DEF Visited
  <2> QED BY <2>1, <2>2
<1>5. ASSUME NEW k \in Nat, k + 1 \in 0 .. PoolCapacity, Visited(visit, k, R)
      PROVE  Visited(visit, k + 1, R)
  <2>1. visit[k + 1] = IF visit[k] = invalid_node THEN invalid_node ELSE next[visit[k]]
    <3>1. k + 1 \in 1 .. PoolCapacity /\ (k + 1) - 1 = k
      BY <1>5, PoolAssumption
    <3> QED BY <1>1, <3>1
  <2>2. 0 .. k + 1 = (0 .. k) \cup {k + 1} /\ 0 .. (k + 1) - 1 = 0 .. k
    OBVIOUS
  <2>3. CASE visit[k] = invalid_node
    <3>1. visit[k + 1] = invalid_node
      BY <2>1, <2>3
    <3>2. {i \in 0 .. k + 1 : visit[i] # invalid_node} = {i \in 0 .. k : visit[i] # invalid_node}
      BY <2>2, <3>1
    <3> QED BY <1>5, <2>3, <3>1, <3>2 DEF Visited
  <2>4. CASE visit[k] # invalid_node
    <3>a. PICK n : n = visit[k]
      OBVIOUS
    <3>1. /\ n \in R
          /\ {m \in R : ~Earlier(n, m)} = {visit[j] : j \in 0 .. k}
          /\ \A j \in 0 .. k - 1 : visit[j] # invalid_node /\ Earlier(visit[j], n)
      BY <1>5, <2>4, <3>a DEF Visited
    <3>2. visit[k + 1] = next[n]
      BY <2>1, <2>4, <3>a
    <3>3. \A j \in 0 .. k : visit[j] # invalid_node /\ visit[j] \in R
      BY <2>4, <3>1, <1>2
    <3>4. CASE next[n] = invalid_node
      <4>1. \A m \in R : ~Earlier(n, m)
        BY <1>a, <3>1, <3>4, Neighbours
      <4>2. R = {visit[j] : j \in 0 .. k}
        BY <3>1, <4>1
      <4>3. {i \in 0 .. k + 1 : visit[i] # invalid_node} = 0 .. k
        BY <2>2, <3>2, <3>3, <3>4
      <4> QED BY <3>2, <3>4, <4>2, <4>3 DEF Visited
    <3>5. CASE next[n] # invalid_node
      <4>a. PICK m : m = next[n]
        OBVIOUS
      <4>1. /\ m \in R /\ Earlier(n, m)
            /\ \A x \in R : Earlier(n, x) => x = m \/ Earlier(m, x)
        BY <1>a, <3>1, <3>5, <4>a, Neighbours
      <4>2. {x \in R : ~Earlier(m, x)} = {x \in R : ~Earlier(n, x)} \cup {m}
        BY <1>3, <3>1, <4>1
      <4>3. {visit[j] : j \in 0 .. k + 1} = {visit[j] : j \in 0 .. k} \cup {m}
        BY <2>2, <3>2, <4>a
      <4>4. \A j \in 0 .. k : Earlier(visit[j], m)
        <5>1. \A j \in 0 .. k : j \in 0 .. k - 1 \/ j = k
          OBVIOUS
        <5> QED BY <1>3, <3>1, <3>3, <4>1, <5>1, <3>a
      <4> QED BY <2>2, <3>1, <3>2, <3>3, <3>5, <4>a, <4>1, <4>2, <4>3, <4>4 DEF Visited
    <3> QED BY <3>4, <3>5
  <2> QED BY <2>3, <2>4
<1> DEFINE Done == {k \in Nat : k \in 0 .. PoolCapacity => Visited(visit, k, R)}
<1>6. 0 \in Done
  BY <1>4
<1>7. ASSUME NEW k \in Nat, k \in Done PROVE k + 1 \in Done
  <2>1. k + 1 \in 0 .. PoolCapacity => k \in 0 .. PoolCapacity
    BY PoolAssumption
  <2> QED BY <1>5, <1>7, <2>1
<1> HIDE DEF Done
<1>8. \A k \in Nat : k \in Done
  BY <1>6, <1>7, NatInduct
<1> QED BY <1>8, <1>a, PoolAssumption DEF Done

VisitedNodes(visit) == {visit[k] : k \in Chain(visit)}

LEMMA WalkOfLevel ==
  ASSUME IInv, NEW s \in BookSides, NEW l \in Levels,
         NEW visit, visit = Walk(head[s][l], next)
  PROVE  /\ visit[PoolCapacity] = invalid_node
         /\ VisitedNodes(visit) = Resting(s, l)
         /\ Cardinality(Chain(visit)) = Cardinality(Resting(s, l))
         /\ \A k \in Chain(visit) :
              prev[visit[k]] = IF k = 0 THEN invalid_node ELSE visit[k - 1]
         /\ tail[s][l] = IF Chain(visit) = {} THEN invalid_node ELSE visit[Max(Chain(visit))]
<1>a. PICK R : R = Resting(s, l)
  OBVIOUS
<1>b. PICK C : C = Chain(visit)
  OBVIOUS
<1>1. /\ visit[0] = head[s][l]
      /\ \A k \in 1 .. PoolCapacity :
           visit[k] = IF visit[k - 1] = invalid_node THEN invalid_node
                      ELSE next[visit[k - 1]]
  BY WalkEquation
<1>2. \A k \in 0 .. PoolCapacity : Visited(visit, k, R)
  BY <1>a, WalkVisits
<1>3. /\ R \subseteq in_use /\ R \subseteq Nodes /\ invalid_node \notin R
      /\ Latest(tail[s][l], R)
  BY <1>a, LadderFacts, LevelOfOrder DEF IInv, BookIsSound, TimePriorityLinks, Links, Resting
<1>4. /\ \A m \in R : ~Earlier(m, m)
      /\ \A m, n \in R : m # n => Earlier(m, n) \/ Earlier(n, m)
      /\ \A m, n \in R : Earlier(m, n) => ~Earlier(n, m)
  BY <1>3, ArrivalOrder
<1>5. /\ C \subseteq 0 .. PoolCapacity
      /\ \A k \in 0 .. PoolCapacity : k \in C <=> visit[k] # invalid_node
      /\ \A k \in C : visit[k] \in R
      /\ \A k \in C : \A j \in 0 .. k - 1 : j \in C /\ Earlier(visit[j], visit[k])
  <2>1. \A k \in 0 .. PoolCapacity : \A j \in 0 .. k - 1 : j \in 0 .. PoolCapacity
    BY PoolAssumption
  <2> QED BY <1>2, <1>b, <2>1 DEF Chain, Visited
<1>6. \A j, k \in C : visit[j] = visit[k] => j = k
  <2>1. ASSUME NEW j \in C, NEW k \in C, j < k, visit[j] = visit[k] PROVE FALSE
    <3>1. j \in 0 .. k - 1
      BY <1>5, <2>1
    <3> QED BY <1>4, <1>5, <2>1, <3>1
  <2>2. \A j, k \in C : j < k \/ k < j \/ j = k
    BY <1>5
  <2> QED BY <2>1, <2>2
<1>7. IsFiniteSet(C)
  <2>1. IsFiniteSet(0 .. PoolCapacity)
    BY FS_Interval, PoolAssumption
  <2> QED BY <1>5, <2>1, FS_Subset
<1>8. visit[PoolCapacity] = invalid_node
  <2> SUFFICES ASSUME visit[PoolCapacity] # invalid_node PROVE FALSE
    OBVIOUS
  <2>1. PoolCapacity \in C
    BY <1>5, PoolAssumption
  <2>2. C = 0 .. PoolCapacity
    <3>1. \A j \in 0 .. PoolCapacity : j = PoolCapacity \/ j \in 0 .. PoolCapacity - 1
      BY PoolAssumption
    <3> QED BY <1>5, <2>1, <3>1
  <2>3. [k \in C |-> visit[k]] \in Injection(C, Nodes)
    BY <1>3, <1>5, <1>6 DEF Injection, IsInjective
  <2>4. IsFiniteSet(Nodes) /\ Cardinality(Nodes) = PoolCapacity
    BY FS_Interval, PoolAssumption DEF Nodes
  <2>5. Cardinality(C) = PoolCapacity + 1
    BY <2>2, FS_Interval, PoolAssumption
  <2>6. Cardinality(C) <= Cardinality(Nodes)
    BY <2>3, <2>4, FS_Injection
  <2> QED BY <2>4, <2>5, <2>6, PoolAssumption
<1>9. {visit[k] : k \in C} = R
  <2>1. PoolCapacity \in 0 .. PoolCapacity
    BY PoolAssumption
  <2>2. R = {visit[j] : j \in {i \in 0 .. PoolCapacity : visit[i] # invalid_node}}
    BY <1>2, <1>8, <2>1 DEF Visited
  <2>3. {i \in 0 .. PoolCapacity : visit[i] # invalid_node} = C
    BY <1>5
  <2> QED BY <2>2, <2>3
<1>10. Cardinality(C) = Cardinality(R)
  <2> DEFINE f == [k \in C |-> visit[k]]
  <2>1. f \in [C -> R] /\ \A y \in R : \E x \in C : f[x] = y
    BY <1>5, <1>9
  <2>2. \A x, y \in C : f[x] = f[y] => x = y
    BY <1>6
  <2> HIDE DEF f
  <2> QED BY <1>7, <2>1, <2>2, SameCardinality
<1>11. ASSUME NEW k \in C
       PROVE  prev[visit[k]] = IF k = 0 THEN invalid_node ELSE visit[k - 1]
  <2>a. PICK n : n = visit[k]
    OBVIOUS
  <2>1. n \in R /\ k \in 0 .. PoolCapacity
    BY <1>5, <2>a
  <2>2. /\ prev[n] # invalid_node =>
             /\ prev[n] \in R /\ Earlier(prev[n], n)
             /\ \A m \in R : Earlier(m, n) => m = prev[n] \/ Earlier(m, prev[n])
        /\ prev[n] = invalid_node => \A m \in R : ~Earlier(m, n)
    BY <1>a, <2>1, Neighbours
  <2>3. CASE k = 0
    <3>1. {m \in R : ~Earlier(n, m)} = {n}
      <4>1. {visit[j] : j \in 0 .. 0} = {visit[0]}
        OBVIOUS
      <4> QED BY <1>2, <1>5, <2>1, <2>3, <2>a, <4>1 DEF Visited
    <3>2. \A m \in R : ~Earlier(m, n)
      BY <1>4, <2>1, <3>1
    <3> QED BY <2>2, <2>3, <2>a, <3>2
  <2>4. CASE k # 0
    <3>a. PICK p : p = visit[k - 1]
      OBVIOUS
    <3>1. k - 1 \in 0 .. k - 1 /\ k \in 1 .. PoolCapacity
      BY <2>1, <2>4
    <3>2. p \in R /\ Earlier(p, n) /\ k - 1 \in C
      BY <1>5, <3>1, <3>a, <2>a
    <3>3. next[p] = n /\ n # invalid_node
      BY <1>1, <1>5, <3>1, <3>2, <3>a, <2>a
    <3>4. \A m \in R : Earlier(p, m) => m = n \/ Earlier(n, m)
      BY <1>a, <3>2, <3>3, Neighbours
    <3>5. prev[n] # invalid_node
      BY <2>2, <3>2
    <3>6. p = prev[n] \/ Earlier(p, prev[n])
      BY <2>2, <3>2, <3>5
    <3>7. ~Earlier(p, prev[n])
      BY <1>4, <2>1, <2>2, <3>4, <3>5
    <3> QED BY <2>4, <2>a, <3>6, <3>7, <3>a
  <2> QED BY <2>3, <2>4, <2>a
<1>12. tail[s][l] = IF C = {} THEN invalid_node ELSE visit[Max(C)]
  <2>1. CASE C = {}
    <3>1. R = {}
      BY <1>9, <2>1
    <3> QED BY <1>3, <2>1, <3>1 DEF Latest
  <2>2. CASE C # {}
    <3>a. PICK k : k = Max(C)
      OBVIOUS
    <3>1. k \in C /\ \A j \in C : k >= j
      BY <1>5, <2>2, <3>a, MaxInSet, PoolAssumption
    <3>2. k + 1 \in 1 .. PoolCapacity /\ k \in Nat
      <4>1. k # PoolCapacity
        BY <1>5, <1>8, <3>1, PoolAssumption
      <4> QED BY <1>5, <3>1, <4>1, PoolAssumption
    <3>3. visit[k + 1] = next[visit[k]]
      <4>1. (k + 1) - 1 = k
        BY <3>2
      <4> QED BY <1>1, <1>5, <3>1, <3>2, <4>1
    <3>4. visit[k + 1] = invalid_node
      <4>1. k + 1 \notin C /\ k + 1 \in 0 .. PoolCapacity
        BY <3>1, <3>2
      <4> QED BY <1>5, <4>1
    <3>5. visit[k] \in R /\ \A m \in R : ~Earlier(visit[k], m)
      BY <1>a, <1>5, <3>1, <3>3, <3>4, Neighbours
    <3> QED BY <1>3, <2>2, <3>5, <3>a DEF Latest
  <2> QED BY <2>1, <2>2
<1> QED BY <1>a, <1>b, <1>8, <1>9, <1>10, <1>11, <1>12 DEF VisitedNodes

-----------------------------------------------------------------------------
(***************************************************************************)
(* The validator.                                                          *)
(***************************************************************************)
LEMMA LevelsAreValid ==
  ASSUME IInv, TotalsAreSums, NEW s \in BookSides, NEW l \in Levels
  PROVE  check_level(s, l)
<1>a. PICK visit : visit = Walk(head[s][l], next)
  OBVIOUS
<1>1. /\ visit[PoolCapacity] = invalid_node
      /\ VisitedNodes(visit) = Resting(s, l)
      /\ \A k \in Chain(visit) :
           prev[visit[k]] = IF k = 0 THEN invalid_node ELSE visit[k - 1]
      /\ tail[s][l] = IF Chain(visit) = {} THEN invalid_node ELSE visit[Max(Chain(visit))]
  BY <1>a, WalkOfLevel
<1>2. total_quantity[s][l]
        = SumFunctionOnSet(remaining_of, VisitedNodes(visit)) % QuantityMod
  BY <1>1 DEF TotalsAreSums
<1>3. ASSUME NEW k \in Chain(visit)
      PROVE  LET n == visit[k]
             IN  /\ n < pool_size /\ n \in in_use
                 /\ order[n].side = s
                 /\ order[n].price = level_index_to_price(l)
                 /\ order[n].remaining_quantity # 0
                 /\ lookup[order[n].order_id] = n
  <2>a. PICK n : n = visit[k]
    OBVIOUS
  <2>1. n \in Resting(s, l)
    BY <1>1, <2>a DEF VisitedNodes
  <2>2. n \in in_use /\ order[n].side = s /\ order[n].price = level_index_to_price(l)
    BY <2>1 DEF Resting
  <2>3. n < pool_size
    BY <2>2 DEF IInv, BookIsSound, NodesAreConserved, Constructed, TypeOK, LadderTypeOK
  <2>4. order[n].remaining_quantity # 0 /\ lookup[order[n].order_id] = n
    <3>1. order[n].remaining_quantity > 0
      BY <2>2 DEF IInv, BookIsSound, OrdersAreSound
    <3> QED BY <2>2, <3>1 DEF IInv, BookIsSound, LookupIsExact
  <2> QED BY <2>a, <2>2, <2>3, <2>4
<1> QED BY <1>a, <1>1, <1>2, <1>3 DEF check_level, VisitedNodes

\* Every order at rest is in one level.
LEMMA OrdersInLevels ==
  ASSUME IInv
  PROVE  orders_in_levels = Cardinality({id \in OrderIds : contains_order(id)})
<1> DEFINE I == BookSides \X Levels
           F == [sl \in I |-> Resting(sl[1], sl[2])]
           size == [sl \in I |-> Cardinality(Chain(Walk(head[sl[1]][sl[2]], next)))]
           ids == {id \in OrderIds : contains_order(id)}
<1>1. IsFiniteSet(I)
  <2>1. IsFiniteSet(Levels)
    BY LadderFacts, FS_Interval DEF Levels
  <2>2. IsFiniteSet(BookSides)
    <3>1. IsFiniteSet({"Buy"} \cup {"Sell"})
      BY FS_Singleton, FS_Union
    <3>2. BookSides = {"Buy"} \cup {"Sell"}
      BY DEF BookSides
    <3> QED BY <3>1, <3>2
  <2> QED BY <2>1, <2>2, FS_Product
<1>2. \A i \in I : /\ i[1] \in BookSides /\ i[2] \in Levels
                   /\ IsFiniteSet(F[i]) /\ F[i] = Resting(i[1], i[2])
  BY PoolIsFinite
<1>3. \A i, j \in I : i # j => F[i] \cap F[j] = {}
  <2> SUFFICES ASSUME NEW i \in I, NEW j \in I, NEW n \in F[i], n \in F[j] PROVE i = j
    OBVIOUS
  <2>1. i[1] = j[1] /\ i[2] = j[2]
    BY <1>2, LevelOfOrder
  <2> QED BY <2>1
<1>4. \A i \in I : size[i] = Cardinality(F[i])
  BY <1>2, WalkOfLevel
<1>5. orders_in_levels = SumFunctionOnSet(size, I)
  BY DEF orders_in_levels
<1>6. UnionOf(F, I) = in_use
  <2>1. \A n \in in_use : \E i \in I : n \in F[i]
    <3> SUFFICES ASSUME NEW n \in in_use PROVE \E i \in I : n \in F[i]
      OBVIOUS
    <3>a. PICK i : i = <<order[n].side, price_to_level_index(order[n].price)>>
      OBVIOUS
    <3>1. i \in I /\ n \in Resting(i[1], i[2])
      BY <3>a, LevelOfOrder
    <3> QED BY <3>1, <1>2
  <2>2. \A i \in I : F[i] \subseteq in_use
    BY <1>2, LevelOfOrder
  <2> HIDE DEF F, I
  <2> QED BY <2>1, <2>2 DEF UnionOf
<1> HIDE DEF F, size, I
<1>7. orders_in_levels = Cardinality(in_use)
  <2>1. \A i \in I : IsFiniteSet(F[i])
    BY <1>2
  <2>2. SumFunctionOnSet(size, I) = Cardinality(UnionOf(F, I))
    BY <1>1, <2>1, <1>3, <1>4, SumOfSizes
  <2> QED BY <1>5, <1>6, <2>2
<1>8. Cardinality(in_use) = Cardinality(ids)
  <2> DEFINE f == [n \in in_use |-> order[n].order_id]
  <2>1. f \in [in_use -> ids]
    <3>1. \A n \in in_use : order[n].order_id \in OrderIds /\ lookup[order[n].order_id] = n
      BY DEF IInv, BookIsSound, LookupIsExact
    <3>2. in_use \subseteq Nodes
      BY LevelOfOrder
    <3> QED BY <3>1, <3>2, LadderFacts DEF contains_order
  <2>2. \A m, n \in in_use : f[m] = f[n] => m = n
    BY DEF IInv, BookIsSound, LookupIsExact
  <2>3. \A id \in ids : \E n \in in_use : f[n] = id
    BY LookedUpOrder
  <2>4. IsFiniteSet(in_use)
    BY PoolIsFinite
  <2> HIDE DEF f
  <2> QED BY <2>1, <2>2, <2>3, <2>4, SameCardinality
<1> QED BY <1>7, <1>8

\* The largest and the smallest element of a set are the only ones of their kind.
LEMMA LargestLevel ==
  ASSUME NEW S \in SUBSET Levels, NEW b \in S
  PROVE  /\ (\A x \in S : x <= b) => Max(S) = b
         /\ (\A x \in S : x >= b) => Min(S) = b
<1>1. S \in SUBSET (0 .. level_count) /\ S \in SUBSET Nat /\ level_count \in Nat
  BY LadderFacts DEF Levels
<1>2. Max(S) \in S /\ Min(S) \in S /\ \A y \in S : Max(S) >= y /\ Min(S) <= y
  BY <1>1, MaxInSet, MinInSet
<1>a. PICK x \in S : x = Max(S)
  BY <1>2
<1>b. PICK y \in S : y = Min(S)
  BY <1>2
<1>3. b \in Nat /\ x \in Nat /\ y \in Nat
  BY <1>1
<1> QED BY <1>2, <1>3, <1>a, <1>b

LEMMA BestIsRefreshed ==
  ASSUME IInv
  PROVE  /\ best["Buy"] = refresh_best_bid_from(level_count - 1, head["Buy"])
         /\ best["Sell"] = refresh_best_ask_from(0, head["Sell"])
<1>1. /\ best \in [BookSides -> Levels \cup {invalid_level}]
      /\ in_use \subseteq Nodes /\ TimePriorityLinks
  BY DEF IInv, TypeOK, LadderTypeOK, BookIsSound
<1>2. \A s \in BookSides, l \in Levels : head[s][l] # invalid_node <=> Resting(s, l) # {}
  BY <1>1, HeadWhenOccupied
<1>3. \A s \in BookSides :
        /\ best[s] # invalid_level => Resting(s, best[s]) # {}
        /\ \A l \in Levels :
             Resting(s, l) # {} => best[s] # invalid_level /\ NoBetter(s, l, best[s])
  BY DEF IInv, BookIsSound, BestIsCurrent, NoBetter
<1>4. \A l \in Levels : l <= level_count - 1 /\ l >= 0
  BY LadderFacts DEF Levels
<1>5. best["Buy"] = refresh_best_bid_from(level_count - 1, head["Buy"])
  <2> DEFINE S == {l \in Levels : l <= level_count - 1 /\ head["Buy"][l] # invalid_node}
  <2>1. refresh_best_bid_from(level_count - 1, head["Buy"])
          = IF S = {} THEN invalid_level ELSE Max(S)
    BY DEF refresh_best_bid_from
  <2>2. "Buy" \in BookSides
    BY DEF BookSides
  <2>3. \A l \in Levels : l \in S <=> Resting("Buy", l) # {}
    BY <1>2, <1>4, <2>2
  <2>4. S \in SUBSET Levels
    OBVIOUS
  <2> HIDE DEF S
  <2>5. CASE S = {}
    BY <1>1, <1>3, <2>1, <2>2, <2>3, <2>5
  <2>6. CASE S # {}
    <3>1. PICK x \in S : TRUE
      BY <2>6
    <3>2. best["Buy"] # invalid_level /\ best["Buy"] \in Levels /\ best["Buy"] \in S
      BY <1>1, <1>3, <2>2, <2>3, <2>4, <3>1
    <3>3. \A y \in S : y <= best["Buy"]
      BY <1>3, <2>2, <2>3, <2>4 DEF NoBetter
    <3> QED BY <2>1, <2>4, <2>6, <3>2, <3>3, LargestLevel
  <2> QED BY <2>5, <2>6
<1>6. best["Sell"] = refresh_best_ask_from(0, head["Sell"])
  <2> DEFINE S == {l \in Levels : l >= 0 /\ head["Sell"][l] # invalid_node}
  <2>1. refresh_best_ask_from(0, head["Sell"]) = IF S = {} THEN invalid_level ELSE Min(S)
    BY DEF refresh_best_ask_from
  <2>2. "Sell" \in BookSides
    BY DEF BookSides
  <2>3. \A l \in Levels : l \in S <=> Resting("Sell", l) # {}
    BY <1>2, <1>4, <2>2
  <2>4. S \in SUBSET Levels
    OBVIOUS
  <2> HIDE DEF S
  <2>5. CASE S = {}
    BY <1>1, <1>3, <2>1, <2>2, <2>3, <2>5
  <2>6. CASE S # {}
    <3>1. PICK x \in S : TRUE
      BY <2>6
    <3>2. best["Sell"] # invalid_level /\ best["Sell"] \in Levels /\ best["Sell"] \in S
      BY <1>1, <1>3, <2>2, <2>3, <2>4, <3>1
    <3>3. \A y \in S : y >= best["Sell"]
      BY <1>3, <2>2, <2>3, <2>4 DEF NoBetter
    <3> QED BY <2>1, <2>4, <2>6, <3>2, <3>3, LargestLevel
  <2> QED BY <2>5, <2>6
<1> QED BY <1>5, <1>6

LEMMA ValidatorAccepts ==
  ASSUME IInv, TotalsAreSums
  PROVE  CheckInvariants
<1>1. \A s \in BookSides, l \in Levels : check_level(s, l)
  BY LevelsAreValid
<1>2. best["Buy"] # invalid_level /\ best["Sell"] # invalid_level =>
        level_index_to_price(best["Buy"]) < level_index_to_price(best["Sell"])
  <2> SUFFICES ASSUME best["Buy"] # invalid_level, best["Sell"] # invalid_level
               PROVE  level_index_to_price(best["Buy"]) < level_index_to_price(best["Sell"])
    OBVIOUS
  <2>1. PICK m : m \in Resting("Buy", best["Buy"])
    BY FrontOrder DEF BookSides
  <2>2. PICK n : n \in Resting("Sell", best["Sell"])
    BY FrontOrder DEF BookSides
  <2>3. /\ m \in in_use /\ order[m].side = "Buy"
        /\ order[m].price = level_index_to_price(best["Buy"])
        /\ n \in in_use /\ order[n].side = "Sell"
        /\ order[n].price = level_index_to_price(best["Sell"])
    BY <2>1, <2>2 DEF Resting
  <2>4. order[m].price < order[n].price
    BY <2>3 DEF IInv, BookIsSound, NeverCrossed
  <2> QED BY <2>3, <2>4
<1> QED BY <1>1, <1>2, OrdersInLevels, BestIsRefreshed DEF CheckInvariants, check_invariants

\* check_invariants() accepts every state of every behaviour, inside a call too: its
\* walk along each level ends, visits each of its orders once and sums them up.
THEOREM ValidatorNeverFails == Spec => []CheckInvariants
<1>1. Init => IInv /\ TotalsAreSums
  BY InitIsSound, EmptyTotals
<1>2. IInv /\ TotalsAreSums /\ [Next]_vars => IInv' /\ TotalsAreSums'
  BY NextIsSound, TotalsStaySums
<1>3. IInv /\ TotalsAreSums => CheckInvariants
  BY ValidatorAccepts
<1> QED BY <1>1, <1>2, <1>3, PTL DEF Spec
=============================================================================
