------------------------ MODULE OrderHandler_proofs ------------------------
(***************************************************************************)
(* What the steps of the handler keep, whatever book they are conjoined    *)
(* to: every event that is built is an Event, and the quantity of an       *)
(* accepted order stays accounted for. In between, the facts about sums    *)
(* and remainders on which the accounts and the levels' totals rest.       *)
(***************************************************************************)
EXTENDS HandlerProperties, SequenceTheorems,
        FiniteSetTheorems, WellFoundedInduction, TLAPS

\* The events of both books are well typed (the designated initialisers of
\* order_book.cpp and order_book_ladder_pool.cpp).
LEMMA DefaultEventType == DefaultEvent \in Event
  BY DEF DefaultEvent, Event, EventTypes, RequestTypes, OrderTypes, Sides, Reasons

LEMMA RejectionTypes ==
  ASSUME NEW why \in Reasons
  PROVE  /\ \A req \in NewOrderRequest : NewRejected(req, why) \in Event
         /\ \A req \in ModifyOrderRequest : ModifyRejected(req, why) \in Event
         /\ \A req \in CancelOrderRequest : CancelRejected(req, why) \in Event
<1>1. /\ "OrderRejected" \in EventTypes
      /\ {"New", "Modify", "Cancel"} \subseteq RequestTypes
  BY DEF EventTypes, RequestTypes
<1>2. ASSUME NEW req \in NewOrderRequest PROVE NewRejected(req, why) \in Event
  BY <1>1, DefaultEventType DEF NewRejected, NewOrderRequest, Event
<1>3. ASSUME NEW req \in ModifyOrderRequest PROVE ModifyRejected(req, why) \in Event
  BY <1>1, DefaultEventType DEF ModifyRejected, ModifyOrderRequest, Event
<1>4. ASSUME NEW req \in CancelOrderRequest PROVE CancelRejected(req, why) \in Event
  BY <1>1, DefaultEventType DEF CancelRejected, CancelOrderRequest, Event
<1> QED BY <1>2, <1>3, <1>4

LEMMA OrderEventTypes ==
  ASSUME NEW o \in Order
  PROVE  /\ OrderCancelled(o) \in Event
         /\ OrderRested(o) \in Event
         /\ UnfilledMarketOrderCancelled(o) \in Event
<1>1. /\ {"OrderCancelled", "OrderRested", "UnfilledMarketOrderCancelled"} \subseteq EventTypes
      /\ {"New", "Cancel"} \subseteq RequestTypes
      /\ {"Limit", "Market"} \subseteq OrderTypes
  BY DEF EventTypes, RequestTypes, OrderTypes
<1>2. OrderCancelled(o) \in Event
  BY <1>1, DefaultEventType DEF OrderCancelled, Order, Event
<1>3. OrderRested(o) \in Event
  BY <1>1, DefaultEventType DEF OrderRested, Order, Event
<1>4. UnfilledMarketOrderCancelled(o) \in Event
  BY <1>1, DefaultEventType DEF UnfilledMarketOrderCancelled, Order, Event
<1> QED BY <1>2, <1>3, <1>4

LEMMA RequestEventTypes ==
  ASSUME NEW req \in NewOrderRequest
  PROVE  OrderAccepted(req) \in Event /\ OrderModified(req) \in Event
<1>1. /\ {"OrderAccepted", "OrderModified"} \subseteq EventTypes
      /\ {"New", "Modify"} \subseteq RequestTypes
  BY DEF EventTypes, RequestTypes
<1>2. OrderAccepted(req) \in Event
  BY <1>1, DefaultEventType DEF OrderAccepted, NewOrderRequest, Event
<1>3. OrderModified(req) \in Event
  BY <1>1, DefaultEventType DEF OrderModified, NewOrderRequest, Event
<1> QED BY <1>2, <1>3

LEMMA TradeType ==
  ASSUME HandlerTypeOK, NEW resting \in Order, NEW qty \in Nat
  PROVE  Trade(resting, qty) \in Event
<1>1. "Trade" \in EventTypes /\ "New" \in RequestTypes
  BY DEF EventTypes, RequestTypes
<1> QED BY <1>1, DefaultEventType
  DEF Trade, HandlerTypeOK, NewOrderRequest, Order, Event

LEMMA NoRequestType == NoRequest \in NewOrderRequest /\ NoOrder \in Order
  BY DEF NoRequest, NewOrderRequest, OrderTypes, Sides, NoOrder, Order, OrderStatuses

-----------------------------------------------------------------------------
\* Every step of the handler keeps its variables in their types.
LEMMA ReturnType ==
  ASSUME HandlerTypeOK, NEW req \in NewOrderRequest, NEW evs \in Seq(Event),
         Return(req, evs), UNCHANGED next_sequence_number
  PROVE  HandlerTypeOK'
<1>1. events' \in Seq(Event)
  BY RequestEventTypes, AppendProperties DEF Return
<1> QED BY <1>1, NoRequestType DEF Return, HandlerTypeOK

LEMMA HandleNewOrderType ==
  ASSUME HandlerTypeOK, NEW req \in NewOrderRequest, NEW evs \in Seq(Event),
         NEW why \in Reasons, handle_new_order(req, why, evs)
  PROVE  HandlerTypeOK'
<1>1. CASE why # "None"
  <2>1. Append(evs, NewRejected(req, why)) \in Seq(Event)
    BY RejectionTypes, AppendProperties
  <2> QED BY <1>1, <2>1, ReturnType DEF handle_new_order
<1>2. CASE why = "None"
  <2>1. events' \in Seq(Event)
    BY <1>2, RequestEventTypes, AppendProperties DEF handle_new_order
  <2>2. incoming' \in Order
    <3>1. "New" \in OrderStatuses /\ next_sequence_number \in Nat
      BY DEF OrderStatuses, HandlerTypeOK
    <3>2. /\ req.order_id \in Nat /\ req.symbol_id \in Nat /\ req.side \in Sides
          /\ req.price \in Nat /\ req.quantity \in Nat
      BY DEF NewOrderRequest
    <3> QED BY <1>2, <3>1, <3>2 DEF handle_new_order, Order
  <2>3. next_sequence_number' \in Nat \ {0} /\ pc' = "matching"
    BY <1>2 DEF handle_new_order, HandlerTypeOK
  <2> QED BY <1>2, <2>1, <2>2, <2>3 DEF handle_new_order, HandlerTypeOK
<1> QED BY <1>1, <1>2

LEMMA AnswerType ==
  ASSUME HandlerTypeOK, NEW event \in Event, Answer(event)
  PROVE  HandlerTypeOK'
<1>1. <<event>> \in Seq(Event)
  OBVIOUS
<1> QED BY <1>1 DEF Answer, HandlerTypeOK

LEMMA BeginModifyType ==
  ASSUME HandlerTypeOK, NEW req \in ModifyOrderRequest, NEW old \in Order,
         NEW event \in Event, BeginModify(req, old, event)
  PROVE  HandlerTypeOK'
<1>1. <<event>> \in Seq(Event)
  OBVIOUS
<1>2. new_req' \in NewOrderRequest
  BY DEF BeginModify, ModifyOrderRequest, NewOrderRequest, Order
<1> QED BY <1>1, <1>2 DEF BeginModify, HandlerTypeOK

LEMMA TradeQuantity ==
  ASSUME HandlerTypeOK, NEW resting \in Order
  PROVE  /\ trade_qty(resting) \in Nat
         /\ trade_qty(resting) <= resting.remaining_quantity
         /\ trade_qty(resting) <= incoming.remaining_quantity
         /\ \/ trade_qty(resting) = resting.remaining_quantity
            \/ trade_qty(resting) = incoming.remaining_quantity
  BY DEF trade_qty, HandlerTypeOK, Order

LEMMA TradeWithType ==
  ASSUME HandlerTypeOK, NEW resting \in Order, TradeWith(resting)
  PROVE  HandlerTypeOK'
<1>1. events' \in Seq(Event)
  BY TradeQuantity, TradeType, AppendProperties DEF TradeWith, HandlerTypeOK
<1>2. incoming.remaining_quantity - trade_qty(resting) \in Nat
  BY TradeQuantity DEF HandlerTypeOK, Order
<1>3. incoming' \in Order
  BY <1>2 DEF TradeWith, HandlerTypeOK, Order
<1> QED BY <1>1, <1>3 DEF TradeWith, HandlerTypeOK

LEMMA FinishWithoutRestingType ==
  ASSUME HandlerTypeOK, FinishWithoutResting
  PROVE  HandlerTypeOK'
<1> DEFINE evs == IF incoming.remaining_quantity = 0 THEN events
                  ELSE Append(events, UnfilledMarketOrderCancelled(incoming))
<1>1. evs \in Seq(Event)
  BY OrderEventTypes, AppendProperties DEF HandlerTypeOK
<1>2. new_req \in NewOrderRequest
  BY DEF HandlerTypeOK
<1>3. Return(new_req, evs) /\ UNCHANGED next_sequence_number
  BY DEF FinishWithoutResting
<1> HIDE DEF evs
<1> QED BY <1>1, <1>2, <1>3, ReturnType

LEMMA CollectType ==
  ASSUME HandlerTypeOK, Collect
  PROVE  HandlerTypeOK'
<1>1. <<>> \in Seq(Event)
  OBVIOUS
<1> QED BY <1>1 DEF Collect, HandlerTypeOK

\* The request checks name a reason.
LEMMA RequestReasons ==
  /\ \A req : is_valid_new_order_request(req) \in Reasons
  /\ \A req : is_valid_modify_order_request(req) \in Reasons
  /\ \A req : is_valid_cancel_order_request(req) \in Reasons
  BY DEF is_valid_new_order_request, is_valid_modify_order_request,
         is_valid_cancel_order_request, Reasons

-----------------------------------------------------------------------------
(***************************************************************************)
(* Least and greatest prices.                                              *)
(***************************************************************************)
\* A set of naturals that is not empty has a least element.
LEMMA LeastExists ==
  ASSUME NEW S \in SUBSET Nat, S # {}
  PROVE  \E x \in S : \A y \in S : x <= y
<1> DEFINE R == {ss \in Nat \X Nat : ss[1] < ss[2]}
<1>1. IsWellFoundedOn(R, Nat)
  BY NatLessThanWellFounded DEF OpToRel
<1>2. \A y, x \in Nat : y < x => <<y, x>> \in R
  OBVIOUS
<1> HIDE DEF R
<1>3. PICK x \in S : \A y \in S : ~(<<y, x>> \in R)
  BY <1>1, WFMin
<1>4. ASSUME NEW y \in S PROVE x <= y
  <2>1. ~(y < x)
    BY <1>2, <1>3
  <2> QED BY <2>1
<1> QED BY <1>4

LEMMA MinInSet ==
  ASSUME NEW S \in SUBSET Nat, S # {}
  PROVE  Min(S) \in S /\ \A y \in S : Min(S) <= y
  BY LeastExists DEF Min

LEMMA MaxInSet ==
  ASSUME NEW k \in Nat, NEW S \in SUBSET (0 .. k), S # {}
  PROVE  Max(S) \in S /\ \A y \in S : Max(S) >= y
<1> DEFINE T == {k - x : x \in S}
<1>1. T \in SUBSET Nat /\ T # {}
  <2>1. \A x \in S : k - x \in Nat
    OBVIOUS
  <2> QED BY <2>1
<1> HIDE DEF T
<1>2. PICK t \in T : \A u \in T : t <= u
  BY <1>1, LeastExists
<1>3. k - t \in S /\ \A y \in S : k - t >= y
  BY <1>2 DEF T
<1> QED BY <1>3 DEF Max

-----------------------------------------------------------------------------
(***************************************************************************)
(* Sums over finite sets: SumFunctionOnSet(fun, S), which the properties   *)
(* use for the quantities of levels and of events. It unfolds to a         *)
(* recursion over subsets, so its facts need an induction; one over a SET  *)
(* of numbers is within the provers' reach.                                *)
(***************************************************************************)

\* Induction over a set of naturals (the hypothesis is a set, not a predicate).
LEMMA NatInduct ==
  ASSUME NEW S, 0 \in S, \A n \in Nat : n \in S => n + 1 \in S
  PROVE  \A n \in Nat : n \in S
<1> SUFFICES ASSUME \E n \in Nat : n \notin S PROVE FALSE
  OBVIOUS
<1> DEFINE Out == {n \in Nat : n \notin S}
<1>1. PICK m \in Out : \A n \in Out : m <= n
  <2>1. Out \in SUBSET Nat /\ Out # {}
    OBVIOUS
  <2> QED BY <2>1, LeastExists
<1>2. m \in Nat /\ m # 0 /\ m - 1 \in Nat
  OBVIOUS
<1>3. m - 1 \in S
  <2>1. ~(m <= m - 1)
    BY <1>2
  <2> QED BY <1>1, <1>2, <2>1
<1>4. (m - 1) + 1 = m
  BY <1>2
<1> QED BY <1>2, <1>3, <1>4

\* The recursion that SumFunctionOnSet unfolds to.
SumStep(fun, g, s) ==
  IF s = {} THEN 0 ELSE LET x == CHOOSE x \in s : TRUE IN fun[x] + g[s \ {x}]

IsSum(fun, S, g) == g = [s \in SUBSET S |-> SumStep(fun, g, s)]

LEMMA SumIsChosen ==
  ASSUME NEW fun, NEW S
  PROVE  SumFunctionOnSet(fun, S) = (CHOOSE g : IsSum(fun, S, g))[S]
  BY DEF SumFunctionOnSet, FoldFunctionOnSet, MapThenFoldSet, IsSum, SumStep

LEMMA ChosenElement ==
  ASSUME NEW S, S # {}
  PROVE  (CHOOSE x \in S : TRUE) \in S
  OBVIOUS

LEMMA SumExists ==
  ASSUME NEW fun, NEW S, IsFiniteSet(S)
  PROVE  \E g : IsSum(fun, S, g)
<1> DEFINE Small(n) == {t \in SUBSET S : Cardinality(t) <= n}
           Partial(n, g) == g = [s \in Small(n) |-> SumStep(fun, g, s)]
           Solved == {n \in Nat : \E g : Partial(n, g)}
<1>1. \A t \in SUBSET S : IsFiniteSet(t) /\ Cardinality(t) \in Nat
  BY FS_Subset, FS_CardinalityType
<1>2. 0 \in Solved
  <2> DEFINE g == [s \in Small(0) |-> 0]
  <2>1. \A s \in Small(0) : s = {}
    BY <1>1, FS_EmptySet
  <2>2. g = [s \in Small(0) |-> SumStep(fun, g, s)]
    BY <2>1 DEF SumStep
  <2> QED BY <2>2
<1>3. ASSUME NEW n \in Nat, n \in Solved PROVE n + 1 \in Solved
  <2>1. PICK h : Partial(n, h)
    BY <1>3
  <2> DEFINE g == [s \in Small(n + 1) |-> SumStep(fun, h, s)]
  <2>2. ASSUME NEW s \in Small(n + 1), s # {}, NEW x \in s
        PROVE  s \ {x} \in Small(n) /\ s \ {x} \in Small(n + 1)
    <3>1. Cardinality(s \ {x}) = Cardinality(s) - 1 /\ Cardinality(s) \in Nat
      BY <1>1, <2>2, FS_RemoveElement
    <3> QED BY <3>1, <1>1, <2>2
  <2>3. \A s \in Small(n) : s \in Small(n + 1) /\ g[s] = h[s]
    <3>1. \A s \in Small(n) : s \in Small(n + 1)
      BY <1>1
    <3>2. \A s \in Small(n) : h[s] = SumStep(fun, h, s)
      BY <2>1
    <3> QED BY <3>1, <3>2
  <2>4. ASSUME NEW s \in Small(n + 1) PROVE SumStep(fun, h, s) = SumStep(fun, g, s)
    <3>1. CASE s = {}
      BY <3>1 DEF SumStep
    <3>2. CASE s # {}
      <4> DEFINE x == CHOOSE x \in s : TRUE
      <4>1. x \in s
        BY <3>2, ChosenElement
      <4> HIDE DEF x
      <4>2. g[s \ {x}] = h[s \ {x}]
        BY <2>2, <2>3, <3>2, <4>1
      <4> HIDE DEF g, Small
      <4> QED BY <3>2, <4>2 DEF SumStep, x
    <3> QED BY <3>1, <3>2
  <2>5. g = [s \in Small(n + 1) |-> SumStep(fun, g, s)]
    <3> DEFINE k == [s \in Small(n + 1) |-> SumStep(fun, g, s)]
    <3>1. \A s \in Small(n + 1) : g[s] = k[s]
      BY <2>4
    <3> QED BY <3>1
  <2> HIDE DEF g
  <2>6. Partial(n + 1, g)
    BY <2>5
  <2> QED BY <2>6
<1> HIDE DEF Solved
<1>4. Cardinality(S) \in Solved
  <2>1. Cardinality(S) \in Nat
    BY FS_CardinalityType
  <2> QED BY <1>2, <1>3, <2>1, NatInduct
<1>5. Small(Cardinality(S)) = SUBSET S
  BY FS_Subset
<1> QED BY <1>4, <1>5 DEF IsSum, Solved

\* Solutions agree wherever both are defined.
LEMMA SumIsUnique ==
  ASSUME NEW fun, NEW S, IsFiniteSet(S), NEW T \in SUBSET S,
         NEW g, IsSum(fun, S, g), NEW h, IsSum(fun, T, h)
  PROVE  \A t \in SUBSET T : g[t] = h[t]
<1> DEFINE Agree == {n \in Nat : \A t \in SUBSET T : Cardinality(t) = n => g[t] = h[t]}
<1>1. \A t \in SUBSET T : IsFiniteSet(t) /\ Cardinality(t) \in Nat /\ t \in SUBSET S
  BY FS_Subset, FS_CardinalityType
<1>2. \A t \in SUBSET T : g[t] = SumStep(fun, g, t) /\ h[t] = SumStep(fun, h, t)
  BY <1>1 DEF IsSum
<1>3. 0 \in Agree
  BY <1>1, <1>2, FS_EmptySet DEF SumStep
<1>4. ASSUME NEW n \in Nat, n \in Agree PROVE n + 1 \in Agree
  <2> SUFFICES ASSUME NEW t \in SUBSET T, Cardinality(t) = n + 1 PROVE g[t] = h[t]
    OBVIOUS
  <2>1. t # {}
    BY FS_EmptySet
  <2> DEFINE x == CHOOSE x \in t : TRUE
  <2>2. x \in t
    BY <2>1, ChosenElement
  <2> HIDE DEF x
  <2>3. Cardinality(t \ {x}) = n /\ t \ {x} \in SUBSET T
    <3>1. IsFiniteSet(t) /\ Cardinality(t) = n + 1
      BY <1>1
    <3>2. Cardinality(t \ {x}) = Cardinality(t) - 1
      BY <2>2, <3>1, FS_RemoveElement
    <3> QED BY <3>1, <3>2
  <2>4. g[t \ {x}] = h[t \ {x}]
    BY <1>4, <2>3
  <2> HIDE DEF Agree
  <2> QED BY <1>2, <2>1, <2>4 DEF SumStep, x
<1> HIDE DEF Agree
<1>5. \A n \in Nat : n \in Agree
  BY <1>3, <1>4, NatInduct
<1> QED BY <1>1, <1>5 DEF Agree

\* The recursion equation of a sum.
LEMMA SumEquation ==
  ASSUME NEW fun, NEW S, IsFiniteSet(S)
  PROVE  SumFunctionOnSet(fun, S) =
           IF S = {} THEN 0
           ELSE LET x == CHOOSE x \in S : TRUE
                IN  fun[x] + SumFunctionOnSet(fun, S \ {x})
<1> DEFINE g == CHOOSE g : IsSum(fun, S, g)
<1>1. IsSum(fun, S, g)
  BY SumExists
<1> HIDE DEF g
<1>2. SumFunctionOnSet(fun, S) = g[S] /\ g[S] = SumStep(fun, g, S)
  <2>1. SumFunctionOnSet(fun, S) = g[S]
    BY SumIsChosen DEF g
  <2> QED BY <1>1, <2>1 DEF IsSum
<1>3. ASSUME NEW T \in SUBSET S PROVE g[T] = SumFunctionOnSet(fun, T)
  <2>1. IsFiniteSet(T)
    BY FS_Subset
  <2> DEFINE h == CHOOSE h : IsSum(fun, T, h)
  <2>2. IsSum(fun, T, h)
    BY <2>1, SumExists
  <2> HIDE DEF h
  <2>3. SumFunctionOnSet(fun, T) = h[T]
    BY SumIsChosen DEF h
  <2> QED BY <1>1, <2>2, <2>3, SumIsUnique
<1>4. CASE S = {}
  BY <1>2, <1>4 DEF SumStep
<1>5. CASE S # {}
  <2> DEFINE x == CHOOSE x \in S : TRUE
  <2>1. g[S \ {x}] = SumFunctionOnSet(fun, S \ {x})
    BY <1>3
  <2> QED BY <1>2, <1>5, <2>1 DEF SumStep
<1> QED BY <1>4, <1>5

LEMMA SumEmpty == \A fun : SumFunctionOnSet(fun, {}) = 0
  BY SumEquation, FS_EmptySet

\* Only the values on the set count; they are naturals, and so is the sum.
LEMMA SumType ==
  ASSUME NEW S, IsFiniteSet(S), NEW fun, \A x \in S : fun[x] \in Nat
  PROVE  SumFunctionOnSet(fun, S) \in Nat
<1> DEFINE Typed == {n \in Nat : \A t \in SUBSET S :
                                  Cardinality(t) = n => SumFunctionOnSet(fun, t) \in Nat}
<1>1. \A t \in SUBSET S : IsFiniteSet(t) /\ Cardinality(t) \in Nat
  BY FS_Subset, FS_CardinalityType
<1>2. 0 \in Typed
  BY <1>1, SumEmpty, FS_EmptySet
<1>3. ASSUME NEW n \in Nat, n \in Typed PROVE n + 1 \in Typed
  <2> SUFFICES ASSUME NEW t \in SUBSET S, Cardinality(t) = n + 1
               PROVE  SumFunctionOnSet(fun, t) \in Nat
    OBVIOUS
  <2>1. t # {} /\ IsFiniteSet(t)
    BY <1>1, FS_EmptySet
  <2> DEFINE x == CHOOSE x \in t : TRUE
  <2>2. x \in t
    BY <2>1, ChosenElement
  <2>3. SumFunctionOnSet(fun, t) = fun[x] + SumFunctionOnSet(fun, t \ {x})
    BY <2>1, SumEquation
  <2> HIDE DEF x
  <2>4. Cardinality(t \ {x}) = n /\ t \ {x} \in SUBSET S
    <3>1. Cardinality(t \ {x}) = Cardinality(t) - 1
      BY <2>1, <2>2, FS_RemoveElement
    <3> QED BY <3>1
  <2>5. SumFunctionOnSet(fun, t \ {x}) \in Nat
    BY <1>3, <2>4
  <2> QED BY <2>2, <2>3, <2>5
<1> HIDE DEF Typed
<1>4. Cardinality(S) \in Typed
  <2>1. Cardinality(S) \in Nat
    BY FS_CardinalityType
  <2> QED BY <1>2, <1>3, <2>1, NatInduct
<1> QED BY <1>4 DEF Typed

\* Any element may be taken out first.
LEMMA SumRemove ==
  ASSUME NEW S, IsFiniteSet(S), NEW fun, \A x \in S : fun[x] \in Nat, NEW e \in S
  PROVE  SumFunctionOnSet(fun, S) = fun[e] + SumFunctionOnSet(fun, S \ {e})
<1> DEFINE Total(t) == SumFunctionOnSet(fun, t)
           Free == {n \in Nat : \A t \in SUBSET S : Cardinality(t) = n =>
                                  \A y \in t : Total(t) = fun[y] + Total(t \ {y})}
<1>1. \A t \in SUBSET S : IsFiniteSet(t) /\ Cardinality(t) \in Nat
  BY FS_Subset, FS_CardinalityType
<1>2. \A t \in SUBSET S : Total(t) \in Nat
  BY <1>1, SumType
<1>3. 0 \in Free
  BY <1>1, FS_EmptySet
<1>4. ASSUME NEW n \in Nat, n \in Free PROVE n + 1 \in Free
  <2> SUFFICES ASSUME NEW t \in SUBSET S, Cardinality(t) = n + 1, NEW y \in t
               PROVE  Total(t) = fun[y] + Total(t \ {y})
    OBVIOUS
  <2> DEFINE x == CHOOSE x \in t : TRUE
  <2>1. x \in t
    BY ChosenElement
  <2>2. IsFiniteSet(t) /\ t # {}
    BY <1>1
  <2>3. Total(t) = fun[x] + Total(t \ {x})
    BY <2>2, SumEquation
  <2> HIDE DEF x
  <2>4. CASE x = y
    BY <2>3, <2>4
  <2>5. CASE x # y
    <3> DEFINE u == t \ {x}
               v == t \ {y}
               w == t \ {x, y}
    <3>1. /\ u \in SUBSET S /\ Cardinality(u) = n
          /\ v \in SUBSET S /\ Cardinality(v) = n
      <4>1. /\ Cardinality(t \ {x}) = Cardinality(t) - 1
            /\ Cardinality(t \ {y}) = Cardinality(t) - 1
        BY <2>1, <2>2, FS_RemoveElement
      <4> QED BY <4>1
    <3>2. u \ {y} = w /\ v \ {x} = w /\ y \in u /\ x \in v /\ w \in SUBSET S
      BY <2>1, <2>5
    <3> HIDE DEF u, v, w
    <3>3. Total(u) = fun[y] + Total(u \ {y}) /\ Total(v) = fun[x] + Total(v \ {x})
      BY <1>4, <3>1, <3>2
    <3>4. Total(u) = fun[y] + Total(w) /\ Total(v) = fun[x] + Total(w)
      BY <3>2, <3>3
    <3>5. fun[x] \in Nat /\ fun[y] \in Nat /\ Total(w) \in Nat
      BY <1>2, <2>1, <3>2
    <3>6. Total(t) = fun[x] + Total(u)
      BY <2>3 DEF u
    <3> HIDE DEF Total
    <3>7. Total(t) = fun[y] + Total(v)
      BY <3>4, <3>5, <3>6
    <3> QED BY <3>7 DEF v
  <2> QED BY <2>4, <2>5
<1> HIDE DEF Free
<1>5. Cardinality(S) \in Free
  <2>1. Cardinality(S) \in Nat
    BY FS_CardinalityType
  <2> QED BY <1>3, <1>4, <2>1, NatInduct
<1> QED BY <1>5 DEF Free

LEMMA SumAdd ==
  ASSUME NEW S, IsFiniteSet(S), NEW e, e \notin S,
         NEW fun, \A x \in S \cup {e} : fun[x] \in Nat
  PROVE  SumFunctionOnSet(fun, S \cup {e}) = fun[e] + SumFunctionOnSet(fun, S)
<1>1. IsFiniteSet(S \cup {e}) /\ (S \cup {e}) \ {e} = S
  BY FS_AddElement
<1>2. SumFunctionOnSet(fun, S \cup {e}) = fun[e] + SumFunctionOnSet(fun, (S \cup {e}) \ {e})
  BY <1>1, SumRemove
<1> QED BY <1>1, <1>2

\* Functions that agree on the set have the same sum there.
LEMMA SumAgrees ==
  ASSUME NEW S, IsFiniteSet(S), NEW f, NEW g, \A x \in S : f[x] = g[x]
  PROVE  SumFunctionOnSet(f, S) = SumFunctionOnSet(g, S)
<1> DEFINE Same == {n \in Nat : \A t \in SUBSET S : Cardinality(t) = n =>
                                 SumFunctionOnSet(f, t) = SumFunctionOnSet(g, t)}
<1>1. \A t \in SUBSET S : IsFiniteSet(t) /\ Cardinality(t) \in Nat
  BY FS_Subset, FS_CardinalityType
<1>2. 0 \in Same
  BY <1>1, SumEmpty, FS_EmptySet
<1>3. ASSUME NEW n \in Nat, n \in Same PROVE n + 1 \in Same
  <2> SUFFICES ASSUME NEW t \in SUBSET S, Cardinality(t) = n + 1
               PROVE  SumFunctionOnSet(f, t) = SumFunctionOnSet(g, t)
    OBVIOUS
  <2>1. t # {} /\ IsFiniteSet(t)
    BY <1>1, FS_EmptySet
  <2> DEFINE x == CHOOSE x \in t : TRUE
  <2>2. x \in t
    BY <2>1, ChosenElement
  <2>3. /\ SumFunctionOnSet(f, t) = f[x] + SumFunctionOnSet(f, t \ {x})
        /\ SumFunctionOnSet(g, t) = g[x] + SumFunctionOnSet(g, t \ {x})
    BY <2>1, SumEquation
  <2> HIDE DEF x
  <2>4. Cardinality(t \ {x}) = n /\ t \ {x} \in SUBSET S
    <3>1. Cardinality(t \ {x}) = Cardinality(t) - 1
      BY <2>1, <2>2, FS_RemoveElement
    <3> QED BY <3>1
  <2>5. SumFunctionOnSet(f, t \ {x}) = SumFunctionOnSet(g, t \ {x})
    BY <1>3, <2>4
  <2> QED BY <2>2, <2>3, <2>5
<1> HIDE DEF Same
<1>4. Cardinality(S) \in Same
  <2>1. Cardinality(S) \in Nat
    BY FS_CardinalityType
  <2> QED BY <1>2, <1>3, <2>1, NatInduct
<1> QED BY <1>4 DEF Same

LEMMA SameCardinality ==
  ASSUME NEW S, IsFiniteSet(S), NEW T, NEW f \in [S -> T],
         \A x, y \in S : f[x] = f[y] => x = y,
         \A y \in T : \E x \in S : f[x] = y
  PROVE  IsFiniteSet(T) /\ Cardinality(T) = Cardinality(S)
<1>1. f \in Injection(S, T)
  BY DEF Injection, IsInjective
<1>2. f \in Surjection(S, T)
  BY DEF Surjection
<1>3. ExistsBijection(S, T)
  BY <1>1, <1>2 DEF ExistsBijection, Bijection
<1> QED BY <1>3, FS_Bijection

\* A one-to-one renaming of the elements does not change a sum.
RenamedSet(ren, S) == {ren[x] : x \in S}

LEMMA SumRenames ==
  ASSUME NEW S, IsFiniteSet(S), NEW f, NEW g, NEW ren,
         \A x, y \in S : ren[x] = ren[y] => x = y,
         \A x \in S : f[x] = g[ren[x]] /\ f[x] \in Nat
  PROVE  /\ IsFiniteSet(RenamedSet(ren, S))
         /\ SumFunctionOnSet(f, S) = SumFunctionOnSet(g, RenamedSet(ren, S))
<1> DEFINE Good == {n \in Nat : \A t \in SUBSET S : Cardinality(t) = n =>
               /\ IsFiniteSet(RenamedSet(ren, t))
               /\ SumFunctionOnSet(f, t) = SumFunctionOnSet(g, RenamedSet(ren, t))}
<1>1. \A t \in SUBSET S : IsFiniteSet(t) /\ Cardinality(t) \in Nat
  BY FS_Subset, FS_CardinalityType
<1>2. 0 \in Good
  <2> SUFFICES ASSUME NEW t \in SUBSET S, Cardinality(t) = 0
               PROVE  /\ IsFiniteSet(RenamedSet(ren, t))
                      /\ SumFunctionOnSet(f, t) = SumFunctionOnSet(g, RenamedSet(ren, t))
    OBVIOUS
  <2>1. t = {} /\ RenamedSet(ren, t) = {}
    BY <1>1, FS_EmptySet DEF RenamedSet
  <2> QED BY <2>1, SumEmpty, FS_EmptySet
<1>3. ASSUME NEW n \in Nat, n \in Good PROVE n + 1 \in Good
  <2> SUFFICES ASSUME NEW t \in SUBSET S, Cardinality(t) = n + 1
               PROVE  /\ IsFiniteSet(RenamedSet(ren, t))
                      /\ SumFunctionOnSet(f, t) = SumFunctionOnSet(g, RenamedSet(ren, t))
    OBVIOUS
  <2>1. t # {} /\ IsFiniteSet(t)
    BY <1>1, FS_EmptySet
  <2>2. PICK x \in t : TRUE
    BY <2>1
  <2>a. PICK u : u = t \ {x}
    OBVIOUS
  <2>b. PICK ru : ru = RenamedSet(ren, u)
    OBVIOUS
  <2>3. Cardinality(u) = n /\ u \in SUBSET S /\ x \notin u /\ t = u \cup {x} /\ IsFiniteSet(u)
    <3>1. Cardinality(t \ {x}) = Cardinality(t) - 1
      BY <2>1, <2>2, FS_RemoveElement
    <3> QED BY <1>1, <2>2, <2>a, <3>1
  <2>4. IsFiniteSet(ru) /\ SumFunctionOnSet(f, u) = SumFunctionOnSet(g, ru)
    BY <1>3, <2>3, <2>b
  <2>5. ren[x] \notin ru /\ RenamedSet(ren, t) = ru \cup {ren[x]}
    BY <2>2, <2>3, <2>b DEF RenamedSet
  <2>6. \A y \in ru \cup {ren[x]} : g[y] \in Nat
    BY <2>2, <2>3, <2>b DEF RenamedSet
  <2>7. /\ SumFunctionOnSet(f, t) = f[x] + SumFunctionOnSet(f, u)
        /\ SumFunctionOnSet(g, RenamedSet(ren, t)) = g[ren[x]] + SumFunctionOnSet(g, ru)
    <3>1. SumFunctionOnSet(f, u \cup {x}) = f[x] + SumFunctionOnSet(f, u)
      BY <2>2, <2>3, SumAdd
    <3>2. SumFunctionOnSet(g, ru \cup {ren[x]}) = g[ren[x]] + SumFunctionOnSet(g, ru)
      BY <2>4, <2>5, <2>6, SumAdd
    <3> QED BY <2>3, <2>5, <3>1, <3>2
  <2>8. IsFiniteSet(RenamedSet(ren, t))
    BY <2>4, <2>5, FS_AddElement
  <2> QED BY <2>2, <2>4, <2>7, <2>8
<1> HIDE DEF Good
<1>4. Cardinality(S) \in Good
  <2>1. Cardinality(S) \in Nat
    BY FS_CardinalityType
  <2> QED BY <1>2, <1>3, <2>1, NatInduct
<1> QED BY <1>4 DEF Good

UnionOf(F, I) == UNION {F[i] : i \in I}

\* The sizes of disjoint sets add up to the size of their union.
LEMMA SumOfSizes ==
  ASSUME NEW I, IsFiniteSet(I), NEW F, \A i \in I : IsFiniteSet(F[i]),
         \A i, j \in I : i # j => F[i] \cap F[j] = {},
         NEW size, \A i \in I : size[i] = Cardinality(F[i])
  PROVE  /\ IsFiniteSet(UnionOf(F, I))
         /\ SumFunctionOnSet(size, I) = Cardinality(UnionOf(F, I))
<1> DEFINE All(t) == UnionOf(F, t)
           Good == {n \in Nat : \A t \in SUBSET I : Cardinality(t) = n =>
                       IsFiniteSet(All(t)) /\ SumFunctionOnSet(size, t) = Cardinality(All(t))}
<1>1. \A t \in SUBSET I : IsFiniteSet(t) /\ Cardinality(t) \in Nat
  BY FS_Subset, FS_CardinalityType
<1>2. 0 \in Good
  <2> SUFFICES ASSUME NEW t \in SUBSET I, Cardinality(t) = 0
               PROVE  IsFiniteSet(All(t)) /\ SumFunctionOnSet(size, t) = Cardinality(All(t))
    OBVIOUS
  <2>1. t = {} /\ All(t) = {}
    BY <1>1, FS_EmptySet DEF UnionOf
  <2> HIDE DEF All
  <2> QED BY <2>1, SumEmpty, FS_EmptySet
<1>3. ASSUME NEW n \in Nat, n \in Good PROVE n + 1 \in Good
  <2> SUFFICES ASSUME NEW t \in SUBSET I, Cardinality(t) = n + 1
               PROVE  IsFiniteSet(All(t)) /\ SumFunctionOnSet(size, t) = Cardinality(All(t))
    OBVIOUS
  <2>1. t # {} /\ IsFiniteSet(t)
    BY <1>1, FS_EmptySet
  <2>2. PICK x : x \in t
    BY <2>1
  <2>3. Cardinality(t \ {x}) = n /\ t \ {x} \in SUBSET I
    <3>1. Cardinality(t \ {x}) = Cardinality(t) - 1
      BY <2>1, <2>2, FS_RemoveElement
    <3> QED BY <3>1
  <2>4. /\ IsFiniteSet(All(t \ {x}))
        /\ SumFunctionOnSet(size, t \ {x}) = Cardinality(All(t \ {x}))
    BY <1>3, <2>3
  <2>5. /\ All(t) = All(t \ {x}) \cup F[x]
        /\ All(t \ {x}) \cap F[x] = {}
    BY <2>2 DEF UnionOf
  <2>6. \A i \in t : size[i] \in Nat
    BY FS_CardinalityType
  <2>7. SumFunctionOnSet(size, t) = size[x] + SumFunctionOnSet(size, t \ {x})
    BY <2>1, <2>2, <2>6, SumRemove
  <2> HIDE DEF All
  <2>8. /\ IsFiniteSet(All(t))
        /\ Cardinality(All(t)) = Cardinality(All(t \ {x})) + Cardinality(F[x])
    <3>1. IsFiniteSet(F[x])
      BY <2>2
    <3>2. Cardinality(All(t \ {x}) \cap F[x]) = 0
      BY <2>5, FS_EmptySet
    <3>3. Cardinality(All(t \ {x})) \in Nat /\ Cardinality(F[x]) \in Nat
      BY <2>4, <3>1, FS_CardinalityType
    <3>4. /\ IsFiniteSet(All(t \ {x}) \cup F[x])
          /\ Cardinality(All(t \ {x}) \cup F[x])
               = Cardinality(All(t \ {x})) + Cardinality(F[x])
                   - Cardinality(All(t \ {x}) \cap F[x])
      BY <2>4, <3>1, FS_Union
    <3> QED BY <2>5, <3>2, <3>3, <3>4
  <2>9. size[x] = Cardinality(F[x]) /\ Cardinality(All(t \ {x})) \in Nat /\ size[x] \in Nat
    BY <2>2, <2>4, <2>6, FS_CardinalityType
  <2> QED BY <2>4, <2>7, <2>8, <2>9
<1> HIDE DEF Good
<1>4. Cardinality(I) \in Good
  <2>1. Cardinality(I) \in Nat
    BY FS_CardinalityType
  <2> QED BY <1>2, <1>3, <2>1, NatInduct
<1> QED BY <1>4 DEF Good

-----------------------------------------------------------------------------
(***************************************************************************)
(* Remainders: level totals are kept modulo a width.                       *)
(***************************************************************************)
\* The one number in 0 .. m - 1 that x leaves over.
LEMMA RemainderIsUnique ==
  ASSUME NEW m \in Nat \ {0}, NEW x \in Int, NEW q \in Int, NEW r \in 0 .. m - 1,
         x = q * m + r
  PROVE  x % m = r
<1>1. PICK p \in Int : x = p * m + (x % m) /\ x % m \in 0 .. m - 1
  <2>1. x = (x \div m) * m + (x % m) /\ x % m \in 0 .. m - 1 /\ x \div m \in Int
    OBVIOUS
  <2> QED BY <2>1
<1>a. PICK y \in 0 .. m - 1 : y = x % m
  BY <1>1
<1>2. (q - p) * m = y - r
  <2>1. q * m + r = p * m + y
    BY <1>1, <1>a
  <2>2. (q - p) * m = q * m - p * m
    OBVIOUS
  <2> QED BY <2>1, <2>2
<1>3. q = p
  <2>a. PICK d \in Int : d = q - p
    OBVIOUS
  <2>1. CASE d >= 1
    <3>1. d * m >= m
      BY <2>1
    <3> QED BY <3>1, <1>2, <2>a
  <2>2. CASE d <= -1
    <3>1. d * m <= -m
      BY <2>2
    <3> QED BY <3>1, <1>2, <2>a
  <2> QED BY <2>1, <2>2, <2>a
<1> QED BY <1>2, <1>3, <1>a

\* Counters that are kept modulo m follow the numbers they count.
LEMMA WrappedSum ==
  ASSUME NEW m \in Nat \ {0}, NEW a \in Int, NEW b \in Int
  PROVE  /\ ((a % m) + b) % m = (a + b) % m
         /\ ((a % m) - b) % m = (a - b) % m
         /\ a % m \in 0 .. m - 1
<1>1. PICK q \in Int, r \in 0 .. m - 1 : a = q * m + r /\ r = a % m
  OBVIOUS
<1>2. ASSUME NEW c \in Int PROVE (r + c) % m = (a + c) % m
  <2>1. PICK p \in Int, t \in 0 .. m - 1 : r + c = p * m + t /\ t = (r + c) % m
    <3>1. r + c \in Int
      OBVIOUS
    <3> QED BY <3>1
  <2>2. a + c = (q + p) * m + t
    <3>1. (q + p) * m = q * m + p * m
      OBVIOUS
    <3> QED BY <1>1, <2>1, <3>1
  <2>3. q + p \in Int /\ a + c \in Int
    OBVIOUS
  <2>4. (a + c) % m = t
    BY <2>2, <2>3, RemainderIsUnique
  <2> QED BY <2>1, <2>4
<1>3. (r + (-b)) % m = (a + (-b)) % m
  BY <1>2
<1>4. r + (-b) = r - b /\ a + (-b) = a - b
  OBVIOUS
<1> QED BY <1>1, <1>2, <1>3, <1>4

LEMMA SmallRemainder ==
  ASSUME NEW m \in Nat \ {0}, NEW a \in 0 .. m - 1
  PROVE  a % m = a
  OBVIOUS

-----------------------------------------------------------------------------
(***************************************************************************)
(* The quantity of an accepted order: every event that a step adds to the  *)
(* report takes from the unfilled rest what it reports.                    *)
(***************************************************************************)
\* A report that gets one more event.
LEMMA AppendedEvent ==
  ASSUME NEW evs \in Seq(Event), NEW e \in Event, NEW app, app = Append(evs, e)
  PROVE  /\ app \in Seq(Event) /\ Len(app) = Len(evs) + 1 /\ Len(evs) \in Nat
         /\ DOMAIN evs = 1 .. Len(evs) /\ DOMAIN app = 1 .. Len(evs) + 1
         /\ \A i \in DOMAIN evs : app[i] = evs[i]
         /\ app[Len(evs) + 1] = e
  BY AppendProperties

LEMMA AppendedPositions ==
  ASSUME NEW evs \in Seq(Event), NEW e \in Event, NEW type
  PROVE  /\ Positions(evs, type) \subseteq DOMAIN evs
         /\ Positions(Append(evs, e), type) =
              IF type = e.event_type THEN Positions(evs, type) \cup {Len(evs) + 1}
              ELSE Positions(evs, type)
<1> DEFINE app == Append(evs, e)
<1>1. /\ Len(evs) \in Nat
      /\ DOMAIN evs = 1 .. Len(evs) /\ DOMAIN app = (DOMAIN evs) \cup {Len(evs) + 1}
      /\ \A i \in DOMAIN evs : app[i] = evs[i]
      /\ app[Len(evs) + 1] = e
  BY AppendedEvent
<1> HIDE DEF app
<1>2. Positions(app, type) =
        IF type = e.event_type THEN Positions(evs, type) \cup {Len(evs) + 1}
        ELSE Positions(evs, type)
  BY <1>1 DEF Positions
<1> QED BY <1>2 DEF app, Positions

LEMMA ReportExtended ==
  ASSUME NEW evs \in Seq(Event), NEW e \in Event
  PROVE  /\ Append(evs, e) \in Seq(Event) /\ Len(evs) \in Nat
         /\ DOMAIN evs = 1 .. Len(evs)
         /\ DOMAIN Append(evs, e) = (DOMAIN evs) \cup {Len(evs) + 1}
         /\ \A i \in DOMAIN evs : Append(evs, e)[i] = evs[i]
         /\ Append(evs, e)[Len(evs) + 1] = e
  BY AppendProperties

LEMMA ReportedIsNatural ==
  ASSUME NEW evs \in Seq(Event), NEW type
  PROVE  /\ IsFiniteSet(Positions(evs, type)) /\ Positions(evs, type) \subseteq DOMAIN evs
         /\ \A i \in DOMAIN evs : quantities(evs)[i] = evs[i].quantity /\ evs[i].quantity \in Nat
         /\ Reported(evs, type) = SumFunctionOnSet(quantities(evs), Positions(evs, type))
         /\ Reported(evs, type) \in Nat
         /\ Positions(evs, type) = {} => Reported(evs, type) = 0
<1>1. /\ Positions(evs, type) \subseteq DOMAIN evs
      /\ DOMAIN evs = 1 .. Len(evs) /\ Len(evs) \in Nat
      /\ \A i \in DOMAIN evs : evs[i] \in Event
  BY LenProperties, ElementOfSeq DEF Positions
<1>2. IsFiniteSet(Positions(evs, type))
  <2>1. IsFiniteSet(1 .. Len(evs))
    BY <1>1, FS_Interval
  <2> QED BY <1>1, <2>1, FS_Subset
<1>3. \A i \in DOMAIN evs : quantities(evs)[i] = evs[i].quantity /\ evs[i].quantity \in Nat
  BY <1>1 DEF quantities, Event
<1>4. Reported(evs, type) = SumFunctionOnSet(quantities(evs), Positions(evs, type))
  BY DEF Reported, quantities
<1>5. Reported(evs, type) \in Nat
  BY <1>1, <1>2, <1>3, <1>4, SumType
<1>6. Positions(evs, type) = {} => Reported(evs, type) = 0
  BY <1>4, SumEmpty
<1> QED BY <1>1, <1>2, <1>3, <1>4, <1>5, <1>6

LEMMA ReportedAppend ==
  ASSUME NEW evs \in Seq(Event), NEW e \in Event, NEW type
  PROVE  Reported(Append(evs, e), type)
           = Reported(evs, type) + (IF type = e.event_type THEN e.quantity ELSE 0)
<1>a. PICK app : app = Append(evs, e)
  OBVIOUS
<1>b. PICK S : S = Positions(evs, type)
  OBVIOUS
<1>1. /\ app \in Seq(Event) /\ Len(evs) \in Nat
      /\ DOMAIN evs = 1 .. Len(evs) /\ DOMAIN app = (DOMAIN evs) \cup {Len(evs) + 1}
      /\ \A i \in DOMAIN evs : app[i] = evs[i]
      /\ app[Len(evs) + 1] = e
      /\ Positions(app, type) = IF type = e.event_type THEN S \cup {Len(evs) + 1} ELSE S
  BY <1>a, <1>b, ReportExtended, AppendedPositions
<1>2. /\ IsFiniteSet(S) /\ S \subseteq DOMAIN evs
      /\ \A i \in DOMAIN evs : quantities(evs)[i] = evs[i].quantity /\ evs[i].quantity \in Nat
      /\ Reported(evs, type) = SumFunctionOnSet(quantities(evs), S)
      /\ Reported(evs, type) \in Nat
  BY <1>b, ReportedIsNatural
<1>3. /\ \A i \in DOMAIN app : quantities(app)[i] = app[i].quantity /\ app[i].quantity \in Nat
      /\ Reported(app, type) = SumFunctionOnSet(quantities(app), Positions(app, type))
  BY <1>1, ReportedIsNatural
<1>4. SumFunctionOnSet(quantities(app), S) = Reported(evs, type)
  <2>1. \A i \in S : quantities(app)[i] = quantities(evs)[i]
    BY <1>1, <1>2, <1>3
  <2> QED BY <1>2, <2>1, SumAgrees
<1>5. CASE type = e.event_type
  <2>1. Len(evs) + 1 \notin S
    BY <1>1, <1>2
  <2>2. \A i \in S \cup {Len(evs) + 1} : quantities(app)[i] \in Nat
    BY <1>1, <1>2, <1>3
  <2>3. SumFunctionOnSet(quantities(app), S \cup {Len(evs) + 1})
          = quantities(app)[Len(evs) + 1] + SumFunctionOnSet(quantities(app), S)
    BY <1>2, <2>1, <2>2, SumAdd
  <2>4. quantities(app)[Len(evs) + 1] = e.quantity /\ e.quantity \in Nat
    BY <1>1, <1>3
  <2>5. Reported(app, type) = e.quantity + Reported(evs, type)
    BY <1>1, <1>3, <1>4, <1>5, <2>3, <2>4
  <2> QED BY <1>2, <1>5, <1>a, <2>4, <2>5
<1>6. CASE type # e.event_type
  <2>1. Reported(app, type) = Reported(evs, type)
    BY <1>1, <1>3, <1>4, <1>6
  <2> QED BY <1>2, <1>6, <1>a, <2>1
<1> QED BY <1>5, <1>6

Fates == {"Trade", "OrderRested", "UnfilledMarketOrderCancelled"}

LEMMA AccountedIsNatural ==
  ASSUME NEW evs \in Seq(Event)
  PROVE  /\ Accounted(evs) \in Nat
         /\ (\A i \in DOMAIN evs : evs[i].event_type \notin Fates) => Accounted(evs) = 0
<1>1. /\ Reported(evs, "Trade") \in Nat /\ Reported(evs, "OrderRested") \in Nat
      /\ Reported(evs, "UnfilledMarketOrderCancelled") \in Nat
  BY ReportedIsNatural
<1>2. ASSUME \A i \in DOMAIN evs : evs[i].event_type \notin Fates
      PROVE  Accounted(evs) = 0
  <2>1. /\ Positions(evs, "Trade") = {} /\ Positions(evs, "OrderRested") = {}
        /\ Positions(evs, "UnfilledMarketOrderCancelled") = {}
    BY <1>2 DEF Positions, Fates
  <2>2. /\ Reported(evs, "Trade") = 0 /\ Reported(evs, "OrderRested") = 0
        /\ Reported(evs, "UnfilledMarketOrderCancelled") = 0
    BY <2>1, ReportedIsNatural
  <2> QED BY <2>2 DEF Accounted
<1> QED BY <1>1, <1>2 DEF Accounted

LEMMA AccountedAppend ==
  ASSUME NEW evs \in Seq(Event), NEW e \in Event
  PROVE  Accounted(Append(evs, e))
           = Accounted(evs) + (IF e.event_type \in Fates THEN e.quantity ELSE 0)
<1>1. /\ Reported(evs, "Trade") \in Nat /\ Reported(evs, "OrderRested") \in Nat
      /\ Reported(evs, "UnfilledMarketOrderCancelled") \in Nat /\ e.quantity \in Nat
  BY ReportedIsNatural DEF Event
<1>2. /\ Reported(Append(evs, e), "Trade")
           = Reported(evs, "Trade") + (IF "Trade" = e.event_type THEN e.quantity ELSE 0)
      /\ Reported(Append(evs, e), "OrderRested")
           = Reported(evs, "OrderRested") + (IF "OrderRested" = e.event_type THEN e.quantity ELSE 0)
      /\ Reported(Append(evs, e), "UnfilledMarketOrderCancelled")
           = Reported(evs, "UnfilledMarketOrderCancelled")
               + (IF "UnfilledMarketOrderCancelled" = e.event_type THEN e.quantity ELSE 0)
  BY ReportedAppend
<1> QED BY <1>1, <1>2 DEF Accounted, Fates

\* An event that tells what became of a part of the order closes that part.
LEMMA BalanceContinues ==
  ASSUME NEW evs \in Seq(Event), NEW e \in Event, NEW r \in Nat, Balanced(evs, r),
         e.event_type # "OrderAccepted", e.event_type \in Fates => e.quantity <= r
  PROVE  Balanced(Append(evs, e), IF e.event_type \in Fates THEN r - e.quantity ELSE r)
<1>a. PICK app : app = Append(evs, e)
  OBVIOUS
<1>1. /\ Positions(app, "OrderAccepted") = Positions(evs, "OrderAccepted")
      /\ \A i \in DOMAIN evs : app[i] = evs[i]
  BY <1>a, ReportExtended, AppendedPositions
<1>2. \A i \in Positions(evs, "OrderAccepted") :
        i \in DOMAIN evs /\ evs[i].quantity = Accounted(evs) + r
  BY DEF Balanced, Positions
<1>3. Accounted(app) = Accounted(evs) + (IF e.event_type \in Fates THEN e.quantity ELSE 0)
  BY <1>a, AccountedAppend
<1>4. Accounted(evs) \in Nat /\ e.quantity \in Nat
  BY AccountedIsNatural DEF Event
<1>5. Accounted(app) + (IF e.event_type \in Fates THEN r - e.quantity ELSE r) = Accounted(evs) + r
  BY <1>3, <1>4
<1> QED BY <1>1, <1>2, <1>5, <1>a DEF Balanced

\* An accepted order is unfilled.
LEMMA BalanceOpens ==
  ASSUME NEW evs \in Seq(Event), NEW e \in Event, e.event_type = "OrderAccepted",
         \A i \in DOMAIN evs : evs[i].event_type = "OrderCancelled"
  PROVE  Balanced(Append(evs, e), e.quantity)
<1>a. PICK app : app = Append(evs, e)
  OBVIOUS
<1>1. /\ app[Len(evs) + 1] = e
      /\ Positions(app, "OrderAccepted") = Positions(evs, "OrderAccepted") \cup {Len(evs) + 1}
  BY <1>a, ReportExtended, AppendedPositions
<1>2. Positions(evs, "OrderAccepted") = {}
  BY DEF Positions
<1>3. Accounted(app) = 0 /\ e.quantity \in Nat
  <2>1. Accounted(evs) = 0 /\ e.event_type \notin Fates
    BY AccountedIsNatural DEF Fates
  <2>2. Accounted(app) = Accounted(evs) + 0
    BY <1>a, <2>1, AccountedAppend
  <2> QED BY <2>1, <2>2 DEF Event
<1> QED BY <1>1, <1>2, <1>3, <1>a DEF Balanced

\* Reports in which nothing is accepted are balanced.
LEMMA NothingAccepted ==
  ASSUME NEW evs, Positions(evs, "OrderAccepted") = {}, NEW r
  PROVE  Balanced(evs, r)
  BY DEF Balanced

-----------------------------------------------------------------------------
\* Every step of the handler keeps the accounts balanced.
LEMMA ReturnBalances ==
  ASSUME NEW req \in NewOrderRequest, NEW evs \in Seq(Event), Balanced(evs, 0),
         Return(req, evs)
  PROVE  AccountsBalance'
<1>1. pc' = "returned" /\ incoming'.remaining_quantity = 0
  BY DEF Return, NoOrder
<1>2. Balanced(events', 0)
  <2>1. CASE ~modifying
    BY <2>1 DEF Return
  <2>2. CASE modifying
    <3>1. OrderModified(req) \in Event /\ OrderModified(req).event_type = "OrderModified"
      BY RequestEventTypes DEF OrderModified, DefaultEvent
    <3>2. events' = Append(evs, OrderModified(req))
      BY <2>2 DEF Return
    <3> QED BY <3>1, <3>2, BalanceContinues DEF Fates
  <2> QED BY <2>1, <2>2
<1> QED BY <1>1, <1>2 DEF AccountsBalance, FillAccounting

LEMMA HandleNewOrderBalances ==
  ASSUME HandlerTypeOK, NEW req \in NewOrderRequest, NEW evs \in Seq(Event),
         \A i \in DOMAIN evs : evs[i].event_type = "OrderCancelled",
         NEW why \in Reasons, handle_new_order(req, why, evs)
  PROVE  AccountsBalance'
<1>1. CASE why # "None"
  <2>a. PICK e : e = NewRejected(req, why)
    OBVIOUS
  <2>1. e \in Event /\ e.event_type = "OrderRejected"
    BY <2>a, RejectionTypes DEF NewRejected, DefaultEvent
  <2>2. Balanced(evs, 0)
    BY DEF Balanced, Positions
  <2>3. Balanced(Append(evs, e), 0) /\ Append(evs, e) \in Seq(Event)
    BY <2>1, <2>2, BalanceContinues, AppendProperties DEF Fates
  <2>4. Return(req, Append(evs, e))
    BY <1>1, <2>a DEF handle_new_order
  <2> QED BY <2>3, <2>4, ReturnBalances
<1>2. CASE why = "None"
  <2>a. PICK e : e = OrderAccepted(req)
    OBVIOUS
  <2>1. e \in Event /\ e.event_type = "OrderAccepted" /\ e.quantity = req.quantity
    BY <2>a, RequestEventTypes DEF OrderAccepted, DefaultEvent
  <2>2. /\ events' = Append(evs, e) /\ pc' = "matching"
        /\ incoming'.remaining_quantity = req.quantity
    BY <1>2, <2>a DEF handle_new_order
  <2>3. Balanced(Append(evs, e), e.quantity)
    BY <2>1, BalanceOpens
  <2> QED BY <2>1, <2>2, <2>3 DEF AccountsBalance, FillAccounting
<1> QED BY <1>1, <1>2

LEMMA AnswerBalances ==
  ASSUME NEW e \in Event, e.event_type # "OrderAccepted", Answer(e)
  PROVE  AccountsBalance'
<1>1. events' = <<e>> /\ pc' = "returned"
  BY DEF Answer
<1>2. Positions(<<e>>, "OrderAccepted") = {}
  BY DEF Positions
<1> QED BY <1>1, <1>2, NothingAccepted DEF AccountsBalance, FillAccounting

LEMMA BeginModifyBalances ==
  ASSUME NEW req, NEW old, NEW e \in Event, e.event_type = "OrderCancelled",
         BeginModify(req, old, e)
  PROVE  AccountsBalance'
<1>1. events' = <<e>> /\ pc' = "resubmit"
  BY DEF BeginModify
<1>2. Positions(<<e>>, "OrderAccepted") = {}
  BY DEF Positions
<1>3. \A i \in DOMAIN <<e>> : <<e>>[i].event_type = "OrderCancelled"
  OBVIOUS
<1> QED BY <1>1, <1>2, <1>3, NothingAccepted DEF AccountsBalance, FillAccounting

LEMMA TradeBalances ==
  ASSUME HandlerTypeOK, AccountsBalance, pc = "matching",
         NEW resting \in Order, TradeWith(resting)
  PROVE  AccountsBalance'
<1>a. PICK qty : qty = trade_qty(resting)
  OBVIOUS
<1>b. PICK e : e = Trade(resting, qty)
  OBVIOUS
<1>1. /\ qty \in Nat /\ qty <= incoming.remaining_quantity
      /\ events \in Seq(Event) /\ incoming.remaining_quantity \in Nat
  BY <1>a, TradeQuantity DEF HandlerTypeOK, Order
<1>2. e \in Event /\ e.event_type = "Trade" /\ e.quantity = qty
  BY <1>1, <1>b, TradeType DEF Trade, DefaultEvent, HandlerTypeOK
<1>3. /\ events' = Append(events, e) /\ pc' = "matching"
      /\ incoming'.remaining_quantity = incoming.remaining_quantity - qty
  BY <1>a, <1>b DEF TradeWith, HandlerTypeOK, Order
<1>4. Balanced(Append(events, e), incoming.remaining_quantity - qty)
  <2>1. Balanced(events, incoming.remaining_quantity)
    BY DEF AccountsBalance, FillAccounting
  <2>2. "Trade" \in Fates
    BY DEF Fates
  <2> QED BY <1>1, <1>2, <2>1, <2>2, BalanceContinues
<1> QED BY <1>3, <1>4 DEF AccountsBalance, FillAccounting

LEMMA RestBalances ==
  ASSUME HandlerTypeOK, AccountsBalance,
         Return(new_req, Append(events, OrderRested(incoming)))
  PROVE  AccountsBalance'
<1>a. PICK e : e = OrderRested(incoming)
  OBVIOUS
<1>b. PICK r : r = incoming.remaining_quantity
  OBVIOUS
<1>1. /\ events \in Seq(Event) /\ r \in Nat /\ new_req \in NewOrderRequest
  BY <1>b DEF HandlerTypeOK, Order
<1>2. e \in Event /\ e.event_type = "OrderRested" /\ e.quantity = r
  BY <1>a, <1>b, OrderEventTypes DEF OrderRested, DefaultEvent, HandlerTypeOK
<1>3. Balanced(Append(events, e), 0)
  <2>1. Balanced(events, r) /\ "OrderRested" \in Fates
    BY <1>b DEF AccountsBalance, FillAccounting, Fates
  <2>2. Balanced(Append(events, e), r - r)
    BY <1>1, <1>2, <2>1, BalanceContinues
  <2> QED BY <1>1, <2>2
<1> QED BY <1>1, <1>2, <1>3, <1>a, ReturnBalances, AppendProperties

LEMMA FinishBalances ==
  ASSUME HandlerTypeOK, AccountsBalance, FinishWithoutResting
  PROVE  AccountsBalance'
<1>a. PICK e : e = UnfilledMarketOrderCancelled(incoming)
  OBVIOUS
<1>b. PICK r : r = incoming.remaining_quantity
  OBVIOUS
<1>1. /\ events \in Seq(Event) /\ r \in Nat /\ new_req \in NewOrderRequest
      /\ Balanced(events, r)
  BY <1>b DEF HandlerTypeOK, Order, AccountsBalance, FillAccounting
<1>2. CASE r = 0
  <2>1. Return(new_req, events)
    BY <1>2, <1>b DEF FinishWithoutResting
  <2> QED BY <1>1, <1>2, <2>1, ReturnBalances
<1>3. CASE r # 0
  <2>1. e \in Event /\ e.event_type = "UnfilledMarketOrderCancelled" /\ e.quantity = r
    BY <1>a, <1>b, OrderEventTypes DEF UnfilledMarketOrderCancelled, DefaultEvent, HandlerTypeOK
  <2>2. Return(new_req, Append(events, e))
    BY <1>3, <1>a, <1>b DEF FinishWithoutResting
  <2>3. Balanced(Append(events, e), 0)
    <3>1. Balanced(Append(events, e), r - r)
      BY <1>1, <2>1, BalanceContinues DEF Fates
    <3> QED BY <1>1, <3>1
  <2> QED BY <1>1, <2>1, <2>2, <2>3, ReturnBalances, AppendProperties
<1> QED BY <1>2, <1>3

LEMMA CollectBalances ==
  ASSUME Collect
  PROVE  AccountsBalance'
<1>1. events' = <<>> /\ pc' = "idle"
  BY DEF Collect
<1>2. Positions(<<>>, "OrderAccepted") = {}
  BY DEF Positions
<1> QED BY <1>1, <1>2, NothingAccepted DEF AccountsBalance, FillAccounting

LEMMA StutterBalances ==
  ASSUME AccountsBalance, UNCHANGED handlerVars
  PROVE  AccountsBalance'
  BY DEF AccountsBalance, FillAccounting, handlerVars

LEMMA InitialBalance == HandlerInit => AccountsBalance
<1>1. Positions(<<>>, "OrderAccepted") = {}
  BY DEF Positions
<1> QED BY <1>1, NothingAccepted DEF HandlerInit, AccountsBalance, FillAccounting
-----------------------------------------------------------------------------
(***************************************************************************)
(* What a reader of the events makes of a step. A step adds at most two    *)
(* events, so the recursion that FoldLeft unfolds to is solved outright.   *)
(***************************************************************************)
ReplayStep(copy, evs, g, s) ==
  IF s = {} THEN copy ELSE Replay(g[s \ {Max(s)}], evs[Max(s)])

IsReplay(copy, evs, g) ==
  g = [s \in SUBSET DOMAIN evs |-> ReplayStep(copy, evs, g, s)]

LEMMA ReplayIsChosen ==
  ASSUME NEW copy, NEW evs
  PROVE  FoldLeft(Replay, copy, evs) = (CHOOSE g : IsReplay(copy, evs, g))[DOMAIN evs]
  BY DEF FoldLeft, MapThenFoldSet, IsReplay, ReplayStep

LEMMA FewPositions ==
  /\ Max({1}) = 1 /\ Max({2}) = 2 /\ Max({1, 2}) = 2
  /\ {1} \ {1} = {} /\ {2} \ {2} = {} /\ {1, 2} \ {2} = {1}
  /\ \A s \in SUBSET {1} : s = {} \/ s = {1}
  /\ \A s \in SUBSET {1, 2} : s = {} \/ s = {1} \/ s = {2} \/ s = {1, 2}
<1>1. Max({1}) = 1 /\ Max({2}) = 2 /\ Max({1, 2}) = 2
  BY DEF Max
<1>2. {1} \ {1} = {} /\ {2} \ {2} = {} /\ {1, 2} \ {2} = {1}
  OBVIOUS
<1>3. ASSUME NEW s \in SUBSET {1} PROVE s = {} \/ s = {1}
  OBVIOUS
<1>4. ASSUME NEW s \in SUBSET {1, 2} PROVE s = {} \/ s = {1} \/ s = {2} \/ s = {1, 2}
  <2>1. CASE 1 \in s /\ 2 \in s
    BY <2>1
  <2>2. CASE 1 \in s /\ 2 \notin s
    BY <2>2
  <2>3. CASE 1 \notin s /\ 2 \in s
    BY <2>3
  <2>4. CASE 1 \notin s /\ 2 \notin s
    BY <2>4
  <2> QED BY <2>1, <2>2, <2>3, <2>4
<1> QED BY <1>1, <1>2, <1>3, <1>4

\* What the recursion gives, one subset after the other.
LEMMA ReplayIsIterated ==
  ASSUME NEW copy, NEW evs, NEW h, IsReplay(copy, evs, h)
  PROVE  \E g : /\ FoldLeft(Replay, copy, evs) = g[DOMAIN evs]
                /\ \A s \in SUBSET DOMAIN evs : g[s] = ReplayStep(copy, evs, g, s)
<1>1. PICK g : g = CHOOSE f : IsReplay(copy, evs, f)
  OBVIOUS
<1>2. IsReplay(copy, evs, g)
  BY <1>1
<1>3. FoldLeft(Replay, copy, evs) = g[DOMAIN evs]
  BY <1>1, ReplayIsChosen
<1> QED BY <1>2, <1>3 DEF IsReplay

LEMMA ReplayOfNone ==
  ASSUME NEW copy, NEW evs, DOMAIN evs = {}
  PROVE  FoldLeft(Replay, copy, evs) = copy
<1>a. PICK h : h = [s \in SUBSET DOMAIN evs |-> copy]
  OBVIOUS
<1>2. IsReplay(copy, evs, h)
  BY <1>a DEF IsReplay, ReplayStep
<1>3. PICK g : /\ FoldLeft(Replay, copy, evs) = g[DOMAIN evs]
               /\ \A s \in SUBSET DOMAIN evs : g[s] = ReplayStep(copy, evs, g, s)
  BY <1>2, ReplayIsIterated
<1> QED BY <1>3 DEF ReplayStep

LEMMA ReplayOfOne ==
  ASSUME NEW copy, NEW e, NEW evs, evs = <<e>>
  PROVE  FoldLeft(Replay, copy, evs) = Replay(copy, e)
<1>1. DOMAIN evs = {1} /\ evs[1] = e
  OBVIOUS
<1>2. PICK h : h = [s \in SUBSET {1} |-> IF s = {} THEN copy ELSE Replay(copy, e)]
  OBVIOUS
<1>3. IsReplay(copy, evs, h)
  <2>1. h[{}] = copy
    BY <1>2
  <2>2. ASSUME NEW s \in SUBSET {1} PROVE h[s] = ReplayStep(copy, evs, h, s)
    <3>1. CASE s = {}
      BY <2>1, <3>1 DEF ReplayStep
    <3>2. CASE s # {}
      <4>1. s = {1} /\ s \ {Max(s)} = {} /\ Max(s) = 1
        BY <3>2, FewPositions
      <4>2. ReplayStep(copy, evs, h, s) = Replay(copy, e)
        BY <1>1, <2>1, <3>2, <4>1 DEF ReplayStep
      <4> QED BY <1>2, <3>2, <4>2
    <3> QED BY <3>1, <3>2
  <2>3. h = [s \in SUBSET {1} |-> h[s]]
    BY <1>2
  <2> QED BY <1>1, <2>2, <2>3 DEF IsReplay
<1>4. PICK g : /\ FoldLeft(Replay, copy, evs) = g[DOMAIN evs]
               /\ \A s \in SUBSET DOMAIN evs : g[s] = ReplayStep(copy, evs, g, s)
  BY <1>3, ReplayIsIterated
<1>5. \A s \in SUBSET {1} : g[s] = ReplayStep(copy, evs, g, s)
  BY <1>1, <1>4
<1>6. g[{}] = copy
  BY <1>5 DEF ReplayStep
<1>7. g[{1}] = Replay(copy, e)
  <2>1. g[{1}] = ReplayStep(copy, evs, g, {1})
    BY <1>5
  <2>2. {1} # {}
    OBVIOUS
  <2> QED BY <1>1, <1>6, <2>1, <2>2, FewPositions DEF ReplayStep
<1> QED BY <1>1, <1>4, <1>7

LEMMA ReplayOfTwo ==
  ASSUME NEW copy, NEW evs, DOMAIN evs = {1, 2}
  PROVE  FoldLeft(Replay, copy, evs) = Replay(Replay(copy, evs[1]), evs[2])
<1>a. PICK e : e = evs[1]
  OBVIOUS
<1>b. PICK f : f = evs[2]
  OBVIOUS
<1>1. DOMAIN evs = {1, 2} /\ evs[1] = e /\ evs[2] = f
  BY <1>a, <1>b
<1>0. /\ {1} # {} /\ {2} # {} /\ {1, 2} # {} /\ {1} # {2} /\ {1, 2} # {1} /\ {1, 2} # {2}
      /\ {} \in SUBSET {1, 2} /\ {1} \in SUBSET {1, 2} /\ {1, 2} \in SUBSET {1, 2}
  OBVIOUS
<1>2. PICK h : h = [s \in SUBSET {1, 2} |->
                     IF s = {} THEN copy
                     ELSE IF s = {1} THEN Replay(copy, e)
                     ELSE IF s = {2} THEN Replay(copy, f)
                     ELSE Replay(Replay(copy, e), f)]
  OBVIOUS
<1>3. IsReplay(copy, evs, h)
  <2>1. h[{}] = copy /\ h[{1}] = Replay(copy, e)
    BY <1>0, <1>2
  <2>2. ASSUME NEW s \in SUBSET {1, 2} PROVE h[s] = ReplayStep(copy, evs, h, s)
    <3>1. CASE s = {}
      BY <2>1, <3>1 DEF ReplayStep
    <3>2. CASE s = {1}
      <4>1. ReplayStep(copy, evs, h, {1}) = Replay(copy, e)
        BY <1>0, <1>1, <2>1, FewPositions DEF ReplayStep
      <4> QED BY <2>1, <3>2, <4>1
    <3>3. CASE s = {2}
      <4>1. ReplayStep(copy, evs, h, {2}) = Replay(copy, f)
        BY <1>0, <1>1, <2>1, FewPositions DEF ReplayStep
      <4>2. h[s] = Replay(copy, f)
        BY <1>0, <1>2, <3>3
      <4> QED BY <3>3, <4>1, <4>2
    <3>4. CASE s = {1, 2}
      <4>1. ReplayStep(copy, evs, h, {1, 2}) = Replay(Replay(copy, e), f)
        BY <1>0, <1>1, <2>1, FewPositions DEF ReplayStep
      <4>2. h[s] = Replay(Replay(copy, e), f)
        BY <1>0, <1>2, <3>4
      <4> QED BY <3>4, <4>1, <4>2
    <3> QED BY <3>1, <3>2, <3>3, <3>4, FewPositions
  <2>3. h = [s \in SUBSET {1, 2} |-> h[s]]
    BY <1>2
  <2> QED BY <1>1, <2>2, <2>3 DEF IsReplay
<1>4. PICK g : /\ FoldLeft(Replay, copy, evs) = g[DOMAIN evs]
               /\ \A s \in SUBSET DOMAIN evs : g[s] = ReplayStep(copy, evs, g, s)
  BY <1>3, ReplayIsIterated
<1>5. \A s \in SUBSET {1, 2} : g[s] = ReplayStep(copy, evs, g, s)
  BY <1>1, <1>4
<1>6. g[{}] = copy
  BY <1>0, <1>5 DEF ReplayStep
<1>7. g[{1}] = Replay(copy, e)
  <2>1. g[{1}] = ReplayStep(copy, evs, g, {1})
    BY <1>0, <1>5
  <2> QED BY <1>0, <1>1, <1>6, <2>1, FewPositions DEF ReplayStep
<1>8. g[{1, 2}] = Replay(Replay(copy, e), f)
  <2>1. g[{1, 2}] = ReplayStep(copy, evs, g, {1, 2})
    BY <1>0, <1>5
  <2> QED BY <1>0, <1>1, <1>7, <2>1, FewPositions DEF ReplayStep
<1> QED BY <1>1, <1>4, <1>8

\* The events of a step that pushes none, one or two of them.
LEMMA PushedEvents ==
  ASSUME NEW evs \in Seq(Event), NEW e \in Event, NEW f \in Event
  PROVE  /\ SubSeq(evs, Len(evs) + 1, Len(evs)) = <<>>
         /\ SubSeq(Append(evs, e), Len(evs) + 1, Len(Append(evs, e))) = <<e>>
         /\ LET both == Append(Append(evs, e), f)
            IN  SubSeq(both, Len(evs) + 1, Len(both)) = <<e, f>>
<1>1. /\ Append(evs, e) \in Seq(Event) /\ Len(Append(evs, e)) = Len(evs) + 1
      /\ Append(evs, e)[Len(evs) + 1] = e /\ Len(evs) \in Nat
      /\ DOMAIN Append(evs, e) = 1 .. Len(evs) + 1
  BY AppendedEvent
<1>a. PICK one : one = Append(evs, e)
  OBVIOUS
<1>b. PICK two : two = Append(one, f)
  OBVIOUS
<1>2. /\ two \in Seq(Event) /\ Len(two) = Len(evs) + 2
      /\ two[Len(evs) + 1] = e /\ two[Len(evs) + 2] = f
  <2>1. /\ two \in Seq(Event) /\ Len(two) = Len(one) + 1
        /\ \A i \in DOMAIN one : two[i] = one[i]
        /\ two[Len(one) + 1] = f
    BY <1>1, <1>a, <1>b, AppendedEvent
  <2> QED BY <1>1, <1>a, <2>1
<1>3. SubSeq(evs, Len(evs) + 1, Len(evs)) = <<>>
  BY <1>1
<1>4. SubSeq(one, Len(evs) + 1, Len(one)) = <<e>>
  <2>1. \A i \in Len(evs) + 1 .. Len(one) : one[i] \in Event
    BY <1>1, <1>a
  <2>2. PICK sub : sub = SubSeq(one, Len(evs) + 1, Len(one))
    OBVIOUS
  <2>3. sub \in Seq(Event) /\ Len(sub) = 1 /\ sub[1] = e
    BY <1>1, <1>a, <2>1, <2>2, SubSeqProperties
  <2>4. sub = <<e>>
    BY <2>3, SeqEqual
  <2> QED BY <2>2, <2>4
<1>5. SubSeq(two, Len(evs) + 1, Len(two)) = <<e, f>>
  <2>1. \A i \in Len(evs) + 1 .. Len(two) : two[i] \in Event
    BY <1>1, <1>2, ElementOfSeq
  <2>2. PICK sub : sub = SubSeq(two, Len(evs) + 1, Len(two))
    OBVIOUS
  <2>3. sub \in Seq(Event) /\ Len(sub) = 2 /\ sub[1] = e /\ sub[2] = f
    BY <1>1, <1>2, <2>1, <2>2, SubSeqProperties
  <2>4. sub = <<e, f>>
    BY <2>3, SeqEqual
  <2> QED BY <2>2, <2>4
<1> QED BY <1>3, <1>4, <1>5, <1>a, <1>b

\* `new' is the book after a step, `old' before it: the reader's copy follows.
Told(old, new) == CopyOf(new) = FoldLeft(Replay, CopyOf(old), NewEvents)

LEMMA ToldNothing ==
  ASSUME events \in Seq(Event), events' = events \/ events' = <<>>, NEW old
  PROVE  Told(old, old)
<1>1. DefaultEvent \in Event
  BY DefaultEventType
<1>2. CASE events' = events
  <2>1. NewEvents = <<>>
    BY <1>1, <1>2, PushedEvents DEF NewEvents
  <2>2. DOMAIN NewEvents = {}
    BY <2>1
  <2> QED BY <2>2, ReplayOfNone DEF Told
<1>3. CASE events' = <<>>
  <2>1. Len(events) \in Nat /\ Len(events') = 0
    BY <1>3
  <2>2. DOMAIN NewEvents = {}
    BY <2>1 DEF NewEvents
  <2> QED BY <2>2, ReplayOfNone DEF Told
<1> QED BY <1>2, <1>3

LEMMA ToldOne ==
  ASSUME events \in Seq(Event), NEW e \in Event, events' = Append(events, e),
         NEW old, NEW new, CopyOf(new) = Replay(CopyOf(old), e)
  PROVE  Told(old, new)
<1>1. NewEvents = <<e>>
  BY PushedEvents DEF NewEvents
<1> QED BY <1>1, ReplayOfOne DEF Told

LEMMA ToldTwo ==
  ASSUME events \in Seq(Event), NEW e \in Event, NEW f \in Event,
         events' = Append(Append(events, e), f),
         NEW old, NEW new, CopyOf(new) = Replay(Replay(CopyOf(old), e), f)
  PROVE  Told(old, new)
<1>a. PICK copy : copy = CopyOf(old)
  OBVIOUS
<1>1. NewEvents = <<e, f>>
  BY PushedEvents DEF NewEvents
<1>b. PICK evs : evs = NewEvents
  OBVIOUS
<1>2. DOMAIN evs = {1, 2} /\ evs[1] = e /\ evs[2] = f
  BY <1>1, <1>b
<1>3. FoldLeft(Replay, copy, evs) = Replay(Replay(copy, evs[1]), evs[2])
  BY <1>2, ReplayOfTwo
<1>4. FoldLeft(Replay, copy, evs) = Replay(Replay(copy, e), f)
  BY <1>2, <1>3
<1> QED BY <1>4, <1>a, <1>b DEF Told

\* Of the other events the reader learns nothing about what rests.
LEMMA SilentEvents ==
  ASSUME NEW copy, NEW e, e.event_type \notin {"OrderRested", "OrderCancelled", "Trade"}
  PROVE  Replay(copy, e) = copy
  BY DEF Replay

\* The return from a call: a modify reports itself last, and that is silent.
LEMMA ToldReturn ==
  ASSUME events \in Seq(Event), modifying \in BOOLEAN, NEW req \in NewOrderRequest,
         NEW e \in Event, Return(req, Append(events, e)),
         NEW old, NEW new, CopyOf(new) = Replay(CopyOf(old), e)
  PROVE  Told(old, new)
<1>1. OrderModified(req) \in Event /\ OrderModified(req).event_type = "OrderModified"
  BY RequestEventTypes DEF OrderModified, DefaultEvent
<1>2. CASE modifying
  <2>1. events' = Append(Append(events, e), OrderModified(req))
    BY <1>2 DEF Return
  <2>2. Replay(CopyOf(new), OrderModified(req)) = CopyOf(new)
    BY <1>1, SilentEvents
  <2> QED BY <1>1, <2>1, <2>2, ToldTwo
<1>3. CASE ~modifying
  BY <1>3, ToldOne DEF Return
<1> QED BY <1>2, <1>3

LEMMA ToldQuietReturn ==
  ASSUME events \in Seq(Event), modifying \in BOOLEAN, NEW req \in NewOrderRequest,
         Return(req, events), NEW old
  PROVE  Told(old, old)
<1>1. OrderModified(req) \in Event /\ OrderModified(req).event_type = "OrderModified"
  BY RequestEventTypes DEF OrderModified, DefaultEvent
<1>2. CASE modifying
  BY <1>1, <1>2, SilentEvents, ToldOne DEF Return
<1>3. CASE ~modifying
  BY <1>3, ToldNothing DEF Return
<1> QED BY <1>2, <1>3

LEMMA ToldNewOrder ==
  ASSUME events \in Seq(Event), modifying \in BOOLEAN, NEW req \in NewOrderRequest,
         NEW why \in Reasons, handle_new_order(req, why, events), NEW old
  PROVE  Told(old, old)
<1>1. CASE why # "None"
  <2>1. NewRejected(req, why) \in Event
    BY RejectionTypes
  <2>2. Replay(CopyOf(old), NewRejected(req, why)) = CopyOf(old)
    BY SilentEvents DEF NewRejected, DefaultEvent
  <2> QED BY <1>1, <2>1, <2>2, ToldReturn DEF handle_new_order
<1>2. CASE why = "None"
  <2>1. OrderAccepted(req) \in Event
    BY RequestEventTypes
  <2>2. Replay(CopyOf(old), OrderAccepted(req)) = CopyOf(old)
    BY SilentEvents DEF OrderAccepted, DefaultEvent
  <2> QED BY <1>2, <2>1, <2>2, ToldOne DEF handle_new_order
<1> QED BY <1>1, <1>2

\* A call that answers, or that begins a modify, with its first event.
LEMMA ToldFirst ==
  ASSUME events = <<>>, NEW e \in Event, events' = <<e>>,
         NEW old, NEW new, CopyOf(new) = Replay(CopyOf(old), e)
  PROVE  Told(old, new)
<1>1. events \in Seq(Event) /\ events' = Append(events, e)
  OBVIOUS
<1> QED BY <1>1, ToldOne

-----------------------------------------------------------------------------
(***************************************************************************)
(* What the events say of the orders.                                      *)
(***************************************************************************)
LEMMA CancelTells ==
  ASSUME NEW old, NEW new, NEW id \in OrderIds,
         new = [i \in OrderIds |-> IF i = id THEN NoOrder ELSE old[i]],
         NEW o, o.order_id = id
  PROVE  CopyOf(new) = Replay(CopyOf(old), OrderCancelled(o))
<1>1. OrderCancelled(o).event_type = "OrderCancelled" /\ OrderCancelled(o).order_id = id
  BY DEF OrderCancelled, DefaultEvent
<1>2. Replay(CopyOf(old), OrderCancelled(o)) = [CopyOf(old) EXCEPT ![id] = Nothing]
  BY <1>1 DEF Replay
<1>3. Visible(NoOrder) = Nothing
  BY DEF Visible
<1> QED BY <1>2, <1>3 DEF CopyOf

LEMMA FillTells ==
  ASSUME NEW old, NEW new, NEW id \in OrderIds,
         new = [i \in OrderIds |-> IF i = id THEN NoOrder ELSE old[i]],
         NEW o, o = old[id], o.order_id = id, o # NoOrder,
         NEW qty, o.remaining_quantity = qty
  PROVE  CopyOf(new) = Replay(CopyOf(old), Trade(o, qty))
<1>a. PICK copy : copy = CopyOf(old)
  OBVIOUS
<1>b. PICK e : e = Trade(o, qty)
  OBVIOUS
<1>1. e.event_type = "Trade" /\ e.resting_order_id = id /\ e.quantity = qty
  BY <1>b DEF Trade, DefaultEvent
<1>2. copy[id].quantity = qty
  BY <1>a DEF CopyOf, Visible
<1>3. Replay(copy, e) = [copy EXCEPT ![id] = Nothing]
  BY <1>1, <1>2 DEF Replay
<1>4. Visible(NoOrder) = Nothing
  BY DEF Visible
<1>5. CopyOf(new) = [copy EXCEPT ![id] = Nothing]
  BY <1>4, <1>a DEF CopyOf
<1> QED BY <1>3, <1>5, <1>a, <1>b

LEMMA PartialFillTells ==
  ASSUME NEW old, NEW new, NEW id \in OrderIds,
         NEW o \in Order, o = old[id], o.order_id = id, o # NoOrder,
         NEW qty \in Nat, qty < o.remaining_quantity,
         NEW p, p = [o EXCEPT !.remaining_quantity = @ - qty, !.order_status = "PartiallyFilled"],
         new = [i \in OrderIds |-> IF i = id THEN p ELSE old[i]]
  PROVE  CopyOf(new) = Replay(CopyOf(old), Trade(o, qty))
<1>a. PICK copy : copy = CopyOf(old)
  OBVIOUS
<1>b. PICK e : e = Trade(o, qty)
  OBVIOUS
<1>1. e.event_type = "Trade" /\ e.resting_order_id = id /\ e.quantity = qty
  BY <1>b DEF Trade, DefaultEvent
<1>2. copy[id] = [side |-> o.side, price |-> o.price, quantity |-> o.remaining_quantity]
  BY <1>a DEF CopyOf, Visible
<1>3. o.remaining_quantity \in Nat /\ copy[id].quantity # qty
  BY <1>2 DEF Order
<1>4. Replay(copy, e) =
        [copy EXCEPT ![id] = [side |-> o.side, price |-> o.price,
                              quantity |-> o.remaining_quantity - qty]]
  BY <1>1, <1>2, <1>3 DEF Replay
<1>5. /\ p.side = o.side /\ p.price = o.price
      /\ p.remaining_quantity = o.remaining_quantity - qty /\ p.order_status = "PartiallyFilled"
  BY DEF Order
<1>6. Visible(p) = [side |-> o.side, price |-> o.price,
                    quantity |-> o.remaining_quantity - qty]
  <2>1. p # NoOrder
    BY <1>5 DEF NoOrder
  <2> QED BY <1>5, <2>1 DEF Visible
<1>7. CopyOf(new) = [copy EXCEPT ![id] = Visible(p)]
  BY <1>a DEF CopyOf
<1> QED BY <1>4, <1>6, <1>7, <1>a, <1>b

LEMMA RestTells ==
  ASSUME NEW old, NEW new, NEW id \in OrderIds, incoming \in Order, incoming.order_id = id,
         new = [i \in OrderIds |->
                  IF i = id THEN [incoming EXCEPT !.order_status = "Resting"] ELSE old[i]]
  PROVE  CopyOf(new) = Replay(CopyOf(old), OrderRested(incoming))
<1>a. PICK copy : copy = CopyOf(old)
  OBVIOUS
<1>b. PICK e : e = OrderRested(incoming)
  OBVIOUS
<1>c. PICK p : p = [incoming EXCEPT !.order_status = "Resting"]
  OBVIOUS
<1>1. /\ e.event_type = "OrderRested" /\ e.order_id = id /\ e.side = incoming.side
      /\ e.price = incoming.price /\ e.quantity = incoming.remaining_quantity
  BY <1>b DEF OrderRested, DefaultEvent
<1>2. /\ p.side = incoming.side /\ p.price = incoming.price
      /\ p.remaining_quantity = incoming.remaining_quantity /\ p.order_status = "Resting"
  BY <1>c DEF Order
<1>3. p # NoOrder
  BY <1>2 DEF NoOrder
<1>4. Replay(copy, e) = [copy EXCEPT ![id] = Visible(p)]
  BY <1>1, <1>2, <1>3 DEF Replay, Visible
<1>5. CopyOf(new) = [copy EXCEPT ![id] = Visible(p)]
  BY <1>a, <1>c DEF CopyOf
<1> QED BY <1>4, <1>5, <1>a, <1>b

-----------------------------------------------------------------------------
(***************************************************************************)
(* What one call answers: every step of the handler keeps AnswerIsComing.  *)
(***************************************************************************)
LEMMA HowManyType ==
  ASSUME NEW evs \in Seq(Event), NEW type
  PROVE  HowMany(evs, type) \in Nat
  BY ReportedIsNatural, FS_CardinalityType DEF HowMany

LEMMA HowManyAppended ==
  ASSUME NEW evs \in Seq(Event), NEW e \in Event, NEW type
  PROVE  HowMany(Append(evs, e), type) =
           IF type = e.event_type THEN HowMany(evs, type) + 1 ELSE HowMany(evs, type)
<1>1. /\ IsFiniteSet(Positions(evs, type))
      /\ Positions(evs, type) \subseteq DOMAIN evs /\ DOMAIN evs = 1 .. Len(evs)
      /\ Len(evs) \in Nat
  BY ReportedIsNatural, LenProperties
<1>2. Len(evs) + 1 \notin Positions(evs, type)
  BY <1>1
<1>3. Cardinality(Positions(evs, type) \cup {Len(evs) + 1}) = Cardinality(Positions(evs, type)) + 1
  BY <1>1, <1>2, FS_AddElement
<1> QED BY <1>3, AppendedPositions DEF HowMany

LEMMA HowManyOfOne ==
  ASSUME NEW e \in Event
  PROVE  \A type : HowMany(<<e>>, type) = IF type = e.event_type THEN 1 ELSE 0
<1> SUFFICES ASSUME NEW type
             PROVE  HowMany(<<e>>, type) = IF type = e.event_type THEN 1 ELSE 0
  OBVIOUS
<1>1. DOMAIN <<e>> = {1} /\ <<e>>[1] = e
  OBVIOUS
<1>2. Positions(<<e>>, type) = IF type = e.event_type THEN {1} ELSE {}
  BY <1>1 DEF Positions
<1>3. Cardinality({1}) = 1
  BY FS_Singleton
<1> QED BY <1>2, <1>3, FS_EmptySet DEF HowMany

\* A market order is accepted by the event that says so, and by no other.
LEMMA AcceptsMarketAppended ==
  ASSUME NEW evs \in Seq(Event), NEW e \in Event
  PROVE  AcceptsMarket(Append(evs, e)) <=>
           AcceptsMarket(evs) \/ (e.event_type = "OrderAccepted" /\ e.order_type = "Market")
<1>a. PICK app : app = Append(evs, e)
  OBVIOUS
<1>b. PICK S : S = Positions(evs, "OrderAccepted")
  OBVIOUS
<1>1. /\ S \subseteq DOMAIN evs
      /\ \A i \in DOMAIN evs : app[i] = evs[i]
      /\ app[Len(evs) + 1] = e
      /\ Positions(app, "OrderAccepted") =
           IF e.event_type = "OrderAccepted" THEN S \cup {Len(evs) + 1} ELSE S
  BY <1>a, <1>b, AppendedEvent, AppendedPositions
<1>2. AcceptsMarket(evs) <=> \E i \in S : app[i].order_type = "Market"
  BY <1>1, <1>b DEF AcceptsMarket
<1> QED BY <1>1, <1>2, <1>a DEF AcceptsMarket

LEMMA AcceptsMarketOfOne ==
  ASSUME NEW e \in Event
  PROVE  AcceptsMarket(<<e>>) <=> e.event_type = "OrderAccepted" /\ e.order_type = "Market"
<1>1. DOMAIN <<e>> = {1} /\ <<e>>[1] = e
  OBVIOUS
<1>2. Positions(<<e>>, "OrderAccepted") = IF e.event_type = "OrderAccepted" THEN {1} ELSE {}
  BY <1>1 DEF Positions
<1> QED BY <1>1, <1>2 DEF AcceptsMarket

\* What accepted nothing accepted no market order.
LEMMA AcceptedNothing ==
  ASSUME NEW evs \in Seq(Event), HowMany(evs, "OrderAccepted") = 0
  PROVE  ~AcceptsMarket(evs)
<1>a. PICK S : S = Positions(evs, "OrderAccepted")
  OBVIOUS
<1>1. IsFiniteSet(S) /\ Cardinality(S) = 0
  BY <1>a, ReportedIsNatural DEF HowMany
<1>2. S = {}
  BY <1>1, FS_EmptySet
<1> QED BY <1>2, <1>a DEF AcceptsMarket

LEMMA OrderTypeOfAccepted == \A req : OrderAccepted(req).order_type = req.order_type
  BY DEF OrderAccepted, DefaultEvent

\* The events of the handler, by the type that HowMany looks at.
LEMMA TypesOfEvents ==
  /\ \A req, why : NewRejected(req, why).event_type = "OrderRejected"
  /\ \A req, why : ModifyRejected(req, why).event_type = "OrderRejected"
  /\ \A req, why : CancelRejected(req, why).event_type = "OrderRejected"
  /\ \A req : OrderAccepted(req).event_type = "OrderAccepted"
  /\ \A req : OrderModified(req).event_type = "OrderModified"
  /\ \A o : OrderCancelled(o).event_type = "OrderCancelled"
  /\ \A o : OrderRested(o).event_type = "OrderRested"
  /\ \A o : UnfilledMarketOrderCancelled(o).event_type = "UnfilledMarketOrderCancelled"
  /\ \A o, qty : Trade(o, qty).event_type = "Trade"
  BY DEF NewRejected, ModifyRejected, CancelRejected, OrderAccepted, OrderModified,
     OrderCancelled, OrderRested, UnfilledMarketOrderCancelled, Trade, DefaultEvent

LEMMA InitialAnswer ==
  ASSUME HandlerInit, NEW market
  PROVE  AnswerIsComing(market)
  BY DEF HandlerInit, AnswerIsComing, AnsweredOnce

LEMMA SameAnswer ==
  ASSUME NEW market, AnswerIsComing(market), UNCHANGED handlerVars
  PROVE  AnswerIsComing(market)'
  BY DEF AnswerIsComing, AnsweredOnce, handlerVars, is_market

LEMMA CollectedAnswer ==
  ASSUME NEW market, AnswerIsComing(market), Collect
  PROVE  AnswerIsComing(market)'
  BY DEF AnswerIsComing, AnsweredOnce, Collect

\* A single refusal or cancellation is an answer.
LEMMA AnswerAtOnce ==
  ASSUME NEW market, AnswerIsComing(market), pc = "idle", NEW e \in Event, Answer(e),
         e.event_type \in {"OrderRejected", "OrderCancelled"}
  PROVE  AnswerIsComing(market)'
<1>1. events' = <<e>> /\ pc' = "returned" /\ ~modifying'
  BY DEF AnswerIsComing, Answer
<1>2. AnswersOnce(events') /\ ~AcceptsMarket(events')
  BY <1>1, HowManyOfOne, AcceptsMarketOfOne DEF AnswersOnce, ChangesBook
<1> QED BY <1>1, <1>2 DEF AnswerIsComing, AnsweredOnce

LEMMA ModifyBegun ==
  ASSUME NEW market, AnswerIsComing(market), NEW req, market \/ req.order_type # "Market",
         NEW old \in Order, BeginModify(req, old, OrderCancelled(old))
  PROVE  AnswerIsComing(market)'
<1>a. PICK e : e = OrderCancelled(old)
  OBVIOUS
<1>1. /\ events' = <<e>> /\ pc' = "resubmit" /\ modifying'
      /\ new_req'.order_type = req.order_type
  BY <1>a DEF BeginModify
<1>2. e \in Event /\ e.event_type = "OrderCancelled"
  BY <1>a, OrderEventTypes, TypesOfEvents
<1>3. SaidSoFar(events', 0, 1) /\ HowMany(events', "Trade") = 0
  BY <1>1, <1>2, HowManyOfOne DEF SaidSoFar
<1> QED BY <1>1, <1>3 DEF AnswerIsComing, AnsweredOnce, is_market

\* A new order is refused, or accepted and not filled yet.
LEMMA NewOrderAnswer ==
  ASSUME NEW market, AnswerIsComing(market), pc = "idle",
         NEW req \in NewOrderRequest, NEW why \in Reasons,
         market \/ req.order_type # "Market", why = "None" => req.quantity # 0,
         handle_new_order(req, why, <<>>)
  PROVE  AnswerIsComing(market)'
<1>1. ~modifying
  BY DEF AnswerIsComing
<1>2. CASE why # "None"
  <2>a. PICK e : e = NewRejected(req, why)
    OBVIOUS
  <2>1. e \in Event /\ e.event_type = "OrderRejected"
    BY <2>a, RejectionTypes, TypesOfEvents
  <2>2. events' = <<e>> /\ pc' = "returned" /\ ~modifying'
    BY <1>1, <1>2, <2>a DEF handle_new_order, Return
  <2>3. AnswersOnce(events') /\ ~AcceptsMarket(events')
    BY <2>1, <2>2, HowManyOfOne, AcceptsMarketOfOne DEF AnswersOnce, ChangesBook
  <2> QED BY <2>2, <2>3 DEF AnswerIsComing, AnsweredOnce
<1>3. CASE why = "None"
  <2>a. PICK e : e = OrderAccepted(req)
    OBVIOUS
  <2>1. e \in Event /\ e.event_type = "OrderAccepted"
    BY <2>a, RequestEventTypes, TypesOfEvents
  <2>2. /\ events' = <<e>> /\ pc' = "matching" /\ ~modifying' /\ new_req' = req
        /\ incoming'.remaining_quantity = req.quantity
    BY <1>1, <1>3, <2>a DEF handle_new_order
  <2>3. SaidSoFar(events', 1, 0)
    BY <2>1, <2>2, HowManyOfOne DEF SaidSoFar
  <2>4. AcceptsMarket(events') <=> req.order_type = "Market"
    BY <2>1, <2>2, <2>a, AcceptsMarketOfOne, OrderTypeOfAccepted
  <2> QED BY <1>3, <2>2, <2>3, <2>4 DEF AnswerIsComing, AnsweredOnce, is_market
<1> QED BY <1>2, <1>3

\* The second half of a modify is accepted.
LEMMA ResubmittedAnswer ==
  ASSUME HandlerTypeOK, NEW market, AnswerIsComing(market), pc = "resubmit",
         new_req.quantity # 0, handle_new_order(new_req, "None", events)
  PROVE  AnswerIsComing(market)'
<1>a. PICK e : e = OrderAccepted(new_req)
  OBVIOUS
<1>b. PICK evs : evs = events
  OBVIOUS
<1>1. evs \in Seq(Event) /\ e \in Event /\ e.event_type = "OrderAccepted"
  BY <1>a, <1>b, RequestEventTypes, TypesOfEvents DEF HandlerTypeOK
<1>2. /\ events' = Append(evs, e) /\ pc' = "matching" /\ modifying' /\ new_req' = new_req
      /\ incoming'.remaining_quantity = new_req.quantity
  BY <1>a, <1>b DEF handle_new_order, AnswerIsComing
<1>3. SaidSoFar(evs, 0, 1)
  BY <1>b DEF AnswerIsComing
<1>4. SaidSoFar(events', 1, 1)
  BY <1>1, <1>2, <1>3, HowManyAppended DEF SaidSoFar
<1>5. ~AcceptsMarket(evs)
  BY <1>1, <1>3, AcceptedNothing DEF SaidSoFar
<1>6. AcceptsMarket(events') <=> new_req.order_type = "Market"
  BY <1>1, <1>2, <1>5, <1>a, AcceptsMarketAppended, OrderTypeOfAccepted
<1> QED BY <1>2, <1>4, <1>6 DEF AnswerIsComing, AnsweredOnce, is_market

LEMMA TradedAnswer ==
  ASSUME HandlerTypeOK, NEW market, AnswerIsComing(market), pc = "matching",
         NEW resting \in Order, TradeWith(resting)
  PROVE  AnswerIsComing(market)'
<1>a. PICK e : e = Trade(resting, trade_qty(resting))
  OBVIOUS
<1>b. PICK evs : evs = events
  OBVIOUS
<1>1. evs \in Seq(Event) /\ e \in Event /\ e.event_type = "Trade"
  BY <1>a, <1>b, TradeQuantity, TradeType, TypesOfEvents DEF HandlerTypeOK
<1>2. events' = Append(evs, e) /\ UNCHANGED <<pc, new_req, modifying>>
  BY <1>a, <1>b DEF TradeWith
<1>3. SaidSoFar(evs, 1, IF modifying THEN 1 ELSE 0)
  BY <1>b DEF AnswerIsComing
<1>4. SaidSoFar(events', 1, IF modifying THEN 1 ELSE 0)
  BY <1>1, <1>2, <1>3, HowManyAppended DEF SaidSoFar
<1>5. HowMany(events', "Trade") > 0
  BY <1>1, <1>2, HowManyAppended, HowManyType
<1>6. AcceptsMarket(events') <=> AcceptsMarket(events)
  BY <1>1, <1>2, <1>b, AcceptsMarketAppended
<1> QED BY <1>2, <1>4, <1>5, <1>6 DEF AnswerIsComing, AnsweredOnce, is_market

\* What handle_new_order has told when it returns, whoever called it.
LEMMA ReturnedAnswer ==
  ASSUME HandlerTypeOK, NEW market, AnswerIsComing(market), pc = "matching",
         NEW evs \in Seq(Event), Return(new_req, evs),
         HowMany(evs, "OrderAccepted") = 1, HowMany(evs, "OrderRejected") = 0,
         HowMany(evs, "OrderCancelled") = IF modifying THEN 1 ELSE 0,
         HowMany(evs, "OrderModified") = 0, HowMany(evs, "BookUpdated") = 0,
         AcceptsMarket(evs) <=> is_market,
         HowMany(evs, "Trade") = 0 =>
           HowMany(evs, IF is_market THEN "UnfilledMarketOrderCancelled" ELSE "OrderRested") = 1
  PROVE  AnswerIsComing(market)'
<1>1. pc' = "returned" /\ ~modifying' /\ modifying \in BOOLEAN
  BY DEF Return, HandlerTypeOK
<1>0. /\ market \/ ~AcceptsMarket(evs)
      /\ HowMany(evs, "OrderRested") \in Nat /\ HowMany(evs, "Trade") \in Nat
  BY HowManyType DEF AnswerIsComing
<1>2. CASE modifying
  <2>a. PICK e : e = OrderModified(new_req)
    OBVIOUS
  <2>1. e \in Event /\ e.event_type = "OrderModified"
    BY <2>a, RequestEventTypes, TypesOfEvents DEF HandlerTypeOK
  <2>2. events' = Append(evs, e)
    BY <1>2, <2>a DEF Return
  <2>3. \A type : HowMany(events', type) =
                    IF type = "OrderModified" THEN HowMany(evs, type) + 1 ELSE HowMany(evs, type)
    BY <2>1, <2>2, HowManyAppended
  <2>4. AcceptsMarket(events') <=> AcceptsMarket(evs)
    BY <2>1, <2>2, AcceptsMarketAppended
  <2>5. AnswersOnce(events')
    BY <1>2, <2>3, <2>4 DEF AnswersOnce, ChangesBook
  <2> QED BY <1>0, <1>1, <2>4, <2>5 DEF AnswerIsComing, AnsweredOnce
<1>3. CASE ~modifying
  <2>1. events' = evs
    BY <1>3 DEF Return
  <2>2. AnswersOnce(evs)
    BY <1>0, <1>3 DEF AnswersOnce, ChangesBook
  <2> QED BY <1>0, <1>1, <2>1, <2>2 DEF AnswerIsComing, AnsweredOnce
<1> QED BY <1>1, <1>2, <1>3

LEMMA RestedAnswer ==
  ASSUME HandlerTypeOK, NEW market, AnswerIsComing(market), pc = "matching",
         ~is_market, Return(new_req, Append(events, OrderRested(incoming)))
  PROVE  AnswerIsComing(market)'
<1>a. PICK e : e = OrderRested(incoming)
  OBVIOUS
<1>b. PICK old : old = events
  OBVIOUS
<1>c. PICK evs : evs = Append(old, e)
  OBVIOUS
<1>1. old \in Seq(Event) /\ e \in Event /\ e.event_type = "OrderRested"
  BY <1>a, <1>b, OrderEventTypes, TypesOfEvents DEF HandlerTypeOK
<1>2. SaidSoFar(old, 1, IF modifying THEN 1 ELSE 0) /\ ~AcceptsMarket(old)
  BY <1>b DEF AnswerIsComing
<1>3. /\ evs \in Seq(Event) /\ Return(new_req, evs)
      /\ \A type : HowMany(evs, type) =
                     IF type = "OrderRested" THEN HowMany(old, type) + 1 ELSE HowMany(old, type)
  BY <1>1, <1>a, <1>b, <1>c, HowManyAppended, AppendedEvent
<1>4. /\ HowMany(evs, "OrderAccepted") = 1 /\ HowMany(evs, "OrderRejected") = 0
      /\ HowMany(evs, "OrderCancelled") = IF modifying THEN 1 ELSE 0
      /\ HowMany(evs, "OrderModified") = 0 /\ HowMany(evs, "BookUpdated") = 0
      /\ HowMany(evs, "OrderRested") = 1
  BY <1>2, <1>3 DEF SaidSoFar
<1>5. ~AcceptsMarket(evs)
  BY <1>1, <1>2, <1>c, AcceptsMarketAppended
<1> QED BY <1>3, <1>4, <1>5, ReturnedAnswer

LEMMA FinishedAnswer ==
  ASSUME HandlerTypeOK, NEW market, AnswerIsComing(market), pc = "matching",
         incoming.remaining_quantity = 0 \/ is_market, FinishWithoutResting
  PROVE  AnswerIsComing(market)'
<1>a. PICK e : e = UnfilledMarketOrderCancelled(incoming)
  OBVIOUS
<1>b. PICK old : old = events
  OBVIOUS
<1>1. old \in Seq(Event) /\ e \in Event /\ e.event_type = "UnfilledMarketOrderCancelled"
  BY <1>a, <1>b, OrderEventTypes, TypesOfEvents DEF HandlerTypeOK
<1>2. SaidSoFar(old, 1, IF modifying THEN 1 ELSE 0) /\ (AcceptsMarket(old) <=> is_market)
  BY <1>b DEF AnswerIsComing
<1>3. CASE incoming.remaining_quantity = 0
  <2>1. Return(new_req, old) /\ HowMany(old, "Trade") > 0
    BY <1>3, <1>b DEF FinishWithoutResting, AnswerIsComing
  <2> QED BY <1>1, <1>2, <2>1, ReturnedAnswer DEF SaidSoFar
<1>4. CASE incoming.remaining_quantity # 0
  <2>c. PICK evs : evs = Append(old, e)
    OBVIOUS
  <2>1. Return(new_req, evs) /\ is_market
    BY <1>4, <1>a, <1>b, <2>c DEF FinishWithoutResting, AnswerIsComing
  <2>2. /\ evs \in Seq(Event)
        /\ \A type : type # "UnfilledMarketOrderCancelled" =>
             HowMany(evs, type) = HowMany(old, type)
    BY <1>1, <2>c, HowManyAppended, AppendedEvent
  <2>3. /\ HowMany(evs, "OrderAccepted") = 1 /\ HowMany(evs, "OrderRejected") = 0
        /\ HowMany(evs, "OrderCancelled") = IF modifying THEN 1 ELSE 0
        /\ HowMany(evs, "OrderModified") = 0 /\ HowMany(evs, "BookUpdated") = 0
    BY <1>2, <2>2 DEF SaidSoFar
  <2>4. HowMany(evs, "UnfilledMarketOrderCancelled") = 1
    BY <1>1, <1>2, <2>c, HowManyAppended DEF SaidSoFar
  <2>5. AcceptsMarket(evs)
    BY <1>1, <1>2, <2>1, <2>c, AcceptsMarketAppended
  <2> QED BY <2>1, <2>2, <2>3, <2>4, <2>5, ReturnedAnswer
<1> QED BY <1>3, <1>4
=============================================================================
