---------------------- MODULE WorkloadGenerator_proofs ----------------------
(***************************************************************************)
(* The traces of the workload generator, for every length, every range of  *)
(* prices and every outcome of the random engine: GeneratorInv is          *)
(* inductive.                                                              *)
(***************************************************************************)
EXTENDS WorkloadGenerator, SequenceTheorems, TLAPS

-----------------------------------------------------------------------------
(***************************************************************************)
(* Prices.                                                                 *)
(***************************************************************************)
LEMMA ConfigFacts ==
  /\ MinPrice \in Nat /\ MaxPrice \in Nat /\ MidPrice \in Nat
  /\ MinPrice < PriceMod /\ MaxPrice < PriceMod /\ MidPrice < PriceMod
  /\ PriceMod \in Nat \ {0} /\ TickSize \in Nat \ {0}
  BY WorkloadAssumption

LEMMA MidPlusType == \A ticks \in Int : mid_plus(ticks) \in Nat
<1> SUFFICES ASSUME NEW ticks \in Int PROVE mid_plus(ticks) \in Nat
  OBVIOUS
<1> DEFINE sum == MidPrice + ticks * TickSize
<1>1. sum \in Int
  BY ConfigFacts
<1> HIDE DEF sum
<1>2. sum % PriceMod \in Nat
  BY <1>1, ConfigFacts
<1> QED BY <1>2 DEF mid_plus, sum

\* What random_price draws lies between its two ends, whatever their order.
LEMMA RandomPriceInRange ==
  ASSUME NEW a \in Nat, NEW b \in Nat, NEW p \in random_price(a, b)
  PROVE  /\ p \in Nat
         /\ a <= b => a <= p /\ p <= b
<1> DEFINE lo == IF a <= b THEN a ELSE b
           hi == IF a <= b THEN b ELSE a
<1>1. lo \in Nat /\ hi \in Nat /\ lo <= hi
  OBVIOUS
<1>2. PICK step \in 0 .. (hi - lo) \div TickSize : p = lo + step * TickSize
  BY DEF random_price
<1> HIDE DEF lo, hi
<1>3. /\ (hi - lo) \div TickSize \in Nat
      /\ ((hi - lo) \div TickSize) * TickSize <= hi - lo
  BY <1>1, ConfigFacts
<1>4. step * TickSize \in Nat /\ step * TickSize <= ((hi - lo) \div TickSize) * TickSize
  BY <1>2, <1>3, ConfigFacts
<1> DEFINE most == ((hi - lo) \div TickSize) * TickSize
           drawn == step * TickSize
<1>6. most <= hi - lo /\ drawn \in Nat /\ drawn <= most /\ most \in Nat /\ p = lo + drawn
  <2>1. most \in Nat
    BY <1>3, ConfigFacts
  <2> QED BY <1>2, <1>3, <1>4, <2>1
<1> HIDE DEF most, drawn
<1>5. p \in Nat /\ lo <= p /\ p <= hi
  BY <1>1, <1>6
<1> QED BY <1>5 DEF lo, hi

LEMMA PriceTypes ==
  ASSUME NEW side
  PROVE  /\ passive_price(side) \subseteq Nat
         /\ aggressive_price(side) \subseteq Nat
         /\ narrow_price(side) \subseteq Nat
<1>1. \A a, b \in Nat : random_price(a, b) \subseteq Nat
  BY RandomPriceInRange
<1>2. \A ticks \in {-5, -1, 1, 5} : mid_plus(ticks) \in Nat
  BY MidPlusType
<1> QED BY <1>1, <1>2, ConfigFacts DEF passive_price, aggressive_price, narrow_price

\* Under SoundConfig nothing wraps and the two sides stay apart.
LEMMA SidesStayApart ==
  ASSUME SoundConfig, NEW side \in BookSides, NEW p \in passive_price(side) \cup narrow_price(side)
  PROVE  /\ side = "Buy" => p < MidPrice
         /\ side = "Sell" => p > MidPrice
<1>1. /\ mid_plus(-1) = MidPrice - TickSize /\ mid_plus(1) = MidPrice + TickSize
      /\ mid_plus(-5) = MidPrice - 5 * TickSize /\ mid_plus(5) = MidPrice + 5 * TickSize
  <2>1. \A x \in 0 .. PriceMod - 1 : x % PriceMod = x
    BY ConfigFacts
  <2>2. /\ MidPrice - TickSize \in 0 .. PriceMod - 1
        /\ MidPrice + TickSize \in 0 .. PriceMod - 1
        /\ MidPrice - 5 * TickSize \in 0 .. PriceMod - 1
        /\ MidPrice + 5 * TickSize \in 0 .. PriceMod - 1
    BY ConfigFacts DEF SoundConfig
  <2>3. /\ MidPrice + (-1) * TickSize = MidPrice - TickSize
        /\ MidPrice + 1 * TickSize = MidPrice + TickSize
        /\ MidPrice + (-5) * TickSize = MidPrice - 5 * TickSize
    BY ConfigFacts
  <2> QED BY <2>1, <2>2, <2>3 DEF mid_plus
<1>2. CASE side = "Buy"
  <2>1. p \in random_price(MinPrice, MidPrice - TickSize)
          \cup random_price(MidPrice - 5 * TickSize, MidPrice - TickSize)
    BY <1>1, <1>2 DEF passive_price, narrow_price
  <2>2. /\ MidPrice - TickSize \in Nat /\ MidPrice - 5 * TickSize \in Nat
        /\ MinPrice <= MidPrice - TickSize
        /\ MidPrice - 5 * TickSize <= MidPrice - TickSize
    BY ConfigFacts DEF SoundConfig
  <2>3. p \in Nat /\ p <= MidPrice - TickSize
    BY <2>1, <2>2, ConfigFacts, RandomPriceInRange
  <2> QED BY <1>2, <2>3, ConfigFacts
<1>3. CASE side = "Sell"
  <2>1. p \in random_price(MidPrice + TickSize, MaxPrice)
          \cup random_price(MidPrice + TickSize, MidPrice + 5 * TickSize)
    BY <1>1, <1>3 DEF passive_price, narrow_price
  <2>2. /\ MidPrice + TickSize \in Nat /\ MidPrice + 5 * TickSize \in Nat
        /\ MidPrice + TickSize <= MaxPrice
        /\ MidPrice + TickSize <= MidPrice + 5 * TickSize
    BY ConfigFacts DEF SoundConfig
  <2>3. p \in Nat /\ p >= MidPrice + TickSize
    BY <2>1, <2>2, ConfigFacts, RandomPriceInRange
  <2> QED BY <1>3, <2>3, ConfigFacts
<1> QED BY <1>2, <1>3 DEF BookSides

-----------------------------------------------------------------------------
(***************************************************************************)
(* A trace that gets one more request.                                     *)
(***************************************************************************)
LEMMA RequestTypesOfTrace ==
  ASSUME NEW id \in Nat, NEW side \in BookSides, NEW price \in Nat, NEW qty \in Nat
  PROVE  /\ make_new_limit(id, side, price, qty) \in BenchRequest
         /\ make_new_market(id, side, qty) \in BenchRequest
         /\ make_cancel(id) \in BenchRequest
         /\ make_modify(id, price, qty) \in BenchRequest
<1>1. /\ BenchOpTypes = {"NewLimit", "NewMarket", "Cancel", "Modify"}
      /\ {"Unknown", "Limit", "Market"} \subseteq OrderTypes
      /\ "Unknown" \in Sides /\ BookSides \subseteq Sides
  BY DEF BenchOpTypes, OrderTypes, Sides
<1> QED BY <1>1
  DEF make_new_limit, make_new_market, make_cancel, make_modify, BenchRequest

LEMMA AppendedRequest ==
  ASSUME GeneratorInv, Generating, NEW req \in BenchRequest, trace' = Append(trace, req)
  PROVE  /\ trace' \in Seq(BenchRequest) /\ Len(trace) \in Nat
         /\ Len(trace') <= num_ops
         /\ DOMAIN trace = 1 .. Len(trace) /\ DOMAIN trace' = 1 .. Len(trace) + 1
         /\ \A k \in DOMAIN trace : trace'[k] = trace[k]
         /\ trace'[Len(trace) + 1] = req
<1>1. trace \in Seq(BenchRequest) /\ num_ops \in Nat
  BY WorkloadAssumption DEF GeneratorInv, GeneratorTypeOK
<1> QED BY <1>1, AppendProperties DEF Generating

\* A request under a new identifier.
LEMMA NewRequest ==
  ASSUME GeneratorInv, Generating, NEW req \in BenchRequest, AddNew(req),
         req.bench_op_type \in {"NewLimit", "NewMarket"}, req.order_id = next_id
  PROVE  TraceNamesLiveOrders' /\ NextIdIsFresh'
<1> DEFINE last == Len(trace) + 1
<1>1. /\ Len(trace) \in Nat /\ DOMAIN trace = 1 .. Len(trace) /\ DOMAIN trace' = 1 .. last
      /\ \A k \in DOMAIN trace : trace'[k] = trace[k]
      /\ trace'[last] = req
      /\ next_id' = next_id + 1
  BY AppendedRequest DEF AddNew
<1> HIDE DEF last
<1>2. /\ next_id \in Nat /\ \A k \in DOMAIN trace : trace[k].order_id \in Nat
  <2>1. \A k \in DOMAIN trace : trace[k] \in BenchRequest
    BY <1>1 DEF GeneratorInv, GeneratorTypeOK
  <2> QED BY <2>1 DEF GeneratorInv, GeneratorTypeOK, BenchRequest
<1>3. NextIdIsFresh'
  BY <1>1, <1>2 DEF GeneratorInv, NextIdIsFresh, last
<1>4. ASSUME NEW k \in DOMAIN trace'
      PROVE  (IF IsNew(k)
              THEN \A j \in DOMAIN trace : IsNew(j) /\ trace[j].order_id = trace[k].order_id => j = k
              ELSE CreatedBefore(k) /\ ~CancelledBefore(k))'
  <2>1. CASE k = last
    BY <1>1, <1>2, <2>1 DEF IsNew, GeneratorInv, NextIdIsFresh, last
  <2>2. CASE k \in DOMAIN trace
    <3>1. trace[k].order_id # next_id
      BY <1>2, <2>2 DEF GeneratorInv, NextIdIsFresh
    <3>2. 1 .. k - 1 \subseteq DOMAIN trace /\ k # last
      BY <1>1, <2>2 DEF last
    <3>3. CASE IsNew(k)
      BY <1>1, <2>2, <3>1, <3>2, <3>3 DEF IsNew, GeneratorInv, TraceNamesLiveOrders, last
    <3>4. CASE ~IsNew(k)
      BY <1>1, <2>2, <3>2, <3>4
      DEF IsNew, GeneratorInv, TraceNamesLiveOrders, CreatedBefore, CancelledBefore
    <3> QED BY <3>3, <3>4
  <2> QED BY <1>1, <2>1, <2>2 DEF last
<1> QED BY <1>3, <1>4 DEF TraceNamesLiveOrders

\* A cancel or a modify of an active identifier.
LEMMA PickedRequest ==
  ASSUME GeneratorInv, Generating, NEW req \in BenchRequest, trace' = Append(trace, req),
         NEW idx \in DOMAIN ids, req.order_id = ids[idx],
         req.bench_op_type \in {"Cancel", "Modify"}, UNCHANGED next_id
  PROVE  TraceNamesLiveOrders' /\ NextIdIsFresh'
<1> DEFINE last == Len(trace) + 1
<1>1. /\ Len(trace) \in Nat /\ DOMAIN trace = 1 .. Len(trace) /\ DOMAIN trace' = 1 .. last
      /\ \A k \in DOMAIN trace : trace'[k] = trace[k]
      /\ trace'[last] = req
  BY AppendedRequest
<1>2. 1 .. last - 1 = DOMAIN trace
  BY <1>1
<1> HIDE DEF last
<1>3. PICK c \in DOMAIN trace : trace[c].bench_op_type = "NewLimit" /\ trace[c].order_id = ids[idx]
  BY DEF GeneratorInv, IdsAreLive
<1>4. \A k \in DOMAIN trace : trace[k].bench_op_type = "Cancel" => trace[k].order_id # ids[idx]
  BY DEF GeneratorInv, IdsAreLive
<1>5. NextIdIsFresh'
  BY <1>1, <1>3 DEF GeneratorInv, NextIdIsFresh, last
<1>6. ASSUME NEW k \in DOMAIN trace'
      PROVE  (IF IsNew(k)
              THEN \A j \in DOMAIN trace : IsNew(j) /\ trace[j].order_id = trace[k].order_id => j = k
              ELSE CreatedBefore(k) /\ ~CancelledBefore(k))'
  <2>1. CASE k = last
    BY <1>1, <1>2, <1>3, <1>4, <2>1 DEF IsNew, CreatedBefore, CancelledBefore
  <2>2. CASE k \in DOMAIN trace
    <3>1. 1 .. k - 1 \subseteq DOMAIN trace /\ k # last
      BY <1>1, <2>2 DEF last
    <3>2. CASE IsNew(k)
      BY <1>1, <2>2, <3>1, <3>2 DEF IsNew, GeneratorInv, TraceNamesLiveOrders, last
    <3>3. CASE ~IsNew(k)
      BY <1>1, <2>2, <3>1, <3>3
      DEF IsNew, GeneratorInv, TraceNamesLiveOrders, CreatedBefore, CancelledBefore
    <3> QED BY <3>2, <3>3
  <2> QED BY <1>1, <2>1, <2>2 DEF last
<1> QED BY <1>5, <1>6 DEF TraceNamesLiveOrders

-----------------------------------------------------------------------------
(***************************************************************************)
(* The active identifiers.                                                 *)
(***************************************************************************)

\* Requests that leave the identifiers alone and cancel none.
LEMMA SameIdsStayLive ==
  ASSUME GeneratorInv, Generating, NEW req \in BenchRequest, trace' = Append(trace, req),
         req.bench_op_type # "Cancel", UNCHANGED ids
  PROVE  IdsAreLive'
<1>1. /\ Len(trace) \in Nat /\ DOMAIN trace = 1 .. Len(trace)
      /\ DOMAIN trace' = 1 .. Len(trace) + 1
      /\ \A k \in DOMAIN trace : trace'[k] = trace[k]
      /\ trace'[Len(trace) + 1] = req
  BY AppendedRequest
<1>2. DOMAIN trace' = (DOMAIN trace) \cup {Len(trace) + 1}
  BY <1>1
<1> QED BY <1>1, <1>2 DEF GeneratorInv, IdsAreLive

\* active.add(next_id) after the request that creates the order.
LEMMA AddedIdIsLive ==
  ASSUME GeneratorInv, Generating, NEW req \in BenchRequest, AddNew(req),
         req.bench_op_type = "NewLimit", req.order_id = next_id, ids' = Append(ids, next_id)
  PROVE  IdsAreLive'
<1> DEFINE last == Len(trace) + 1
           added == Len(ids) + 1
<1>1. /\ Len(trace) \in Nat /\ DOMAIN trace = 1 .. Len(trace) /\ DOMAIN trace' = 1 .. last
      /\ \A k \in DOMAIN trace : trace'[k] = trace[k]
      /\ trace'[last] = req
  BY AppendedRequest DEF AddNew
<1>2. ids \in Seq(Nat) /\ next_id \in Nat /\ Len(ids) \in Nat
  BY DEF GeneratorInv, GeneratorTypeOK
<1>3. /\ DOMAIN ids = 1 .. Len(ids) /\ DOMAIN ids' = 1 .. added
      /\ \A i \in DOMAIN ids : ids'[i] = ids[i]
      /\ ids'[added] = next_id
  BY <1>2, AppendProperties
<1>4. DOMAIN trace' = DOMAIN trace \cup {last} /\ DOMAIN ids' = DOMAIN ids \cup {added}
  BY <1>1, <1>2, <1>3
<1> HIDE DEF last, added
<1>5. \A k \in DOMAIN trace : trace[k].order_id # next_id
  <2>1. \A k \in DOMAIN trace : trace[k].order_id < next_id
    BY DEF GeneratorInv, NextIdIsFresh
  <2> QED BY <1>2, <2>1
<1>6. \A i \in DOMAIN ids : ids[i] # next_id
  BY <1>5 DEF GeneratorInv, IdsAreLive
<1>7. ASSUME NEW i \in DOMAIN ids'
      PROVE  /\ \E k \in DOMAIN trace' :
                  trace'[k].bench_op_type = "NewLimit" /\ trace'[k].order_id = ids'[i]
             /\ \A k \in DOMAIN trace' :
                  trace'[k].bench_op_type = "Cancel" => trace'[k].order_id # ids'[i]
  <2>1. CASE i = added
    BY <1>1, <1>3, <1>4, <1>5, <2>1
  <2>2. CASE i \in DOMAIN ids
    <3>1. /\ ids'[i] = ids[i]
          /\ \A k \in DOMAIN trace :
               trace[k].bench_op_type = "Cancel" => trace[k].order_id # ids[i]
      BY <1>3, <2>2 DEF GeneratorInv, IdsAreLive
    <3>2. PICK k \in DOMAIN trace :
            trace[k].bench_op_type = "NewLimit" /\ trace[k].order_id = ids[i]
      BY <2>2 DEF GeneratorInv, IdsAreLive
    <3>3. k \in DOMAIN trace' /\ trace'[k] = trace[k]
      BY <1>1, <1>4
    <3>4. \A n \in DOMAIN trace' :
            trace'[n].bench_op_type = "Cancel" => trace'[n].order_id # ids'[i]
      BY <1>1, <1>4, <3>1
    <3> QED BY <3>1, <3>2, <3>3, <3>4
  <2> QED BY <1>4, <2>1, <2>2
<1>8. \A i, j \in DOMAIN ids' : ids'[i] = ids'[j] => i = j
  BY <1>3, <1>4, <1>6 DEF GeneratorInv, IdsAreLive
<1> QED BY <1>7, <1>8 DEF IdsAreLive

\* pick_and_remove: the last identifier moves to the place of the picked one.
LEMMA RemovedIdIsGone ==
  ASSUME GeneratorInv, Generating, NEW idx \in DOMAIN ids, NEW req \in BenchRequest,
         req.order_id = ids[idx], trace' = Append(trace, req), ids' = ids_without(idx)
  PROVE  ids' \in Seq(Nat) /\ IdsAreLive'
<1>1. /\ Len(trace) \in Nat /\ DOMAIN trace = 1 .. Len(trace)
      /\ DOMAIN trace' = 1 .. Len(trace) + 1
      /\ \A k \in DOMAIN trace : trace'[k] = trace[k]
      /\ trace'[Len(trace) + 1] = req
  BY AppendedRequest
<1>2. DOMAIN trace' = DOMAIN trace \cup {Len(trace) + 1}
  BY <1>1
<1>3. ids \in Seq(Nat) /\ Len(ids) \in Nat \ {0} /\ DOMAIN ids = 1 .. Len(ids)
  <2>1. ids \in Seq(Nat)
    BY DEF GeneratorInv, GeneratorTypeOK
  <2> QED BY <2>1
<1> DEFINE from(k) == IF k = idx THEN Len(ids) ELSE k
<1>4. ids' = [k \in 1 .. Len(ids) - 1 |-> ids[from(k)]]
  BY DEF ids_without
<1>5. /\ \A k \in 1 .. Len(ids) - 1 : from(k) \in DOMAIN ids /\ from(k) # idx
      /\ \A j, k \in 1 .. Len(ids) - 1 : from(j) = from(k) => j = k
  BY <1>3
<1> HIDE DEF from
<1>6. /\ DOMAIN ids' = 1 .. Len(ids) - 1
      /\ \A k \in DOMAIN ids' : ids'[k] = ids[from(k)]
  BY <1>4
<1>7. ids' \in Seq(Nat)
  <2>1. \A k \in 1 .. Len(ids) - 1 : ids[from(k)] \in Nat
    BY <1>3, <1>5
  <2>2. Len(ids) - 1 \in Nat
    BY <1>3
  <2> QED BY <1>4, <2>1, <2>2
<1>8. \A i, j \in DOMAIN ids : ids[i] = ids[j] => i = j
  BY DEF GeneratorInv, IdsAreLive
<1>9. ASSUME NEW i \in DOMAIN ids'
      PROVE  /\ \E k \in DOMAIN trace' :
                  trace'[k].bench_op_type = "NewLimit" /\ trace'[k].order_id = ids'[i]
             /\ \A k \in DOMAIN trace' :
                  trace'[k].bench_op_type = "Cancel" => trace'[k].order_id # ids'[i]
  <2>1. ids'[i] = ids[from(i)] /\ from(i) \in DOMAIN ids /\ ids[from(i)] # ids[idx]
    BY <1>5, <1>6, <1>8
  <2> QED BY <1>1, <1>2, <2>1 DEF GeneratorInv, IdsAreLive
<1>10. \A i, j \in DOMAIN ids' : ids'[i] = ids'[j] => i = j
  BY <1>5, <1>6, <1>8
<1> QED BY <1>7, <1>9, <1>10 DEF IdsAreLive

-----------------------------------------------------------------------------
(***************************************************************************)
(* The steps.                                                              *)
(***************************************************************************)
LEMMA GeneratorTypeStep ==
  ASSUME GeneratorInv, Generating, NEW req \in BenchRequest, trace' = Append(trace, req),
         UNCHANGED config, ids' \in Seq(Nat), next_id' \in {next_id, next_id + 1}
  PROVE  GeneratorTypeOK'
<1>1. trace' \in Seq(BenchRequest) /\ Len(trace') <= num_ops
  BY AppendedRequest
<1> QED BY <1>1 DEF GeneratorInv, GeneratorTypeOK, config

\* The price of a request is of its side, when the workload is a passive one.
LEMMA PricesStep ==
  ASSUME GeneratorInv, Generating, NEW req \in BenchRequest, trace' = Append(trace, req),
         UNCHANGED config,
         name \in PassiveWorkloads /\ SoundConfig =>
           /\ req.side = "Buy" => req.price < MidPrice
           /\ req.side = "Sell" => req.price > MidPrice
  PROVE  PricesAreOfTheirSide'
<1>1. /\ Len(trace) \in Nat /\ DOMAIN trace = 1 .. Len(trace)
      /\ DOMAIN trace' = 1 .. Len(trace) + 1
      /\ \A k \in DOMAIN trace : trace'[k] = trace[k]
      /\ trace'[Len(trace) + 1] = req
  BY AppendedRequest
<1>2. DOMAIN trace' = DOMAIN trace \cup {Len(trace) + 1} /\ name' = name
  BY <1>1 DEF config
<1> QED BY <1>1, <1>2 DEF GeneratorInv, PricesAreOfTheirSide, SoundConfig

\* A request under a new identifier that is not made active.
LEMMA UntrackedStep ==
  ASSUME GeneratorInv, Generating, NEW req \in BenchRequest, AddNew(req),
         req.bench_op_type \in {"NewLimit", "NewMarket"}, req.order_id = next_id,
         UNCHANGED <<config, ids>>,
         name \in PassiveWorkloads /\ SoundConfig =>
           /\ req.side = "Buy" => req.price < MidPrice
           /\ req.side = "Sell" => req.price > MidPrice
  PROVE  GeneratorInv'
<1>1. TraceNamesLiveOrders' /\ NextIdIsFresh'
  BY NewRequest
<1>2. trace' = Append(trace, req) /\ next_id' = next_id + 1
  BY DEF AddNew
<1>3. IdsAreLive'
  BY <1>2, SameIdsStayLive
<1>4. PricesAreOfTheirSide'
  BY <1>2, PricesStep
<1>5. ids' \in Seq(Nat)
  BY DEF GeneratorInv, GeneratorTypeOK
<1>6. GeneratorTypeOK'
  BY <1>2, <1>5, GeneratorTypeStep
<1> QED BY <1>1, <1>3, <1>4, <1>6 DEF GeneratorInv

LEMMA NextIdType ==
  ASSUME GeneratorInv
  PROVE  next_id \in Nat /\ next_id + 1 \in Nat \ {0} /\ random_quantity \subseteq Nat
  BY WorkloadAssumption DEF GeneratorInv, GeneratorTypeOK, random_quantity

LEMMA PassiveStep ==
  ASSUME GeneratorInv, GeneratePassive
  PROVE  GeneratorInv'
<1>1. Generating /\ UNCHANGED config
  BY DEF GeneratePassive
<1>b. PICK side \in BookSides, qty \in random_quantity : \E price \in passive_price(side) :
        AddNew(make_new_limit(next_id, side, price, qty))
  BY DEF GeneratePassive
<1>2. PICK price \in passive_price(side) : AddNew(make_new_limit(next_id, side, price, qty))
  BY <1>b
<1>a. PICK req : req = make_new_limit(next_id, side, price, qty)
  OBVIOUS
<1>3. /\ req \in BenchRequest
      /\ req.bench_op_type = "NewLimit" /\ req.order_id = next_id
      /\ req.side = side /\ req.price = price
  <2>1. price \in Nat /\ qty \in Nat /\ next_id \in Nat
    BY NextIdType, PriceTypes
  <2> QED BY <1>a, <2>1, RequestTypesOfTrace DEF make_new_limit
<1>4. name \in PassiveWorkloads /\ SoundConfig =>
        (req.side = "Buy" => req.price < MidPrice) /\ (req.side = "Sell" => req.price > MidPrice)
  BY <1>3, SidesStayApart
<1>5. AddNew(req)
  BY <1>2, <1>a
<1>6. CASE ids' = ids
  BY <1>1, <1>3, <1>4, <1>5, <1>6, UntrackedStep
<1>7. CASE ids' = Append(ids, next_id)
  <2>1. IdsAreLive'
    BY <1>1, <1>3, <1>5, <1>7, AddedIdIsLive
  <2>2. TraceNamesLiveOrders' /\ NextIdIsFresh'
    BY <1>1, <1>3, <1>5, NewRequest
  <2>3. ids' \in Seq(Nat)
    BY <1>7, NextIdType, AppendProperties DEF GeneratorInv, GeneratorTypeOK
  <2>4. trace' = Append(trace, req) /\ next_id' = next_id + 1
    BY <1>5 DEF AddNew
  <2>5. GeneratorTypeOK' /\ PricesAreOfTheirSide'
    BY <1>1, <1>3, <1>4, <2>3, <2>4, GeneratorTypeStep, PricesStep
  <2> QED BY <2>1, <2>2, <2>5 DEF GeneratorInv
<1> QED BY <1>6, <1>7 DEF GeneratePassive

LEMMA NarrowStep ==
  ASSUME GeneratorInv, GenerateNarrow
  PROVE  GeneratorInv'
<1>1. Generating /\ UNCHANGED <<config, ids>>
  BY DEF GenerateNarrow
<1>b. PICK side \in BookSides, qty \in random_quantity : \E price \in narrow_price(side) :
        AddNew(make_new_limit(next_id, side, price, qty))
  BY DEF GenerateNarrow
<1>2. PICK price \in narrow_price(side) : AddNew(make_new_limit(next_id, side, price, qty))
  BY <1>b
<1>a. PICK req : req = make_new_limit(next_id, side, price, qty)
  OBVIOUS
<1>3. /\ req \in BenchRequest
      /\ req.bench_op_type = "NewLimit" /\ req.order_id = next_id
      /\ req.side = side /\ req.price = price
  <2>1. price \in Nat /\ qty \in Nat /\ next_id \in Nat
    BY NextIdType, PriceTypes
  <2> QED BY <1>a, <2>1, RequestTypesOfTrace DEF make_new_limit
<1>4. SoundConfig =>
        (req.side = "Buy" => req.price < MidPrice) /\ (req.side = "Sell" => req.price > MidPrice)
  BY <1>3, SidesStayApart
<1> QED BY <1>1, <1>2, <1>3, <1>4, <1>a, UntrackedStep

LEMMA AggressiveStep ==
  ASSUME GeneratorInv, GenerateAggressive
  PROVE  GeneratorInv'
<1>1. /\ Generating /\ UNCHANGED <<config, ids>>
      /\ name \notin PassiveWorkloads
  BY DEF GenerateAggressive, Picks, PassiveWorkloads
<1>b. PICK side \in BookSides, qty \in random_quantity : \E price \in aggressive_price(side) :
        AddNew(make_new_limit(next_id, side, price, qty))
  BY DEF GenerateAggressive
<1>2. PICK price \in aggressive_price(side) : AddNew(make_new_limit(next_id, side, price, qty))
  BY <1>b
<1>a. PICK req : req = make_new_limit(next_id, side, price, qty)
  OBVIOUS
<1>3. /\ req \in BenchRequest
      /\ req.bench_op_type = "NewLimit" /\ req.order_id = next_id
  <2>1. price \in Nat /\ qty \in Nat /\ next_id \in Nat
    BY NextIdType, PriceTypes
  <2> QED BY <1>a, <2>1, RequestTypesOfTrace DEF make_new_limit
<1> QED BY <1>1, <1>2, <1>3, <1>a, UntrackedStep

LEMMA MarketStep ==
  ASSUME GeneratorInv, GenerateMarket
  PROVE  GeneratorInv'
<1>1. /\ Generating /\ UNCHANGED <<config, ids>>
      /\ name \notin PassiveWorkloads
  BY DEF GenerateMarket, Picks, PassiveWorkloads
<1>2. PICK side \in BookSides, qty \in random_quantity :
        AddNew(make_new_market(next_id, side, qty))
  BY DEF GenerateMarket
<1>a. PICK req : req = make_new_market(next_id, side, qty)
  OBVIOUS
<1>3. /\ req \in BenchRequest
      /\ req.bench_op_type = "NewMarket" /\ req.order_id = next_id
  <2>1. qty \in Nat /\ next_id \in Nat
    BY NextIdType
  <2> QED BY <1>a, <2>1, RequestTypesOfTrace, ConfigFacts DEF make_new_market
<1> QED BY <1>1, <1>2, <1>3, <1>a, UntrackedStep

LEMMA FifoStep ==
  ASSUME GeneratorInv, GenerateFifo
  PROVE  GeneratorInv'
<1>1. /\ Generating /\ UNCHANGED <<config, ids>>
      /\ name \notin PassiveWorkloads
  BY DEF GenerateFifo, PassiveWorkloads
<1>a. PICK req : req = IF Len(trace) < half
                       THEN make_new_limit(next_id, "Sell", mid_plus(1), 1)
                       ELSE make_new_market(next_id, "Buy", 1)
  OBVIOUS
<1>2. AddNew(req)
  BY <1>a DEF GenerateFifo
<1>3. /\ req \in BenchRequest
      /\ req.bench_op_type \in {"NewLimit", "NewMarket"} /\ req.order_id = next_id
  <2>1. /\ next_id \in Nat /\ mid_plus(1) \in Nat /\ {"Buy", "Sell"} = BookSides
    BY NextIdType, MidPlusType DEF BookSides
  <2>2. /\ make_new_limit(next_id, "Sell", mid_plus(1), 1) \in BenchRequest
        /\ make_new_market(next_id, "Buy", 1) \in BenchRequest
    BY <2>1, RequestTypesOfTrace
  <2> QED BY <1>a, <2>2 DEF make_new_limit, make_new_market
<1> QED BY <1>1, <1>2, <1>3, UntrackedStep

LEMMA CancelStep ==
  ASSUME GeneratorInv, GenerateCancel
  PROVE  GeneratorInv'
<1>1. Generating /\ UNCHANGED <<config, next_id>>
  BY DEF GenerateCancel, Picks
<1>2. PICK idx \in DOMAIN ids :
        trace' = Append(trace, make_cancel(ids[idx])) /\ ids' = ids_without(idx)
  BY DEF GenerateCancel, pick
<1>a. PICK req : req = make_cancel(ids[idx])
  OBVIOUS
<1>3. /\ req \in BenchRequest /\ req.bench_op_type = "Cancel"
      /\ req.order_id = ids[idx] /\ req.side = "Unknown"
  <2>1. ids[idx] \in Nat /\ {"Buy"} \subseteq BookSides
    BY DEF GeneratorInv, GeneratorTypeOK, BookSides
  <2>2. req \in BenchRequest
    BY <1>a, <2>1, RequestTypesOfTrace, ConfigFacts
  <2> QED BY <1>a, <2>2 DEF make_cancel
<1>4. TraceNamesLiveOrders' /\ NextIdIsFresh'
  BY <1>1, <1>2, <1>3, <1>a, PickedRequest
<1>5. ids' \in Seq(Nat) /\ IdsAreLive'
  BY <1>1, <1>2, <1>3, <1>a, RemovedIdIsGone
<1>6. GeneratorTypeOK' /\ PricesAreOfTheirSide'
  BY <1>1, <1>2, <1>3, <1>5, <1>a, GeneratorTypeStep, PricesStep
<1> QED BY <1>4, <1>5, <1>6 DEF GeneratorInv

LEMMA ModifyStep ==
  ASSUME GeneratorInv, GenerateModify
  PROVE  GeneratorInv'
<1>1. Generating /\ UNCHANGED config /\ UNCHANGED next_id /\ UNCHANGED ids
  BY DEF GenerateModify, Picks
<1>2. PICK idx \in DOMAIN ids, qty \in random_quantity :
        trace' = Append(trace, make_modify(ids[idx], MidPrice, qty))
  BY DEF GenerateModify, pick
<1>a. PICK req : req = make_modify(ids[idx], MidPrice, qty)
  OBVIOUS
<1>3. /\ req \in BenchRequest /\ req.bench_op_type = "Modify"
      /\ req.order_id = ids[idx] /\ req.side = "Unknown"
  <2>1. ids[idx] \in Nat /\ qty \in Nat /\ {"Buy"} \subseteq BookSides
    BY NextIdType DEF GeneratorInv, GeneratorTypeOK, BookSides
  <2>2. req \in BenchRequest
    BY <1>a, <2>1, RequestTypesOfTrace, ConfigFacts
  <2> QED BY <1>a, <2>2 DEF make_modify
<1>4. TraceNamesLiveOrders' /\ NextIdIsFresh'
  BY <1>1, <1>2, <1>3, <1>a, PickedRequest
<1>5. IdsAreLive' /\ ids' \in Seq(Nat)
  BY <1>1, <1>2, <1>3, <1>a, SameIdsStayLive DEF GeneratorInv, GeneratorTypeOK
<1>6. GeneratorTypeOK' /\ PricesAreOfTheirSide'
  BY <1>1, <1>2, <1>3, <1>5, <1>a, GeneratorTypeStep, PricesStep
<1> QED BY <1>4, <1>5, <1>6 DEF GeneratorInv

LEMMA GeneratorStutter ==
  ASSUME GeneratorInv, UNCHANGED generatorVars
  PROVE  GeneratorInv'
<1>1. /\ name' = name /\ num_ops' = num_ops /\ trace' = trace /\ ids' = ids
      /\ next_id' = next_id
  BY DEF generatorVars
<1>2. GeneratorTypeOK' /\ NextIdIsFresh' /\ IdsAreLive'
  BY <1>1 DEF GeneratorInv, GeneratorTypeOK, NextIdIsFresh, IdsAreLive
<1>3. PricesAreOfTheirSide'
  BY <1>1 DEF GeneratorInv, PricesAreOfTheirSide, SoundConfig
<1>4. TraceNamesLiveOrders'
  BY <1>1 DEF GeneratorInv, TraceNamesLiveOrders, IsNew, CreatedBefore, CancelledBefore
<1> QED BY <1>2, <1>3, <1>4 DEF GeneratorInv

LEMMA GeneratorInvStep == GeneratorInv /\ [Generate]_generatorVars => GeneratorInv'
  BY PassiveStep, NarrowStep, AggressiveStep, MarketStep, CancelStep, ModifyStep, FifoStep,
     GeneratorStutter DEF Generate

LEMMA InitialTrace == GeneratorInit => GeneratorInv
<1> SUFFICES ASSUME GeneratorInit PROVE GeneratorInv
  OBVIOUS
<1>1. /\ name \in Workloads /\ num_ops \in NumOps /\ trace = <<>> /\ ids = <<>> /\ next_id = 1
  BY DEF GeneratorInit
<1>2. /\ trace \in Seq(BenchRequest) /\ Len(trace) = 0 /\ DOMAIN trace = {}
      /\ ids \in Seq(Nat) /\ DOMAIN ids = {}
  BY <1>1
<1>3. num_ops \in Nat
  BY <1>1, WorkloadAssumption
<1> QED BY <1>1, <1>2, <1>3
  DEF GeneratorInv, GeneratorTypeOK, TraceNamesLiveOrders, IdsAreLive, NextIdIsFresh,
      PricesAreOfTheirSide

-----------------------------------------------------------------------------
(***************************************************************************)
(* What the books will look at in a request, before they look it up.       *)
(***************************************************************************)
IsLimitPrice(price) ==
  \/ price = mid_plus(1)
  \/ \E side \in BookSides :
       \/ price \in passive_price(side) \/ price \in aggressive_price(side)
       \/ name = "deep_book" /\ price \in narrow_price(side)

IsSubmittable(req) ==
  /\ req.symbol_id = 1 /\ req.order_id # 0
  /\ req.bench_op_type = "NewLimit" =>
       /\ req.order_type = "Limit" /\ req.side \in BookSides /\ req.quantity # 0
       /\ IsLimitPrice(req.price)
  /\ req.bench_op_type = "NewMarket" =>
       req.order_type = "Market" /\ req.side \in BookSides /\ req.quantity # 0
  /\ req.bench_op_type = "Modify" =>
       req.order_type = "Limit" /\ req.quantity # 0 /\ req.price = MidPrice
  /\ name \in PassiveWorkloads => req.bench_op_type \in {"NewLimit", "Cancel"}

\* Inductive with GeneratorInv.
TraceIsSubmittable ==
  /\ next_id <= Len(trace) + 1
  /\ \A k \in DOMAIN trace : IsSubmittable(trace[k])

FifoRequest(k) ==
  IF k <= half THEN make_new_limit(k, "Sell", mid_plus(1), 1) ELSE make_new_market(k, "Buy", 1)

FifoTrace ==
  name = "same_price_fifo" =>
    /\ next_id = Len(trace) + 1
    /\ \A k \in DOMAIN trace : trace[k] = FifoRequest(k)

\* A step appends such a request.
LEMMA NewLimitIsSubmittable ==
  ASSUME GeneratorInv, NEW side \in BookSides, NEW qty \in random_quantity,
         NEW price \in Nat, IsLimitPrice(price),
         NEW req, req = make_new_limit(next_id, side, price, qty)
  PROVE  req \in BenchRequest /\ IsSubmittable(req)
<1>1. next_id \in Nat \ {0} /\ qty \in Nat \ {0}
  BY WorkloadAssumption DEF GeneratorInv, GeneratorTypeOK, random_quantity
<1>2. req \in BenchRequest
  BY <1>1, RequestTypesOfTrace
<1> QED BY <1>1, <1>2 DEF IsSubmittable, make_new_limit

LEMMA NewMarketIsSubmittable ==
  ASSUME GeneratorInv, NEW side \in BookSides, NEW qty \in random_quantity,
         name \notin PassiveWorkloads,
         NEW req, req = make_new_market(next_id, side, qty)
  PROVE  req \in BenchRequest /\ IsSubmittable(req)
<1>1. next_id \in Nat \ {0} /\ qty \in Nat \ {0}
  BY WorkloadAssumption DEF GeneratorInv, GeneratorTypeOK, random_quantity
<1>2. req \in BenchRequest
  BY <1>1, RequestTypesOfTrace, ConfigFacts
<1> QED BY <1>1, <1>2 DEF IsSubmittable, make_new_market

LEMMA PickedIdIsNotZero ==
  ASSUME GeneratorInv, TraceIsSubmittable, NEW idx \in DOMAIN ids
  PROVE  ids[idx] \in Nat /\ ids[idx] # 0
<1>1. PICK k \in DOMAIN trace : trace[k].order_id = ids[idx]
  BY DEF GeneratorInv, IdsAreLive
<1> QED BY <1>1 DEF GeneratorInv, GeneratorTypeOK, TraceIsSubmittable, IsSubmittable

LEMMA AddedRequest ==
  ASSUME GeneratorInv, TraceIsSubmittable, Generate
  PROVE  /\ Generating /\ UNCHANGED config /\ next_id' \in {next_id, next_id + 1}
         /\ \E req \in BenchRequest : IsSubmittable(req) /\ trace' = Append(trace, req)
<1> DEFINE Goal ==
      /\ Generating /\ UNCHANGED config /\ next_id' \in {next_id, next_id + 1}
      /\ \E req \in BenchRequest : IsSubmittable(req) /\ trace' = Append(trace, req)
<1>1. ASSUME NEW side \in BookSides, NEW qty \in random_quantity, NEW price \in Nat,
             IsLimitPrice(price), AddNew(make_new_limit(next_id, side, price, qty)),
             Generating, UNCHANGED config
      PROVE  Goal
  <2>a. PICK req : req = make_new_limit(next_id, side, price, qty)
    OBVIOUS
  <2>1. req \in BenchRequest /\ IsSubmittable(req)
    BY <1>1, <2>a, NewLimitIsSubmittable
  <2> QED BY <1>1, <2>1, <2>a DEF AddNew
<1>2. ASSUME NEW side \in BookSides, NEW qty \in random_quantity, name \notin PassiveWorkloads,
             AddNew(make_new_market(next_id, side, qty)), Generating, UNCHANGED config
      PROVE  Goal
  <2>a. PICK req : req = make_new_market(next_id, side, qty)
    OBVIOUS
  <2>1. req \in BenchRequest /\ IsSubmittable(req)
    BY <1>2, <2>a, NewMarketIsSubmittable
  <2> QED BY <1>2, <2>1, <2>a DEF AddNew
<1> HIDE DEF Goal
<1>3. CASE GeneratePassive
  <2>1. Generating /\ UNCHANGED config
    BY <1>3 DEF GeneratePassive
  <2>2. PICK side \in BookSides, qty \in random_quantity : \E price \in passive_price(side) :
          AddNew(make_new_limit(next_id, side, price, qty))
    BY <1>3 DEF GeneratePassive
  <2>3. PICK price \in passive_price(side) : AddNew(make_new_limit(next_id, side, price, qty))
    BY <2>2
  <2>4. IsLimitPrice(price) /\ price \in Nat
    BY PriceTypes DEF IsLimitPrice
  <2> QED BY <1>1, <2>1, <2>3, <2>4 DEF Goal
<1>4. CASE GenerateNarrow
  <2>1. Generating /\ UNCHANGED config /\ name = "deep_book"
    BY <1>4 DEF GenerateNarrow
  <2>2. PICK side \in BookSides, qty \in random_quantity : \E price \in narrow_price(side) :
          AddNew(make_new_limit(next_id, side, price, qty))
    BY <1>4 DEF GenerateNarrow
  <2>3. PICK price \in narrow_price(side) : AddNew(make_new_limit(next_id, side, price, qty))
    BY <2>2
  <2>4. IsLimitPrice(price) /\ price \in Nat
    BY <2>1, PriceTypes DEF IsLimitPrice
  <2> QED BY <1>1, <2>1, <2>3, <2>4 DEF Goal
<1>5. CASE GenerateAggressive
  <2>1. Generating /\ UNCHANGED config
    BY <1>5 DEF GenerateAggressive, Picks
  <2>2. PICK side \in BookSides, qty \in random_quantity : \E price \in aggressive_price(side) :
          AddNew(make_new_limit(next_id, side, price, qty))
    BY <1>5 DEF GenerateAggressive
  <2>3. PICK price \in aggressive_price(side) : AddNew(make_new_limit(next_id, side, price, qty))
    BY <2>2
  <2>4. IsLimitPrice(price) /\ price \in Nat
    BY PriceTypes DEF IsLimitPrice
  <2> QED BY <1>1, <2>1, <2>3, <2>4 DEF Goal
<1>6. CASE GenerateMarket
  <2>1. Generating /\ UNCHANGED config /\ name \notin PassiveWorkloads
    BY <1>6 DEF GenerateMarket, Picks, PassiveWorkloads
  <2>2. PICK side \in BookSides, qty \in random_quantity :
          AddNew(make_new_market(next_id, side, qty))
    BY <1>6 DEF GenerateMarket
  <2> QED BY <1>2, <2>1, <2>2 DEF Goal
<1>7. CASE GenerateFifo
  <2>1. Generating /\ UNCHANGED config /\ name \notin PassiveWorkloads
    BY <1>7 DEF GenerateFifo, PassiveWorkloads
  <2>2. \/ AddNew(make_new_limit(next_id, "Sell", mid_plus(1), 1))
        \/ AddNew(make_new_market(next_id, "Buy", 1))
    BY <1>7 DEF GenerateFifo
  <2>3. /\ 1 \in random_quantity /\ {"Buy", "Sell"} = BookSides
        /\ IsLimitPrice(mid_plus(1)) /\ mid_plus(1) \in Nat
    BY WorkloadAssumption, MidPlusType DEF random_quantity, BookSides, IsLimitPrice
  <2> QED BY <1>1, <1>2, <2>1, <2>2, <2>3 DEF Goal
<1>8. CASE GenerateCancel \/ GenerateModify
  <2>1. Generating /\ UNCHANGED config /\ UNCHANGED next_id
    BY <1>8 DEF GenerateCancel, GenerateModify, Picks
  <2>2. PICK idx \in DOMAIN ids :
          \/ trace' = Append(trace, make_cancel(ids[idx]))
          \/ /\ name \in {"modify_heavy", "mixed_realistic"}
             /\ \E qty \in random_quantity : trace' = Append(trace, make_modify(ids[idx], MidPrice, qty))
    BY <1>8 DEF GenerateCancel, GenerateModify, pick
  <2>3. ids[idx] \in Nat /\ ids[idx] # 0
    BY PickedIdIsNotZero
  <2>4. PICK side \in BookSides : TRUE
    BY DEF BookSides
  <2>5. CASE trace' = Append(trace, make_cancel(ids[idx]))
    <3>1. make_cancel(ids[idx]) \in BenchRequest
      BY <2>3, <2>4, RequestTypesOfTrace, ConfigFacts
    <3>2. IsSubmittable(make_cancel(ids[idx]))
      BY <2>3 DEF IsSubmittable, make_cancel
    <3> QED BY <2>1, <2>5, <3>1, <3>2 DEF Goal
  <2>6. CASE trace' # Append(trace, make_cancel(ids[idx]))
    <3>1. PICK qty \in random_quantity : trace' = Append(trace, make_modify(ids[idx], MidPrice, qty))
      BY <2>2, <2>6
    <3>2. qty \in Nat /\ qty # 0 /\ name \notin PassiveWorkloads
      BY <2>2, <2>6, WorkloadAssumption DEF random_quantity, PassiveWorkloads
    <3>3. make_modify(ids[idx], MidPrice, qty) \in BenchRequest
      BY <2>3, <2>4, <3>2, RequestTypesOfTrace, ConfigFacts
    <3>4. IsSubmittable(make_modify(ids[idx], MidPrice, qty))
      BY <2>3, <3>2 DEF IsSubmittable, make_modify
    <3> QED BY <2>1, <3>1, <3>3, <3>4 DEF Goal
  <2> QED BY <2>5, <2>6
<1> QED BY <1>3, <1>4, <1>5, <1>6, <1>7, <1>8 DEF Generate, Goal

LEMMA SubmittableStep ==
  ASSUME GeneratorInv, TraceIsSubmittable, Generate
  PROVE  TraceIsSubmittable'
<1>1. /\ Generating /\ name' = name /\ next_id' \in {next_id, next_id + 1}
      /\ \E req \in BenchRequest : IsSubmittable(req) /\ trace' = Append(trace, req)
  BY AddedRequest DEF config
<1>2. PICK req \in BenchRequest : IsSubmittable(req) /\ trace' = Append(trace, req)
  BY <1>1
<1>3. /\ DOMAIN trace' = 1 .. Len(trace) + 1 /\ DOMAIN trace = 1 .. Len(trace)
      /\ Len(trace) \in Nat /\ trace'[Len(trace) + 1] = req
      /\ \A k \in DOMAIN trace : trace'[k] = trace[k]
  BY <1>1, <1>2, AppendedRequest
<1>4. Len(trace') = Len(trace) + 1
  BY <1>2, AppendProperties DEF GeneratorInv, GeneratorTypeOK
<1>5. next_id \in Nat /\ next_id' <= Len(trace') + 1
  BY <1>1, <1>3, <1>4, NextIdType DEF TraceIsSubmittable
<1>6. \A any : IsSubmittable(any) => IsSubmittable(any)'
  BY <1>1 DEF IsSubmittable, IsLimitPrice
<1>7. ASSUME NEW k \in DOMAIN trace' PROVE IsSubmittable(trace[k])'
  <2>1. PICK any : any = trace'[k]
    OBVIOUS
  <2>2. IsSubmittable(any)
    BY <1>2, <1>3, <2>1 DEF TraceIsSubmittable
  <2> QED BY <1>6, <2>1, <2>2
<1> QED BY <1>5, <1>7 DEF TraceIsSubmittable

LEMMA SameTraceIsSubmittable ==
  ASSUME TraceIsSubmittable, UNCHANGED generatorVars
  PROVE  TraceIsSubmittable'
  BY DEF TraceIsSubmittable, generatorVars, IsSubmittable, IsLimitPrice

LEMMA EmptyTraceIsSubmittable == GeneratorInit => TraceIsSubmittable /\ FifoTrace
  BY DEF GeneratorInit, TraceIsSubmittable, FifoTrace

\* The trace of same_price_fifo has only one form.
LEMMA FifoTraceStep ==
  ASSUME GeneratorInv, FifoTrace, Generate
  PROVE  FifoTrace'
<1> SUFFICES ASSUME name' = "same_price_fifo"
             PROVE  next_id' = Len(trace') + 1 /\ \A k \in DOMAIN trace' : trace'[k] = FifoRequest(k)'
  BY DEF FifoTrace
<1>1. name = "same_price_fifo" /\ num_ops' = num_ops /\ GenerateFifo
  BY DEF Generate, GeneratePassive, GenerateNarrow, GenerateAggressive, GenerateMarket,
     GenerateCancel, GenerateModify, GenerateFifo, config, Picks, Tracks, Seeding,
     TrackingWorkloads, SeededWorkloads
<1>a. PICK req : req = IF Len(trace) < half
                       THEN make_new_limit(next_id, "Sell", mid_plus(1), 1)
                       ELSE make_new_market(next_id, "Buy", 1)
  OBVIOUS
<1>2. Generating /\ AddNew(req)
  BY <1>1, <1>a DEF GenerateFifo
<1>3. trace' = Append(trace, req) /\ next_id' = next_id + 1 /\ trace \in Seq(BenchRequest)
  BY <1>2 DEF AddNew, GeneratorInv, GeneratorTypeOK
<1>4. req \in BenchRequest
  <2>1. /\ next_id \in Nat /\ mid_plus(1) \in Nat /\ {"Buy", "Sell"} = BookSides
    BY NextIdType, MidPlusType DEF BookSides
  <2> QED BY <1>a, <2>1, RequestTypesOfTrace
<1>5. /\ DOMAIN trace' = 1 .. Len(trace) + 1 /\ DOMAIN trace = 1 .. Len(trace)
      /\ Len(trace) \in Nat /\ trace'[Len(trace) + 1] = req
      /\ \A k \in DOMAIN trace : trace'[k] = trace[k]
  BY <1>2, <1>3, <1>4, AppendedRequest
<1>6. Len(trace') = Len(trace) + 1
  BY <1>3, <1>4, AppendProperties
<1>7. next_id = Len(trace) + 1 /\ \A k \in DOMAIN trace : trace[k] = FifoRequest(k)
  BY <1>1 DEF FifoTrace
<1>8. \A k : FifoRequest(k)' = FifoRequest(k)
  BY <1>1 DEF FifoRequest, half
<1>9. req = FifoRequest(Len(trace) + 1)
  <2>1. num_ops \in Nat
    BY WorkloadAssumption DEF GeneratorInv, GeneratorTypeOK
  <2>2. half \in Nat
    BY <2>1 DEF half
  <2> QED BY <1>5, <1>7, <1>a, <2>2 DEF FifoRequest
<1> QED BY <1>3, <1>5, <1>6, <1>7, <1>8, <1>9

LEMMA SameFifoTrace ==
  ASSUME FifoTrace, UNCHANGED generatorVars
  PROVE  FifoTrace'
  BY DEF FifoTrace, generatorVars, FifoRequest, half

-----------------------------------------------------------------------------
(***************************************************************************)
(* Limit prices on the ticks of the range.                                 *)
(***************************************************************************)

\* The configurations in which every limit price is a price of the ladder: the
\* middle is on a tick, with one tick of the range on either side of it, and five
\* for deep_book, which leaves the range otherwise.
PricesFit ==
  /\ MinPrice # 0
  /\ (MaxPrice - MinPrice) % TickSize = 0 /\ (MidPrice - MinPrice) % TickSize = 0
  /\ MinPrice + TickSize <= MidPrice /\ MidPrice + TickSize <= MaxPrice
  /\ "deep_book" \in Workloads =>
       MinPrice + 5 * TickSize <= MidPrice /\ MidPrice + 5 * TickSize <= MaxPrice

OnTick(price) == price <= MaxPrice /\ \E k \in Nat : price = MinPrice + k * TickSize

LEMMA TicksAdd ==
  ASSUME NEW a \in Nat, NEW k \in Nat, NEW m \in Nat, NEW b \in Nat, NEW p \in Nat,
         a = b + k * TickSize, p = a + m * TickSize
  PROVE  p = b + (k + m) * TickSize /\ k + m \in Nat
  BY ConfigFacts

LEMMA RandomPriceOnTick ==
  ASSUME NEW a \in Nat, NEW b \in Nat, OnTick(a), OnTick(b), NEW p \in random_price(a, b)
  PROVE  OnTick(p)
<1> DEFINE lo == IF a <= b THEN a ELSE b
           hi == IF a <= b THEN b ELSE a
<1>1. p \in {lo + step * TickSize : step \in 0 .. (hi - lo) \div TickSize}
  BY DEF random_price
<1>2. lo \in Nat /\ hi \in Nat /\ lo <= hi /\ OnTick(lo) /\ OnTick(hi)
  OBVIOUS
<1> HIDE DEF lo, hi
<1>3. PICK step \in 0 .. (hi - lo) \div TickSize : p = lo + step * TickSize
  BY <1>1
<1>4. (hi - lo) \div TickSize \in Nat
  BY <1>2, ConfigFacts
<1>5. p \in Nat /\ (a <= b => p <= b) /\ (b <= a => p <= a)
  <2>1. random_price(b, a) = random_price(a, b)
    BY DEF random_price
  <2> QED BY <2>1, RandomPriceInRange
<1>6. p <= MaxPrice
  BY <1>5, ConfigFacts DEF OnTick
<1>7. PICK k \in Nat : lo = MinPrice + k * TickSize
  BY <1>2 DEF OnTick
<1>8. step \in Nat
  BY <1>3, <1>4
<1>9. p = MinPrice + (k + step) * TickSize /\ k + step \in Nat
  BY <1>2, <1>3, <1>5, <1>7, <1>8, ConfigFacts, TicksAdd
<1> QED BY <1>6, <1>9 DEF OnTick

LEMMA EndsOnTick ==
  ASSUME PricesFit
  PROVE  /\ OnTick(MinPrice) /\ OnTick(MidPrice) /\ OnTick(MaxPrice)
         /\ OnTick(mid_plus(1)) /\ OnTick(mid_plus(-1))
         /\ "deep_book" \in Workloads => OnTick(mid_plus(5)) /\ OnTick(mid_plus(-5))
<1>1. \A x \in 0 .. PriceMod - 1 : x % PriceMod = x
  BY ConfigFacts
<1>2. mid_plus(1) = MidPrice + TickSize /\ mid_plus(-1) = MidPrice - TickSize
  <2>1. /\ MidPrice + TickSize \in 0 .. PriceMod - 1
        /\ MidPrice - TickSize \in 0 .. PriceMod - 1
    BY ConfigFacts DEF PricesFit
  <2>2. /\ MidPrice + 1 * TickSize = MidPrice + TickSize
        /\ MidPrice + (-1) * TickSize = MidPrice - TickSize
    BY ConfigFacts
  <2> QED BY <1>1, <2>1, <2>2 DEF mid_plus
<1>3. ASSUME "deep_book" \in Workloads
      PROVE  mid_plus(5) = MidPrice + 5 * TickSize /\ mid_plus(-5) = MidPrice - 5 * TickSize
  <2>1. /\ MidPrice + 5 * TickSize \in 0 .. PriceMod - 1
        /\ MidPrice - 5 * TickSize \in 0 .. PriceMod - 1
    BY <1>3, ConfigFacts DEF PricesFit
  <2>2. MidPrice + (-5) * TickSize = MidPrice - 5 * TickSize
    BY ConfigFacts
  <2> QED BY <1>1, <2>1, <2>2 DEF mid_plus
<1>4. \A x, y \in Nat : x >= y /\ (x - y) % TickSize = 0 =>
        \E k \in Nat : x = y + k * TickSize
  <2> SUFFICES ASSUME NEW x \in Nat, NEW y \in Nat, x >= y, (x - y) % TickSize = 0
               PROVE  \E k \in Nat : x = y + k * TickSize
    OBVIOUS
  <2>1. PICK d \in Nat : d = x - y
    OBVIOUS
  <2>2. PICK k : k = d \div TickSize
    OBVIOUS
  <2>3. k \in Nat /\ d = k * TickSize
    BY <2>1, <2>2, ConfigFacts
  <2>4. x = y + k * TickSize
    BY <2>1, <2>3, ConfigFacts
  <2> QED BY <2>3, <2>4
<1>5. OnTick(MinPrice) /\ OnTick(MaxPrice)
  <2>1. MinPrice <= MaxPrice /\ MinPrice = MinPrice + 0 * TickSize
    BY ConfigFacts DEF PricesFit
  <2>2. \E k \in Nat : MaxPrice = MinPrice + k * TickSize
    BY <1>4, <2>1, ConfigFacts DEF PricesFit
  <2>3. \E k \in Nat : MinPrice = MinPrice + k * TickSize
    <3> WITNESS 0 \in Nat
    <3> QED BY <2>1
  <2>4. MaxPrice <= MaxPrice
    BY ConfigFacts
  <2> QED BY <2>1, <2>2, <2>3, <2>4, Zenon DEF OnTick
<1>6. PICK m \in Nat : MidPrice = MinPrice + m * TickSize
  <2>1. MidPrice >= MinPrice
    BY ConfigFacts DEF PricesFit
  <2> QED BY <1>4, <2>1, ConfigFacts DEF PricesFit
<1>7. m >= 1
  <2>1. CASE m = 0
    <3>1. m * TickSize = 0
      BY <2>1, ConfigFacts
    <3> QED BY <1>6, <3>1, ConfigFacts DEF PricesFit
  <2> QED BY <2>1
<1>8. OnTick(MidPrice) /\ OnTick(MidPrice + TickSize) /\ OnTick(MidPrice - TickSize)
  <2>1. /\ MidPrice + TickSize = MinPrice + (m + 1) * TickSize
        /\ MidPrice - TickSize = MinPrice + (m - 1) * TickSize
        /\ m + 1 \in Nat /\ m - 1 \in Nat
    BY <1>6, <1>7, ConfigFacts
  <2>2. MidPrice <= MaxPrice /\ MidPrice + TickSize <= MaxPrice /\ MidPrice - TickSize <= MaxPrice
    BY ConfigFacts DEF PricesFit
  <2> QED BY <1>6, <2>1, <2>2 DEF OnTick
<1>9. ASSUME "deep_book" \in Workloads
      PROVE  OnTick(MidPrice + 5 * TickSize) /\ OnTick(MidPrice - 5 * TickSize)
  <2>1. MinPrice + 5 * TickSize <= MidPrice /\ MidPrice + 5 * TickSize <= MaxPrice
    BY <1>9 DEF PricesFit
  <2>2. m >= 5
    <3>1. CASE m \in {0, 1, 2, 3, 4}
      <4>1. m * TickSize \in {0, TickSize, 2 * TickSize, 3 * TickSize, 4 * TickSize}
        BY <3>1, ConfigFacts
      <4> QED BY <1>6, <2>1, <4>1, ConfigFacts
    <3> QED BY <3>1
  <2>3. /\ MidPrice + 5 * TickSize = MinPrice + (m + 5) * TickSize
        /\ MidPrice - 5 * TickSize = MinPrice + (m - 5) * TickSize
        /\ m + 5 \in Nat /\ m - 5 \in Nat
    BY <1>6, <2>2, ConfigFacts
  <2>4. MidPrice - 5 * TickSize <= MaxPrice
    BY <2>1, ConfigFacts
  <2> QED BY <2>1, <2>3, <2>4 DEF OnTick
<1> QED BY <1>2, <1>3, <1>5, <1>8, <1>9

LEMMA LimitPricesFit ==
  ASSUME PricesFit, name \in Workloads, NEW price, IsLimitPrice(price)
  PROVE  OnTick(price)
<1>1. /\ MinPrice \in Nat /\ MaxPrice \in Nat
      /\ \A ticks \in {-5, -1, 1, 5} : mid_plus(ticks) \in Nat
  BY ConfigFacts, MidPlusType
<1>2. ASSUME NEW side \in BookSides, price \in passive_price(side) \cup aggressive_price(side)
      PROVE  OnTick(price)
  <2>1. price \in random_price(MinPrice, mid_plus(-1)) \cup random_price(mid_plus(1), MaxPrice)
    BY <1>2 DEF passive_price, aggressive_price
  <2> QED BY <1>1, <2>1, EndsOnTick, RandomPriceOnTick
<1>3. ASSUME NEW side \in BookSides, name = "deep_book", price \in narrow_price(side)
      PROVE  OnTick(price)
  <2>1. price \in random_price(mid_plus(-5), mid_plus(-1)) \cup random_price(mid_plus(1), mid_plus(5))
    BY <1>3 DEF narrow_price
  <2> QED BY <1>1, <1>3, <2>1, EndsOnTick, RandomPriceOnTick
<1> QED BY <1>2, <1>3, EndsOnTick DEF IsLimitPrice

-----------------------------------------------------------------------------
(***************************************************************************)
(* The theorems.                                                           *)
(***************************************************************************)

\* GeneratorInv holds for every trace that generate_workload() can build.
THEOREM TracesAreSound == GeneratorSpec => []GeneratorInv
<1> QED BY GeneratorInvStep, InitialTrace, PTL DEF GeneratorSpec

\* Cancels and modifies name orders of the trace that are not cancelled, and no
\* identifier is created twice.
THEOREM LiveOrdersAreNamed == GeneratorSpec => []TraceNamesLiveOrders
<1>1. GeneratorInv => TraceNamesLiveOrders
  BY DEF GeneratorInv
<1> QED BY <1>1, TracesAreSound, PTL

\* The orders of a passive workload never cross, whatever the middle, the tick and
\* the range are, as long as SoundConfig holds.
THEOREM PassiveOrdersDoNotCross == GeneratorSpec => []PassivePricesDoNotCross
<1>1. GeneratorInv => PassivePricesDoNotCross
  <2> SUFFICES ASSUME GeneratorInv, name \in PassiveWorkloads, SoundConfig,
                      NEW j \in DOMAIN trace, NEW k \in DOMAIN trace,
                      trace[j].side = "Buy", trace[k].side = "Sell"
               PROVE  trace[j].price < trace[k].price
    BY DEF PassivePricesDoNotCross
  <2>1. trace[j].price < MidPrice /\ trace[k].price > MidPrice
    BY DEF GeneratorInv, PricesAreOfTheirSide
  <2>2. trace[j].price \in Nat /\ trace[k].price \in Nat
    <3>1. trace[j] \in BenchRequest /\ trace[k] \in BenchRequest
      BY DEF GeneratorInv, GeneratorTypeOK
    <3> QED BY <3>1 DEF BenchRequest
  <2> QED BY <2>1, <2>2, ConfigFacts
<1> QED BY <1>1, TracesAreSound, PTL
=============================================================================
