--------------------------- MODULE MapBook_proofs ---------------------------
(***************************************************************************)
(* MapBook, for every set of requests: IInv is inductive, the safety       *)
(* properties of its maps, lists and iterators follow from it, and the     *)
(* book implements PriceTimeBook.                                          *)
(***************************************************************************)
EXTENDS MapProperties, OrderHandler_proofs, FiniteSetTheorems

-----------------------------------------------------------------------------
(***************************************************************************)
(* Lists and maps.                                                         *)
(***************************************************************************)

\* erase(it): the list without its k-th order.
LEMMA RemoveAtProperties ==
  ASSUME NEW S, NEW list \in Seq(S), NEW k \in 1 .. Len(list)
  PROVE  /\ RemoveAt(list, k) \in Seq(S)
         /\ Len(RemoveAt(list, k)) = Len(list) - 1
         /\ \A j \in 1 .. Len(list) - 1 :
              RemoveAt(list, k)[j] = list[IF j < k THEN j ELSE j + 1]
<1> DEFINE before == SubSeq(list, 1, k - 1)
           after == SubSeq(list, k + 1, Len(list))
<1>1. Len(list) \in Nat /\ \A i \in 1 .. Len(list) : list[i] \in S
  BY ElementOfSeq, LenProperties
<1>2. /\ before \in Seq(S) /\ Len(before) = k - 1
      /\ \A i \in 1 .. k - 1 : before[i] = list[i]
  <2>1. \A i \in 1 .. k - 1 : list[i] \in S
    BY <1>1
  <2> QED BY <1>1, <2>1, SubSeqProperties
<1>3. /\ after \in Seq(S) /\ Len(after) = Len(list) - k
      /\ \A i \in 1 .. Len(list) - k : after[i] = list[k + i]
  <2>1. \A i \in k + 1 .. Len(list) : list[i] \in S
    BY <1>1
  <2> QED BY <1>1, <2>1, SubSeqProperties
<1> HIDE DEF before, after
<1>4. /\ before \o after \in Seq(S)
      /\ Len(before \o after) = Len(before) + Len(after)
      /\ \A i \in 1 .. Len(before) + Len(after) :
           (before \o after)[i] = IF i <= Len(before) THEN before[i] ELSE after[i - Len(before)]
  BY <1>2, <1>3, ConcatProperties
<1>5. RemoveAt(list, k) = before \o after
  BY DEF RemoveAt, before, after
<1>6. ASSUME NEW j \in 1 .. Len(list) - 1
      PROVE  (before \o after)[j] = list[IF j < k THEN j ELSE j + 1]
  <2>1. (before \o after)[j] = IF j <= k - 1 THEN before[j] ELSE after[j - (k - 1)]
    BY <1>1, <1>2, <1>3, <1>4
  <2>2. CASE j < k
    BY <1>1, <1>2, <2>1, <2>2
  <2>3. CASE ~(j < k)
    <3>1. /\ j - (k - 1) \in 1 .. Len(list) - k /\ k + (j - (k - 1)) = j + 1
          /\ ~(j <= k - 1)
      BY <1>1, <2>3
    <3>2. after[j - (k - 1)] = list[k + (j - (k - 1))]
      BY <1>3, <3>1
    <3> QED BY <2>1, <2>3, <3>1, <3>2
  <2> QED BY <2>2, <2>3
<1>7. Len(before) + Len(after) = Len(list) - 1
  BY <1>1, <1>2, <1>3
<1> QED BY <1>4, <1>5, <1>6, <1>7

\* begin() of a map that is not empty: a finite set of prices has a greatest one.
LEMMA GreatestExists ==
  ASSUME NEW S \in SUBSET Nat, IsFiniteSet(S)
  PROVE  \E b \in Nat : \A x \in S : x <= b
<1> DEFINE Bounded(U) == \E b \in Nat : \A x \in U : x <= b
           Sizes == {n \in Nat : \E U \in SUBSET Nat :
                                   IsFiniteSet(U) /\ Cardinality(U) = n /\ ~Bounded(U)}
<1> SUFFICES ASSUME ~Bounded(S) PROVE FALSE
  OBVIOUS
<1>1. Sizes \in SUBSET Nat /\ Sizes # {}
  BY FS_CardinalityType
<1>2. PICK n \in Sizes : \A m \in Sizes : n <= m
  <2> HIDE DEF Sizes
  <2> QED BY <1>1, LeastExists
<1>3. PICK U \in SUBSET Nat : IsFiniteSet(U) /\ Cardinality(U) = n /\ ~Bounded(U)
  OBVIOUS
<1>4. PICK x \in U : TRUE
  <2>1. U # {}
    BY <1>3
  <2> QED BY <2>1
<1>5. /\ IsFiniteSet(U \ {x}) /\ Cardinality(U \ {x}) = n - 1
      /\ n - 1 \in Nat
  <2>1. IsFiniteSet(U \ {x}) /\ Cardinality(U \ {x}) = Cardinality(U) - 1
    BY <1>3, <1>4, FS_RemoveElement
  <2>2. Cardinality(U \ {x}) \in Nat
    BY <2>1, FS_CardinalityType
  <2> QED BY <1>3, <2>1, <2>2
<1>6. Bounded(U \ {x})
  <2>1. n - 1 \notin Sizes
    <3> HIDE DEF Sizes
    <3> QED BY <1>1, <1>2, <1>5
  <2> QED BY <1>5, <2>1
<1>7. PICK b \in Nat : \A y \in U \ {x} : y <= b
  BY <1>6
<1>8. Bounded(U)
  <2>1. b + x \in Nat /\ \A y \in U : y <= b + x
    BY <1>4, <1>7
  <2> QED BY <2>1
<1> QED BY <1>3, <1>8

LEMMA LevelType ==
  ASSUME MapTypeOK, NEW s \in BookSides, NEW p \in DOMAIN levels[s]
  PROVE  /\ p \in Nat
         /\ levels[s][p].total_quantity \in 0 .. QuantityMod - 1
         /\ OrdersAt(s, p) \in Seq(Order)
         /\ Len(OrdersAt(s, p)) \in Nat
         /\ DOMAIN OrdersAt(s, p) = 1 .. Len(OrdersAt(s, p))
         /\ \A i \in DOMAIN OrdersAt(s, p) : OrdersAt(s, p)[i] \in Order
<1>1. p \in Nat /\ levels[s][p] \in PriceLevel
  BY DEF MapTypeOK
<1>2. OrdersAt(s, p) \in Seq(Order)
  BY <1>1 DEF PriceLevel, OrdersAt
<1> QED BY <1>1, <1>2, LenProperties, ElementOfSeq DEF PriceLevel

\* The level of price p on side s is the only one that may differ afterwards.
SameElsewhere(s, p) ==
  \A t \in BookSides : \A q : ~(t = s /\ q = p) =>
    /\ q \in DOMAIN levels'[t] <=> q \in DOMAIN levels[t]
    /\ q \in DOMAIN levels[t] => levels'[t][q] = levels[t][q]

LEMMA LevelSet ==
  ASSUME MapTypeOK, NEW s \in BookSides, NEW p \in Nat, NEW level \in PriceLevel,
         levels' = level_set(s, p, level)
  PROVE  /\ SameElsewhere(s, p)
         /\ DOMAIN levels' = BookSides
         /\ p \in DOMAIN levels'[s] <=> level.orders # <<>>
         /\ p \in DOMAIN levels'[s] => levels'[s][p] = level
         /\ MapsAreFinite => MapsAreFinite'
<1>1. DOMAIN levels = BookSides
  BY DEF MapTypeOK
<1>2. DOMAIN levels' = BookSides /\ \A t \in BookSides \ {s} : levels'[t] = levels[t]
  BY <1>1 DEF level_set
<1>3. CASE level.orders = <<>>
  <2>1. levels'[s] = Restrict(levels[s], DOMAIN levels[s] \ {p})
    BY <1>1, <1>3 DEF level_set
  <2>2. /\ DOMAIN levels'[s] = DOMAIN levels[s] \ {p}
        /\ \A q \in DOMAIN levels[s] \ {p} : levels'[s][q] = levels[s][q]
    BY <2>1 DEF Restrict
  <2>3. MapsAreFinite => MapsAreFinite'
    BY <1>2, <2>2, FS_RemoveElement DEF MapsAreFinite
  <2> QED BY <1>2, <1>3, <2>2, <2>3 DEF SameElsewhere
<1>4. CASE level.orders # <<>>
  <2>1. levels'[s] = [q \in DOMAIN levels[s] \cup {p} |->
                        IF q = p THEN level ELSE levels[s][q]]
    BY <1>1, <1>4 DEF level_set
  <2>2. /\ DOMAIN levels'[s] = DOMAIN levels[s] \cup {p}
        /\ levels'[s][p] = level
        /\ \A q \in DOMAIN levels[s] \ {p} : levels'[s][q] = levels[s][q]
    BY <2>1
  <2>3. MapsAreFinite => MapsAreFinite'
    BY <1>2, <2>2, FS_AddElement DEF MapsAreFinite
  <2> QED BY <1>2, <1>4, <2>2, <2>3 DEF SameElsewhere
<1> QED BY <1>3, <1>4

LEMMA LevelSetType ==
  ASSUME MapTypeOK, NEW s \in BookSides, NEW p \in Nat, NEW level \in PriceLevel,
         levels' = level_set(s, p, level), order_lookup' \in [OrderIds -> OrderLocation]
  PROVE  MapTypeOK'
<1>1. /\ SameElsewhere(s, p) /\ DOMAIN levels' = BookSides
      /\ p \in DOMAIN levels'[s] => levels'[s][p] = level
  BY LevelSet
<1>2. ASSUME NEW t \in BookSides, NEW q \in DOMAIN levels'[t]
      PROVE  q \in Nat /\ levels'[t][q] \in PriceLevel
  <2>1. CASE t = s /\ q = p
    BY <1>1, <1>2, <2>1
  <2>2. CASE ~(t = s /\ q = p)
    BY <1>1, <1>2, <2>2 DEF SameElsewhere, MapTypeOK
  <2> QED BY <2>1, <2>2
<1> QED BY <1>1, <1>2 DEF MapTypeOK

-----------------------------------------------------------------------------
(***************************************************************************)
(* Orders and the iterators that lead to them.                             *)
(***************************************************************************)

\* An identifier is in one place only.
LEMMA OnePlace ==
  ASSUME MapTypeOK, BookIsSound,
         NEW s \in BookSides, NEW p \in DOMAIN levels[s], NEW i \in DOMAIN OrdersAt(s, p),
         NEW t \in BookSides, NEW q \in DOMAIN levels[t], NEW j \in DOMAIN OrdersAt(t, q),
         OrdersAt(s, p)[i].order_id = OrdersAt(t, q)[j].order_id
  PROVE  s = t /\ p = q /\ i = j
<1>1. [side |-> s, price |-> p, it |-> OrdersAt(s, p)[i].sequence_number]
        = [side |-> t, price |-> q, it |-> OrdersAt(t, q)[j].sequence_number]
  BY DEF BookIsSound, OrdersAreSound
<1>2. s = t /\ p = q /\ OrdersAt(s, p)[i].sequence_number = OrdersAt(t, q)[j].sequence_number
  BY <1>1
<1>3. i \in Nat /\ j \in Nat /\ OrdersAt(s, p)[i].sequence_number \in Nat
  <2>1. OrdersAt(s, p)[i] \in Order /\ i \in Nat /\ j \in Nat
    BY <1>2, LevelType
  <2> QED BY <2>1 DEF Order
<1>4. ~(i < j) /\ ~(j < i)
  BY <1>2, <1>3 DEF BookIsSound, ListsAreInArrivalOrder
<1> QED BY <1>2, <1>3, <1>4

\* Where the iterator of an order leads.
LEMMA IteratorOfPlace ==
  ASSUME MapTypeOK, BookIsSound,
         NEW s \in BookSides, NEW p \in DOMAIN levels[s], NEW i \in DOMAIN OrdersAt(s, p)
  PROVE  /\ OrdersAt(s, p)[i].order_id \in OrderIds
         /\ contains_order(OrdersAt(s, p)[i].order_id)
         /\ order_lookup[OrdersAt(s, p)[i].order_id] =
              [side |-> s, price |-> p, it |-> OrdersAt(s, p)[i].sequence_number]
         /\ position(order_lookup[OrdersAt(s, p)[i].order_id]) = i
         /\ order_at(order_lookup[OrdersAt(s, p)[i].order_id]) = OrdersAt(s, p)[i]
<1>a. PICK id : id = OrdersAt(s, p)[i].order_id
  OBVIOUS
<1>1. /\ id \in OrderIds
      /\ order_lookup[id] =
              [side |-> s, price |-> p, it |-> OrdersAt(s, p)[i].sequence_number]
  BY <1>a DEF BookIsSound, OrdersAreSound
<1>2. contains_order(id)
  BY <1>1 DEF contains_order, NoLocation, BookSides
<1>3. \A j \in DOMAIN OrdersAt(s, p) :
        OrdersAt(s, p)[j].sequence_number = OrdersAt(s, p)[i].sequence_number => j = i
  <2> SUFFICES ASSUME NEW j \in DOMAIN OrdersAt(s, p),
                      OrdersAt(s, p)[j].sequence_number = OrdersAt(s, p)[i].sequence_number
               PROVE  j = i
    OBVIOUS
  <2>1. i \in Nat /\ j \in Nat /\ OrdersAt(s, p)[i].sequence_number \in Nat
    <3>1. OrdersAt(s, p)[i] \in Order /\ i \in Nat /\ j \in Nat
      BY LevelType
    <3> QED BY <3>1 DEF Order
  <2>2. ~(i < j) /\ ~(j < i)
    BY <2>1 DEF BookIsSound, ListsAreInArrivalOrder
  <2> QED BY <2>1, <2>2
<1>4. position(order_lookup[id]) = i
  BY <1>1, <1>3 DEF position, OrdersAt
<1>5. order_at(order_lookup[id]) = OrdersAt(s, p)[i]
  BY <1>1, <1>4 DEF order_at, OrdersAt
<1> QED BY <1>1, <1>2, <1>4, <1>5, <1>a

\* The place of an identifier that the lookup holds.
LEMMA PlaceOfId ==
  ASSUME MapTypeOK, BookIsSound, NEW id \in OrderIds, contains_order(id)
  PROVE  \E s \in BookSides : \E p \in DOMAIN levels[s] : \E i \in DOMAIN OrdersAt(s, p) :
           /\ OrdersAt(s, p)[i].order_id = id
           /\ order_lookup[id] =
                [side |-> s, price |-> p, it |-> OrdersAt(s, p)[i].sequence_number]
           /\ position(order_lookup[id]) = i
           /\ order_at(order_lookup[id]) = OrdersAt(s, p)[i]
<1> DEFINE IsAt(s, p, i) ==
      /\ OrdersAt(s, p)[i].order_id = id
      /\ order_lookup[id] =
           [side |-> s, price |-> p, it |-> OrdersAt(s, p)[i].sequence_number]
<1>a. PICK s \in BookSides : \E p \in DOMAIN levels[s] : \E i \in DOMAIN OrdersAt(s, p) :
        IsAt(s, p, i)
  BY DEF BookIsSound, NoDanglingIterator
<1>b. PICK p \in DOMAIN levels[s] : \E i \in DOMAIN OrdersAt(s, p) : IsAt(s, p, i)
  BY <1>a
<1>1. PICK i \in DOMAIN OrdersAt(s, p) : IsAt(s, p, i)
  BY <1>b
<1>2. position(order_lookup[id]) = i /\ order_at(order_lookup[id]) = OrdersAt(s, p)[i]
  BY <1>1, IteratorOfPlace
<1> QED BY <1>1, <1>2

-----------------------------------------------------------------------------
(***************************************************************************)
(* What a change of one level does to the book.                            *)
(***************************************************************************)

LEMMA UnchangedBookIsSound ==
  ASSUME MapTypeOK, BookIsSound, UNCHANGED bookVars,
         next_sequence_number \in Nat,
         next_sequence_number' \in {next_sequence_number, next_sequence_number + 1}
  PROVE  MapTypeOK' /\ BookIsSound'
<1>1. levels' = levels /\ order_lookup' = order_lookup
  BY DEF bookVars
<1>2. MapTypeOK' /\ NoDanglingIterator' /\ ListsAreInArrivalOrder' /\ NeverCrossed'
        /\ MapsAreFinite'
  BY <1>1 DEF MapTypeOK, BookIsSound, NoDanglingIterator, ListsAreInArrivalOrder, NeverCrossed,
              MapsAreFinite, contains_order, OrdersAt
<1>3. OrdersAreSound'
  <2> SUFFICES ASSUME NEW s \in BookSides, NEW p \in DOMAIN levels[s]
               PROVE  /\ OrdersAt(s, p)' # <<>>
                      /\ \A i \in DOMAIN OrdersAt(s, p)' : LET o == OrdersAt(s, p)'[i] IN
                           /\ o.side = s /\ o.price = p /\ o.remaining_quantity > 0 /\ o.symbol_id # 0
                           /\ o.sequence_number < next_sequence_number'
                           /\ o.order_id \in OrderIds
                           /\ order_lookup'[o.order_id] =
                                [side |-> s, price |-> p, it |-> o.sequence_number]
    BY <1>1 DEF OrdersAreSound
  <2>1. OrdersAt(s, p)' = OrdersAt(s, p)
    BY <1>1 DEF OrdersAt
  <2>2. \A i \in DOMAIN OrdersAt(s, p) : OrdersAt(s, p)[i].sequence_number \in Nat
    <3>1. \A i \in DOMAIN OrdersAt(s, p) : OrdersAt(s, p)[i] \in Order
      BY LevelType
    <3> QED BY <3>1 DEF Order
  <2>3. \A i \in DOMAIN OrdersAt(s, p) :
          OrdersAt(s, p)[i].sequence_number < next_sequence_number'
    <3>1. \A i \in DOMAIN OrdersAt(s, p) :
            OrdersAt(s, p)[i].sequence_number < next_sequence_number
      BY DEF BookIsSound, OrdersAreSound
    <3> QED BY <2>2, <3>1
  <2>4. /\ OrdersAt(s, p) # <<>>
        /\ \A i \in DOMAIN OrdersAt(s, p) : LET o == OrdersAt(s, p)[i] IN
             /\ o.side = s /\ o.price = p /\ o.remaining_quantity > 0 /\ o.symbol_id # 0
             /\ o.order_id \in OrderIds
             /\ order_lookup'[o.order_id] = [side |-> s, price |-> p, it |-> o.sequence_number]
    BY <1>1 DEF BookIsSound, OrdersAreSound
  <2> QED BY <2>1, <2>3, <2>4
<1> QED BY <1>2, <1>3 DEF BookIsSound

\* An order that stays at its place, whatever is left of it.
SamePlace(a, b) ==
  /\ a.order_id = b.order_id /\ a.symbol_id = b.symbol_id
  /\ a.side = b.side /\ a.price = b.price /\ a.sequence_number = b.sequence_number
  /\ a.remaining_quantity > 0

\* The list of a level becomes `left': f tells which orders it keeps, and `gone'
\* are the identifiers of the others.
KeepsSome(s, p, left, f, gone) ==
  /\ left \in Seq(Order)
  /\ f \in [1 .. Len(left) -> DOMAIN OrdersAt(s, p)]
  /\ \A i, j \in 1 .. Len(left) : i < j => f[i] < f[j]
  /\ \A j \in 1 .. Len(left) : SamePlace(left[j], OrdersAt(s, p)[f[j]])
  /\ gone \in SUBSET OrderIds
  /\ \A id \in gone : \E k \in DOMAIN OrdersAt(s, p) : OrdersAt(s, p)[k].order_id = id
  /\ \A j \in 1 .. Len(left) : left[j].order_id \notin gone
  /\ \A k \in DOMAIN OrdersAt(s, p) :
       OrdersAt(s, p)[k].order_id \in gone \/ \E j \in 1 .. Len(left) : f[j] = k

lookup_without(gone) ==
  [id \in OrderIds |-> IF id \in gone THEN NoLocation ELSE order_lookup[id]]

\* No level and no order is new.
NothingIsAdded ==
  \A t \in BookSides : \A q \in DOMAIN levels'[t] :
    /\ q \in DOMAIN levels[t]
    /\ \A i \in DOMAIN OrdersAt(t, q)' : \E k \in DOMAIN OrdersAt(t, q) :
         OrdersAt(t, q)'[i].sequence_number = OrdersAt(t, q)[k].sequence_number

\* An erase from a list, and a partial fill at its front, keep the book sound.
LEMMA ShrinkKeepsBookSound ==
  ASSUME MapTypeOK, BookIsSound, UNCHANGED next_sequence_number,
         NEW s \in BookSides, NEW p \in DOMAIN levels[s],
         NEW left, NEW f, NEW gone, KeepsSome(s, p, left, f, gone),
         NEW tq \in 0 .. QuantityMod - 1,
         levels' = level_set(s, p, [orders |-> left, total_quantity |-> tq]),
         order_lookup' = lookup_without(gone)
  PROVE  MapTypeOK' /\ BookIsSound' /\ NothingIsAdded
<1> USE DEF KeepsSome, lookup_without
<1> DEFINE level == [orders |-> left, total_quantity |-> tq]
<1>1. level \in PriceLevel /\ p \in Nat /\ level.orders = left
  BY LevelType DEF PriceLevel
<1>2. order_lookup' \in [OrderIds -> OrderLocation]
  BY DEF MapTypeOK, OrderLocation, NoLocation, Sides
<1>3. /\ SameElsewhere(s, p)
      /\ DOMAIN levels' = BookSides
      /\ p \in DOMAIN levels'[s] <=> left # <<>>
      /\ p \in DOMAIN levels'[s] => OrdersAt(s, p)' = left
      /\ MapsAreFinite'
  <2> HIDE DEF level
  <2>1. levels' = level_set(s, p, level)
    BY DEF level
  <2>2. /\ SameElsewhere(s, p)
        /\ DOMAIN levels' = BookSides
        /\ p \in DOMAIN levels'[s] <=> level.orders # <<>>
        /\ p \in DOMAIN levels'[s] => levels'[s][p] = level
        /\ MapsAreFinite => MapsAreFinite'
    BY <1>1, <2>1, LevelSet
  <2> QED BY <1>1, <2>2 DEF OrdersAt, BookIsSound
<1>4. MapTypeOK'
  <2> HIDE DEF level
  <2>1. levels' = level_set(s, p, level)
    BY DEF level
  <2> QED BY <1>1, <1>2, <2>1, LevelSetType
<1>5. Len(left) \in Nat /\ DOMAIN left = 1 .. Len(left)
  BY LenProperties
<1>6. ASSUME NEW t \in BookSides, NEW q \in DOMAIN levels'[t]
      PROVE  /\ q \in DOMAIN levels[t]
             /\ ~(t = s /\ q = p) => OrdersAt(t, q)' = OrdersAt(t, q)
  <2>1. CASE t = s /\ q = p
    BY <2>1
  <2>2. CASE ~(t = s /\ q = p)
    BY <1>3, <1>6, <2>2 DEF SameElsewhere, OrdersAt
  <2> QED BY <2>1, <2>2
<1>7. ASSUME NEW t \in BookSides, NEW q \in DOMAIN levels'[t],
             NEW i \in DOMAIN OrdersAt(t, q)'
      PROVE  \E k \in DOMAIN OrdersAt(t, q) :
               /\ SamePlace(OrdersAt(t, q)'[i], OrdersAt(t, q)[k])
               /\ OrdersAt(t, q)[k].order_id \notin gone
  <2>0. q \in DOMAIN levels[t]
    BY <1>6
  <2>1. CASE t = s /\ q = p
    <3>1. OrdersAt(t, q)' = left /\ i \in 1 .. Len(left)
      BY <1>3, <1>5, <1>7, <2>1
    <3>2. f[i] \in DOMAIN OrdersAt(s, p) /\ SamePlace(left[i], OrdersAt(s, p)[f[i]])
      BY <3>1
    <3>3. OrdersAt(s, p)[f[i]].order_id \notin gone
      BY <3>1, <3>2 DEF SamePlace
    <3> QED BY <2>1, <3>1, <3>2, <3>3
  <2>2. CASE ~(t = s /\ q = p)
    <3>1. OrdersAt(t, q)' = OrdersAt(t, q) /\ i \in DOMAIN OrdersAt(t, q)
      BY <1>6, <2>2
    <3>2. OrdersAt(t, q)[i].remaining_quantity > 0
      BY <2>0, <3>1 DEF BookIsSound, OrdersAreSound
    <3>3. OrdersAt(t, q)[i].order_id \notin gone
      <4> SUFFICES ASSUME OrdersAt(t, q)[i].order_id \in gone PROVE FALSE
        OBVIOUS
      <4>1. PICK k \in DOMAIN OrdersAt(s, p) :
              OrdersAt(s, p)[k].order_id = OrdersAt(t, q)[i].order_id
        OBVIOUS
      <4> QED BY <2>0, <2>2, <3>1, <4>1, OnePlace
    <3> QED BY <3>1, <3>2, <3>3 DEF SamePlace
  <2> QED BY <2>1, <2>2
<1>8. OrdersAreSound'
  <2> SUFFICES ASSUME NEW t \in BookSides, NEW q \in DOMAIN levels'[t]
               PROVE  /\ OrdersAt(t, q)' # <<>>
                      /\ \A i \in DOMAIN OrdersAt(t, q)' : LET o == OrdersAt(t, q)'[i] IN
                           /\ o.side = t /\ o.price = q /\ o.remaining_quantity > 0 /\ o.symbol_id # 0
                           /\ o.sequence_number < next_sequence_number'
                           /\ o.order_id \in OrderIds
                           /\ order_lookup'[o.order_id] =
                                [side |-> t, price |-> q, it |-> o.sequence_number]
    BY DEF OrdersAreSound
  <2>1. q \in DOMAIN levels[t] /\ OrdersAt(t, q)' # <<>>
    BY <1>3, <1>6 DEF BookIsSound, OrdersAreSound
  <2>2. ASSUME NEW i \in DOMAIN OrdersAt(t, q)'
        PROVE  LET o == OrdersAt(t, q)'[i] IN
                 /\ o.side = t /\ o.price = q /\ o.remaining_quantity > 0 /\ o.symbol_id # 0
                 /\ o.sequence_number < next_sequence_number'
                 /\ o.order_id \in OrderIds
                 /\ order_lookup'[o.order_id] =
                      [side |-> t, price |-> q, it |-> o.sequence_number]
    <3>1. PICK k \in DOMAIN OrdersAt(t, q) :
            /\ SamePlace(OrdersAt(t, q)'[i], OrdersAt(t, q)[k])
            /\ OrdersAt(t, q)[k].order_id \notin gone
      BY <1>7, <2>2
    <3>2. LET o == OrdersAt(t, q)[k] IN
            /\ o.side = t /\ o.price = q /\ o.symbol_id # 0
            /\ o.sequence_number < next_sequence_number
            /\ o.order_id \in OrderIds
            /\ order_lookup[o.order_id] = [side |-> t, price |-> q, it |-> o.sequence_number]
      BY <2>1 DEF BookIsSound, OrdersAreSound
    <3> QED BY <3>1, <3>2 DEF SamePlace
  <2> QED BY <2>1, <2>2
<1>9. NoDanglingIterator'
  <2> SUFFICES ASSUME NEW id \in OrderIds, contains_order(id)'
               PROVE  \E t \in BookSides : \E q \in DOMAIN levels'[t] :
                        \E j \in DOMAIN OrdersAt(t, q)' :
                          LET o == OrdersAt(t, q)'[j]
                          IN  /\ o.order_id = id
                              /\ order_lookup'[id] =
                                   [side |-> t, price |-> q, it |-> o.sequence_number]
    BY DEF NoDanglingIterator
  <2>1. id \notin gone /\ order_lookup'[id] = order_lookup[id] /\ contains_order(id)
    BY DEF contains_order, NoLocation
  <2> DEFINE WasAt(t, q, i) ==
        /\ OrdersAt(t, q)[i].order_id = id
        /\ order_lookup[id] =
             [side |-> t, price |-> q, it |-> OrdersAt(t, q)[i].sequence_number]
  <2>a. PICK t \in BookSides : \E q \in DOMAIN levels[t] : \E i \in DOMAIN OrdersAt(t, q) :
          WasAt(t, q, i)
    BY <2>1 DEF BookIsSound, NoDanglingIterator
  <2>b. PICK q \in DOMAIN levels[t] : \E i \in DOMAIN OrdersAt(t, q) : WasAt(t, q, i)
    BY <2>a
  <2>2. PICK i \in DOMAIN OrdersAt(t, q) : WasAt(t, q, i)
    BY <2>b
  <2>3. CASE t = s /\ q = p
    <3>1. PICK j \in 1 .. Len(left) : f[j] = i
      BY <2>1, <2>2, <2>3
    <3>2. left # <<>>
      BY <1>5, <3>1
    <3>3. p \in DOMAIN levels'[s] /\ OrdersAt(s, p)' = left
      BY <1>3, <3>2
    <3>4. left[j].sequence_number = OrdersAt(s, p)[i].sequence_number
            /\ left[j].order_id = OrdersAt(s, p)[i].order_id
      BY <3>1 DEF SamePlace
    <3> QED BY <1>5, <2>1, <2>2, <2>3, <3>3, <3>4
  <2>4. CASE ~(t = s /\ q = p)
    <3>1. q \in DOMAIN levels'[t] /\ OrdersAt(t, q)' = OrdersAt(t, q)
      BY <1>3, <2>4 DEF SameElsewhere, OrdersAt
    <3> QED BY <2>1, <2>2, <3>1
  <2> QED BY <2>3, <2>4
<1>10. ListsAreInArrivalOrder'
  <2> SUFFICES ASSUME NEW t \in BookSides, NEW q \in DOMAIN levels'[t],
                      NEW i \in DOMAIN OrdersAt(t, q)', NEW j \in DOMAIN OrdersAt(t, q)', i < j
               PROVE  OrdersAt(t, q)'[i].sequence_number < OrdersAt(t, q)'[j].sequence_number
    BY DEF ListsAreInArrivalOrder
  <2>1. CASE t = s /\ q = p
    <3>1. OrdersAt(t, q)' = left /\ i \in 1 .. Len(left) /\ j \in 1 .. Len(left)
      BY <1>3, <1>5, <2>1
    <3>2. f[i] < f[j] /\ f[i] \in DOMAIN OrdersAt(s, p) /\ f[j] \in DOMAIN OrdersAt(s, p)
      BY <3>1
    <3>3. OrdersAt(s, p)[f[i]].sequence_number < OrdersAt(s, p)[f[j]].sequence_number
      BY <3>2 DEF BookIsSound, ListsAreInArrivalOrder
    <3> QED BY <3>1, <3>3 DEF SamePlace
  <2>2. CASE ~(t = s /\ q = p)
    BY <1>6, <2>2 DEF BookIsSound, ListsAreInArrivalOrder
  <2> QED BY <2>1, <2>2
<1>11. NeverCrossed'
  BY <1>6 DEF BookIsSound, NeverCrossed, BookSides
<1>12. ASSUME NEW t \in BookSides, NEW q \in DOMAIN levels'[t],
              NEW i \in DOMAIN OrdersAt(t, q)'
       PROVE  \E k \in DOMAIN OrdersAt(t, q) :
                OrdersAt(t, q)'[i].sequence_number = OrdersAt(t, q)[k].sequence_number
  BY <1>7, <1>12 DEF SamePlace
<1> QED BY <1>3, <1>4, <1>6, <1>8, <1>9, <1>10, <1>11, <1>12 DEF BookIsSound, NothingIsAdded

\* The levels after the list of one of them changed.
LEMMA OneLevelChanges ==
  ASSUME MapTypeOK, MapsAreFinite, NEW s \in BookSides, NEW p \in Nat,
         NEW orders \in Seq(Order), NEW tq \in 0 .. QuantityMod - 1,
         levels' = level_set(s, p, [orders |-> orders, total_quantity |-> tq]),
         order_lookup' \in [OrderIds -> OrderLocation]
  PROVE  /\ MapTypeOK' /\ MapsAreFinite'
         /\ p \in DOMAIN levels'[s] <=> orders # <<>>
         /\ p \in DOMAIN levels'[s] => OrdersAt(s, p)' = orders
         /\ \A t \in BookSides : \A q : t # s \/ q # p =>
              /\ q \in DOMAIN levels'[t] <=> q \in DOMAIN levels[t]
              /\ q \in DOMAIN levels[t] => OrdersAt(t, q)' = OrdersAt(t, q)
<1> DEFINE level == [orders |-> orders, total_quantity |-> tq]
<1>1. level \in PriceLevel /\ level.orders = orders
  BY DEF PriceLevel
<1>2. levels' = level_set(s, p, level)
  OBVIOUS
<1> HIDE DEF level
<1>3. MapTypeOK'
  BY <1>1, <1>2, LevelSetType
<1>4. /\ SameElsewhere(s, p)
      /\ p \in DOMAIN levels'[s] <=> level.orders # <<>>
      /\ p \in DOMAIN levels'[s] => levels'[s][p] = level
      /\ MapsAreFinite'
  BY <1>1, <1>2, LevelSet
<1> QED BY <1>1, <1>3, <1>4 DEF SameElsewhere, OrdersAt

\* push_back: an order that is not in the book, is newer than all of them and
\* crosses none becomes the last of its level.
LEMMA PushKeepsBookSound ==
  ASSUME MapTypeOK, BookIsSound, UNCHANGED next_sequence_number,
         NEW s \in BookSides, NEW p \in Nat, NEW o \in Order,
         o.side = s, o.price = p, o.remaining_quantity > 0, o.symbol_id # 0,
         o.sequence_number < next_sequence_number,
         o.order_id \in OrderIds, ~contains_order(o.order_id),
         \A t \in BookSides : \A q \in DOMAIN levels[t] : \A i \in DOMAIN OrdersAt(t, q) :
           OrdersAt(t, q)[i].sequence_number < o.sequence_number,
         s = "Buy" => \A q \in DOMAIN levels["Sell"] : p < q,
         s = "Sell" => \A q \in DOMAIN levels["Buy"] : q < p,
         NEW old \in Seq(Order), old = level_at(s, p).orders,
         NEW tq \in 0 .. QuantityMod - 1,
         levels' = level_set(s, p, [orders |-> Append(old, o), total_quantity |-> tq]),
         order_lookup' = [order_lookup EXCEPT ![o.order_id] =
                            [side |-> s, price |-> p, it |-> o.sequence_number]]
  PROVE  MapTypeOK' /\ BookIsSound'
<1>a. PICK pushed : pushed = Append(old, o)
  OBVIOUS
<1>1. /\ pushed \in Seq(Order) /\ pushed # <<>>
      /\ Len(old) \in Nat /\ DOMAIN old = 1 .. Len(old)
      /\ DOMAIN pushed = 1 .. Len(old) + 1
      /\ \A i \in 1 .. Len(old) : pushed[i] = old[i]
      /\ pushed[Len(old) + 1] = o
  BY <1>a, AppendProperties, LenProperties
<1>4. /\ order_lookup' \in [OrderIds -> OrderLocation]
      /\ order_lookup'[o.order_id] = [side |-> s, price |-> p, it |-> o.sequence_number]
      /\ \A id \in OrderIds \ {o.order_id} : order_lookup'[id] = order_lookup[id]
  <2>1. [side |-> s, price |-> p, it |-> o.sequence_number] \in OrderLocation
    BY DEF OrderLocation, Order, Sides
  <2> QED BY <2>1 DEF MapTypeOK
<1>5. /\ MapTypeOK' /\ MapsAreFinite'
      /\ p \in DOMAIN levels'[s] /\ OrdersAt(s, p)' = pushed
      /\ \A t \in BookSides : \A q : t # s \/ q # p =>
           /\ q \in DOMAIN levels'[t] <=> q \in DOMAIN levels[t]
           /\ q \in DOMAIN levels[t] => OrdersAt(t, q)' = OrdersAt(t, q)
  <2>1. levels' = level_set(s, p, [orders |-> pushed, total_quantity |-> tq])
    BY <1>a
  <2>2. MapsAreFinite
    BY DEF BookIsSound
  <2> QED BY ONLY MapTypeOK, <1>1, <1>4, <2>1, <2>2, OneLevelChanges
<1>6. /\ p \in DOMAIN levels[s] => old = OrdersAt(s, p)
      /\ p \notin DOMAIN levels[s] => DOMAIN old = {}
  BY DEF level_at, OrdersAt, NoLevel
<1>7. ASSUME NEW t \in BookSides, NEW q \in DOMAIN levels'[t],
             NEW i \in DOMAIN OrdersAt(t, q)'
      PROVE  \/ t = s /\ q = p /\ i = Len(old) + 1 /\ OrdersAt(t, q)'[i] = o
             \/ /\ q \in DOMAIN levels[t] /\ i \in DOMAIN OrdersAt(t, q)
                /\ OrdersAt(t, q)'[i] = OrdersAt(t, q)[i]
                /\ t = s /\ q = p => i \in 1 .. Len(old)
  <2>1. CASE t = s /\ q = p
    <3>1. OrdersAt(t, q)' = pushed /\ i \in 1 .. Len(old) + 1
      BY <1>1, <1>5, <1>7, <2>1
    <3>2. CASE i = Len(old) + 1
      BY <1>1, <2>1, <3>1, <3>2
    <3>3. CASE i # Len(old) + 1
      <4>1. i \in DOMAIN old /\ pushed[i] = old[i]
        BY <1>1, <3>1, <3>3
      <4>2. p \in DOMAIN levels[s] /\ old = OrdersAt(s, p)
        BY <1>6, <4>1
      <4> QED BY <1>1, <2>1, <3>1, <4>1, <4>2
    <3> QED BY <3>2, <3>3
  <2>2. CASE ~(t = s /\ q = p)
    <3>1. q \in DOMAIN levels[t] /\ OrdersAt(t, q)' = OrdersAt(t, q)
      BY <1>5, <1>7, <2>2
    <3> QED BY <1>7, <2>2, <3>1
  <2> QED BY <2>1, <2>2
<1>8. OrdersAreSound'
  <2> SUFFICES ASSUME NEW t \in BookSides, NEW q \in DOMAIN levels'[t]
               PROVE  /\ OrdersAt(t, q)' # <<>>
                      /\ \A i \in DOMAIN OrdersAt(t, q)' : LET a == OrdersAt(t, q)'[i] IN
                           /\ a.side = t /\ a.price = q /\ a.remaining_quantity > 0 /\ a.symbol_id # 0
                           /\ a.sequence_number < next_sequence_number'
                           /\ a.order_id \in OrderIds
                           /\ order_lookup'[a.order_id] =
                                [side |-> t, price |-> q, it |-> a.sequence_number]
    BY DEF OrdersAreSound
  <2>1. OrdersAt(t, q)' # <<>>
    <3>1. CASE t = s /\ q = p
      BY <1>1, <1>5, <3>1
    <3>2. CASE ~(t = s /\ q = p)
      <4>1. q \in DOMAIN levels[t] /\ OrdersAt(t, q)' = OrdersAt(t, q)
        BY <1>5, <3>2
      <4> QED BY <4>1 DEF BookIsSound, OrdersAreSound
    <3> QED BY <3>1, <3>2
  <2>2. ASSUME NEW i \in DOMAIN OrdersAt(t, q)'
        PROVE  LET a == OrdersAt(t, q)'[i] IN
                 /\ a.side = t /\ a.price = q /\ a.remaining_quantity > 0 /\ a.symbol_id # 0
                 /\ a.sequence_number < next_sequence_number'
                 /\ a.order_id \in OrderIds
                 /\ order_lookup'[a.order_id] =
                      [side |-> t, price |-> q, it |-> a.sequence_number]
    <3>1. CASE t = s /\ q = p /\ OrdersAt(t, q)'[i] = o
      BY <1>4, <3>1
    <3>2. CASE /\ q \in DOMAIN levels[t] /\ i \in DOMAIN OrdersAt(t, q)
               /\ OrdersAt(t, q)'[i] = OrdersAt(t, q)[i]
      <4>a. PICK kept : kept = OrdersAt(t, q)[i] /\ kept = OrdersAt(t, q)'[i]
        BY <3>2
      <4>1. /\ kept.side = t /\ kept.price = q /\ kept.remaining_quantity > 0 /\ kept.symbol_id # 0
            /\ kept.sequence_number < next_sequence_number
            /\ kept.order_id \in OrderIds
            /\ order_lookup[kept.order_id] = [side |-> t, price |-> q, it |-> kept.sequence_number]
        BY <3>2, <4>a DEF BookIsSound, OrdersAreSound
      <4>2. contains_order(OrdersAt(t, q)[i].order_id)
        BY <3>2, IteratorOfPlace
      <4>3. kept.order_id # o.order_id
        BY <4>2, <4>a
      <4>4. order_lookup'[kept.order_id] = order_lookup[kept.order_id]
        BY <1>4, <4>1, <4>3
      <4> QED BY <4>1, <4>4, <4>a
    <3>3. \/ t = s /\ q = p /\ OrdersAt(t, q)'[i] = o
          \/ /\ q \in DOMAIN levels[t] /\ i \in DOMAIN OrdersAt(t, q)
             /\ OrdersAt(t, q)'[i] = OrdersAt(t, q)[i]
      BY ONLY <1>7, <2>2, t \in BookSides, q \in DOMAIN levels'[t], Zenon
    <3> QED BY ONLY <3>1, <3>2, <3>3
  <2> QED BY <2>1, <2>2
<1>9. NoDanglingIterator'
  <2> SUFFICES ASSUME NEW id \in OrderIds, contains_order(id)'
               PROVE  \E t \in BookSides : \E q \in DOMAIN levels'[t] :
                        \E j \in DOMAIN OrdersAt(t, q)' :
                          LET a == OrdersAt(t, q)'[j]
                          IN  /\ a.order_id = id
                              /\ order_lookup'[id] =
                                   [side |-> t, price |-> q, it |-> a.sequence_number]
    BY DEF NoDanglingIterator
  <2>1. CASE id = o.order_id
    <3>1. Len(old) + 1 \in DOMAIN OrdersAt(s, p)' /\ OrdersAt(s, p)'[Len(old) + 1] = o
      BY <1>1, <1>5
    <3> QED BY <1>5, <1>4, <2>1, <3>1
  <2>2. CASE id # o.order_id
    <3>1. order_lookup'[id] = order_lookup[id] /\ contains_order(id)
      BY <1>4, <2>2 DEF contains_order, NoLocation
    <3> DEFINE WasAt(t, q, i) ==
          /\ OrdersAt(t, q)[i].order_id = id
          /\ order_lookup[id] =
               [side |-> t, price |-> q, it |-> OrdersAt(t, q)[i].sequence_number]
    <3>a. PICK t \in BookSides : \E q \in DOMAIN levels[t] : \E i \in DOMAIN OrdersAt(t, q) :
            WasAt(t, q, i)
      BY <3>1 DEF BookIsSound, NoDanglingIterator
    <3>b. PICK q \in DOMAIN levels[t] : \E i \in DOMAIN OrdersAt(t, q) : WasAt(t, q, i)
      BY <3>a
    <3>2. PICK i \in DOMAIN OrdersAt(t, q) : WasAt(t, q, i)
      BY <3>b
    <3>3. /\ q \in DOMAIN levels'[t] /\ i \in DOMAIN OrdersAt(t, q)'
          /\ OrdersAt(t, q)'[i] = OrdersAt(t, q)[i]
      <4>1. CASE t = s /\ q = p
        <5>1. old = OrdersAt(t, q)
          BY <1>6, <4>1
        <5>2. i \in 1 .. Len(old) /\ i \in 1 .. Len(old) + 1
          BY <1>1, <5>1
        <5> QED BY <1>1, <1>5, <4>1, <5>1, <5>2
      <4>2. CASE ~(t = s /\ q = p)
        <5>1. q \in DOMAIN levels'[t] /\ OrdersAt(t, q)' = OrdersAt(t, q)
          BY <1>5, <4>2
        <5> QED BY <5>1
      <4> QED BY <4>1, <4>2
    <3> QED BY <3>1, <3>2, <3>3
  <2> QED BY <2>1, <2>2
<1>10. ListsAreInArrivalOrder'
  <2> SUFFICES ASSUME NEW t \in BookSides, NEW q \in DOMAIN levels'[t],
                      NEW i \in DOMAIN OrdersAt(t, q)', NEW j \in DOMAIN OrdersAt(t, q)', i < j
               PROVE  OrdersAt(t, q)'[i].sequence_number < OrdersAt(t, q)'[j].sequence_number
    BY DEF ListsAreInArrivalOrder
  <2>1. CASE t = s /\ q = p
    <3>1. OrdersAt(t, q)' = pushed /\ i \in 1 .. Len(old) + 1 /\ j \in 1 .. Len(old) + 1
      BY <1>1, <1>5, <2>1
    <3>2. i \in DOMAIN old /\ pushed[i] = old[i]
      BY <1>1, <3>1
    <3>3. p \in DOMAIN levels[s] /\ old = OrdersAt(s, p)
      BY <1>6, <3>2
    <3>4. CASE j = Len(old) + 1
      BY <1>1, <3>1, <3>2, <3>3, <3>4
    <3>5. CASE j # Len(old) + 1
      <4>1. j \in DOMAIN old /\ pushed[j] = old[j]
        BY <1>1, <3>1, <3>5
      <4> QED BY <3>1, <3>2, <3>3, <4>1 DEF BookIsSound, ListsAreInArrivalOrder
    <3> QED BY <3>4, <3>5
  <2>2. CASE ~(t = s /\ q = p)
    <3>1. q \in DOMAIN levels[t] /\ OrdersAt(t, q)' = OrdersAt(t, q)
      BY <1>5, <2>2
    <3> QED BY <3>1 DEF BookIsSound, ListsAreInArrivalOrder
  <2> QED BY <2>1, <2>2
<1>11. NeverCrossed'
  <2>1. \A t \in BookSides : \A q \in DOMAIN levels'[t] :
          (t = s /\ q = p) \/ q \in DOMAIN levels[t]
    BY <1>5
  <2> SUFFICES ASSUME NEW bid \in DOMAIN levels'["Buy"], NEW ask \in DOMAIN levels'["Sell"]
               PROVE  bid < ask
    BY DEF NeverCrossed
  <2>2. /\ (s = "Buy" /\ bid = p) \/ bid \in DOMAIN levels["Buy"]
        /\ (s = "Sell" /\ ask = p) \/ ask \in DOMAIN levels["Sell"]
    BY <2>1 DEF BookSides
  <2> QED BY <2>2 DEF BookIsSound, NeverCrossed
<1> QED BY <1>5, <1>8, <1>9, <1>10, <1>11 DEF BookIsSound

\* erase(): the k-th order of a level leaves its list, and its entry the lookup.
ErasesAt(id, s, p, k, left, tq) ==
  /\ p \in DOMAIN levels[s] /\ k \in DOMAIN OrdersAt(s, p)
  /\ id = OrdersAt(s, p)[k].order_id
  /\ left \in Seq(Order) /\ Len(left) = Len(OrdersAt(s, p)) - 1
  /\ \A j \in 1 .. Len(OrdersAt(s, p)) - 1 :
       left[j] = OrdersAt(s, p)[IF j < k THEN j ELSE j + 1]
  /\ levels' = level_set(s, p, [orders |-> left, total_quantity |-> tq])
  /\ order_lookup' = [order_lookup EXCEPT ![id] = NoLocation]

Erases(id) ==
  \E s \in BookSides, p \in Nat, k \in Nat, left \in Seq(Order), tq \in 0 .. QuantityMod - 1 :
    ErasesAt(id, s, p, k, left, tq)

LEMMA EraseKeepsBookSound ==
  ASSUME MapTypeOK, BookIsSound, UNCHANGED next_sequence_number, NEW id, Erases(id)
  PROVE  MapTypeOK' /\ BookIsSound' /\ NothingIsAdded
<1>p. PICK s \in BookSides, p \in Nat, k \in Nat, left \in Seq(Order),
           tq \in 0 .. QuantityMod - 1 : ErasesAt(id, s, p, k, left, tq)
  BY DEF Erases
<1>q. /\ p \in DOMAIN levels[s] /\ k \in DOMAIN OrdersAt(s, p)
      /\ id = OrdersAt(s, p)[k].order_id
      /\ left \in Seq(Order) /\ Len(left) = Len(OrdersAt(s, p)) - 1
      /\ \A j \in 1 .. Len(OrdersAt(s, p)) - 1 :
           left[j] = OrdersAt(s, p)[IF j < k THEN j ELSE j + 1]
      /\ levels' = level_set(s, p, [orders |-> left, total_quantity |-> tq])
      /\ order_lookup' = [order_lookup EXCEPT ![id] = NoLocation]
  BY <1>p DEF ErasesAt
<1> USE <1>q
<1>a. PICK list : list = OrdersAt(s, p)
  OBVIOUS
<1>1. /\ Len(list) \in Nat /\ DOMAIN list = 1 .. Len(list) /\ k \in 1 .. Len(list)
      /\ Len(left) = Len(list) - 1
  BY <1>a, LevelType
<1>2. \A m \in DOMAIN list : list[m].remaining_quantity > 0
  BY <1>a DEF BookIsSound, OrdersAreSound
<1> DEFINE f == [j \in 1 .. Len(left) |-> IF j < k THEN j ELSE j + 1]
<1>3. /\ f \in [1 .. Len(left) -> DOMAIN list]
      /\ \A i, j \in 1 .. Len(left) : i < j => f[i] < f[j]
      /\ \A j \in 1 .. Len(left) : f[j] # k /\ left[j] = list[f[j]]
  BY <1>1, <1>a
<1>4. \A m \in DOMAIN list : m = k \/ \E j \in 1 .. Len(left) : f[j] = m
  <2> SUFFICES ASSUME NEW m \in DOMAIN list, m # k
               PROVE  \E j \in 1 .. Len(left) : f[j] = m
    OBVIOUS
  <2>1. CASE m < k
    <3>1. m \in 1 .. Len(left) /\ f[m] = m
      BY <1>1, <2>1
    <3> QED BY <3>1
  <2>2. CASE ~(m < k)
    <3>1. m - 1 \in 1 .. Len(left) /\ f[m - 1] = m
      BY <1>1, <2>2
    <3> QED BY <3>1
  <2> QED BY <2>1, <2>2
<1> HIDE DEF f
<1>5. \A j \in 1 .. Len(left) : SamePlace(left[j], list[f[j]])
  BY <1>2, <1>3 DEF SamePlace
<1>6. id \in OrderIds
  BY IteratorOfPlace
<1>7. \A j \in 1 .. Len(left) : left[j].order_id \notin {id}
  <2> SUFFICES ASSUME NEW j \in 1 .. Len(left), left[j].order_id = id PROVE FALSE
    OBVIOUS
  <2>a. PICK m : m = f[j]
    OBVIOUS
  <2>1. /\ m \in DOMAIN OrdersAt(s, p) /\ m # k
        /\ OrdersAt(s, p)[m].order_id = OrdersAt(s, p)[k].order_id
    BY <1>3, <1>a, <2>a
  <2> QED BY ONLY MapTypeOK, BookIsSound, s \in BookSides, p \in DOMAIN levels[s],
               k \in DOMAIN OrdersAt(s, p), <2>1, OnePlace
<1>b. PICK gone : gone = {id}
  OBVIOUS
<1>c. PICK g : g = f
  OBVIOUS
<1>8. order_lookup' = lookup_without(gone)
  BY <1>b DEF MapTypeOK, lookup_without
<1>9. /\ gone \in SUBSET OrderIds
      /\ \A x \in gone : \E m \in DOMAIN OrdersAt(s, p) : OrdersAt(s, p)[m].order_id = x
      /\ \A j \in 1 .. Len(left) : left[j].order_id \notin gone
      /\ \A m \in DOMAIN OrdersAt(s, p) :
           OrdersAt(s, p)[m].order_id \in gone \/ \E j \in 1 .. Len(left) : g[j] = m
  BY <1>4, <1>6, <1>7, <1>a, <1>b, <1>c
<1>10. /\ g \in [1 .. Len(left) -> DOMAIN OrdersAt(s, p)]
       /\ \A i, j \in 1 .. Len(left) : i < j => g[i] < g[j]
       /\ \A j \in 1 .. Len(left) : SamePlace(left[j], OrdersAt(s, p)[g[j]])
  BY <1>3, <1>5, <1>a, <1>c
<1>11. levels' = level_set(s, p, [orders |-> left, total_quantity |-> tq])
         /\ UNCHANGED next_sequence_number
  OBVIOUS
<1>12. KeepsSome(s, p, left, g, gone)
  BY <1>9, <1>10 DEF KeepsSome
<1> QED BY ONLY MapTypeOK, BookIsSound, s \in BookSides, p \in DOMAIN levels[s],
             tq \in 0 .. QuantityMod - 1, <1>8, <1>11, <1>12, ShrinkKeepsBookSound

-----------------------------------------------------------------------------
(***************************************************************************)
(* The steps.                                                              *)
(***************************************************************************)

\* The initial book is empty.
LEMMA InitIsSound == Init => IInv
<1> SUFFICES ASSUME Init PROVE IInv
  OBVIOUS
<1>1. HandlerTypeOK
  <2>1. <<>> \in Seq(Event)
    OBVIOUS
  <2>2. /\ next_sequence_number = 1 /\ pc = "idle" /\ new_req = NoRequest
        /\ modifying = FALSE /\ incoming = NoOrder /\ events = <<>>
    BY DEF Init, HandlerInit
  <2>3. modifying \in BOOLEAN
    BY <2>2
  <2> QED BY <2>1, <2>2, <2>3, NoRequestType DEF HandlerTypeOK
<1>2. /\ DOMAIN levels = BookSides
      /\ \A s \in BookSides : DOMAIN levels[s] = {}
  BY DEF Init
<1>3. \A id \in OrderIds : order_lookup[id] = NoLocation
  BY DEF Init
<1>4. MapTypeOK
  BY <1>2 DEF Init, MapTypeOK, OrderLocation, NoLocation, Sides
<1>5. OrdersAreSound /\ ListsAreInArrivalOrder /\ NeverCrossed /\ MapsAreFinite
  BY <1>2, FS_EmptySet
  DEF OrdersAreSound, ListsAreInArrivalOrder, NeverCrossed, MapsAreFinite, BookSides
<1>6. NoDanglingIterator
  BY <1>3 DEF NoDanglingIterator, contains_order
<1>7. CallIsSound
  BY DEF Init, HandlerInit, CallIsSound
<1> QED BY <1>1, <1>4, <1>5, <1>6, <1>7 DEF IInv, TypeOK, BookIsSound

\* What a new order that passed the checks is known to be.
LEMMA AcceptedOrder ==
  ASSUME NEW req \in NewOrderRequest, new_order_reason(req) = "None"
  PROVE  /\ req.order_type \in {"Limit", "Market"}
         /\ req.side \in BookSides /\ req.symbol_id # 0
         /\ ~contains_order(req.order_id)
<1>1. is_valid_new_order_request(req) = "None"
  BY DEF new_order_reason
<1>2. /\ req.order_type # "Unknown" /\ req.side # "Unknown" /\ req.symbol_id # 0
  BY <1>1 DEF is_valid_new_order_request
<1>3. req.order_type \in {"Limit", "Market"} /\ req.side \in BookSides
  BY <1>2 DEF NewOrderRequest, OrderTypes, Sides, BookSides
<1> QED BY <1>1, <1>2, <1>3 DEF new_order_reason

LEMMA MapReasons ==
  /\ \A req : new_order_reason(req) \in Reasons
  /\ \A req : modify_order_reason(req) \in Reasons
  /\ \A req : cancel_order_reason(req) \in Reasons
<1>1. {"DuplicateActiveOrderId", "OrderIdNotFound", "OrderNotFound", "None"}
        \subseteq Reasons
  BY DEF Reasons
<1> QED BY <1>1, RequestReasons
  DEF new_order_reason, modify_order_reason, cancel_order_reason

LEMMA NewOrderStep ==
  ASSUME IInv, NEW req \in NewOrderRequest, req.order_id \in OrderIds,
         NEW evs \in Seq(Event),
         handle_new_order(req, new_order_reason(req), evs), UNCHANGED bookVars
  PROVE  IInv'
<1>1. HandlerTypeOK'
  BY HandleNewOrderType, MapReasons DEF IInv, TypeOK
<1>2. next_sequence_number \in Nat
  BY DEF IInv, TypeOK, HandlerTypeOK
<1>3. MapTypeOK' /\ BookIsSound'
  BY <1>2, UnchangedBookIsSound DEF handle_new_order, IInv, TypeOK
<1>4. CallIsSound'
  <2>1. CASE new_order_reason(req) # "None"
    BY <2>1 DEF handle_new_order, Return, CallIsSound
  <2>2. CASE new_order_reason(req) = "None"
    <3>1. /\ pc' = "matching" /\ new_req' = req
          /\ incoming'.order_id = req.order_id /\ incoming'.side = req.side
          /\ incoming'.symbol_id = req.symbol_id
          /\ incoming'.sequence_number = next_sequence_number
          /\ next_sequence_number' = next_sequence_number + 1
      BY <2>2 DEF handle_new_order
    <3>2. next_sequence_number < next_sequence_number + 1
      BY <1>2
    <3>3. levels' = levels /\ order_lookup' = order_lookup
      BY DEF bookVars
    <3>4. \A s \in BookSides : \A p \in DOMAIN levels[s] : \A i \in DOMAIN OrdersAt(s, p) :
            OrdersAt(s, p)[i].sequence_number < next_sequence_number
      BY DEF IInv, BookIsSound, OrdersAreSound
    <3> QED BY <2>2, <3>1, <3>2, <3>3, <3>4, AcceptedOrder
      DEF CallIsSound, contains_order, OrdersAt
  <2> QED BY <2>1, <2>2
<1> QED BY <1>1, <1>3, <1>4 DEF IInv, TypeOK

\* submit() of a new order, and the second half of a modify.
LEMMA SubmitNewStep ==
  ASSUME IInv, NEW req \in NewOrderRequest, req.order_id \in OrderIds, SubmitNew(req)
  PROVE  IInv'
<1>1. req \in NewOrderRequest /\ req.order_id \in OrderIds
  OBVIOUS
<1>2. <<>> \in Seq(Event)
  OBVIOUS
<1> QED BY <1>1, <1>2, NewOrderStep DEF SubmitNew

LEMMA ResubmitStep ==
  ASSUME IInv, Resubmit
  PROVE  IInv'
<1>1. /\ new_req \in NewOrderRequest /\ new_req.order_id \in OrderIds
      /\ events \in Seq(Event)
  BY DEF IInv, TypeOK, HandlerTypeOK, CallIsSound, Resubmit
<1> QED BY <1>1, NewOrderStep DEF Resubmit

\* The order that an identifier leads to, and the level it is in.
LEMMA LookedUpOrder ==
  ASSUME IInv, NEW id \in OrderIds, contains_order(id)
  PROVE  LET location == order_lookup[id]
             orders == OrdersAt(location.side, location.price)
         IN  /\ location.side \in BookSides /\ location.price \in DOMAIN levels[location.side]
             /\ position(location) \in DOMAIN orders
             /\ order_at(location) = orders[position(location)]
             /\ order_at(location) \in Order
             /\ order_at(location).order_id = id
             /\ order_at(location).side = location.side
             /\ order_at(location).symbol_id # 0
<1> DEFINE IsAt(s, p, i) ==
      /\ OrdersAt(s, p)[i].order_id = id
      /\ order_lookup[id] =
           [side |-> s, price |-> p, it |-> OrdersAt(s, p)[i].sequence_number]
      /\ position(order_lookup[id]) = i
      /\ order_at(order_lookup[id]) = OrdersAt(s, p)[i]
<1>a. PICK s \in BookSides : \E p \in DOMAIN levels[s] : \E i \in DOMAIN OrdersAt(s, p) :
        IsAt(s, p, i)
  BY PlaceOfId DEF IInv, TypeOK
<1>b. PICK p \in DOMAIN levels[s] : \E i \in DOMAIN OrdersAt(s, p) : IsAt(s, p, i)
  BY <1>a
<1>1. PICK i \in DOMAIN OrdersAt(s, p) : IsAt(s, p, i)
  BY <1>b
<1>2. order_lookup[id].side = s /\ order_lookup[id].price = p
  BY <1>1
<1>3. /\ OrdersAt(s, p)[i] \in Order
      /\ OrdersAt(s, p)[i].side = s /\ OrdersAt(s, p)[i].symbol_id # 0
  BY LevelType DEF IInv, TypeOK, BookIsSound, OrdersAreSound
<1> QED BY <1>1, <1>2, <1>3

\* remove_order is refused only to an identifier that the book does not hold.
LEMMA CancelIsNeverRefusedInside ==
  ASSUME IInv, NEW id \in OrderIds, id # 0, contains_order(id)
  PROVE  cancel_order_reason([order_id |-> id]) = "None"
  BY LookedUpOrder DEF cancel_order_reason, is_valid_cancel_order_request

\* remove_order erases the order of its identifier, wherever it is in its list.
LEMMA CancelErases ==
  ASSUME IInv, NEW id \in OrderIds, contains_order(id), remove_order(id)
  PROVE  Erases(id)
<1>0. MapTypeOK /\ BookIsSound
  BY DEF IInv, TypeOK
<1>b. PICK s : s = order_lookup[id].side
  OBVIOUS
<1>c. PICK p : p = order_lookup[id].price
  OBVIOUS
<1>d. PICK k : k = position(order_lookup[id])
  OBVIOUS
<1>e. PICK o : o = order_at(order_lookup[id])
  OBVIOUS
<1>f. PICK left : left = RemoveAt(OrdersAt(s, p), k)
  OBVIOUS
<1>g. PICK tq : tq = (levels[s][p].total_quantity - o.remaining_quantity) % QuantityMod
  OBVIOUS
<1>1. /\ s \in BookSides /\ p \in DOMAIN levels[s] /\ k \in DOMAIN OrdersAt(s, p)
      /\ o = OrdersAt(s, p)[k] /\ o \in Order /\ o.order_id = id
  BY <1>b, <1>c, <1>d, <1>e, LookedUpOrder
<1>2. /\ levels' = level_set(s, p, [orders |-> left, total_quantity |-> tq])
      /\ order_lookup' = [order_lookup EXCEPT ![id] = NoLocation]
  BY <1>b, <1>c, <1>d, <1>e, <1>f, <1>g DEF remove_order, OrdersAt
<1>3. tq \in 0 .. QuantityMod - 1
  <2>1. levels[s][p].total_quantity \in 0 .. QuantityMod - 1 /\ o.remaining_quantity \in Nat
    BY <1>0, <1>1, LevelType DEF Order
  <2> QED BY <1>g, <2>1, HandlerAssumption
<1>4. OrdersAt(s, p) \in Seq(Order) /\ k \in 1 .. Len(OrdersAt(s, p)) /\ p \in Nat /\ k \in Nat
  BY <1>0, <1>1, LevelType
<1>5. /\ left \in Seq(Order) /\ Len(left) = Len(OrdersAt(s, p)) - 1
      /\ \A j \in 1 .. Len(OrdersAt(s, p)) - 1 :
           left[j] = OrdersAt(s, p)[IF j < k THEN j ELSE j + 1]
  BY <1>f, <1>4, RemoveAtProperties
<1>6. ErasesAt(id, s, p, k, left, tq)
  BY <1>1, <1>2, <1>5 DEF ErasesAt
<1> QED BY <1>1, <1>3, <1>4, <1>5, <1>6 DEF Erases

LEMMA CancelStorageStep ==
  ASSUME IInv, NEW req \in CancelOrderRequest, req.order_id \in OrderIds,
         CancelStorage(req), UNCHANGED next_sequence_number
  PROVE  /\ MapTypeOK' /\ BookIsSound'
         /\ cancel_event(req) \in Event
         /\ cancel_order_reason(req) = "None" =>
              /\ contains_order(req.order_id)
              /\ order_lookup' = [order_lookup EXCEPT ![req.order_id] = NoLocation]
<1>0. next_sequence_number \in Nat /\ MapTypeOK /\ BookIsSound
  BY DEF IInv, TypeOK, HandlerTypeOK
<1>1. CASE cancel_order_reason(req) # "None"
  <2>1. UNCHANGED bookVars
    BY <1>1 DEF CancelStorage
  <2>2. cancel_event(req) \in Event
    BY <1>1, MapReasons, RejectionTypes DEF cancel_event
  <2> QED BY <1>0, <1>1, <2>1, <2>2, UnchangedBookIsSound
<1>2. CASE cancel_order_reason(req) = "None"
  <2>1. contains_order(req.order_id)
    BY <1>2 DEF cancel_order_reason
  <2>2. remove_order(req.order_id)
    BY <1>2 DEF CancelStorage
  <2>3. MapTypeOK' /\ BookIsSound'
    BY <1>0, <2>1, <2>2, CancelErases, EraseKeepsBookSound
  <2>4. order_at(order_lookup[req.order_id]) \in Order
    BY <2>1, LookedUpOrder
  <2>5. cancel_event(req) \in Event
    BY <1>2, <2>4, OrderEventTypes DEF cancel_event
  <2>6. order_lookup' = [order_lookup EXCEPT ![req.order_id] = NoLocation]
    BY <2>2 DEF remove_order
  <2> QED BY <2>1, <2>3, <2>5, <2>6
<1> QED BY <1>1, <1>2

LEMMA SubmitCancelStep ==
  ASSUME IInv, NEW req \in CancelOrderRequest, req.order_id \in OrderIds, SubmitCancel(req)
  PROVE  IInv'
<1>1. req \in CancelOrderRequest /\ req.order_id \in OrderIds
  OBVIOUS
<1>2. UNCHANGED next_sequence_number /\ pc' = "returned"
  BY DEF SubmitCancel, Answer
<1>3. MapTypeOK' /\ BookIsSound' /\ cancel_event(req) \in Event
  BY <1>1, <1>2, CancelStorageStep DEF SubmitCancel
<1>4. HandlerTypeOK'
  BY <1>3, AnswerType DEF SubmitCancel, IInv, TypeOK
<1> QED BY <1>2, <1>3, <1>4 DEF IInv, TypeOK, CallIsSound

\* The first half of a modify: what it hands on will be accepted.
LEMMA SubmitModifyStep ==
  ASSUME IInv, NEW req \in ModifyOrderRequest, req.order_id \in OrderIds, SubmitModify(req)
  PROVE  IInv'
<1>0. next_sequence_number \in Nat /\ MapTypeOK /\ BookIsSound
  BY DEF IInv, TypeOK, HandlerTypeOK
<1>1. req \in ModifyOrderRequest /\ req.order_id \in OrderIds
  OBVIOUS
<1>2. CASE modify_order_reason(req) # "None"
  <2>1. ModifyRejected(req, modify_order_reason(req)) \in Event
    BY <1>1, MapReasons, RejectionTypes
  <2>2. HandlerTypeOK'
    BY <1>2, <2>1, AnswerType DEF SubmitModify, IInv, TypeOK
  <2>3. UNCHANGED next_sequence_number /\ pc' = "returned" /\ UNCHANGED bookVars
    BY <1>2 DEF SubmitModify, Answer
  <2>4. MapTypeOK' /\ BookIsSound'
    BY <1>0, <2>3, UnchangedBookIsSound
  <2> QED BY <2>2, <2>3, <2>4 DEF IInv, TypeOK, CallIsSound
<1>3. CASE modify_order_reason(req) = "None"
  <2> DEFINE cancel_req == [order_id |-> req.order_id]
  <2>a. PICK old : old = order_at(order_lookup[req.order_id])
    OBVIOUS
  <2>1. /\ BeginModify(req, old, cancel_event(cancel_req))
        /\ CancelStorage(cancel_req)
    BY <1>3, <2>a DEF SubmitModify
  <2>2. is_valid_modify_order_request(req) = "None" /\ contains_order(req.order_id)
    BY <1>3 DEF modify_order_reason
  <2>3. /\ req.order_type # "Unknown" /\ req.order_id # 0
        /\ req.order_type = "Limit" => req.price # 0
        /\ req.quantity # 0
    BY <2>2 DEF is_valid_modify_order_request
  <2>4. old \in Order /\ old.side \in BookSides /\ old.symbol_id # 0
    BY <1>1, <2>2, <2>a, LookedUpOrder
  <2>5. UNCHANGED next_sequence_number /\ pc' = "resubmit"
    BY <2>1 DEF BeginModify
  <2>6. cancel_req \in CancelOrderRequest /\ cancel_req.order_id \in OrderIds
    BY <1>1 DEF CancelOrderRequest, ModifyOrderRequest
  <2>7. cancel_order_reason(cancel_req) = "None"
    BY <1>1, <2>2, <2>3, CancelIsNeverRefusedInside
  <2>8. /\ MapTypeOK' /\ BookIsSound' /\ cancel_event(cancel_req) \in Event
        /\ order_lookup' = [order_lookup EXCEPT ![req.order_id] = NoLocation]
    BY <2>1, <2>5, <2>6, <2>7, CancelStorageStep
  <2>9. HandlerTypeOK'
    BY <1>1, <2>1, <2>4, <2>8, BeginModifyType DEF IInv, TypeOK
  <2>10. ~contains_order(req.order_id)'
    BY <1>1, <2>8 DEF contains_order, IInv, TypeOK, MapTypeOK
  <2>11. /\ new_req'.order_type = req.order_type /\ new_req'.order_id = req.order_id
         /\ new_req'.symbol_id = old.symbol_id /\ new_req'.side = old.side
         /\ new_req'.price = req.price /\ new_req'.quantity = req.quantity
    BY <2>1 DEF BeginModify
  <2>12. is_valid_new_order_request(new_req)' = "None"
    BY <2>3, <2>4, <2>11 DEF is_valid_new_order_request, BookSides
  <2>13. new_order_reason(new_req)' = "None"
    BY <2>2, <2>10, <2>11, <2>12 DEF new_order_reason, contains_order
  <2> QED BY <1>1, <2>5, <2>8, <2>9, <2>11, <2>13 DEF IInv, TypeOK, CallIsSound
<1> QED BY <1>2, <1>3

\* begin() of the map of a side that is not empty is its best price.
LEMMA BestPriceOfSide ==
  ASSUME IInv, NEW s \in BookSides, DOMAIN levels[s] # {}
  PROVE  /\ best_price(s) \in DOMAIN levels[s]
         /\ \A q \in DOMAIN levels[s] :
              IF s = "Buy" THEN q <= best_price(s) ELSE best_price(s) <= q
<1>a. PICK S : S = DOMAIN levels[s]
  OBVIOUS
<1>1. S \in SUBSET Nat /\ S # {} /\ IsFiniteSet(S)
  BY <1>a DEF IInv, TypeOK, MapTypeOK, BookIsSound, MapsAreFinite
<1>2. Min(S) \in S /\ \A q \in S : Min(S) <= q
  BY <1>1, MinInSet
<1>3. Max(S) \in S /\ \A q \in S : Max(S) >= q
  <2>1. PICK b \in Nat : \A x \in S : x <= b
    BY <1>1, GreatestExists
  <2>2. S \in SUBSET (0 .. b)
    BY <1>1, <2>1
  <2> QED BY <1>1, <2>2, MaxInSet
<1>4. \A q \in S : q <= Max(S)
  BY <1>1, <1>3
<1> QED BY <1>2, <1>3, <1>4, <1>a DEF best_price

\* The order at the front of a level.
LEMMA FrontOrder ==
  ASSUME MapTypeOK, BookIsSound, NEW s \in BookSides, NEW p \in DOMAIN levels[s]
  PROVE  /\ 1 \in DOMAIN OrdersAt(s, p)
         /\ Head(OrdersAt(s, p)) = OrdersAt(s, p)[1]
         /\ OrdersAt(s, p)[1] \in Order
         /\ OrdersAt(s, p)[1].remaining_quantity > 0
<1>a. PICK list : list = OrdersAt(s, p)
  OBVIOUS
<1>1. list \in Seq(Order) /\ list # <<>>
  BY <1>a, LevelType DEF BookIsSound, OrdersAreSound
<1>2. 1 \in DOMAIN list /\ list[1] \in Order /\ Head(list) = list[1]
  BY <1>1
<1> QED BY <1>2, <1>a DEF BookIsSound, OrdersAreSound

\* A fill that leaves part of the resting order.
LEMMA PartialFillKeepsBookSound ==
  ASSUME MapTypeOK, BookIsSound, UNCHANGED next_sequence_number,
         NEW s \in BookSides, NEW p \in DOMAIN levels[s],
         NEW rest \in Order, SamePlace(rest, OrdersAt(s, p)[1]),
         NEW tq \in 0 .. QuantityMod - 1,
         NEW left, left = [OrdersAt(s, p) EXCEPT ![1] = rest],
         levels' = level_set(s, p, [orders |-> left, total_quantity |-> tq]),
         UNCHANGED order_lookup
  PROVE  MapTypeOK' /\ BookIsSound' /\ NothingIsAdded
<1>a. PICK list : list = OrdersAt(s, p)
  OBVIOUS
<1>1. /\ list \in Seq(Order) /\ Len(list) \in Nat /\ DOMAIN list = 1 .. Len(list)
      /\ 1 \in DOMAIN list
  BY <1>a, LevelType, FrontOrder
<1>2. /\ left \in Seq(Order) /\ Len(left) = Len(list)
      /\ left[1] = rest
      /\ \A i \in 2 .. Len(list) : left[i] = list[i]
  BY <1>1, <1>a
<1>b. PICK g : g = [j \in 1 .. Len(left) |-> j]
  OBVIOUS
<1>c. PICK gone : gone = {}
  OBVIOUS
<1>3. /\ g \in [1 .. Len(left) -> DOMAIN list]
      /\ \A i, j \in 1 .. Len(left) : i < j => g[i] < g[j]
      /\ \A j \in 1 .. Len(left) : g[j] = j
  BY <1>1, <1>2, <1>b
<1>4. \A j \in 1 .. Len(left) : SamePlace(left[j], list[g[j]])
  <2> SUFFICES ASSUME NEW j \in 1 .. Len(left) PROVE SamePlace(left[j], list[j])
    BY <1>3
  <2>1. CASE j = 1
    BY <1>2, <1>a, <2>1
  <2>2. CASE j # 1
    <3>1. j \in 2 .. Len(list) /\ left[j] = list[j]
      BY <1>1, <1>2, <2>2
    <3>2. list[j].remaining_quantity > 0
      <4>1. \A m \in DOMAIN list : list[m].remaining_quantity > 0
        BY <1>a DEF BookIsSound, OrdersAreSound
      <4> QED BY ONLY <1>1, <3>1, <4>1
    <3> QED BY ONLY <3>1, <3>2 DEF SamePlace
  <2> QED BY <2>1, <2>2
<1>5. \A k \in DOMAIN list : \E j \in 1 .. Len(left) : g[j] = k
  BY <1>1, <1>2, <1>3
<1>6. KeepsSome(s, p, left, g, gone)
  BY <1>2, <1>3, <1>4, <1>5, <1>a, <1>c DEF KeepsSome
<1>7. order_lookup' = lookup_without(gone)
  BY <1>c DEF lookup_without, MapTypeOK
<1>8. levels' = level_set(s, p, [orders |-> left, total_quantity |-> tq])
         /\ UNCHANGED next_sequence_number
  OBVIOUS
<1> QED BY ONLY MapTypeOK, BookIsSound, s \in BookSides, p \in DOMAIN levels[s],
             tq \in 0 .. QuantityMod - 1, <1>6, <1>7, <1>8, ShrinkKeepsBookSound

\* A fill that leaves nothing of the resting order erases it; another one leaves it
\* at its place.
FillsPart(s, p, rest, tq) ==
  /\ rest \in Order /\ SamePlace(rest, OrdersAt(s, p)[1])
  /\ levels' = level_set(s, p, [orders |-> [OrdersAt(s, p) EXCEPT ![1] = rest],
                                total_quantity |-> tq])
  /\ UNCHANGED order_lookup

LEMMA FillOfFront ==
  ASSUME IInv, NEW s \in BookSides, DOMAIN levels[s] # {}, MatchFront(s),
         NEW p, p = best_price(s),
         NEW resting, resting = OrdersAt(s, p)[1],
         NEW qty, qty = trade_qty(resting)
  PROVE  /\ p \in DOMAIN levels[s] /\ resting \in Order /\ TradeWith(resting)
         /\ resting.remaining_quantity = qty => Erases(resting.order_id)
         /\ resting.remaining_quantity # qty =>
              \E tq \in 0 .. QuantityMod - 1 :
                FillsPart(s, p, [resting EXCEPT !.remaining_quantity = @ - qty,
                                                !.order_status = "PartiallyFilled"], tq)
<1>0. MapTypeOK /\ BookIsSound /\ HandlerTypeOK
  BY DEF IInv, TypeOK
<1>b. PICK list : list = OrdersAt(s, p)
  OBVIOUS
<1>e. PICK tq : tq = (levels[s][p].total_quantity - qty) % QuantityMod
  OBVIOUS
<1>f. PICK left : left = AfterTrade(list, qty)
  OBVIOUS
<1>1. p \in DOMAIN levels[s]
  BY BestPriceOfSide
<1>2. /\ list \in Seq(Order) /\ list # <<>> /\ 1 \in DOMAIN list
      /\ resting = list[1] /\ resting = Head(list)
      /\ resting \in Order /\ resting.remaining_quantity > 0
  BY <1>0, <1>1, <1>b, LevelType, FrontOrder DEF BookIsSound, OrdersAreSound
<1>3. qty \in Nat /\ qty <= resting.remaining_quantity
  BY <1>0, <1>2, TradeQuantity
<1>4. tq \in 0 .. QuantityMod - 1
  <2>1. levels[s][p].total_quantity \in 0 .. QuantityMod - 1
    BY <1>0, <1>1, LevelType
  <2> QED BY <1>3, <1>e, <2>1, HandlerAssumption
<1>5. /\ TradeWith(resting)
      /\ levels' = level_set(s, p, [orders |-> left, total_quantity |-> tq])
      /\ order_lookup' = IF resting.remaining_quantity = qty
                         THEN [order_lookup EXCEPT ![resting.order_id] = NoLocation]
                         ELSE order_lookup
  BY <1>2, <1>b, <1>e, <1>f DEF MatchFront, OrdersAt
<1>6. ASSUME resting.remaining_quantity = qty PROVE Erases(resting.order_id)
  <2>b. PICK id : id = resting.order_id
    OBVIOUS
  <2>1. left = Tail(list)
    <3>1. Head(list).remaining_quantity - qty = 0
      BY ONLY <1>2, <1>3, <1>6
    <3> QED BY ONLY <1>f, <3>1 DEF AfterTrade
  <2>2. /\ left \in Seq(Order) /\ Len(left) = Len(list) - 1
        /\ \A j \in 1 .. Len(list) - 1 : left[j] = list[j + 1]
    BY <1>2, <2>1, HeadTailProperties
  <2>3. \A j \in 1 .. Len(list) - 1 : left[j] = list[IF j < 1 THEN j ELSE j + 1]
    BY <2>2
  <2>4. order_lookup' = [order_lookup EXCEPT ![id] = NoLocation]
    BY <1>5, <1>6, <2>b
  <2>5. ErasesAt(id, s, p, 1, left, tq)
    BY <1>1, <1>2, <1>5, <1>b, <2>2, <2>3, <2>4, <2>b DEF ErasesAt
  <2>6. p \in Nat /\ 1 \in Nat
    BY <1>0, <1>1, LevelType
  <2>7. Erases(id)
    BY ONLY s \in BookSides, <1>4, <2>2, <2>5, <2>6 DEF Erases
  <2> QED BY <2>7, <2>b
<1>7. ASSUME resting.remaining_quantity # qty
      PROVE  FillsPart(s, p, [resting EXCEPT !.remaining_quantity = @ - qty,
                                             !.order_status = "PartiallyFilled"], tq)
  <2>b. PICK rest : rest = [resting EXCEPT !.remaining_quantity = @ - qty,
                                           !.order_status = "PartiallyFilled"]
    OBVIOUS
  <2>1. /\ resting.remaining_quantity - qty \in Nat
        /\ resting.remaining_quantity - qty > 0
        /\ "PartiallyFilled" \in OrderStatuses
    BY <1>2, <1>3, <1>7 DEF Order, OrderStatuses
  <2>2. rest \in Order /\ SamePlace(rest, resting)
    BY <1>2, <2>1, <2>b DEF Order, SamePlace
  <2>3. left = [list EXCEPT ![1] = rest]
    <3>1. left = [list EXCEPT ![1].remaining_quantity = resting.remaining_quantity - qty,
                              ![1].order_status = "PartiallyFilled"]
      BY ONLY <2>1, <1>2, <1>f DEF AfterTrade
    <3> QED BY ONLY <1>2, <2>b, <3>1
  <2>4. UNCHANGED order_lookup
    BY <1>5, <1>7
  <2> QED BY <1>2, <1>5, <1>b, <2>2, <2>3, <2>4, <2>b DEF FillsPart
<1> QED BY <1>1, <1>2, <1>4, <1>5, <1>6, <1>7

\* The best level always has an order at its front, so every iteration trades.
LEMMA NoEmptyLevelIsMatched ==
  ASSUME IInv
  PROVE  /\ match_buy => /\ pc = "matching" /\ incoming.side = "Buy"
                         /\ CanMatch("Sell") /\ MatchFront("Sell")
         /\ match_sell => /\ pc = "matching" /\ incoming.side = "Sell"
                          /\ CanMatch("Buy") /\ MatchFront("Buy")
<1>1. ASSUME NEW s \in BookSides, CanMatch(s)
      PROVE  levels[s][best_price(s)].orders # <<>>
  <2>1. MapTypeOK /\ BookIsSound
    BY DEF IInv, TypeOK
  <2>2. best_price(s) \in DOMAIN levels[s]
    BY <1>1, BestPriceOfSide DEF CanMatch
  <2> QED BY <2>1, <2>2 DEF BookIsSound, OrdersAreSound, OrdersAt
<1> QED BY <1>1 DEF match_buy, match_sell, MatchBest, BookSides

\* One iteration of the matching loop.
LEMMA MatchStep ==
  ASSUME IInv, pc = "matching", NEW s \in BookSides, CanMatch(s), MatchFront(s)
  PROVE  IInv'
<1>0. MapTypeOK /\ BookIsSound /\ HandlerTypeOK
  BY DEF IInv, TypeOK
<1>a. PICK p : p = best_price(s)
  OBVIOUS
<1>b. PICK resting : resting = OrdersAt(s, p)[1]
  OBVIOUS
<1>c. PICK qty : qty = trade_qty(resting)
  OBVIOUS
<1>1. /\ p \in DOMAIN levels[s] /\ resting \in Order /\ TradeWith(resting)
      /\ resting.remaining_quantity = qty => Erases(resting.order_id)
      /\ resting.remaining_quantity # qty =>
           \E tq \in 0 .. QuantityMod - 1 :
             FillsPart(s, p, [resting EXCEPT !.remaining_quantity = @ - qty,
                                             !.order_status = "PartiallyFilled"], tq)
  BY <1>a, <1>b, <1>c, FillOfFront DEF CanMatch
<1>2. HandlerTypeOK' /\ UNCHANGED next_sequence_number
  BY <1>0, <1>1, TradeWithType DEF TradeWith
<1>3. MapTypeOK' /\ BookIsSound' /\ NothingIsAdded
  <2>1. CASE resting.remaining_quantity = qty
    BY <1>0, <1>1, <1>2, <2>1, EraseKeepsBookSound
  <2>2. CASE resting.remaining_quantity # qty
    <3>a. PICK rest : rest = [resting EXCEPT !.remaining_quantity = @ - qty,
                                             !.order_status = "PartiallyFilled"]
      OBVIOUS
    <3>1. PICK tq \in 0 .. QuantityMod - 1 : FillsPart(s, p, rest, tq)
      BY <1>1, <2>2, <3>a
    <3>b. PICK left : left = [OrdersAt(s, p) EXCEPT ![1] = rest]
      OBVIOUS
    <3>2. /\ rest \in Order /\ SamePlace(rest, OrdersAt(s, p)[1])
          /\ levels' = level_set(s, p, [orders |-> left, total_quantity |-> tq])
          /\ UNCHANGED order_lookup
      BY <3>1, <3>b DEF FillsPart
    <3> QED BY <1>0, <1>1, <1>2, <3>2, <3>b, PartialFillKeepsBookSound
  <2> QED BY <2>1, <2>2
<1>4. \A id \in OrderIds : order_lookup'[id] \in {order_lookup[id], NoLocation}
  BY <1>0 DEF MatchFront, MapTypeOK
<1>5. CallIsSound'
  <2>1. /\ pc' = pc /\ new_req' = new_req
        /\ incoming'.order_id = incoming.order_id
        /\ incoming'.side = incoming.side /\ incoming'.symbol_id = incoming.symbol_id
        /\ incoming'.sequence_number = incoming.sequence_number
    BY ONLY <1>0, <1>1 DEF TradeWith, HandlerTypeOK, Order
  <2>2. ~contains_order(incoming.order_id)' /\ incoming.order_id \in OrderIds
    BY <1>4, <2>1 DEF IInv, CallIsSound, contains_order
  <2>3. \A t \in BookSides : \A q \in DOMAIN levels'[t] : \A i \in DOMAIN OrdersAt(t, q)' :
          OrdersAt(t, q)'[i].sequence_number < incoming.sequence_number
    BY <1>3 DEF NothingIsAdded, IInv, CallIsSound
  <2> QED BY <1>2, <2>1, <2>2, <2>3 DEF IInv, CallIsSound
<1> QED BY <1>2, <1>3, <1>5 DEF IInv, TypeOK

\* After the matching loop, what is left of a limit order crosses no level.
LEMMA RemainderDoesNotCross ==
  ASSUME IInv, MatchingDone, incoming.remaining_quantity > 0, ~is_market
  PROVE  /\ incoming.side = "Buy" => \A q \in DOMAIN levels["Sell"] : incoming.price < q
         /\ incoming.side = "Sell" => \A q \in DOMAIN levels["Buy"] : q < incoming.price
<1>1. incoming.side \in BookSides /\ incoming.price \in Nat
  BY DEF IInv, TypeOK, HandlerTypeOK, CallIsSound, MatchingDone, Order
<1>2. ASSUME NEW s \in BookSides, s = Opposite(incoming.side), NEW q \in DOMAIN levels[s]
      PROVE  IF s = "Buy" THEN q < incoming.price ELSE incoming.price < q
  <2>a. PICK b : b = best_price(s)
    OBVIOUS
  <2>1. /\ b \in DOMAIN levels[s]
        /\ IF s = "Buy" THEN q <= b ELSE b <= q
    BY <1>2, <2>a, BestPriceOfSide
  <2>2. b \in Nat /\ q \in Nat
    BY <1>2, <2>1 DEF IInv, TypeOK, MapTypeOK
  <2>3. ~Crosses(b)
    BY <1>2, <2>1, <2>a DEF MatchingDone, CanMatch
  <2>4. CASE s = "Buy"
    <3>1. incoming.side = "Sell"
      BY <1>1, <1>2, <2>4 DEF Opposite, BookSides
    <3> QED BY <1>1, <2>1, <2>2, <2>3, <2>4, <3>1 DEF Crosses
  <2>5. CASE s = "Sell"
    <3>1. incoming.side = "Buy"
      BY <1>1, <1>2, <2>5 DEF Opposite, BookSides
    <3> QED BY <1>1, <2>1, <2>2, <2>3, <2>5, <3>1 DEF Crosses
  <2> QED BY <2>4, <2>5 DEF BookSides
<1> QED BY <1>2 DEF Opposite, BookSides

\* operator[] and the total after the order was added to it.
LEMMA LevelAtType ==
  ASSUME MapTypeOK, NEW s \in BookSides, NEW p \in Nat, NEW qty \in Nat
  PROVE  /\ level_at(s, p).orders \in Seq(Order)
         /\ (level_at(s, p).total_quantity + qty) % QuantityMod \in 0 .. QuantityMod - 1
<1>1. /\ level_at(s, p).orders \in Seq(Order)
      /\ level_at(s, p).total_quantity \in 0 .. QuantityMod - 1
  <2>1. CASE p \in DOMAIN levels[s]
    BY <2>1, LevelType DEF level_at, OrdersAt
  <2>2. CASE p \notin DOMAIN levels[s]
    <3>1. <<>> \in Seq(Order) /\ 0 \in 0 .. QuantityMod - 1
      BY HandlerAssumption
    <3> QED BY <2>2, <3>1 DEF level_at, NoLevel
  <2> QED BY <2>1, <2>2
<1> QED BY <1>1, HandlerAssumption

\* What is left of a limit order comes to rest.
LEMMA AddRestingOrderStep ==
  ASSUME IInv, add_resting_order
  PROVE  IInv'
<1>0. MapTypeOK /\ BookIsSound /\ HandlerTypeOK
  BY DEF IInv, TypeOK
<1>a. PICK s : s = incoming.side
  OBVIOUS
<1>b. PICK p : p = incoming.price
  OBVIOUS
<1>c. PICK o : o = [incoming EXCEPT !.order_status = "Resting"]
  OBVIOUS
<1>d. PICK old : old = level_at(s, p).orders
  OBVIOUS
<1>e. PICK tq : tq = (level_at(s, p).total_quantity + incoming.remaining_quantity) % QuantityMod
  OBVIOUS
<1>1. /\ pc = "matching" /\ MatchingDone /\ ~is_market
      /\ incoming.remaining_quantity > 0 /\ UNCHANGED next_sequence_number
  BY DEF add_resting_order, MatchingDone
<1>2. /\ incoming \in Order /\ events \in Seq(Event) /\ new_req \in NewOrderRequest
      /\ p \in Nat /\ incoming.remaining_quantity \in Nat
  BY <1>0, <1>b DEF HandlerTypeOK, Order
<1>3. /\ s \in BookSides /\ incoming.symbol_id # 0
      /\ incoming.order_id \in OrderIds /\ ~contains_order(incoming.order_id)
      /\ incoming.sequence_number < next_sequence_number
      /\ \A t \in BookSides : \A q \in DOMAIN levels[t] : \A i \in DOMAIN OrdersAt(t, q) :
           OrdersAt(t, q)[i].sequence_number < incoming.sequence_number
  BY <1>1, <1>a DEF IInv, CallIsSound
<1>4. /\ o \in Order /\ o.side = s /\ o.price = p
      /\ o.remaining_quantity = incoming.remaining_quantity
      /\ o.symbol_id = incoming.symbol_id /\ o.order_id = incoming.order_id
      /\ o.sequence_number = incoming.sequence_number
  BY <1>2, <1>a, <1>b, <1>c DEF Order, OrderStatuses
<1>5. old \in Seq(Order) /\ tq \in 0 .. QuantityMod - 1
  BY <1>0, <1>2, <1>3, <1>d, <1>e, LevelAtType
<1>6. /\ levels' = level_set(s, p, [orders |-> Append(old, o), total_quantity |-> tq])
      /\ order_lookup' = [order_lookup EXCEPT ![o.order_id] =
                            [side |-> s, price |-> p, it |-> o.sequence_number]]
      /\ Return(new_req, Append(events, OrderRested(incoming)))
  BY <1>4, <1>a, <1>b, <1>c, <1>d, <1>e DEF add_resting_order, AtEndOf
<1>7. /\ s = "Buy" => \A q \in DOMAIN levels["Sell"] : p < q
      /\ s = "Sell" => \A q \in DOMAIN levels["Buy"] : q < p
  BY <1>1, <1>a, <1>b, RemainderDoesNotCross
<1>8. MapTypeOK' /\ BookIsSound'
  <2>1. /\ o.remaining_quantity > 0 /\ o.symbol_id # 0
        /\ o.sequence_number < next_sequence_number
        /\ o.order_id \in OrderIds /\ ~contains_order(o.order_id)
        /\ \A t \in BookSides : \A q \in DOMAIN levels[t] : \A i \in DOMAIN OrdersAt(t, q) :
             OrdersAt(t, q)[i].sequence_number < o.sequence_number
    BY ONLY <1>1, <1>3, <1>4
  <2> QED BY <1>0, <1>1, <1>2, <1>3, <1>4, <1>5, <1>6, <1>7, <1>d, <2>1, PushKeepsBookSound
<1>9. HandlerTypeOK'
  <2>1. Append(events, OrderRested(incoming)) \in Seq(Event)
    BY <1>2, OrderEventTypes, AppendProperties
  <2> QED BY <1>0, <1>1, <1>2, <1>6, <2>1, ReturnType
<1>10. pc' = "returned"
  BY <1>6 DEF Return
<1> QED BY <1>8, <1>9, <1>10 DEF IInv, TypeOK, CallIsSound

\* The call ends and nothing rests.
LEMMA NothingRestsStep ==
  ASSUME IInv, NothingRests
  PROVE  IInv'
<1>1. HandlerTypeOK'
  BY FinishWithoutRestingType DEF NothingRests, IInv, TypeOK
<1>2. UNCHANGED next_sequence_number /\ pc' = "returned" /\ UNCHANGED bookVars
  BY DEF NothingRests, FinishWithoutResting, Return
<1>3. MapTypeOK' /\ BookIsSound'
  BY <1>2, UnchangedBookIsSound DEF IInv, TypeOK, HandlerTypeOK
<1> QED BY <1>1, <1>2, <1>3 DEF IInv, TypeOK, CallIsSound

LEMMA CollectStep ==
  ASSUME IInv, Collect, UNCHANGED bookVars
  PROVE  IInv'
<1>1. HandlerTypeOK'
  BY CollectType DEF IInv, TypeOK
<1>2. UNCHANGED next_sequence_number /\ pc' = "idle"
  BY DEF Collect
<1>3. MapTypeOK' /\ BookIsSound'
  BY <1>2, UnchangedBookIsSound DEF IInv, TypeOK, HandlerTypeOK
<1> QED BY <1>1, <1>2, <1>3 DEF IInv, TypeOK, CallIsSound

LEMMA StutterStep ==
  ASSUME IInv, UNCHANGED vars
  PROVE  IInv'
<1>1. UNCHANGED handlerVars /\ UNCHANGED bookVars
  BY DEF vars
<1>2. HandlerTypeOK'
  BY <1>1 DEF IInv, TypeOK, HandlerTypeOK, handlerVars
<1>3. MapTypeOK' /\ BookIsSound'
  BY <1>1, UnchangedBookIsSound DEF handlerVars, IInv, TypeOK, HandlerTypeOK
<1>4. CallIsSound'
  BY <1>1 DEF IInv, CallIsSound, handlerVars, bookVars, contains_order, OrdersAt,
              is_market, new_order_reason
<1> QED BY <1>2, <1>3, <1>4 DEF IInv, TypeOK

LEMMA NextIsSound == IInv /\ [Next]_vars => IInv'
<1> SUFFICES ASSUME IInv, [Next]_vars PROVE IInv'
  OBVIOUS
<1>1. ASSUME NEW req \in NewOrderRequests, SubmitNew(req) PROVE IInv'
  BY <1>1, HandlerAssumption, SubmitNewStep
<1>2. ASSUME NEW req \in ModifyOrderRequests, SubmitModify(req) PROVE IInv'
  BY <1>2, HandlerAssumption, SubmitModifyStep
<1>3. ASSUME NEW req \in CancelOrderRequests, SubmitCancel(req) PROVE IInv'
  BY <1>3, HandlerAssumption, SubmitCancelStep
<1>4. CASE Resubmit
  BY <1>4, ResubmitStep
<1>5. CASE match_buy
  BY <1>5, MatchStep, NoEmptyLevelIsMatched DEF BookSides
<1>6. CASE match_sell
  BY <1>6, MatchStep, NoEmptyLevelIsMatched DEF BookSides
<1>7. CASE add_resting_order
  BY <1>7, AddRestingOrderStep
<1>8. CASE NothingRests
  BY <1>8, NothingRestsStep
<1>9. CASE Collect /\ UNCHANGED bookVars
  BY <1>9, CollectStep
<1>10. CASE UNCHANGED vars
  BY <1>10, StutterStep
<1> QED BY <1>1, <1>2, <1>3, <1>4, <1>5, <1>6, <1>7, <1>8, <1>9, <1>10
  DEF Next, Submit, Continue

-----------------------------------------------------------------------------
(***************************************************************************)
(* The theorems.                                                           *)
(***************************************************************************)

\* IInv holds in every reachable state of the map book.
THEOREM MapSoundness == Spec => []IInv
<1>1. Init => IInv
  BY InitIsSound
<1>2. IInv /\ [Next]_vars => IInv'
  BY NextIsSound
<1> QED BY <1>1, <1>2, PTL DEF Spec

\* Every variable of the book and of the handler keeps its type.
THEOREM MapTypes == Spec => []TypeOK
<1>1. IInv => TypeOK
  BY DEF IInv
<1> QED BY <1>1, MapSoundness, PTL

\* remove_order never follows an iterator of an erased order.
THEOREM IteratorsAreValid == Spec => []NoDanglingIterator
<1>1. IInv => NoDanglingIterator
  BY DEF IInv, BookIsSound
<1> QED BY <1>1, MapSoundness, PTL

\* push_back alone keeps every level in order of arrival.
THEOREM ArrivalOrder == Spec => []ListsAreInArrivalOrder
<1>1. IInv => ListsAreInArrivalOrder
  BY DEF IInv, BookIsSound
<1> QED BY <1>1, MapSoundness, PTL

-----------------------------------------------------------------------------
(***************************************************************************)
(* The quantity of a list.                                                 *)
(***************************************************************************)
LEMMA ListFacts ==
  ASSUME NEW list \in Seq(Order)
  PROVE  /\ Len(list) \in Nat /\ DOMAIN list = 1 .. Len(list) /\ IsFiniteSet(DOMAIN list)
         /\ \A i \in DOMAIN list : list[i] \in Order /\ list[i].remaining_quantity \in Nat
                                   /\ remaining_quantities(list)[i] = list[i].remaining_quantity
         /\ ListQuantity(list) \in Nat
<1>1. Len(list) \in Nat /\ DOMAIN list = 1 .. Len(list)
  BY LenProperties
<1>2. IsFiniteSet(1 .. Len(list))
  BY <1>1, FS_Interval
<1>3. \A i \in DOMAIN list : list[i] \in Order /\ list[i].remaining_quantity \in Nat
                             /\ remaining_quantities(list)[i] = list[i].remaining_quantity
  <2>1. \A i \in DOMAIN list : list[i] \in Order
    BY ElementOfSeq, <1>1
  <2> QED BY <2>1 DEF remaining_quantities, Order
<1>4. ListQuantity(list) \in Nat
  BY <1>1, <1>2, <1>3, SumType DEF ListQuantity
<1> QED BY <1>1, <1>2, <1>3, <1>4

LEMMA EmptyList == ListQuantity(<<>>) = 0
<1>1. DOMAIN <<>> = {}
  OBVIOUS
<1> QED BY <1>1, SumEmpty DEF ListQuantity

LEMMA AppendedQuantity ==
  ASSUME NEW list \in Seq(Order), NEW o \in Order
  PROVE  ListQuantity(Append(list, o)) = ListQuantity(list) + o.remaining_quantity
<1>a. PICK app : app = Append(list, o)
  OBVIOUS
<1>b. PICK D : D = DOMAIN list
  OBVIOUS
<1>c. PICK last : last = Len(list) + 1
  OBVIOUS
<1>d. PICK f : f = remaining_quantities(app)
  OBVIOUS
<1>1. app \in Seq(Order) /\ DOMAIN app = D \cup {last} /\ last \notin D
      /\ (\A i \in D : app[i] = list[i]) /\ app[last] = o
  BY <1>a, <1>b, <1>c, AppendProperties, LenProperties
<1>2. IsFiniteSet(D) /\ \A i \in D \cup {last} : f[i] \in Nat /\ f[i] = app[i].remaining_quantity
  BY <1>1, <1>b, <1>d, ListFacts
<1>3. SumFunctionOnSet(f, D) = ListQuantity(list)
  <2>1. \A i \in D : f[i] = remaining_quantities(list)[i]
    BY <1>1, <1>2, <1>b, ListFacts
  <2> QED BY <1>2, <1>b, <2>1, SumAgrees DEF ListQuantity
<1>4. SumFunctionOnSet(f, D \cup {last}) = f[last] + SumFunctionOnSet(f, D)
  BY <1>1, <1>2, SumAdd
<1>5. ListQuantity(app) = o.remaining_quantity + ListQuantity(list)
  BY <1>1, <1>2, <1>3, <1>4, <1>d DEF ListQuantity
<1>6. ListQuantity(list) \in Nat /\ o.remaining_quantity \in Nat
  BY ListFacts DEF Order
<1> QED BY <1>5, <1>6, <1>a

LEMMA RemovedQuantity ==
  ASSUME NEW list \in Seq(Order), NEW k \in DOMAIN list, NEW left \in Seq(Order),
         Len(left) = Len(list) - 1,
         \A j \in 1 .. Len(list) - 1 : left[j] = list[IF j < k THEN j ELSE j + 1]
  PROVE  ListQuantity(left) = ListQuantity(list) - list[k].remaining_quantity
<1>a. PICK n : n = Len(list)
  OBVIOUS
<1>b. PICK ren : ren = [j \in 1 .. n - 1 |-> IF j < k THEN j ELSE j + 1]
  OBVIOUS
<1>c. PICK f : f = remaining_quantities(left)
  OBVIOUS
<1>d. PICK g : g = remaining_quantities(list)
  OBVIOUS
<1>1. /\ n \in Nat /\ DOMAIN list = 1 .. n /\ k \in 1 .. n
      /\ DOMAIN left = 1 .. n - 1
  BY <1>a, ListFacts
<1>2. /\ \A j \in 1 .. n - 1 : ren[j] \in 1 .. n /\ ren[j] # k /\ left[j] = list[ren[j]]
      /\ \A i, j \in 1 .. n - 1 : ren[i] = ren[j] => i = j
      /\ \A m \in 1 .. n : m # k => \E j \in 1 .. n - 1 : ren[j] = m
  <2>1. \A j \in 1 .. n - 1 : ren[j] = IF j < k THEN j ELSE j + 1
    BY <1>b
  <2>2. \A j \in 1 .. n - 1 : ren[j] \in 1 .. n /\ ren[j] # k
    BY <1>1, <2>1
  <2>3. \A j \in 1 .. n - 1 : left[j] = list[ren[j]]
    BY <1>a, <2>1
  <2>4. \A i, j \in 1 .. n - 1 : ren[i] = ren[j] => i = j
    BY <1>1, <2>1
  <2>5. ASSUME NEW m \in 1 .. n, m # k PROVE \E j \in 1 .. n - 1 : ren[j] = m
    <3>1. CASE m < k
      BY <1>1, <2>1, <2>5, <3>1
    <3>2. CASE m > k
      <4>1. m - 1 \in 1 .. n - 1 /\ ~(m - 1 < k) /\ (m - 1) + 1 = m
        BY <1>1, <3>2
      <4> QED BY <2>1, <4>1
    <3> QED BY <1>1, <2>5, <3>1, <3>2
  <2> QED BY <2>2, <2>3, <2>4, <2>5
<1>3. RenamedSet(ren, 1 .. n - 1) = (1 .. n) \ {k}
  BY <1>2 DEF RenamedSet
<1>4. /\ \A j \in 1 .. n - 1 : f[j] = left[j].remaining_quantity /\ f[j] \in Nat
      /\ \A j \in 1 .. n : g[j] = list[j].remaining_quantity /\ g[j] \in Nat
      /\ IsFiniteSet(1 .. n - 1) /\ IsFiniteSet(1 .. n)
  BY <1>1, <1>c, <1>d, ListFacts
<1>5. SumFunctionOnSet(f, 1 .. n - 1) = SumFunctionOnSet(g, RenamedSet(ren, 1 .. n - 1))
  <2>1. \A j \in 1 .. n - 1 : f[j] = g[ren[j]] /\ f[j] \in Nat
    BY <1>2, <1>4
  <2>2. IsFiniteSet(1 .. n - 1) /\ \A i, j \in 1 .. n - 1 : ren[i] = ren[j] => i = j
    BY <1>2, <1>4
  <2>a. PICK S : S = 1 .. n - 1
    OBVIOUS
  <2>3. IsFiniteSet(S)
    BY <2>2, <2>a
  <2>4. \A x, y \in S : ren[x] = ren[y] => x = y
    BY <2>2, <2>a
  <2>5. \A x \in S : f[x] = g[ren[x]] /\ f[x] \in Nat
    BY <2>1, <2>a
  <2>6. SumFunctionOnSet(f, S) = SumFunctionOnSet(g, RenamedSet(ren, S))
    BY ONLY <2>3, <2>4, <2>5, SumRenames, ZenonT(60)
  <2> QED BY <2>6, <2>a
<1>6. SumFunctionOnSet(g, 1 .. n) = g[k] + SumFunctionOnSet(g, (1 .. n) \ {k})
  BY <1>1, <1>4, SumRemove
<1>7. /\ ListQuantity(list) = list[k].remaining_quantity + ListQuantity(left)
  BY <1>1, <1>3, <1>4, <1>5, <1>6, <1>c, <1>d DEF ListQuantity
<1>8. ListQuantity(left) \in Nat /\ list[k].remaining_quantity \in Nat
  BY ListFacts
<1> QED BY <1>7, <1>8

LEMMA FilledQuantity ==
  ASSUME NEW list \in Seq(Order), 1 \in DOMAIN list, NEW rest \in Order, NEW left,
         left = [list EXCEPT ![1] = rest]
  PROVE  /\ left \in Seq(Order)
         /\ ListQuantity(left)
              = (ListQuantity(list) - list[1].remaining_quantity) + rest.remaining_quantity
<1>a. PICK D : D = DOMAIN list
  OBVIOUS
<1>b. PICK f : f = remaining_quantities(left)
  OBVIOUS
<1>c. PICK g : g = remaining_quantities(list)
  OBVIOUS
<1>1. left \in Seq(Order) /\ DOMAIN left = D /\ left[1] = rest /\ \A i \in D \ {1} : left[i] = list[i]
  BY <1>a
<1>2. IsFiniteSet(D) /\ \A i \in D : f[i] \in Nat /\ f[i] = left[i].remaining_quantity
                                     /\ g[i] \in Nat /\ g[i] = list[i].remaining_quantity
  BY <1>1, <1>a, <1>b, <1>c, ListFacts
<1>3. /\ SumFunctionOnSet(f, D) = f[1] + SumFunctionOnSet(f, D \ {1})
      /\ SumFunctionOnSet(g, D) = g[1] + SumFunctionOnSet(g, D \ {1})
  <2>1. 1 \in D /\ (\A i \in D : f[i] \in Nat) /\ (\A i \in D : g[i] \in Nat)
    BY <1>2, <1>a
  <2>2. SumFunctionOnSet(f, D) = f[1] + SumFunctionOnSet(f, D \ {1})
    BY ONLY <1>2, <2>1, SumRemove, Zenon
  <2>3. SumFunctionOnSet(g, D) = g[1] + SumFunctionOnSet(g, D \ {1})
    BY ONLY <1>2, <2>1, SumRemove, Zenon
  <2> QED BY <2>2, <2>3
<1>4. SumFunctionOnSet(f, D \ {1}) = SumFunctionOnSet(g, D \ {1})
      /\ SumFunctionOnSet(g, D \ {1}) \in Nat
  <2>1. IsFiniteSet(D \ {1})
    BY <1>2, FS_Subset
  <2>2. \A i \in D \ {1} : f[i] = g[i]
    BY <1>1, <1>2
  <2> QED BY <1>2, <2>1, <2>2, SumAgrees, SumType
<1>5. /\ ListQuantity(left) = f[1] + SumFunctionOnSet(g, D \ {1})
      /\ ListQuantity(list) = g[1] + SumFunctionOnSet(g, D \ {1})
  BY <1>1, <1>3, <1>4, <1>a, <1>b, <1>c DEF ListQuantity
<1>6. f[1] = rest.remaining_quantity /\ f[1] \in Nat
      /\ g[1] = list[1].remaining_quantity /\ g[1] \in Nat
  BY <1>1, <1>2, <1>a
<1> QED BY <1>1, <1>4, <1>5, <1>6

-----------------------------------------------------------------------------
(***************************************************************************)
(* The totals of the levels.                                               *)
(***************************************************************************)
LEMMA LevelChangeKeepsTotals ==
  ASSUME MapTypeOK, MapTotalsAreSums, NEW s \in BookSides, NEW p \in Nat,
         NEW orders \in Seq(Order), NEW tq \in 0 .. QuantityMod - 1,
         tq = ListQuantity(orders) % QuantityMod,
         levels' = level_set(s, p, [orders |-> orders, total_quantity |-> tq])
  PROVE  MapTotalsAreSums'
<1>a. PICK level : level = [orders |-> orders, total_quantity |-> tq]
  OBVIOUS
<1>1. level \in PriceLevel /\ level.orders = orders /\ level.total_quantity = tq
  BY <1>a DEF PriceLevel
<1>2. levels' = level_set(s, p, level)
  BY <1>a
<1>3. /\ SameElsewhere(s, p)
      /\ p \in DOMAIN levels'[s] => levels'[s][p] = level
  BY <1>1, <1>2, LevelSet
<1>4. ASSUME NEW t \in BookSides, NEW q \in DOMAIN levels'[t]
      PROVE  levels'[t][q].total_quantity = ListQuantity(levels'[t][q].orders) % QuantityMod
  <2>1. CASE t = s /\ q = p
    BY <1>1, <1>3, <1>4, <2>1
  <2>2. CASE ~(t = s /\ q = p)
    <3>1. q \in DOMAIN levels[t] /\ levels'[t][q] = levels[t][q]
      BY <1>3, <1>4, <2>2 DEF SameElsewhere
    <3> QED BY <3>1 DEF MapTotalsAreSums, OrdersAt
  <2> QED BY <2>1, <2>2
<1> QED BY <1>4 DEF MapTotalsAreSums, OrdersAt

LEMMA SameBookSameTotals ==
  ASSUME MapTotalsAreSums, UNCHANGED bookVars
  PROVE  MapTotalsAreSums'
  BY DEF MapTotalsAreSums, OrdersAt, bookVars

LEMMA TotalOfLevel ==
  ASSUME MapTypeOK, MapTotalsAreSums, NEW s \in BookSides, NEW p \in DOMAIN levels[s]
  PROVE  /\ OrdersAt(s, p) \in Seq(Order) /\ p \in Nat
         /\ ListQuantity(OrdersAt(s, p)) \in Nat
         /\ \A d \in Int : /\ (levels[s][p].total_quantity - d) % QuantityMod
                                = (ListQuantity(OrdersAt(s, p)) - d) % QuantityMod
                          /\ (levels[s][p].total_quantity - d) % QuantityMod
                                \in 0 .. QuantityMod - 1
                          /\ (levels[s][p].total_quantity + d) % QuantityMod
                                = (ListQuantity(OrdersAt(s, p)) + d) % QuantityMod
                          /\ (levels[s][p].total_quantity + d) % QuantityMod
                                \in 0 .. QuantityMod - 1
<1>a. PICK q : q = ListQuantity(OrdersAt(s, p))
  OBVIOUS
<1>1. OrdersAt(s, p) \in Seq(Order) /\ p \in Nat /\ q \in Nat
  BY <1>a, LevelType, ListFacts
<1>2. levels[s][p].total_quantity = q % QuantityMod
  BY <1>a DEF MapTotalsAreSums
<1>3. QuantityMod \in Nat \ {0} /\ q \in Int
  BY <1>1, HandlerAssumption
<1>4. ASSUME NEW d \in Int
      PROVE  /\ ((q % QuantityMod) - d) % QuantityMod = (q - d) % QuantityMod
             /\ ((q % QuantityMod) - d) % QuantityMod \in 0 .. QuantityMod - 1
             /\ ((q % QuantityMod) + d) % QuantityMod = (q + d) % QuantityMod
             /\ ((q % QuantityMod) + d) % QuantityMod \in 0 .. QuantityMod - 1
  <2>1. /\ ((q % QuantityMod) - d) % QuantityMod = (q - d) % QuantityMod
        /\ ((q % QuantityMod) + d) % QuantityMod = (q + d) % QuantityMod
    BY <1>3, WrappedSum, Zenon
  <2>2. q - d \in Int /\ q + d \in Int
    BY <1>3
  <2>3. (q - d) % QuantityMod \in 0 .. QuantityMod - 1
        /\ (q + d) % QuantityMod \in 0 .. QuantityMod - 1
    BY <1>3, <2>2, WrappedSum, Zenon
  <2> QED BY <2>1, <2>3
<1> QED BY <1>1, <1>2, <1>4, <1>a

LEMMA CancelKeepsTotals ==
  ASSUME IInv, MapTotalsAreSums, NEW req \in CancelOrderRequest, req.order_id \in OrderIds,
         CancelStorage(req)
  PROVE  MapTotalsAreSums'
<1>0. MapTypeOK /\ BookIsSound
  BY DEF IInv, TypeOK
<1>1. CASE cancel_order_reason(req) # "None"
  BY <1>1, SameBookSameTotals DEF CancelStorage
<1>2. CASE cancel_order_reason(req) = "None"
  <2>a. PICK s : s = order_lookup[req.order_id].side
    OBVIOUS
  <2>b. PICK p : p = order_lookup[req.order_id].price
    OBVIOUS
  <2>c. PICK k : k = position(order_lookup[req.order_id])
    OBVIOUS
  <2>d. PICK list : list = OrdersAt(s, p)
    OBVIOUS
  <2>e. PICK left : left = RemoveAt(list, k)
    OBVIOUS
  <2>f. PICK tq : tq = (levels[s][p].total_quantity - list[k].remaining_quantity) % QuantityMod
    OBVIOUS
  <2>1. contains_order(req.order_id) /\ remove_order(req.order_id)
    BY <1>2 DEF cancel_order_reason, CancelStorage
  <2>2. /\ s \in BookSides /\ p \in DOMAIN levels[s] /\ k \in DOMAIN list
        /\ order_at(order_lookup[req.order_id]) = list[k]
    BY <2>1, <2>a, <2>b, <2>c, <2>d, LookedUpOrder
  <2>3. levels' = level_set(s, p, [orders |-> left, total_quantity |-> tq])
    BY <2>1, <2>2, <2>a, <2>b, <2>c, <2>d, <2>e, <2>f DEF remove_order, OrdersAt
  <2>4. list \in Seq(Order) /\ p \in Nat /\ list[k].remaining_quantity \in Int
    <3>1. list \in Seq(Order) /\ p \in Nat
      BY <1>0, <2>2, <2>d, TotalOfLevel
    <3>2. list[k].remaining_quantity \in Nat
      BY <2>2, <3>1, ListFacts
    <3> QED BY <3>1, <3>2
  <2>5. /\ left \in Seq(Order) /\ Len(left) = Len(list) - 1
        /\ \A j \in 1 .. Len(list) - 1 : left[j] = list[IF j < k THEN j ELSE j + 1]
    <3>1. k \in 1 .. Len(list)
      BY <2>2, <2>4, ListFacts
    <3> QED BY <2>4, <2>e, <3>1, RemoveAtProperties
  <2>6. ListQuantity(left) = ListQuantity(list) - list[k].remaining_quantity
    BY <2>2, <2>4, <2>5, RemovedQuantity
  <2>7. tq = ListQuantity(left) % QuantityMod /\ tq \in 0 .. QuantityMod - 1
    BY <1>0, <2>2, <2>4, <2>6, <2>d, <2>f, TotalOfLevel
  <2> QED BY <1>0, <2>2, <2>3, <2>4, <2>5, <2>7, LevelChangeKeepsTotals
<1> QED BY <1>1, <1>2

LEMMA MatchKeepsTotals ==
  ASSUME IInv, MapTotalsAreSums, NEW s \in BookSides, CanMatch(s), MatchFront(s)
  PROVE  MapTotalsAreSums'
<1>0. MapTypeOK /\ BookIsSound /\ HandlerTypeOK
  BY DEF IInv, TypeOK
<1>a. PICK p : p = best_price(s)
  OBVIOUS
<1>b. PICK list : list = OrdersAt(s, p)
  OBVIOUS
<1>c. PICK resting : resting = list[1]
  OBVIOUS
<1>d. PICK qty : qty = trade_qty(resting)
  OBVIOUS
<1>e. PICK left : left = AfterTrade(list, qty)
  OBVIOUS
<1>f. PICK tq : tq = (levels[s][p].total_quantity - qty) % QuantityMod
  OBVIOUS
<1>1. p \in DOMAIN levels[s]
  BY <1>a, BestPriceOfSide DEF CanMatch
<1>2. /\ list \in Seq(Order) /\ p \in Nat /\ 1 \in DOMAIN list /\ Head(list) = resting
      /\ resting \in Order
  BY <1>0, <1>1, <1>b, <1>c, FrontOrder, LevelType
<1>3. /\ qty \in Nat /\ qty <= resting.remaining_quantity /\ resting.remaining_quantity \in Nat
      /\ resting.remaining_quantity - qty \in Nat
  BY <1>0, <1>2, <1>d, TradeQuantity DEF Order
<1>4. levels' = level_set(s, p, [orders |-> left, total_quantity |-> tq])
  BY <1>2, <1>a, <1>b, <1>d, <1>e, <1>f DEF MatchFront, OrdersAt
<1>5. left \in Seq(Order) /\ ListQuantity(left) = ListQuantity(list) - qty
  <2>1. CASE resting.remaining_quantity = qty
    <3>1. left = Tail(list)
      BY <1>2, <1>3, <1>e, <2>1 DEF AfterTrade
    <3>2. list # <<>>
      BY <1>2
    <3>3. /\ left \in Seq(Order) /\ Len(left) = Len(list) - 1
          /\ \A j \in 1 .. Len(list) - 1 : left[j] = list[j + 1]
      BY <1>2, <3>1, <3>2, HeadTailProperties
    <3>4. \A j \in 1 .. Len(list) - 1 : left[j] = list[IF j < 1 THEN j ELSE j + 1]
      BY <3>3
    <3> QED BY <1>2, <1>c, <2>1, <3>3, <3>4, RemovedQuantity
  <2>2. CASE resting.remaining_quantity # qty
    <3>a. PICK rest : rest = [resting EXCEPT !.remaining_quantity = @ - qty,
                                             !.order_status = "PartiallyFilled"]
      OBVIOUS
    <3>1. rest \in Order /\ rest.remaining_quantity = resting.remaining_quantity - qty
      <4>1. "PartiallyFilled" \in OrderStatuses
        BY DEF OrderStatuses
      <4> QED BY <1>2, <1>3, <3>a, <4>1 DEF Order
    <3>2. left = [list EXCEPT ![1] = rest]
      <4>1. Head(list).remaining_quantity - qty # 0
        BY <1>2, <1>3, <2>2
      <4>2. left = [list EXCEPT ![1].remaining_quantity = resting.remaining_quantity - qty,
                                ![1].order_status = "PartiallyFilled"]
        BY ONLY <1>2, <1>e, <4>1 DEF AfterTrade
      <4> QED BY ONLY <1>2, <1>c, <3>a, <4>2
    <3>3. /\ left \in Seq(Order)
          /\ ListQuantity(left)
               = (ListQuantity(list) - list[1].remaining_quantity) + rest.remaining_quantity
      BY <1>2, <3>1, <3>2, FilledQuantity
    <3>4. ListQuantity(list) \in Nat
      BY <1>2, ListFacts
    <3> QED BY <1>3, <1>c, <3>1, <3>3, <3>4
  <2> QED BY <2>1, <2>2
<1>6. tq = ListQuantity(left) % QuantityMod /\ tq \in 0 .. QuantityMod - 1
  BY <1>0, <1>1, <1>3, <1>5, <1>b, <1>f, TotalOfLevel
<1> QED BY <1>0, <1>2, <1>4, <1>5, <1>6, LevelChangeKeepsTotals

LEMMA AddRestingOrderKeepsTotals ==
  ASSUME IInv, MapTotalsAreSums, add_resting_order
  PROVE  MapTotalsAreSums'
<1>0. MapTypeOK /\ HandlerTypeOK
  BY DEF IInv, TypeOK
<1>a. PICK s : s = incoming.side
  OBVIOUS
<1>b. PICK p : p = incoming.price
  OBVIOUS
<1>c. PICK o : o = [incoming EXCEPT !.order_status = "Resting"]
  OBVIOUS
<1>d. PICK old : old = level_at(s, p).orders
  OBVIOUS
<1>e. PICK tq : tq = (level_at(s, p).total_quantity + o.remaining_quantity) % QuantityMod
  OBVIOUS
<1>1. /\ o \in Order /\ o.remaining_quantity = incoming.remaining_quantity
      /\ o.remaining_quantity \in Int /\ p \in Nat
  BY <1>0, <1>b, <1>c DEF HandlerTypeOK, Order, OrderStatuses
<1>2. s \in BookSides
  BY <1>a DEF IInv, CallIsSound, add_resting_order, MatchingDone
<1>3. levels' = level_set(s, p, [orders |-> Append(old, o), total_quantity |-> tq])
  BY <1>1, <1>a, <1>b, <1>c, <1>d, <1>e DEF add_resting_order, AtEndOf
<1>4. /\ old \in Seq(Order) /\ tq \in 0 .. QuantityMod - 1
      /\ tq = (ListQuantity(old) + o.remaining_quantity) % QuantityMod
  <2>1. CASE p \in DOMAIN levels[s]
    <3>1. old = OrdersAt(s, p) /\ level_at(s, p) = levels[s][p]
      BY <1>d, <2>1 DEF level_at, OrdersAt
    <3> QED BY <1>0, <1>1, <1>2, <1>e, <2>1, <3>1, TotalOfLevel
  <2>2. CASE p \notin DOMAIN levels[s]
    <3>1. old = <<>> /\ level_at(s, p).total_quantity = 0
      BY <1>d, <2>2 DEF level_at, NoLevel
    <3>2. tq = (0 + o.remaining_quantity) % QuantityMod /\ old \in Seq(Order)
      BY <1>e, <3>1
    <3>3. tq \in 0 .. QuantityMod - 1
      BY <1>1, <3>2, HandlerAssumption
    <3> QED BY <3>1, <3>2, <3>3, EmptyList
  <2> QED BY <2>1, <2>2
<1>5. Append(old, o) \in Seq(Order) /\ tq = ListQuantity(Append(old, o)) % QuantityMod
  BY <1>1, <1>4, AppendedQuantity, AppendProperties
<1> QED BY <1>0, <1>1, <1>2, <1>3, <1>4, <1>5, LevelChangeKeepsTotals

LEMMA TotalsStaySums == IInv /\ MapTotalsAreSums /\ [Next]_vars => MapTotalsAreSums'
<1> SUFFICES ASSUME IInv, MapTotalsAreSums, [Next]_vars PROVE MapTotalsAreSums'
  OBVIOUS
<1>1. ASSUME NEW req \in NewOrderRequests, SubmitNew(req) PROVE MapTotalsAreSums'
  BY <1>1, SameBookSameTotals DEF SubmitNew
<1>2. ASSUME NEW req \in ModifyOrderRequests, SubmitModify(req) PROVE MapTotalsAreSums'
  <2>a. PICK cancel_req : cancel_req = [order_id |-> req.order_id]
    OBVIOUS
  <2>1. cancel_req \in CancelOrderRequest /\ cancel_req.order_id \in OrderIds
    BY <1>2, <2>a, HandlerAssumption DEF CancelOrderRequest, ModifyOrderRequest
  <2>2. UNCHANGED bookVars \/ CancelStorage(cancel_req)
    BY <1>2, <2>a DEF SubmitModify
  <2> QED BY <2>1, <2>2, SameBookSameTotals, CancelKeepsTotals
<1>3. ASSUME NEW req \in CancelOrderRequests, SubmitCancel(req) PROVE MapTotalsAreSums'
  BY <1>3, CancelKeepsTotals, HandlerAssumption DEF SubmitCancel
<1>4. CASE match_buy
  BY <1>4, MatchKeepsTotals, NoEmptyLevelIsMatched DEF BookSides
<1>5. CASE match_sell
  BY <1>5, MatchKeepsTotals, NoEmptyLevelIsMatched DEF BookSides
<1>6. CASE add_resting_order
  BY <1>6, AddRestingOrderKeepsTotals
<1>7. CASE UNCHANGED bookVars
  BY <1>7, SameBookSameTotals
<1> QED BY <1>1, <1>2, <1>3, <1>4, <1>5, <1>6, <1>7
  DEF Next, Submit, Continue, Resubmit, NothingRests, vars

LEMMA EmptyTotals == Init => MapTotalsAreSums
  BY DEF Init, MapTotalsAreSums

-----------------------------------------------------------------------------
(***************************************************************************)
(* The validator.                                                          *)
(***************************************************************************)
LEMMA LevelsAreValid ==
  ASSUME IInv, MapTotalsAreSums, NEW s \in BookSides, NEW p \in DOMAIN levels[s]
  PROVE  check_level(s, p)
<1>1. /\ OrdersAt(s, p) # <<>>
      /\ levels[s][p].total_quantity = ListQuantity(OrdersAt(s, p)) % QuantityMod
  BY DEF IInv, BookIsSound, OrdersAreSound, MapTotalsAreSums
<1>2. ASSUME NEW i \in DOMAIN OrdersAt(s, p)
      PROVE  LET o == OrdersAt(s, p)[i]
             IN  /\ o.side = s /\ o.price = p /\ o.remaining_quantity # 0
                 /\ order_lookup[o.order_id]
                      = [side |-> s, price |-> p, it |-> o.sequence_number]
  <2>1. OrdersAt(s, p)[i].remaining_quantity # 0
    <3>1. OrdersAt(s, p)[i].remaining_quantity > 0
      BY DEF IInv, BookIsSound, OrdersAreSound
    <3> QED BY <3>1
  <2> QED BY <2>1 DEF IInv, BookIsSound, OrdersAreSound
<1> QED BY <1>1, <1>2 DEF check_level

ImageOf(F, S) == {F[x] : x \in S}

LEMMA ImageIsFinite ==
  ASSUME NEW S, IsFiniteSet(S), NEW F
  PROVE  IsFiniteSet(ImageOf(F, S))
<1>a. PICK g : g = [x \in S |-> F[x]]
  OBVIOUS
<1>1. g \in Surjection(S, ImageOf(F, S))
  BY <1>a DEF Surjection, ImageOf
<1> QED BY <1>1, FS_Surjection

PlacesAt(s, p) == {s} \X {p} \X DOMAIN OrdersAt(s, p)
PlacesOf(s) == UNION {PlacesAt(s, p) : p \in DOMAIN levels[s]}

LEMMA PlacesAreFinite ==
  ASSUME IInv
  PROVE  /\ IsFiniteSet(Places)
         /\ \A x \in Places : /\ x = <<x[1], x[2], x[3]>>
                              /\ x[1] \in BookSides /\ x[2] \in DOMAIN levels[x[1]]
                              /\ x[3] \in DOMAIN OrdersAt(x[1], x[2])
         /\ \A s \in BookSides : \A p \in DOMAIN levels[s] : \A i \in DOMAIN OrdersAt(s, p) :
              <<s, p, i>> \in Places
<1>1. Places = UNION {PlacesOf(s) : s \in BookSides}
  BY DEF Places, PlacesOf, PlacesAt
<1>2. ASSUME NEW s \in BookSides, NEW p \in DOMAIN levels[s]
      PROVE  IsFiniteSet(PlacesAt(s, p))
  <2>1. IsFiniteSet(DOMAIN OrdersAt(s, p))
    BY LevelType, ListFacts DEF IInv, TypeOK
  <2>2. IsFiniteSet({s}) /\ IsFiniteSet({p})
    BY FS_Singleton
  <2>3. IsFiniteSet({p} \X DOMAIN OrdersAt(s, p))
    BY <2>1, <2>2, FS_Product
  <2>a. PICK f : f = [x \in {p} \X DOMAIN OrdersAt(s, p) |-> <<s, p, x[2]>>]
    OBVIOUS
  <2>4. f \in [{p} \X DOMAIN OrdersAt(s, p) -> PlacesAt(s, p)]
    BY <2>a DEF PlacesAt
  <2>5. \A x, y \in {p} \X DOMAIN OrdersAt(s, p) : f[x] = f[y] => x = y
    BY <2>a
  <2>6. \A y \in PlacesAt(s, p) : \E x \in {p} \X DOMAIN OrdersAt(s, p) : f[x] = y
    <3>1. \A y \in PlacesAt(s, p) : \E i \in DOMAIN OrdersAt(s, p) : y = <<s, p, i>>
      BY DEF PlacesAt
    <3>2. \A i \in DOMAIN OrdersAt(s, p) :
            <<p, i>> \in {p} \X DOMAIN OrdersAt(s, p) /\ f[<<p, i>>] = <<s, p, i>>
      BY <2>a
    <3> QED BY <3>1, <3>2
  <2> QED BY <2>3, <2>4, <2>5, <2>6, SameCardinality
<1>3. ASSUME NEW s \in BookSides PROVE IsFiniteSet(PlacesOf(s))
  <2>1. IsFiniteSet(DOMAIN levels[s])
    BY DEF IInv, BookIsSound, MapsAreFinite
  <2>2. IsFiniteSet({PlacesAt(s, p) : p \in DOMAIN levels[s]})
    <3>a. PICK F : F = [p \in DOMAIN levels[s] |-> PlacesAt(s, p)]
      OBVIOUS
    <3>1. ImageOf(F, DOMAIN levels[s]) = {PlacesAt(s, p) : p \in DOMAIN levels[s]}
      BY <3>a DEF ImageOf
    <3> QED BY <2>1, <3>1, ImageIsFinite
  <2> QED BY <1>2, <2>2, FS_UNION DEF PlacesOf
<1>4. IsFiniteSet(Places)
  <2>1. IsFiniteSet(BookSides)
    <3>1. IsFiniteSet({"Buy"} \cup {"Sell"})
      BY FS_Singleton, FS_Union
    <3>2. BookSides = {"Buy"} \cup {"Sell"}
      BY DEF BookSides
    <3> QED BY <3>1, <3>2
  <2>2. IsFiniteSet({PlacesOf(s) : s \in BookSides})
    <3>a. PICK F : F = [s \in BookSides |-> PlacesOf(s)]
      OBVIOUS
    <3>1. ImageOf(F, BookSides) = {PlacesOf(s) : s \in BookSides}
      BY <3>a DEF ImageOf
    <3> QED BY <2>1, <3>1, ImageIsFinite
  <2> QED BY <1>1, <1>3, <2>2, FS_UNION
<1>5. \A x \in Places : \E s \in BookSides : \E p \in DOMAIN levels[s] :
        \E i \in DOMAIN OrdersAt(s, p) : x = <<s, p, i>>
  BY <1>1 DEF PlacesOf, PlacesAt
<1>6. \A s \in BookSides : \A p \in DOMAIN levels[s] : \A i \in DOMAIN OrdersAt(s, p) :
        <<s, p, i>> \in Places
  BY <1>1 DEF PlacesOf, PlacesAt
<1> QED BY <1>4, <1>5, <1>6

LEMMA ValidatorAccepts ==
  ASSUME IInv, MapTotalsAreSums
  PROVE  MapCheckInvariants
<1>0. MapTypeOK /\ BookIsSound
  BY DEF IInv, TypeOK
<1>1. \A s \in BookSides : \A p \in DOMAIN levels[s] : check_level(s, p)
  BY LevelsAreValid
<1>2. Cardinality(Places) = Cardinality({id \in OrderIds : contains_order(id)})
  <2> DEFINE ids == {id \in OrderIds : contains_order(id)}
             f == [x \in Places |-> OrdersAt(x[1], x[2])[x[3]].order_id]
  <2>1. f \in [Places -> ids]
    BY <1>0, PlacesAreFinite, IteratorOfPlace
  <2>2. \A x, y \in Places : f[x] = f[y] => x = y
    <3> SUFFICES ASSUME NEW x \in Places, NEW y \in Places, f[x] = f[y] PROVE x = y
      OBVIOUS
    <3>1. /\ x[1] \in BookSides /\ x[2] \in DOMAIN levels[x[1]]
          /\ x[3] \in DOMAIN OrdersAt(x[1], x[2]) /\ x = <<x[1], x[2], x[3]>>
          /\ y[1] \in BookSides /\ y[2] \in DOMAIN levels[y[1]]
          /\ y[3] \in DOMAIN OrdersAt(y[1], y[2]) /\ y = <<y[1], y[2], y[3]>>
      BY PlacesAreFinite
    <3>2. OrdersAt(x[1], x[2])[x[3]].order_id = OrdersAt(y[1], y[2])[y[3]].order_id
      OBVIOUS
    <3>3. x[1] = y[1] /\ x[2] = y[2] /\ x[3] = y[3]
      BY ONLY <1>0, <3>1, <3>2, OnePlace
    <3> QED BY <3>1, <3>3
  <2>3. \A id \in ids : \E x \in Places : f[x] = id
    <3> SUFFICES ASSUME NEW id \in OrderIds, contains_order(id)
                 PROVE  \E x \in Places : f[x] = id
      OBVIOUS
    <3>1. PICK s \in BookSides : \E p \in DOMAIN levels[s] : \E i \in DOMAIN OrdersAt(s, p) :
            OrdersAt(s, p)[i].order_id = id
      BY <1>0, PlaceOfId
    <3>2. PICK p \in DOMAIN levels[s] : \E i \in DOMAIN OrdersAt(s, p) :
            OrdersAt(s, p)[i].order_id = id
      BY <3>1
    <3>3. PICK i \in DOMAIN OrdersAt(s, p) : OrdersAt(s, p)[i].order_id = id
      BY <3>2
    <3>4. <<s, p, i>> \in Places
      BY PlacesAreFinite
    <3>5. f[<<s, p, i>>] = id
      BY <3>3, <3>4
    <3> QED BY <3>4, <3>5
  <2>4. IsFiniteSet(Places)
    BY PlacesAreFinite
  <2> HIDE DEF f
  <2> QED BY <2>1, <2>2, <2>3, <2>4, SameCardinality
<1>3. DOMAIN levels["Buy"] # {} /\ DOMAIN levels["Sell"] # {} =>
        best_price("Buy") < best_price("Sell")
  BY BestPriceOfSide DEF IInv, BookIsSound, NeverCrossed, BookSides
<1> QED BY <1>1, <1>2, <1>3 DEF MapCheckInvariants, check_invariants

\* total_quantity of each map level is what the orders in its list add up to, in the
\* counter's 32 bits, through any sequence of rests, fills and cancels.
THEOREM MapLevelTotals == Spec => []MapTotalsAreSums
<1>1. Init => IInv /\ MapTotalsAreSums
  BY InitIsSound, EmptyTotals
<1>2. IInv /\ MapTotalsAreSums /\ [Next]_vars => IInv' /\ MapTotalsAreSums'
  BY NextIsSound, TotalsStaySums
<1> QED BY <1>1, <1>2, PTL DEF Spec

\* check_invariants() of the map book accepts every state of every behaviour.
THEOREM MapValidatorNeverFails == Spec => []MapCheckInvariants
<1>1. IInv /\ MapTotalsAreSums => MapCheckInvariants
  BY ValidatorAccepts
<1> QED BY <1>1, MapSoundness, MapLevelTotals, PTL

-----------------------------------------------------------------------------
(***************************************************************************)
(* The account of what became of an accepted order.                        *)
(***************************************************************************)
LEMMA SubmitNewAccounts ==
  ASSUME IInv, NEW req \in NewOrderRequests, SubmitNew(req)
  PROVE  AccountsBalance'
<1>1. req \in NewOrderRequest /\ new_order_reason(req) \in Reasons
  BY HandlerAssumption, MapReasons
<1>2. <<>> \in Seq(Event) /\ DOMAIN <<>> = {}
  OBVIOUS
<1>3. \A i \in DOMAIN <<>> : <<>>[i].event_type = "OrderCancelled"
  BY <1>2
<1>4. HandlerTypeOK /\ handle_new_order(req, new_order_reason(req), <<>>)
  BY DEF IInv, TypeOK, SubmitNew
<1> QED BY <1>1, <1>2, <1>3, <1>4, HandleNewOrderBalances

LEMMA ResubmitAccounts ==
  ASSUME IInv, AccountsBalance, Resubmit
  PROVE  AccountsBalance'
<1>1. /\ new_req \in NewOrderRequest /\ events \in Seq(Event) /\ HandlerTypeOK
      /\ new_order_reason(new_req) \in Reasons
  BY MapReasons DEF IInv, TypeOK, HandlerTypeOK
<1>2. \A i \in DOMAIN events : events[i].event_type = "OrderCancelled"
  BY DEF Resubmit, AccountsBalance
<1> QED BY <1>1, <1>2, HandleNewOrderBalances DEF Resubmit

LEMMA SubmitCancelAccounts ==
  ASSUME IInv, NEW req \in CancelOrderRequests, SubmitCancel(req)
  PROVE  AccountsBalance'
<1>1. req \in CancelOrderRequest /\ req.order_id \in OrderIds
  BY HandlerAssumption
<1>2. /\ Answer(cancel_event(req)) /\ CancelStorage(req) /\ UNCHANGED next_sequence_number
  BY DEF SubmitCancel, Answer
<1>3. cancel_event(req) \in Event
  BY <1>1, <1>2, CancelStorageStep
<1>4. cancel_event(req).event_type # "OrderAccepted"
  BY DEF cancel_event, CancelRejected, OrderCancelled, DefaultEvent
<1> QED BY <1>2, <1>3, <1>4, AnswerBalances

LEMMA SubmitModifyAccounts ==
  ASSUME IInv, NEW req \in ModifyOrderRequests, SubmitModify(req)
  PROVE  AccountsBalance'
<1>1. req \in ModifyOrderRequest /\ req.order_id \in OrderIds
  BY HandlerAssumption
<1>2. CASE modify_order_reason(req) # "None"
  <2>a. PICK e : e = ModifyRejected(req, modify_order_reason(req))
    OBVIOUS
  <2>1. e \in Event
    BY <1>1, <2>a, MapReasons, RejectionTypes
  <2>2. e.event_type # "OrderAccepted"
    BY <2>a DEF ModifyRejected, DefaultEvent
  <2>3. Answer(e)
    BY <1>2, <2>a DEF SubmitModify
  <2> QED BY <2>1, <2>2, <2>3, AnswerBalances
<1>3. CASE modify_order_reason(req) = "None"
  <2>a. PICK cancel_req : cancel_req = [order_id |-> req.order_id]
    OBVIOUS
  <2>b. PICK e : e = cancel_event(cancel_req)
    OBVIOUS
  <2>1. BeginModify(req, order_at(order_lookup[req.order_id]), e) /\ CancelStorage(cancel_req)
    BY <1>3, <2>a, <2>b DEF SubmitModify
  <2>2. cancel_req \in CancelOrderRequest /\ cancel_req.order_id \in OrderIds
    BY <1>1, <2>a DEF CancelOrderRequest, ModifyOrderRequest
  <2>3. req.order_id # 0 /\ contains_order(req.order_id)
    BY <1>3 DEF modify_order_reason, is_valid_modify_order_request
  <2>4. cancel_order_reason(cancel_req) = "None"
    BY <1>1, <2>a, <2>3, CancelIsNeverRefusedInside
  <2>5. e \in Event
    BY <2>1, <2>2, <2>b, CancelStorageStep DEF BeginModify
  <2>6. e.event_type = "OrderCancelled"
    BY <2>4, <2>b DEF cancel_event, OrderCancelled, DefaultEvent
  <2> QED BY <2>1, <2>5, <2>6, BeginModifyBalances
<1> QED BY <1>2, <1>3

LEMMA MatchAccounts ==
  ASSUME IInv, AccountsBalance, pc = "matching", NEW s \in BookSides, CanMatch(s), MatchFront(s)
  PROVE  AccountsBalance'
<1>a. PICK resting : resting = OrdersAt(s, best_price(s))[1]
  OBVIOUS
<1>1. resting \in Order /\ TradeWith(resting)
  BY <1>a, FillOfFront DEF CanMatch
<1>2. HandlerTypeOK
  BY DEF IInv, TypeOK
<1> QED BY <1>1, <1>2, TradeBalances

LEMMA AddRestingOrderAccounts ==
  ASSUME IInv, AccountsBalance, add_resting_order
  PROVE  AccountsBalance'
<1>1. HandlerTypeOK /\ Return(new_req, Append(events, OrderRested(incoming)))
  BY DEF IInv, TypeOK, add_resting_order
<1> QED BY <1>1, RestBalances

LEMMA AccountsStayBalanced == IInv /\ AccountsBalance /\ [Next]_vars => AccountsBalance'
<1> SUFFICES ASSUME IInv, AccountsBalance, [Next]_vars PROVE AccountsBalance'
  OBVIOUS
<1>1. ASSUME NEW req \in NewOrderRequests, SubmitNew(req) PROVE AccountsBalance'
  BY <1>1, SubmitNewAccounts
<1>2. ASSUME NEW req \in ModifyOrderRequests, SubmitModify(req) PROVE AccountsBalance'
  BY <1>2, SubmitModifyAccounts
<1>3. ASSUME NEW req \in CancelOrderRequests, SubmitCancel(req) PROVE AccountsBalance'
  BY <1>3, SubmitCancelAccounts
<1>4. CASE Resubmit
  BY <1>4, ResubmitAccounts
<1>5. CASE match_buy
  BY <1>5, MatchAccounts, NoEmptyLevelIsMatched DEF BookSides
<1>6. CASE match_sell
  BY <1>6, MatchAccounts, NoEmptyLevelIsMatched DEF BookSides
<1>7. CASE add_resting_order
  BY <1>7, AddRestingOrderAccounts
<1>8. CASE NothingRests
  BY <1>8, FinishBalances DEF NothingRests, IInv, TypeOK
<1>9. CASE Collect /\ UNCHANGED bookVars
  BY <1>9, CollectBalances
<1>10. CASE UNCHANGED vars
  BY <1>10, StutterBalances DEF vars
<1> QED BY <1>1, <1>2, <1>3, <1>4, <1>5, <1>6, <1>7, <1>8, <1>9, <1>10
  DEF Next, Submit, Continue

LEMMA Accounts == Spec => []AccountsBalance
<1>1. Init => AccountsBalance
  BY InitialBalance DEF Init
<1>2. IInv /\ AccountsBalance /\ [Next]_vars => AccountsBalance'
  BY AccountsStayBalanced
<1> QED BY <1>1, <1>2, MapSoundness, PTL DEF Spec

\* The quantity of an accepted order is accounted for exactly once, whatever the
\* matching loop and the closing events made of it.
THEOREM MapQuantityIsAccountedFor == Spec => []FillAccounting
<1>1. AccountsBalance => FillAccounting
  BY DEF AccountsBalance
<1> QED BY <1>1, Accounts, PTL

-----------------------------------------------------------------------------
(***************************************************************************)
(* MapBook implements PriceTimeBook with every price tradable, for every   *)
(* set of requests: under resting_orders every step on the maps, the lists *)
(* and the lookup is a step of the price-time book. The handler is the     *)
(* same in both modules.                                                   *)
(***************************************************************************)
LEMMA SameRequestChecks ==
  /\ \A req : PriceTime!is_valid_new_order_request(req) = is_valid_new_order_request(req)
  /\ \A req : PriceTime!is_valid_modify_order_request(req) = is_valid_modify_order_request(req)
  /\ \A req : PriceTime!is_valid_cancel_order_request(req) = is_valid_cancel_order_request(req)
  BY DEF PriceTime!is_valid_new_order_request, is_valid_new_order_request,
         PriceTime!is_valid_modify_order_request, is_valid_modify_order_request,
         PriceTime!is_valid_cancel_order_request, is_valid_cancel_order_request

LEMMA SameEventsOfRequests ==
  /\ \A req, why : PriceTime!NewRejected(req, why) = NewRejected(req, why)
  /\ \A req, why : PriceTime!ModifyRejected(req, why) = ModifyRejected(req, why)
  /\ \A req, why : PriceTime!CancelRejected(req, why) = CancelRejected(req, why)
  /\ \A req : PriceTime!OrderAccepted(req) = OrderAccepted(req)
  /\ \A req : PriceTime!OrderModified(req) = OrderModified(req)
  BY DEF PriceTime!NewRejected, NewRejected, PriceTime!ModifyRejected, ModifyRejected,
         PriceTime!CancelRejected, CancelRejected, PriceTime!OrderAccepted, OrderAccepted,
         PriceTime!OrderModified, OrderModified, PriceTime!DefaultEvent, DefaultEvent

LEMMA SameEventsOfOrders ==
  /\ \A o : PriceTime!OrderCancelled(o) = OrderCancelled(o)
  /\ \A o : PriceTime!OrderRested(o) = OrderRested(o)
  /\ \A o : PriceTime!UnfilledMarketOrderCancelled(o) = UnfilledMarketOrderCancelled(o)
  /\ \A o, qty : PriceTime!Trade(o, qty) = Trade(o, qty)
  BY DEF PriceTime!OrderCancelled, OrderCancelled, PriceTime!OrderRested, OrderRested,
         PriceTime!UnfilledMarketOrderCancelled, UnfilledMarketOrderCancelled,
         PriceTime!Trade, Trade, PriceTime!DefaultEvent, DefaultEvent

LEMMA SameReturn ==
  ASSUME NEW req, NEW evs
  PROVE  PriceTime!Return(req, evs) <=> Return(req, evs)
  BY SameEventsOfRequests
  DEF PriceTime!Return, Return, PriceTime!NoRequest, NoRequest, PriceTime!NoOrder, NoOrder

LEMMA SameNewOrder ==
  ASSUME NEW req, NEW why, NEW evs
  PROVE  PriceTime!handle_new_order(req, why, evs) <=> handle_new_order(req, why, evs)
  BY SameReturn, SameEventsOfRequests DEF PriceTime!handle_new_order, handle_new_order

LEMMA SameAnswers ==
  /\ \A event : PriceTime!Answer(event) <=> Answer(event)
  /\ \A req, old, event : PriceTime!BeginModify(req, old, event) <=> BeginModify(req, old, event)
  /\ PriceTime!Ready <=> Ready
  /\ PriceTime!Collect <=> Collect
  /\ PriceTime!FinishWithoutResting <=> FinishWithoutResting
<1>1. PriceTime!FinishWithoutResting <=> FinishWithoutResting
  BY SameReturn, SameEventsOfOrders DEF PriceTime!FinishWithoutResting, FinishWithoutResting
<1> QED BY <1>1
  DEF PriceTime!Answer, Answer, PriceTime!BeginModify, BeginModify,
      PriceTime!Ready, Ready, PriceTime!Collect, Collect

LEMMA SameMatching ==
  /\ PriceTime!is_market <=> is_market
  /\ \A price : PriceTime!Crosses(price) <=> Crosses(price)
  /\ \A o : PriceTime!trade_qty(o) = trade_qty(o)
  /\ \A o : PriceTime!TradeWith(o) <=> TradeWith(o)
  /\ PriceTime!Opposite(incoming.side) = Opposite(incoming.side)
<1>1. PriceTime!is_market <=> is_market
  BY DEF PriceTime!is_market, is_market
<1>2. \A o : PriceTime!trade_qty(o) = trade_qty(o)
  BY DEF PriceTime!trade_qty, trade_qty
<1> QED BY <1>1, <1>2, SameEventsOfOrders
  DEF PriceTime!Crosses, Crosses, PriceTime!TradeWith, TradeWith,
      PriceTime!Opposite, Opposite

-----------------------------------------------------------------------------
(***************************************************************************)
(* The book that its callers see.                                          *)
(***************************************************************************)

\* The lookup leads to every order at rest, and to nothing else.
OrdersAreRead ==
  /\ \A s \in BookSides : \A p \in DOMAIN levels[s] : \A i \in DOMAIN OrdersAt(s, p) :
       /\ OrdersAt(s, p)[i].order_id \in OrderIds
       /\ resting_orders[OrdersAt(s, p)[i].order_id] = OrdersAt(s, p)[i]
  /\ \A id \in OrderIds : contains_order(id) =>
       \E s \in BookSides : \E p \in DOMAIN levels[s] : \E i \in DOMAIN OrdersAt(s, p) :
         OrdersAt(s, p)[i].order_id = id /\ resting_orders[id] = OrdersAt(s, p)[i]
  /\ \A id \in OrderIds : ~contains_order(id) => resting_orders[id] = NoOrder
  /\ resting_orders = [id \in OrderIds |-> resting_orders[id]]

LEMMA LookupReadsOrders == MapTypeOK /\ BookIsSound => OrdersAreRead
<1> SUFFICES ASSUME MapTypeOK, BookIsSound PROVE OrdersAreRead
  OBVIOUS
<1>1. ASSUME NEW s \in BookSides, NEW p \in DOMAIN levels[s], NEW i \in DOMAIN OrdersAt(s, p)
      PROVE  /\ OrdersAt(s, p)[i].order_id \in OrderIds
             /\ resting_orders[OrdersAt(s, p)[i].order_id] = OrdersAt(s, p)[i]
  <2>a. PICK id : id = OrdersAt(s, p)[i].order_id
    OBVIOUS
  <2>1. id \in OrderIds /\ contains_order(id) /\ order_at(order_lookup[id]) = OrdersAt(s, p)[i]
    BY <2>a, IteratorOfPlace
  <2> QED BY <2>1, <2>a DEF resting_orders
<1>2. ASSUME NEW id \in OrderIds, contains_order(id)
      PROVE  \E s \in BookSides : \E p \in DOMAIN levels[s] : \E i \in DOMAIN OrdersAt(s, p) :
               OrdersAt(s, p)[i].order_id = id /\ resting_orders[id] = OrdersAt(s, p)[i]
  <2>1. \E s \in BookSides : \E p \in DOMAIN levels[s] : \E i \in DOMAIN OrdersAt(s, p) :
          OrdersAt(s, p)[i].order_id = id /\ order_at(order_lookup[id]) = OrdersAt(s, p)[i]
    BY <1>2, PlaceOfId
  <2>2. resting_orders[id] = order_at(order_lookup[id])
    BY <1>2 DEF resting_orders
  <2> QED BY ONLY <2>1, <2>2
<1>3. \A id \in OrderIds : ~contains_order(id) => resting_orders[id] = NoOrder
  BY DEF resting_orders
<1>4. resting_orders = [id \in OrderIds |-> resting_orders[id]]
  BY DEF resting_orders
<1> QED BY <1>1, <1>2, <1>3, <1>4 DEF OrdersAreRead

\* The list of one level becomes `orders', and the other levels stay.
LevelBecomes(s, p, orders) ==
  /\ p \in DOMAIN levels'[s] => OrdersAt(s, p)' = orders
  /\ \A t \in BookSides : \A q : t # s \/ q # p =>
       /\ q \in DOMAIN levels'[t] <=> q \in DOMAIN levels[t]
       /\ q \in DOMAIN levels[t] => OrdersAt(t, q)' = OrdersAt(t, q)

\* An order that the lookup leads to after the list of one level became `orders'
\* is the order it led to before, or one of that list.
LEMMA ReadAfterLevelChange ==
  ASSUME OrdersAreRead, OrdersAreRead', NEW s \in BookSides, NEW p,
         NEW orders, LevelBecomes(s, p, orders),
         NEW id \in OrderIds, contains_order(id)'
  PROVE  \/ resting_orders'[id] = resting_orders[id]
         \/ \E i \in DOMAIN orders : orders[i].order_id = id /\ resting_orders'[id] = orders[i]
<1> DEFINE IsAt(t, q, i) ==
      OrdersAt(t, q)'[i].order_id = id /\ resting_orders'[id] = OrdersAt(t, q)'[i]
<1>a. PICK t \in BookSides : \E q \in DOMAIN levels'[t] : \E i \in DOMAIN OrdersAt(t, q)' :
        IsAt(t, q, i)
  BY DEF OrdersAreRead
<1>b. PICK q \in DOMAIN levels'[t] : \E i \in DOMAIN OrdersAt(t, q)' : IsAt(t, q, i)
  BY <1>a
<1>1. PICK i \in DOMAIN OrdersAt(t, q)' : IsAt(t, q, i)
  BY <1>b
<1>2. CASE t = s /\ q = p
  <2>1. OrdersAt(t, q)' = orders
    BY <1>2 DEF LevelBecomes
  <2> QED BY <1>1, <2>1
<1>3. CASE ~(t = s /\ q = p)
  <2>1. q \in DOMAIN levels[t] /\ OrdersAt(t, q)' = OrdersAt(t, q)
    BY <1>3 DEF LevelBecomes
  <2>2. resting_orders[OrdersAt(t, q)[i].order_id] = OrdersAt(t, q)[i]
    BY <1>1, <2>1 DEF OrdersAreRead
  <2> QED BY <1>1, <2>1, <2>2
<1> QED BY <1>2, <1>3

\* An order at rest has something left, so it is not a default-constructed one.
LEMMA RestingOrder ==
  ASSUME IInv, NEW id \in OrderIds
  PROVE  PriceTime!contains_order(id) <=> contains_order(id)
<1>1. contains_order(id) => resting_orders[id].remaining_quantity # 0
  <2>1. contains_order(id) =>
          \E s \in BookSides : \E p \in DOMAIN levels[s] : \E i \in DOMAIN OrdersAt(s, p) :
            resting_orders[id] = OrdersAt(s, p)[i]
    BY LookupReadsOrders DEF IInv, TypeOK, OrdersAreRead
  <2>2. \A s \in BookSides : \A p \in DOMAIN levels[s] : \A i \in DOMAIN OrdersAt(s, p) :
          OrdersAt(s, p)[i].remaining_quantity # 0
    <3>1. \A s \in BookSides : \A p \in DOMAIN levels[s] : \A i \in DOMAIN OrdersAt(s, p) :
            OrdersAt(s, p)[i] \in Order /\ OrdersAt(s, p)[i].remaining_quantity > 0
      BY LevelType DEF IInv, TypeOK, BookIsSound, OrdersAreSound
    <3> QED BY <3>1 DEF Order
  <2> QED BY ONLY <2>1, <2>2
<1>2. NoOrder.remaining_quantity = 0 /\ PriceTime!NoOrder = NoOrder
  BY DEF NoOrder, PriceTime!NoOrder
<1>3. ~contains_order(id) => resting_orders[id] = NoOrder
  BY DEF resting_orders
<1> QED BY <1>1, <1>2, <1>3 DEF PriceTime!contains_order

LEMMA SameReasons ==
  ASSUME IInv
  PROVE  /\ \A req \in NewOrderRequest : req.order_id \in OrderIds =>
              PriceTime!new_order_reason(req) = new_order_reason(req)
         /\ \A req \in ModifyOrderRequest : req.order_id \in OrderIds =>
              PriceTime!modify_order_reason(req) = modify_order_reason(req)
         /\ \A req \in CancelOrderRequest : req.order_id \in OrderIds =>
              PriceTime!cancel_order_reason(req) = cancel_order_reason(req)
<1>1. ASSUME NEW req \in NewOrderRequest, req.order_id \in OrderIds
      PROVE  PriceTime!new_order_reason(req) = new_order_reason(req)
  <2>1. req.price \in Nat
    BY DEF NewOrderRequest
  <2> QED BY <1>1, <2>1, SameRequestChecks, RestingOrder
      DEF PriceTime!new_order_reason, new_order_reason
<1>2. ASSUME NEW req \in ModifyOrderRequest, req.order_id \in OrderIds
      PROVE  PriceTime!modify_order_reason(req) = modify_order_reason(req)
  <2>1. req.price \in Nat
    BY DEF ModifyOrderRequest
  <2> QED BY <1>2, <2>1, SameRequestChecks, RestingOrder
      DEF PriceTime!modify_order_reason, modify_order_reason
<1>3. ASSUME NEW req \in CancelOrderRequest, req.order_id \in OrderIds
      PROVE  PriceTime!cancel_order_reason(req) = cancel_order_reason(req)
  BY <1>3, SameRequestChecks, RestingOrder, LookedUpOrder
  DEF PriceTime!cancel_order_reason, cancel_order_reason
<1> QED BY <1>1, <1>2, <1>3

-----------------------------------------------------------------------------
(***************************************************************************)
(* The steps.                                                              *)
(***************************************************************************)
LEMMA SameBookSameOrders ==
  ASSUME UNCHANGED bookVars
  PROVE  UNCHANGED resting_orders
  BY DEF bookVars, resting_orders, contains_order, order_at, position

LEMMA SubmitNewImplements ==
  ASSUME IInv, NEW req \in NewOrderRequest, req.order_id \in OrderIds, SubmitNew(req)
  PROVE  PriceTime!SubmitNew(req)
<1>1. req \in NewOrderRequest /\ req.order_id \in OrderIds
  OBVIOUS
<1>2. PriceTime!new_order_reason(req) = new_order_reason(req)
  BY <1>1, SameReasons
<1>3. UNCHANGED resting_orders
  BY SameBookSameOrders DEF SubmitNew
<1> QED BY <1>2, <1>3, SameNewOrder, SameAnswers DEF PriceTime!SubmitNew, SubmitNew

LEMMA ResubmitImplements ==
  ASSUME IInv, Resubmit
  PROVE  PriceTime!Resubmit
<1>1. new_order_reason(new_req) = "None"
  BY DEF IInv, CallIsSound, Resubmit
<1>2. UNCHANGED resting_orders
  BY SameBookSameOrders DEF Resubmit
<1> QED BY <1>1, <1>2, SameNewOrder DEF PriceTime!Resubmit, Resubmit

LEMMA NextIsRead ==
  ASSUME IInv, IInv'
  PROVE  OrdersAreRead /\ OrdersAreRead'
<1>1. OrdersAreRead
  BY LookupReadsOrders DEF IInv, TypeOK
<1>2. MapTypeOK' /\ BookIsSound'
  BY DEF IInv, TypeOK
<1>3. OrdersAreRead'
  BY <1>2, LookupReadsOrders, PTL
<1> QED BY <1>1, <1>3

\* Erasing an order takes it away and leaves the others.
LEMMA EraseForgets ==
  ASSUME IInv, IInv', NEW id, Erases(id)
  PROVE  PriceTime!Forget(id)
<1>0. MapTypeOK /\ MapsAreFinite /\ OrdersAreRead /\ OrdersAreRead'
  BY NextIsRead DEF IInv, TypeOK, BookIsSound
<1>p. PICK s \in BookSides, p \in Nat, k \in Nat, left \in Seq(Order),
           tq \in 0 .. QuantityMod - 1 : ErasesAt(id, s, p, k, left, tq)
  BY DEF Erases
<1>q. /\ p \in DOMAIN levels[s] /\ k \in DOMAIN OrdersAt(s, p)
      /\ id = OrdersAt(s, p)[k].order_id
      /\ left \in Seq(Order) /\ Len(left) = Len(OrdersAt(s, p)) - 1
      /\ \A j \in 1 .. Len(OrdersAt(s, p)) - 1 :
           left[j] = OrdersAt(s, p)[IF j < k THEN j ELSE j + 1]
      /\ levels' = level_set(s, p, [orders |-> left, total_quantity |-> tq])
      /\ order_lookup' = [order_lookup EXCEPT ![id] = NoLocation]
  BY <1>p DEF ErasesAt
<1> USE <1>0, <1>q
<1>1. id \in OrderIds
  BY DEF OrdersAreRead
<1>2. ~contains_order(id)' /\ \A x \in OrderIds \ {id} : contains_order(x)' <=> contains_order(x)
  BY <1>1 DEF contains_order, MapTypeOK
<1>3. LevelBecomes(s, p, left)
  <2>1. order_lookup' \in [OrderIds -> OrderLocation] /\ p \in Nat
    BY LevelType DEF MapTypeOK, OrderLocation, NoLocation, Sides
  <2> QED BY <2>1, OneLevelChanges DEF LevelBecomes
<1>4. ASSUME NEW i \in DOMAIN left
      PROVE  resting_orders[left[i].order_id] = left[i]
  <2>1. \E m \in DOMAIN OrdersAt(s, p) : left[i] = OrdersAt(s, p)[m]
    <3>1. /\ DOMAIN OrdersAt(s, p) = 1 .. Len(OrdersAt(s, p)) /\ Len(OrdersAt(s, p)) \in Nat
          /\ DOMAIN left = 1 .. Len(left)
      BY LevelType, LenProperties
    <3>a. PICK m : m = IF i < k THEN i ELSE i + 1
      OBVIOUS
    <3>2. m \in DOMAIN OrdersAt(s, p) /\ left[i] = OrdersAt(s, p)[m]
      BY <3>1, <3>a
    <3> QED BY <3>2
  <2> QED BY <2>1 DEF OrdersAreRead
<1>5. ASSUME NEW x \in OrderIds \ {id}
      PROVE  resting_orders'[x] = resting_orders[x]
  <2>1. CASE contains_order(x)'
    <3>1. \/ resting_orders'[x] = resting_orders[x]
          \/ \E i \in DOMAIN left : left[i].order_id = x /\ resting_orders'[x] = left[i]
      BY ONLY OrdersAreRead, OrdersAreRead', s \in BookSides, <1>3, x \in OrderIds \ {id}, <2>1,
              ReadAfterLevelChange
    <3> QED BY <1>4, <3>1
  <2>2. CASE ~contains_order(x)'
    BY <1>2, <2>2 DEF OrdersAreRead
  <2> QED BY <2>1, <2>2
<1>6. resting_orders'[id] = NoOrder
  BY <1>1, <1>2 DEF OrdersAreRead
<1>7. resting_orders' = [resting_orders EXCEPT ![id] = NoOrder]
  <2>1. /\ resting_orders = [x \in OrderIds |-> resting_orders[x]]
        /\ resting_orders' = [x \in OrderIds |-> resting_orders'[x]]
    BY DEF OrdersAreRead
  <2> QED BY ONLY <1>1, <1>5, <1>6, <2>1
<1> QED BY <1>7 DEF PriceTime!Forget, PriceTime!NoOrder, NoOrder

\* A cancel takes one order away and leaves the others.
LEMMA CancelForgets ==
  ASSUME IInv, IInv', NEW req \in CancelOrderRequest, req.order_id \in OrderIds,
         cancel_order_reason(req) = "None", CancelStorage(req)
  PROVE  /\ PriceTime!Forget(req.order_id)
         /\ cancel_event(req) = OrderCancelled(resting_orders[req.order_id])
<1>1. contains_order(req.order_id) /\ remove_order(req.order_id)
  BY DEF cancel_order_reason, CancelStorage
<1>2. PriceTime!Forget(req.order_id)
  BY <1>1, CancelErases, EraseForgets
<1> QED BY <1>1, <1>2 DEF cancel_event, resting_orders

LEMMA SubmitCancelImplements ==
  ASSUME IInv, IInv', NEW req \in CancelOrderRequest, req.order_id \in OrderIds, SubmitCancel(req)
  PROVE  PriceTime!SubmitCancel(req)
<1>1. req \in CancelOrderRequest /\ req.order_id \in OrderIds
  OBVIOUS
<1>2. PriceTime!cancel_order_reason(req) = cancel_order_reason(req)
  BY <1>1, SameReasons
<1>3. CASE cancel_order_reason(req) = "None"
  BY <1>1, <1>2, <1>3, CancelForgets, SameAnswers, SameEventsOfOrders
  DEF PriceTime!SubmitCancel, SubmitCancel
<1>4. CASE cancel_order_reason(req) # "None"
  <2>1. UNCHANGED resting_orders
    BY <1>4, SameBookSameOrders DEF SubmitCancel, CancelStorage
  <2> QED BY <1>2, <1>4, <2>1, SameAnswers, SameEventsOfRequests
      DEF PriceTime!SubmitCancel, SubmitCancel, cancel_event
<1> QED BY <1>3, <1>4

LEMMA SubmitModifyImplements ==
  ASSUME IInv, IInv', NEW req \in ModifyOrderRequest, req.order_id \in OrderIds, SubmitModify(req)
  PROVE  PriceTime!SubmitModify(req)
<1>1. req \in ModifyOrderRequest /\ req.order_id \in OrderIds
  OBVIOUS
<1>2. PriceTime!modify_order_reason(req) = modify_order_reason(req)
  BY <1>1, SameReasons
<1>3. CASE modify_order_reason(req) = "None"
  <2> DEFINE cancel_req == [order_id |-> req.order_id]
  <2>1. /\ BeginModify(req, order_at(order_lookup[req.order_id]), cancel_event(cancel_req))
        /\ CancelStorage(cancel_req)
    BY <1>3 DEF SubmitModify
  <2>2. req.order_id # 0 /\ contains_order(req.order_id)
    BY <1>3 DEF modify_order_reason, is_valid_modify_order_request
  <2>3. cancel_order_reason(cancel_req) = "None"
    BY <1>1, <2>2, CancelIsNeverRefusedInside
  <2>4. cancel_req \in CancelOrderRequest /\ cancel_req.order_id \in OrderIds
    BY <1>1 DEF CancelOrderRequest, ModifyOrderRequest
  <2>5. /\ PriceTime!Forget(cancel_req.order_id)
        /\ cancel_event(cancel_req) = OrderCancelled(resting_orders[cancel_req.order_id])
    BY <2>1, <2>3, <2>4, CancelForgets
  <2>6. resting_orders[req.order_id] = order_at(order_lookup[req.order_id])
    BY <1>1, <2>2 DEF resting_orders
  <2> QED BY <1>2, <1>3, <2>1, <2>5, <2>6, SameAnswers, SameEventsOfOrders
      DEF PriceTime!SubmitModify, SubmitModify
<1>4. CASE modify_order_reason(req) # "None"
  <2>1. UNCHANGED resting_orders
    BY <1>4, SameBookSameOrders DEF SubmitModify
  <2> QED BY <1>2, <1>4, <2>1, SameAnswers, SameEventsOfRequests
      DEF PriceTime!SubmitModify, SubmitModify
<1> QED BY <1>3, <1>4

-----------------------------------------------------------------------------
(***************************************************************************)
(* Matching.                                                               *)
(***************************************************************************)

\* The identifiers of the price-time book and the places of their orders.
LEMMA OrdersOfSide ==
  ASSUME IInv, NEW s \in BookSides, NEW id \in PriceTime!RestingOn(s)
  PROVE  /\ id \in OrderIds
         /\ \E q \in DOMAIN levels[s] : \E j \in DOMAIN OrdersAt(s, q) :
              /\ resting_orders[id] = OrdersAt(s, q)[j] /\ OrdersAt(s, q)[j].order_id = id
              /\ OrdersAt(s, q)[j].price = q
<1>0. OrdersAreRead /\ BookIsSound
  BY LookupReadsOrders DEF IInv, TypeOK
<1>1. id \in OrderIds /\ contains_order(id) /\ resting_orders[id].side = s
  BY RestingOrder DEF PriceTime!RestingOn
<1> DEFINE IsAt(t, q, j) == OrdersAt(t, q)[j].order_id = id /\ resting_orders[id] = OrdersAt(t, q)[j]
<1>a. PICK t \in BookSides : \E q \in DOMAIN levels[t] : \E j \in DOMAIN OrdersAt(t, q) :
        IsAt(t, q, j)
  BY <1>0, <1>1 DEF OrdersAreRead
<1>b. PICK q \in DOMAIN levels[t] : \E j \in DOMAIN OrdersAt(t, q) : IsAt(t, q, j)
  BY <1>a
<1>2. PICK j \in DOMAIN OrdersAt(t, q) : IsAt(t, q, j)
  BY <1>b
<1>3. OrdersAt(t, q)[j].side = t /\ OrdersAt(t, q)[j].price = q
  BY <1>0 DEF BookIsSound, OrdersAreSound
<1>4. t = s
  BY <1>1, <1>2, <1>3
<1>5. q \in DOMAIN levels[s] /\ j \in DOMAIN OrdersAt(s, q) /\ IsAt(s, q, j)
        /\ OrdersAt(s, q)[j].price = q
  BY <1>2, <1>3, <1>4
<1> QED BY ONLY <1>1, <1>5

\* The front of the best level comes first in price-time priority.
LEMMA FrontIsFirst ==
  ASSUME IInv, NEW s \in BookSides, DOMAIN levels[s] # {},
         NEW p, p = best_price(s),
         NEW front, front = OrdersAt(s, p)[1],
         NEW id0, id0 = front.order_id
  PROVE  /\ id0 \in OrderIds /\ resting_orders[id0] = front /\ front.price = p
         /\ PriceTime!IsFront(s, id0)
<1>0. OrdersAreRead /\ BookIsSound /\ MapTypeOK
  BY LookupReadsOrders DEF IInv, TypeOK
<1>1. /\ p \in DOMAIN levels[s] /\ p \in Nat
      /\ \A q \in DOMAIN levels[s] : q \in Nat /\ IF s = "Buy" THEN q <= p ELSE p <= q
  BY <1>0, BestPriceOfSide DEF MapTypeOK
<1>2. 1 \in DOMAIN OrdersAt(s, p) /\ front.side = s /\ front.price = p
  <2>1. 1 \in DOMAIN OrdersAt(s, p)
    BY ONLY s \in BookSides, <1>0, <1>1, FrontOrder
  <2>2. \A i \in DOMAIN OrdersAt(s, p) : OrdersAt(s, p)[i].side = s /\ OrdersAt(s, p)[i].price = p
    BY ONLY s \in BookSides, <1>0, <1>1 DEF BookIsSound, OrdersAreSound
  <2> QED BY <2>1, <2>2
<1>3. id0 \in OrderIds /\ resting_orders[id0] = front /\ contains_order(id0)
  <2>1. OrdersAt(s, p)[1].order_id \in OrderIds /\ contains_order(OrdersAt(s, p)[1].order_id)
    BY ONLY s \in BookSides, <1>0, <1>1, <1>2, IteratorOfPlace
  <2>2. resting_orders[OrdersAt(s, p)[1].order_id] = OrdersAt(s, p)[1]
    BY <1>0, <1>1, <1>2 DEF OrdersAreRead
  <2> QED BY <2>1, <2>2
<1>4. id0 \in PriceTime!RestingOn(s)
  BY <1>2, <1>3, RestingOrder DEF PriceTime!RestingOn
<1>5. ASSUME NEW other \in PriceTime!RestingOn(s) \ {id0}
      PROVE  PriceTime!Precedes(resting_orders[id0], resting_orders[other])
  <2>a. PICK q \in DOMAIN levels[s] : \E j \in DOMAIN OrdersAt(s, q) :
          /\ resting_orders[other] = OrdersAt(s, q)[j] /\ OrdersAt(s, q)[j].order_id = other
          /\ OrdersAt(s, q)[j].price = q
    BY <1>5, OrdersOfSide
  <2>1. PICK j \in DOMAIN OrdersAt(s, q) :
          /\ resting_orders[other] = OrdersAt(s, q)[j] /\ OrdersAt(s, q)[j].order_id = other
          /\ OrdersAt(s, q)[j].price = q
    BY <2>a
  <2>2. CASE q = p
    <3>1. j # 1
      BY <1>5, <2>1, <2>2
    <3>2. 1 < j
      BY <1>0, <2>1, <3>1, LevelType
    <3>3. front.sequence_number < OrdersAt(s, q)[j].sequence_number
      BY <1>0, <1>2, <2>1, <2>2, <3>2 DEF BookIsSound, ListsAreInArrivalOrder
    <3> QED BY <1>2, <1>3, <2>1, <2>2, <3>3 DEF PriceTime!Precedes
  <2>3. CASE q # p
    <3>1. PriceTime!BetterPrice(s, p, q)
      BY <1>1, <2>3 DEF PriceTime!BetterPrice
    <3> QED BY <1>2, <1>3, <2>1, <3>1 DEF PriceTime!Precedes
  <2> QED BY <2>2, <2>3
<1>6. PriceTime!IsFront(s, id0)
  BY <1>4, <1>5 DEF PriceTime!IsFront
<1> QED BY <1>2, <1>3, <1>6

\* After a partial fill the identifier leads to what is left of its order.
LEMMA PartialFillIsRead ==
  ASSUME IInv, IInv', NEW s \in BookSides, NEW p \in DOMAIN levels[s],
         NEW rest, NEW tq \in 0 .. QuantityMod - 1, FillsPart(s, p, rest, tq),
         NEW id0, id0 = OrdersAt(s, p)[1].order_id
  PROVE  resting_orders' = [resting_orders EXCEPT ![id0] = rest]
<1>0. MapTypeOK /\ BookIsSound /\ MapsAreFinite /\ OrdersAreRead /\ OrdersAreRead'
  BY NextIsRead DEF IInv, TypeOK, BookIsSound
<1>a. PICK left : left = [OrdersAt(s, p) EXCEPT ![1] = rest]
  OBVIOUS
<1>1. /\ rest \in Order /\ SamePlace(rest, OrdersAt(s, p)[1])
      /\ levels' = level_set(s, p, [orders |-> left, total_quantity |-> tq])
      /\ order_lookup' = order_lookup
  BY <1>a DEF FillsPart
<1>2. /\ OrdersAt(s, p) \in Seq(Order) /\ 1 \in DOMAIN OrdersAt(s, p)
      /\ DOMAIN OrdersAt(s, p) = 1 .. Len(OrdersAt(s, p)) /\ p \in Nat
  BY <1>0, LevelType, FrontOrder
<1>3. /\ left \in Seq(Order) /\ DOMAIN left = DOMAIN OrdersAt(s, p) /\ left[1] = rest
      /\ \A i \in DOMAIN left \ {1} : left[i] = OrdersAt(s, p)[i]
      /\ left # <<>>
  BY <1>1, <1>2, <1>a
<1>4. LevelBecomes(s, p, left) /\ p \in DOMAIN levels'[s] /\ OrdersAt(s, p)' = left
  <2>1. order_lookup' \in [OrderIds -> OrderLocation]
    BY <1>0, <1>1 DEF MapTypeOK
  <2> QED BY <1>0, <1>1, <1>2, <1>3, <2>1, OneLevelChanges DEF LevelBecomes
<1>5. id0 \in OrderIds /\ resting_orders'[id0] = rest
  <2>1. id0 \in OrderIds /\ rest.order_id = id0
    BY <1>0, <1>1, <1>2, IteratorOfPlace DEF SamePlace
  <2>2. 1 \in DOMAIN OrdersAt(s, p)' /\ OrdersAt(s, p)'[1] = rest
    BY <1>2, <1>3, <1>4
  <2>3. resting_orders'[OrdersAt(s, p)'[1].order_id] = OrdersAt(s, p)'[1]
    BY <1>0, <1>4, <2>2 DEF OrdersAreRead
  <2> QED BY <2>1, <2>2, <2>3
<1>6. ASSUME NEW x \in OrderIds \ {id0}
      PROVE  resting_orders'[x] = resting_orders[x]
  <2>1. CASE contains_order(x)'
    <3>1. \/ resting_orders'[x] = resting_orders[x]
          \/ \E i \in DOMAIN left : left[i].order_id = x /\ resting_orders'[x] = left[i]
      BY ONLY <1>0, s \in BookSides, <1>4, x \in OrderIds \ {id0}, <2>1,
              ReadAfterLevelChange
    <3>2. \A i \in DOMAIN left : left[i].order_id = x => i # 1
      BY <1>1, <1>3 DEF SamePlace
    <3>3. \A i \in DOMAIN left \ {1} : resting_orders[left[i].order_id] = left[i]
      BY <1>0, <1>3 DEF OrdersAreRead
    <3> QED BY ONLY <3>1, <3>2, <3>3
  <2>2. CASE ~contains_order(x)'
    <3>1. ~contains_order(x)
      BY <1>1, <2>2 DEF contains_order
    <3> QED BY <1>0, <2>2, <3>1 DEF OrdersAreRead
  <2> QED BY <2>1, <2>2
<1>7. /\ resting_orders = [x \in OrderIds |-> resting_orders[x]]
      /\ resting_orders' = [x \in OrderIds |-> resting_orders'[x]]
  BY <1>0 DEF OrdersAreRead
<1> QED BY ONLY <1>5, <1>6, <1>7

LEMMA MatchImplements ==
  ASSUME IInv, IInv', pc = "matching", NEW s \in BookSides, s = Opposite(incoming.side),
         CanMatch(s), MatchFront(s)
  PROVE  \E id \in OrderIds : PriceTime!Match(id)
<1>a. PICK p : p = best_price(s)
  OBVIOUS
<1>b. PICK resting : resting = OrdersAt(s, p)[1]
  OBVIOUS
<1>c. PICK id0 : id0 = resting.order_id
  OBVIOUS
<1>d. PICK qty : qty = trade_qty(resting)
  OBVIOUS
<1>1. DOMAIN levels[s] # {} /\ incoming.remaining_quantity > 0 /\ Crosses(p)
  BY <1>a DEF CanMatch
<1>2. /\ id0 \in OrderIds /\ resting_orders[id0] = resting /\ resting.price = p
      /\ PriceTime!IsFront(s, id0)
  BY <1>1, <1>a, <1>b, <1>c, FrontIsFirst
<1>3. /\ p \in DOMAIN levels[s] /\ resting \in Order /\ TradeWith(resting)
      /\ resting.remaining_quantity = qty => Erases(id0)
      /\ resting.remaining_quantity # qty =>
           \E tq \in 0 .. QuantityMod - 1 :
             FillsPart(s, p, [resting EXCEPT !.remaining_quantity = @ - qty,
                                             !.order_status = "PartiallyFilled"], tq)
  BY <1>1, <1>a, <1>b, <1>c, <1>d, FillOfFront
<1>4. CASE resting.remaining_quantity = qty
  <2>1. PriceTime!Forget(id0)
    BY <1>3, <1>4, EraseForgets
  <2>2. PriceTime!Match(id0)
    BY <1>1, <1>2, <1>3, <1>4, <1>d, <2>1, SameMatching DEF PriceTime!Match
  <2> QED BY <1>2, <2>2
<1>5. CASE resting.remaining_quantity # qty
  <2>a. PICK rest : rest = [resting EXCEPT !.remaining_quantity = @ - qty,
                                           !.order_status = "PartiallyFilled"]
    OBVIOUS
  <2>1. PICK tq \in 0 .. QuantityMod - 1 : FillsPart(s, p, rest, tq)
    BY <1>3, <1>5, <2>a
  <2>2. resting_orders' = [resting_orders EXCEPT ![id0] = rest]
    BY <1>3, <1>b, <1>c, <2>1, PartialFillIsRead
  <2>3. resting_orders' = [resting_orders EXCEPT
                             ![id0].remaining_quantity = @ - qty,
                             ![id0].order_status = "PartiallyFilled"]
    <3>1. resting_orders = [id \in OrderIds |-> resting_orders[id]]
      BY DEF resting_orders
    <3> QED BY ONLY <1>2, <2>2, <2>a, <3>1
  <2>4. PriceTime!Match(id0)
    BY <1>1, <1>2, <1>3, <1>5, <1>d, <2>3, SameMatching DEF PriceTime!Match
  <2> QED BY <1>2, <2>4
<1> QED BY <1>4, <1>5

\* When the loop over the levels stops, no order at rest can be traded with.
LEMMA DoneMeansNoneCrosses ==
  ASSUME IInv, MatchingDone
  PROVE  PriceTime!MatchingDone
<1>a. PICK s : s = Opposite(incoming.side)
  OBVIOUS
<1>1. pc = "matching" /\ ~CanMatch(s) /\ incoming.side \in BookSides /\ s \in BookSides
  BY <1>a DEF MatchingDone, IInv, CallIsSound, Opposite, BookSides
<1>2. incoming.remaining_quantity \in Nat /\ incoming.price \in Nat
  BY DEF IInv, TypeOK, HandlerTypeOK, Order
<1>3. CASE incoming.remaining_quantity = 0
  BY <1>1, <1>3 DEF PriceTime!MatchingDone
<1>4. CASE incoming.remaining_quantity # 0
  <2>1. ASSUME NEW id \in PriceTime!RestingOn(s)
        PROVE  ~Crosses(resting_orders[id].price)
    <3>1. PICK q \in DOMAIN levels[s] : resting_orders[id].price = q
      BY <1>1, <2>1, OrdersOfSide
    <3>2. ~Crosses(best_price(s)) /\ q \in Nat
      BY <1>1, <1>2, <1>4, <3>1 DEF CanMatch, IInv, TypeOK, MapTypeOK
    <3>3. ~is_market
      BY <3>2 DEF Crosses
    <3>4. /\ incoming.side = "Buy" => incoming.price < q
          /\ incoming.side = "Sell" => q < incoming.price
      BY <1>1, <1>2, <1>4, <1>a, <3>1, <3>3, RemainderDoesNotCross DEF Opposite
    <3> QED BY <1>1, <1>2, <3>1, <3>2, <3>3, <3>4 DEF Crosses, BookSides
  <2> QED BY <1>1, <1>a, <2>1, SameMatching DEF PriceTime!MatchingDone
<1> QED BY <1>3, <1>4

\* push_back: the lookup leads to the new order, and to the others as before.
LEMMA PushIsRead ==
  ASSUME IInv, IInv', NEW s \in BookSides, NEW p \in Nat, NEW o \in Order,
         o.order_id \in OrderIds,
         NEW old \in Seq(Order), old = level_at(s, p).orders,
         NEW tq \in 0 .. QuantityMod - 1,
         levels' = level_set(s, p, [orders |-> Append(old, o), total_quantity |-> tq]),
         order_lookup' = [order_lookup EXCEPT ![o.order_id] =
                            [side |-> s, price |-> p, it |-> o.sequence_number]]
  PROVE  resting_orders' = [resting_orders EXCEPT ![o.order_id] = o]
<1>0. MapTypeOK /\ MapsAreFinite /\ OrdersAreRead /\ OrdersAreRead'
  BY NextIsRead DEF IInv, TypeOK, BookIsSound
<1>a. PICK pushed : pushed = Append(old, o)
  OBVIOUS
<1>b. PICK id0 : id0 = o.order_id
  OBVIOUS
<1>1. /\ pushed \in Seq(Order) /\ pushed # <<>>
      /\ Len(old) \in Nat /\ DOMAIN old = 1 .. Len(old)
      /\ DOMAIN pushed = 1 .. Len(old) + 1
      /\ \A i \in 1 .. Len(old) : pushed[i] = old[i]
      /\ pushed[Len(old) + 1] = o
  BY <1>a, AppendProperties, LenProperties
<1>2. LevelBecomes(s, p, pushed) /\ p \in DOMAIN levels'[s] /\ OrdersAt(s, p)' = pushed
  <2>1. order_lookup' \in [OrderIds -> OrderLocation]
    <3>1. [side |-> s, price |-> p, it |-> o.sequence_number] \in OrderLocation
      BY DEF OrderLocation, Order, Sides
    <3> QED BY <1>0, <3>1 DEF MapTypeOK
  <2>2. levels' = level_set(s, p, [orders |-> pushed, total_quantity |-> tq])
    BY <1>a
  <2> QED BY ONLY <1>0, <1>1, <2>1, <2>2, OneLevelChanges DEF LevelBecomes
<1>3. id0 \in OrderIds /\ resting_orders'[id0] = o
  <2>1. Len(old) + 1 \in DOMAIN OrdersAt(s, p)' /\ OrdersAt(s, p)'[Len(old) + 1] = o
    BY <1>1, <1>2
  <2>2. \A i \in DOMAIN OrdersAt(s, p)' :
          resting_orders'[OrdersAt(s, p)'[i].order_id] = OrdersAt(s, p)'[i]
    BY ONLY s \in BookSides, <1>0, <1>2 DEF OrdersAreRead
  <2> QED BY ONLY <1>b, <2>1, <2>2, o.order_id \in OrderIds
<1>4. ASSUME NEW x \in OrderIds \ {id0}
      PROVE  resting_orders'[x] = resting_orders[x]
  <2>1. CASE contains_order(x)'
    <3>1. \/ resting_orders'[x] = resting_orders[x]
          \/ \E i \in DOMAIN pushed : pushed[i].order_id = x /\ resting_orders'[x] = pushed[i]
      BY ONLY <1>0, s \in BookSides, <1>2, x \in OrderIds \ {id0}, <2>1,
              ReadAfterLevelChange
    <3>2. \A i \in DOMAIN pushed : pushed[i].order_id = x =>
            i \in DOMAIN old /\ pushed[i] = old[i]
      BY <1>1, <1>b
    <3>3. \A i \in DOMAIN old : resting_orders[old[i].order_id] = old[i]
      <4>1. CASE p \in DOMAIN levels[s]
        <5>1. old = OrdersAt(s, p)
          BY <4>1 DEF level_at, OrdersAt
        <5> QED BY <1>0, <4>1, <5>1 DEF OrdersAreRead
      <4>2. CASE p \notin DOMAIN levels[s]
        BY <4>2 DEF level_at, NoLevel
      <4> QED BY <4>1, <4>2
    <3> QED BY ONLY <3>1, <3>2, <3>3
  <2>2. CASE ~contains_order(x)'
    <3>1. ~contains_order(x)
      BY <1>0, <1>b, <2>2 DEF contains_order, MapTypeOK
    <3> QED BY <1>0, <2>2, <3>1 DEF OrdersAreRead
  <2> QED BY <2>1, <2>2
<1>5. /\ resting_orders = [x \in OrderIds |-> resting_orders[x]]
      /\ resting_orders' = [x \in OrderIds |-> resting_orders'[x]]
  BY <1>0 DEF OrdersAreRead
<1> QED BY ONLY <1>3, <1>4, <1>5, <1>b

LEMMA AddRestingOrderImplements ==
  ASSUME IInv, IInv', add_resting_order
  PROVE  PriceTime!Rest
<1>a. PICK o : o = [incoming EXCEPT !.order_status = "Resting"]
  OBVIOUS
<1>b. PICK s : s = incoming.side
  OBVIOUS
<1>c. PICK p : p = incoming.price
  OBVIOUS
<1>d. PICK old : old = level_at(s, p).orders
  OBVIOUS
<1>e. PICK tq : tq = (level_at(s, p).total_quantity + incoming.remaining_quantity) % QuantityMod
  OBVIOUS
<1>1. /\ MatchingDone /\ pc = "matching" /\ ~is_market
      /\ incoming.remaining_quantity > 0 /\ UNCHANGED next_sequence_number
      /\ Return(new_req, Append(events, OrderRested(incoming)))
  BY DEF add_resting_order, MatchingDone
<1>2. /\ s \in BookSides /\ p \in Nat /\ incoming \in Order
      /\ incoming.order_id \in OrderIds /\ incoming.remaining_quantity \in Nat
  BY <1>1, <1>b, <1>c DEF IInv, CallIsSound, TypeOK, HandlerTypeOK, Order
<1>3. /\ o \in Order /\ o.order_id = incoming.order_id
      /\ o.sequence_number = incoming.sequence_number
  BY <1>2, <1>a DEF Order, OrderStatuses
<1>4. old \in Seq(Order) /\ tq \in 0 .. QuantityMod - 1
  BY <1>2, <1>d, <1>e, LevelAtType DEF IInv, TypeOK
<1>5. /\ levels' = level_set(s, p, [orders |-> Append(old, o), total_quantity |-> tq])
      /\ order_lookup' = [order_lookup EXCEPT ![o.order_id] =
                            [side |-> s, price |-> p, it |-> o.sequence_number]]
  BY <1>3, <1>a, <1>b, <1>c, <1>d, <1>e DEF add_resting_order, AtEndOf
<1>6. resting_orders' = [resting_orders EXCEPT ![o.order_id] = o]
  BY <1>2, <1>3, <1>4, <1>5, <1>d, PushIsRead
<1>7. resting_orders' = [resting_orders EXCEPT ![incoming.order_id] = o]
  BY <1>3, <1>6
<1> QED BY <1>1, <1>7, <1>a, DoneMeansNoneCrosses, SameMatching, SameReturn,
           SameEventsOfOrders DEF PriceTime!Rest

LEMMA NothingRestsImplements ==
  ASSUME IInv, NothingRests
  PROVE  PriceTime!NothingRests
<1>1. UNCHANGED resting_orders
  BY SameBookSameOrders DEF NothingRests
<1> QED BY <1>1, DoneMeansNoneCrosses, SameMatching, SameAnswers
    DEF NothingRests, PriceTime!NothingRests

-----------------------------------------------------------------------------
(***************************************************************************)
(* The theorem.                                                            *)
(***************************************************************************)
LEMMA StepImplements == IInv /\ IInv' /\ [Next]_vars => [PriceTime!Next]_(PriceTime!vars)
<1> SUFFICES ASSUME IInv, IInv', [Next]_vars
             PROVE  PriceTime!Next \/ UNCHANGED PriceTime!vars
  OBVIOUS
<1>1. ASSUME NEW req \in NewOrderRequests, SubmitNew(req) PROVE PriceTime!Next
  BY <1>1, HandlerAssumption, SubmitNewImplements DEF PriceTime!Next
<1>2. ASSUME NEW req \in ModifyOrderRequests, SubmitModify(req) PROVE PriceTime!Next
  BY <1>2, HandlerAssumption, SubmitModifyImplements DEF PriceTime!Next
<1>3. ASSUME NEW req \in CancelOrderRequests, SubmitCancel(req) PROVE PriceTime!Next
  BY <1>3, HandlerAssumption, SubmitCancelImplements DEF PriceTime!Next
<1>4. CASE Resubmit
  BY <1>4, ResubmitImplements DEF PriceTime!Next, PriceTime!Continue
<1>5. CASE match_buy
  <2>1. \E id \in OrderIds : PriceTime!Match(id)
    BY <1>5, MatchImplements, NoEmptyLevelIsMatched DEF BookSides, Opposite
  <2> QED BY <2>1 DEF PriceTime!Next, PriceTime!Continue
<1>6. CASE match_sell
  <2>1. \E id \in OrderIds : PriceTime!Match(id)
    BY <1>6, MatchImplements, NoEmptyLevelIsMatched DEF BookSides, Opposite
  <2> QED BY <2>1 DEF PriceTime!Next, PriceTime!Continue
<1>7. CASE add_resting_order
  BY <1>7, AddRestingOrderImplements DEF PriceTime!Next, PriceTime!Continue
<1>8. CASE NothingRests
  BY <1>8, NothingRestsImplements DEF PriceTime!Next, PriceTime!Continue
<1>9. CASE Collect /\ UNCHANGED bookVars
  BY <1>9, SameBookSameOrders, SameAnswers DEF PriceTime!Next, PriceTime!Continue
<1>10. CASE UNCHANGED vars
  <2>1. UNCHANGED resting_orders
    BY <1>10, SameBookSameOrders DEF vars
  <2>2. UNCHANGED handlerVars
    BY <1>10 DEF vars
  <2> QED BY <2>1, <2>2 DEF PriceTime!vars, PriceTime!handlerVars, handlerVars
<1> QED BY <1>1, <1>2, <1>3, <1>4, <1>5, <1>6, <1>7, <1>8, <1>9, <1>10
  DEF Next, Submit, Continue

\* The map book is a price-time book: what submit() answers and which orders rest
\* is what price-time priority over the set of orders prescribes.
THEOREM MapIsPriceTime == Spec => MapImplementsPriceTimeBook
<1>1. Init => PriceTime!Init
  <2> SUFFICES ASSUME Init PROVE PriceTime!Init
    OBVIOUS
  <2>1. resting_orders = [id \in OrderIds |-> NoOrder]
    BY DEF Init, resting_orders, contains_order
  <2> QED BY <2>1 DEF Init, HandlerInit, PriceTime!Init, PriceTime!HandlerInit,
                      PriceTime!NoRequest, NoRequest, PriceTime!NoOrder, NoOrder
<1>2. IInv /\ IInv' /\ [Next]_vars => [PriceTime!Next]_(PriceTime!vars)
  BY StepImplements
<1> QED BY <1>1, <1>2, MapSoundness, PTL DEF Spec, MapImplementsPriceTimeBook, PriceTime!Spec

-----------------------------------------------------------------------------
(***************************************************************************)
(* The events tell which orders rest: step by step of the price-time book. *)
(***************************************************************************)
LEMMA RestingUnderItsId ==
  ASSUME IInv, NEW id \in OrderIds
  PROVE  /\ resting_orders[id] \in Order
         /\ resting_orders[id] # NoOrder => resting_orders[id].order_id = id
         /\ PriceTime!NoOrder = NoOrder
<1>0. OrdersAreRead
  BY LookupReadsOrders DEF IInv, TypeOK
<1>1. CASE contains_order(id)
  <2>1. PICK s \in BookSides : \E p \in DOMAIN levels[s] : \E i \in DOMAIN OrdersAt(s, p) :
          OrdersAt(s, p)[i].order_id = id /\ resting_orders[id] = OrdersAt(s, p)[i]
    BY <1>0, <1>1 DEF OrdersAreRead
  <2>2. PICK p \in DOMAIN levels[s] : \E i \in DOMAIN OrdersAt(s, p) :
          OrdersAt(s, p)[i].order_id = id /\ resting_orders[id] = OrdersAt(s, p)[i]
    BY <2>1
  <2>3. PICK i \in DOMAIN OrdersAt(s, p) :
          OrdersAt(s, p)[i].order_id = id /\ resting_orders[id] = OrdersAt(s, p)[i]
    BY <2>2
  <2>4. OrdersAt(s, p)[i] \in Order
    BY LevelType DEF IInv, TypeOK
  <2> QED BY <2>3, <2>4 DEF PriceTime!NoOrder, NoOrder
<1>2. CASE ~contains_order(id)
  BY <1>2, NoRequestType DEF resting_orders, PriceTime!NoOrder, NoOrder
<1> QED BY <1>1, <1>2

LEMMA HandlerFacts ==
  ASSUME IInv, AccountsBalance
  PROVE  /\ events \in Seq(Event) /\ modifying \in BOOLEAN
         /\ new_req \in NewOrderRequest /\ incoming \in Order /\ HandlerTypeOK
         /\ pc = "idle" => events = <<>>
         /\ pc = "matching" => incoming.order_id \in OrderIds
  BY DEF IInv, TypeOK, HandlerTypeOK, AccountsBalance, CallIsSound

\* An order that is told to be cancelled is the one that leaves.
LEMMA ForgetTells ==
  ASSUME IInv, AccountsBalance, pc = "idle", NEW id \in OrderIds, resting_orders[id] # NoOrder,
         events' = <<OrderCancelled(resting_orders[id])>>, PriceTime!Forget(id)
  PROVE  Told(resting_orders, resting_orders')
<1>a. PICK old : old = resting_orders
  OBVIOUS
<1>b. PICK new : new = resting_orders'
  OBVIOUS
<1>c. PICK e : e = OrderCancelled(old[id])
  OBVIOUS
<1>1. old[id] \in Order /\ old[id].order_id = id
  BY <1>a, RestingUnderItsId
<1>2. e \in Event
  BY <1>1, <1>c, OrderEventTypes
<1>3. new = [i \in OrderIds |-> IF i = id THEN NoOrder ELSE old[i]]
  <2>1. old = [i \in OrderIds |-> old[i]]
    BY <1>a DEF resting_orders
  <2> QED BY <1>a, <1>b, <2>1, RestingUnderItsId DEF PriceTime!Forget
<1>4. CopyOf(new) = Replay(CopyOf(old), e)
  BY <1>1, <1>3, <1>c, CancelTells
<1>5. events = <<>> /\ events' = <<e>>
  BY <1>a, <1>c, HandlerFacts
<1>6. Told(old, new)
  BY <1>2, <1>4, <1>5, ToldFirst
<1> QED BY <1>6, <1>a, <1>b DEF Told

\* A request that changes no order is told of by a silent event.
LEMMA AnswerTells ==
  ASSUME IInv, AccountsBalance, pc = "idle", UNCHANGED resting_orders,
         NEW e \in Event, e.event_type = "OrderRejected", Answer(e)
  PROVE  Told(resting_orders, resting_orders')
<1>a. PICK old : old = resting_orders
  OBVIOUS
<1>1. Replay(CopyOf(old), e) = CopyOf(old)
  BY SilentEvents
<1>2. events = <<>> /\ events' = <<e>>
  BY HandlerFacts DEF Answer
<1>3. Told(old, old)
  BY <1>1, <1>2, ToldFirst
<1> QED BY <1>3, <1>a DEF Told

LEMMA SubmitNewTells ==
  ASSUME IInv, AccountsBalance, NEW req \in NewOrderRequests, SubmitNew(req)
  PROVE  Told(resting_orders, resting_orders')
<1>a. PICK old : old = resting_orders
  OBVIOUS
<1>b. PICK why : why = new_order_reason(req)
  OBVIOUS
<1>1. req \in NewOrderRequest /\ why \in Reasons
  BY <1>b, HandlerAssumption, MapReasons
<1>2. handle_new_order(req, why, <<>>) /\ events = <<>> /\ UNCHANGED resting_orders
  BY <1>b, HandlerFacts, SameBookSameOrders DEF SubmitNew, Ready
<1>3. handle_new_order(req, why, events)
  BY <1>2
<1>4. Told(old, old)
  BY <1>1, <1>3, HandlerFacts, ToldNewOrder
<1> QED BY <1>2, <1>4, <1>a DEF Told

LEMMA ResubmitTells ==
  ASSUME IInv, AccountsBalance, Resubmit
  PROVE  Told(resting_orders, resting_orders')
<1>a. PICK old : old = resting_orders
  OBVIOUS
<1>b. PICK why : why = new_order_reason(new_req)
  OBVIOUS
<1>1. why \in Reasons
  BY <1>b, MapReasons
<1>2. handle_new_order(new_req, why, events) /\ UNCHANGED resting_orders
  BY <1>b, SameBookSameOrders DEF Resubmit
<1>3. Told(old, old)
  BY <1>1, <1>2, HandlerFacts, ToldNewOrder
<1> QED BY <1>2, <1>3, <1>a DEF Told

LEMMA SubmitCancelTells ==
  ASSUME IInv, AccountsBalance, NEW req \in CancelOrderRequests, PriceTime!SubmitCancel(req)
  PROVE  Told(resting_orders, resting_orders')
<1>b. PICK why : why = cancel_order_reason(req)
  OBVIOUS
<1>1. req \in CancelOrderRequest /\ req.order_id \in OrderIds /\ pc = "idle"
  BY HandlerAssumption DEF PriceTime!SubmitCancel
<1>2. PriceTime!cancel_order_reason(req) = why /\ why \in Reasons
  BY <1>1, <1>b, SameReasons, MapReasons
<1>3. CASE why = "None"
  <2>1. resting_orders[req.order_id] # NoOrder
    <3>1. PriceTime!contains_order(req.order_id)
      BY <1>2, <1>3 DEF PriceTime!cancel_order_reason
    <3> QED BY <1>1, <3>1, RestingUnderItsId DEF PriceTime!contains_order
  <2>2. /\ events' = <<OrderCancelled(resting_orders[req.order_id])>>
        /\ PriceTime!Forget(req.order_id)
    BY <1>2, <1>3, SameAnswers, SameEventsOfOrders DEF PriceTime!SubmitCancel, Answer
  <2> QED BY <1>1, <2>1, <2>2, ForgetTells
<1>4. CASE why # "None"
  <2>a. PICK e : e = CancelRejected(req, why)
    OBVIOUS
  <2>1. e \in Event /\ e.event_type = "OrderRejected"
    BY <1>1, <1>2, <2>a, RejectionTypes DEF CancelRejected, DefaultEvent
  <2>2. Answer(e) /\ UNCHANGED resting_orders
    BY <1>2, <1>4, <2>a, SameAnswers, SameEventsOfRequests DEF PriceTime!SubmitCancel
  <2> QED BY <1>1, <2>1, <2>2, AnswerTells
<1> QED BY <1>3, <1>4

LEMMA SubmitModifyTells ==
  ASSUME IInv, AccountsBalance, NEW req \in ModifyOrderRequests, PriceTime!SubmitModify(req)
  PROVE  Told(resting_orders, resting_orders')
<1>b. PICK why : why = modify_order_reason(req)
  OBVIOUS
<1>1. req \in ModifyOrderRequest /\ req.order_id \in OrderIds /\ pc = "idle"
  BY HandlerAssumption, SameAnswers DEF PriceTime!SubmitModify, Ready
<1>2. PriceTime!modify_order_reason(req) = why /\ why \in Reasons
  BY <1>1, <1>b, SameReasons, MapReasons
<1>3. CASE why = "None"
  <2>1. resting_orders[req.order_id] # NoOrder
    <3>1. PriceTime!contains_order(req.order_id)
      BY <1>2, <1>3 DEF PriceTime!modify_order_reason
    <3> QED BY <1>1, <3>1, RestingUnderItsId DEF PriceTime!contains_order
  <2>2. /\ events' = <<OrderCancelled(resting_orders[req.order_id])>>
        /\ PriceTime!Forget(req.order_id)
    BY <1>2, <1>3, SameAnswers, SameEventsOfOrders DEF PriceTime!SubmitModify, BeginModify
  <2> QED BY <1>1, <2>1, <2>2, ForgetTells
<1>4. CASE why # "None"
  <2>a. PICK e : e = ModifyRejected(req, why)
    OBVIOUS
  <2>1. e \in Event /\ e.event_type = "OrderRejected"
    BY <1>1, <1>2, <2>a, RejectionTypes DEF ModifyRejected, DefaultEvent
  <2>2. Answer(e) /\ UNCHANGED resting_orders
    BY <1>2, <1>4, <2>a, SameAnswers, SameEventsOfRequests DEF PriceTime!SubmitModify
  <2> QED BY <1>1, <2>1, <2>2, AnswerTells
<1> QED BY <1>3, <1>4

LEMMA MatchTells ==
  ASSUME IInv, AccountsBalance, NEW id \in OrderIds, PriceTime!Match(id)
  PROVE  Told(resting_orders, resting_orders')
<1>a. PICK old : old = resting_orders
  OBVIOUS
<1>b. PICK new : new = resting_orders'
  OBVIOUS
<1>c. PICK o : o = old[id]
  OBVIOUS
<1>d. PICK qty : qty = trade_qty(o)
  OBVIOUS
<1>e. PICK e : e = Trade(o, qty)
  OBVIOUS
<1>1. o \in Order /\ o # NoOrder /\ o.order_id = id
  <2>1. PriceTime!contains_order(id)
    BY DEF PriceTime!Match, PriceTime!IsFront, PriceTime!RestingOn
  <2> QED BY <1>a, <1>c, <2>1, RestingUnderItsId DEF PriceTime!contains_order
<1>2. /\ events \in Seq(Event) /\ e \in Event
      /\ qty \in Nat /\ qty <= o.remaining_quantity /\ o.remaining_quantity \in Nat
  BY <1>1, <1>d, <1>e, HandlerFacts, TradeQuantity, TradeType DEF Order
<1>3. events' = Append(events, e)
  BY <1>a, <1>c, <1>d, <1>e, SameMatching DEF PriceTime!Match, TradeWith
<1>4. old = [i \in OrderIds |-> old[i]]
  BY <1>a DEF resting_orders
<1>5. CopyOf(new) = Replay(CopyOf(old), e)
  <2>1. CASE o.remaining_quantity = qty
    <3>1. new = [i \in OrderIds |-> IF i = id THEN NoOrder ELSE old[i]]
      BY <1>a, <1>b, <1>c, <1>d, <1>4, <2>1, SameMatching, RestingUnderItsId
      DEF PriceTime!Match, PriceTime!Forget
    <3> QED BY <1>1, <1>c, <1>e, <2>1, <3>1, FillTells
  <2>2. CASE o.remaining_quantity # qty
    <3>1. resting_orders' = [resting_orders EXCEPT
                               ![id].remaining_quantity = @ - qty,
                               ![id].order_status = "PartiallyFilled"]
      BY <1>a, <1>c, <1>d, <2>2, SameMatching DEF PriceTime!Match
    <3>2. PICK p : p = [o EXCEPT !.remaining_quantity = @ - qty,
                                 !.order_status = "PartiallyFilled"]
      OBVIOUS
    <3>3. new = [i \in OrderIds |-> IF i = id THEN p ELSE old[i]]
      BY <1>a, <1>b, <1>c, <1>4, <3>1, <3>2
    <3>4. qty < o.remaining_quantity
      BY <1>2, <2>2
    <3> QED BY <1>1, <1>2, <1>c, <1>e, <3>2, <3>3, <3>4, PartialFillTells
  <2> QED BY <2>1, <2>2
<1>6. Told(old, new)
  BY <1>2, <1>3, <1>5, ToldOne
<1> QED BY <1>6, <1>a, <1>b DEF Told

LEMMA RestTellsOfIt ==
  ASSUME IInv, AccountsBalance, PriceTime!Rest
  PROVE  Told(resting_orders, resting_orders')
<1>a. PICK old : old = resting_orders
  OBVIOUS
<1>b. PICK new : new = resting_orders'
  OBVIOUS
<1>c. PICK e : e = OrderRested(incoming)
  OBVIOUS
<1>d. PICK id : id = incoming.order_id
  OBVIOUS
<1>1. pc = "matching" /\ Return(new_req, Append(events, e))
  BY <1>c, SameReturn, SameEventsOfOrders DEF PriceTime!Rest, PriceTime!MatchingDone
<1>2. e \in Event /\ id \in OrderIds
  BY <1>1, <1>c, <1>d, HandlerFacts, OrderEventTypes
<1>3. new = [i \in OrderIds |->
               IF i = id THEN [incoming EXCEPT !.order_status = "Resting"] ELSE old[i]]
  <2>1. old = [i \in OrderIds |-> old[i]]
    BY <1>a DEF resting_orders
  <2> QED BY <1>2, <1>a, <1>b, <1>d, <2>1 DEF PriceTime!Rest
<1>4. CopyOf(new) = Replay(CopyOf(old), e)
  BY <1>2, <1>3, <1>c, <1>d, HandlerFacts, RestTells
<1>5. Told(old, new)
  BY <1>1, <1>2, <1>4, HandlerFacts, ToldReturn
<1> QED BY <1>5, <1>a, <1>b DEF Told

LEMMA NothingRestsTells ==
  ASSUME IInv, AccountsBalance, NothingRests
  PROVE  Told(resting_orders, resting_orders')
<1>a. PICK old : old = resting_orders
  OBVIOUS
<1>b. PICK e : e = UnfilledMarketOrderCancelled(incoming)
  OBVIOUS
<1>1. UNCHANGED resting_orders
  BY SameBookSameOrders DEF NothingRests
<1>2. Return(new_req, events) \/ Return(new_req, Append(events, e))
  BY <1>b DEF NothingRests, FinishWithoutResting
<1>3. e \in Event /\ e.event_type = "UnfilledMarketOrderCancelled"
  BY <1>b, HandlerFacts, OrderEventTypes DEF UnfilledMarketOrderCancelled, DefaultEvent
<1>4. Replay(CopyOf(old), e) = CopyOf(old)
  BY <1>3, SilentEvents
<1>5. Told(old, old)
  BY <1>2, <1>3, <1>4, HandlerFacts, ToldReturn, ToldQuietReturn
<1> QED BY <1>1, <1>5, <1>a DEF Told

LEMMA QuietStepTells ==
  ASSUME IInv, AccountsBalance, events' = events \/ events' = <<>>, UNCHANGED resting_orders
  PROVE  Told(resting_orders, resting_orders')
<1>a. PICK old : old = resting_orders
  OBVIOUS
<1>1. Told(old, old)
  BY HandlerFacts, ToldNothing
<1> QED BY <1>1, <1>a DEF Told

LEMMA EveryStepTells ==
  IInv /\ IInv' /\ AccountsBalance /\ [Next]_vars => Told(resting_orders, resting_orders')
<1> SUFFICES ASSUME IInv, IInv', AccountsBalance, [Next]_vars
             PROVE  Told(resting_orders, resting_orders')
  OBVIOUS
<1> DEFINE Goal == Told(resting_orders, resting_orders')
<1>1. ASSUME NEW req \in NewOrderRequests, SubmitNew(req) PROVE Goal
  BY <1>1, SubmitNewTells
<1>2. ASSUME NEW req \in ModifyOrderRequests, SubmitModify(req) PROVE Goal
  BY <1>2, HandlerAssumption, SubmitModifyImplements, SubmitModifyTells
<1>3. ASSUME NEW req \in CancelOrderRequests, SubmitCancel(req) PROVE Goal
  BY <1>3, HandlerAssumption, SubmitCancelImplements, SubmitCancelTells
<1>4. CASE Resubmit
  BY <1>4, ResubmitTells
<1>5. CASE match_buy
  <2>1. \E id \in OrderIds : PriceTime!Match(id)
    BY <1>5, MatchImplements, NoEmptyLevelIsMatched DEF BookSides, Opposite
  <2> QED BY <2>1, MatchTells
<1>6. CASE match_sell
  <2>1. \E id \in OrderIds : PriceTime!Match(id)
    BY <1>6, MatchImplements, NoEmptyLevelIsMatched DEF BookSides, Opposite
  <2> QED BY <2>1, MatchTells
<1>7. CASE add_resting_order
  BY <1>7, AddRestingOrderImplements, RestTellsOfIt
<1>8. CASE NothingRests
  BY <1>8, NothingRestsTells
<1>9. CASE Collect /\ UNCHANGED bookVars
  BY <1>9, SameBookSameOrders, QuietStepTells DEF Collect
<1>10. CASE UNCHANGED vars
  BY <1>10, SameBookSameOrders, QuietStepTells DEF vars, handlerVars
<1> QED BY <1>1, <1>2, <1>3, <1>4, <1>5, <1>6, <1>7, <1>8, <1>9, <1>10
  DEF Next, Submit, Continue

\* Who applies the events to a copy of the book has the book's orders, prices and
\* quantities after every step, whatever the requests are.
THEOREM EventsTellTheMaps == Spec => MapEventsTellTheBook
<1>1. IInv /\ IInv' /\ AccountsBalance /\ [Next]_vars =>
        [CopyOf(resting_orders') = FoldLeft(Replay, CopyOf(resting_orders), NewEvents)]_vars
  BY EveryStepTells DEF Told
<1> QED BY <1>1, Accounts, MapSoundness, PTL DEF Spec, MapEventsTellTheBook

-----------------------------------------------------------------------------
(***************************************************************************)
(* A side of the book, by the levels and by the orders.                    *)
(***************************************************************************)
LEMMA IdOnSide ==
  ASSUME IInv, NEW s \in BookSides, NEW id \in On(resting_orders, s)
  PROVE  /\ id \in OrderIds
         /\ \E p \in DOMAIN levels[s] : \E i \in DOMAIN OrdersAt(s, p) :
              /\ resting_orders[id] = OrdersAt(s, p)[i] /\ OrdersAt(s, p)[i].order_id = id
              /\ OrdersAt(s, p)[i].price = p
<1>1. id \in OrderIds /\ resting_orders[id].side = s
  BY DEF On
<1>2. NoOrder.side \notin BookSides
  BY DEF NoOrder, BookSides
<1>3. contains_order(id)
  BY <1>1, <1>2 DEF resting_orders
<1>4. id \in PriceTime!RestingOn(s)
  BY <1>1, <1>3, RestingOrder DEF PriceTime!RestingOn
<1> QED BY <1>4, OrdersOfSide

LEMMA PlaceOnSide ==
  ASSUME IInv, NEW s \in BookSides, NEW p \in DOMAIN levels[s], NEW i \in DOMAIN OrdersAt(s, p)
  PROVE  /\ OrdersAt(s, p)[i].order_id \in On(resting_orders, s)
         /\ resting_orders[OrdersAt(s, p)[i].order_id] = OrdersAt(s, p)[i]
         /\ OrdersAt(s, p)[i].price = p
<1>1. OrdersAreRead
  BY LookupReadsOrders DEF IInv, TypeOK
<1>2. OrdersAt(s, p)[i].side = s /\ OrdersAt(s, p)[i].price = p
  BY DEF IInv, BookIsSound, OrdersAreSound
<1>3. /\ OrdersAt(s, p)[i].order_id \in OrderIds
      /\ resting_orders[OrdersAt(s, p)[i].order_id] = OrdersAt(s, p)[i]
  BY <1>1 DEF OrdersAreRead
<1> QED BY <1>2, <1>3 DEF On

\* The keys of a side are the prices of its orders.
LEMMA KeysArePrices ==
  ASSUME IInv, NEW s \in BookSides
  PROVE  DOMAIN levels[s] = PricesOn(resting_orders, s)
<1>1. ASSUME NEW p \in DOMAIN levels[s] PROVE p \in PricesOn(resting_orders, s)
  <2>1. 1 \in DOMAIN OrdersAt(s, p)
    BY FrontOrder DEF IInv, TypeOK
  <2>2. PICK id : id = OrdersAt(s, p)[1].order_id
    OBVIOUS
  <2>3. id \in On(resting_orders, s) /\ resting_orders[id].price = p
    BY <2>1, <2>2, PlaceOnSide
  <2> QED BY <2>3 DEF PricesOn
<1>2. ASSUME NEW id \in On(resting_orders, s)
      PROVE  resting_orders[id].price \in DOMAIN levels[s]
  <2>1. \E p \in DOMAIN levels[s] : resting_orders[id].price = p
    BY IdOnSide
  <2> QED BY <2>1
<1> QED BY <1>1, <1>2 DEF PricesOn

\* The quantity of a list is that of the orders at its price.
LEMMA QuantityOfList ==
  ASSUME IInv, NEW s \in BookSides, NEW p \in DOMAIN levels[s]
  PROVE  QuantityAt(resting_orders, s, p) = ListQuantity(OrdersAt(s, p))
<1>a. PICK list : list = OrdersAt(s, p)
  OBVIOUS
<1>b. PICK ren : ren = [i \in DOMAIN list |-> list[i].order_id]
  OBVIOUS
<1>c. PICK g : g = [id \in OrderIds |-> resting_orders[id].remaining_quantity]
  OBVIOUS
<1>d. PICK ids : ids = {id \in On(resting_orders, s) : resting_orders[id].price = p}
  OBVIOUS
<1>e. PICK f : f = remaining_quantities(list)
  OBVIOUS
<1>1. /\ Len(list) \in Nat /\ DOMAIN list = 1 .. Len(list)
      /\ \A i \in DOMAIN list : list[i] \in Order
  BY <1>a, LevelType DEF IInv, TypeOK
<1>2. IsFiniteSet(DOMAIN list)
  BY <1>1, FS_Interval
<1>3. ASSUME NEW i \in DOMAIN list
      PROVE  /\ ren[i] = list[i].order_id /\ ren[i] \in OrderIds /\ ren[i] \in ids
             /\ f[i] = g[ren[i]] /\ f[i] \in Nat
  <2>1. /\ ren[i] = list[i].order_id /\ ren[i] \in On(resting_orders, s)
        /\ resting_orders[ren[i]] = list[i] /\ list[i].price = p
    BY <1>3, <1>a, <1>b, PlaceOnSide
  <2>2. ren[i] \in OrderIds
    BY <2>1 DEF On
  <2>3. f[i] = list[i].remaining_quantity /\ f[i] \in Nat
    BY <1>1, <1>e DEF remaining_quantities, Order
  <2> QED BY <2>1, <2>2, <2>3, <1>c, <1>d
<1>4. ASSUME NEW i \in DOMAIN list, NEW j \in DOMAIN list, ren[i] = ren[j] PROVE i = j
  BY <1>4, <1>3, <1>a, OnePlace DEF IInv, TypeOK
<1>5. ASSUME NEW id \in ids PROVE \E i \in DOMAIN list : ren[i] = id
  <2>1. PICK q \in DOMAIN levels[s] : \E i \in DOMAIN OrdersAt(s, q) :
          /\ resting_orders[id] = OrdersAt(s, q)[i] /\ OrdersAt(s, q)[i].order_id = id
          /\ OrdersAt(s, q)[i].price = q
    BY <1>d, IdOnSide
  <2>2. q = p
    BY <2>1, <1>d
  <2> QED BY <2>1, <2>2, <1>3, <1>a
<1>6. RenamedSet(ren, DOMAIN list) = ids
  BY <1>3, <1>5 DEF RenamedSet
<1>7. SumFunctionOnSet(f, DOMAIN list) = SumFunctionOnSet(g, RenamedSet(ren, DOMAIN list))
  BY <1>2, <1>3, <1>4, SumRenames
<1> QED BY <1>6, <1>7, <1>a, <1>c, <1>d, <1>e DEF QuantityAt, ListQuantity

\* begin() is at the best price of the orders of its side.
LEMMA BestOfOrders ==
  ASSUME IInv, NEW s \in BookSides
  PROVE  /\ On(resting_orders, s) # {} <=> DOMAIN levels[s] # {}
         /\ DOMAIN levels[s] # {} =>
              /\ best_price(s) \in DOMAIN levels[s]
              /\ best_price(s) \in PricesOn(resting_orders, s)
              /\ \A p \in PricesOn(resting_orders, s) :
                   p \in Nat /\ IF s = "Buy" THEN p <= best_price(s) ELSE best_price(s) <= p
<1>1. On(resting_orders, s) # {} <=> PricesOn(resting_orders, s) # {}
  BY DEF PricesOn
<1>2. DOMAIN levels[s] \subseteq Nat
  BY DEF IInv, TypeOK, MapTypeOK
<1> QED BY <1>1, <1>2, KeysArePrices, BestPriceOfSide

-----------------------------------------------------------------------------
(***************************************************************************)
(* One answer to each request.                                             *)
(***************************************************************************)
LEMMA SubmitNewAnswers ==
  ASSUME IInv, NEW market, AnswerIsComing(market),
         NEW req \in NewOrderRequest, market \/ req.order_type # "Market", SubmitNew(req)
  PROVE  AnswerIsComing(market)'
<1>a. PICK why : why = new_order_reason(req)
  OBVIOUS
<1>1. why \in Reasons /\ (why = "None" => req.quantity # 0)
  BY <1>a, MapReasons DEF new_order_reason, is_valid_new_order_request
<1>2. pc = "idle" /\ handle_new_order(req, why, <<>>)
  BY <1>a DEF SubmitNew, Ready
<1> QED BY <1>1, <1>2, NewOrderAnswer

LEMMA SubmitCancelAnswers ==
  ASSUME IInv, NEW market, AnswerIsComing(market),
         NEW req \in CancelOrderRequest, req.order_id \in OrderIds, SubmitCancel(req)
  PROVE  AnswerIsComing(market)'
<1>a. PICK e : e = cancel_event(req)
  OBVIOUS
<1>1. e \in Event /\ e.event_type \in {"OrderRejected", "OrderCancelled"}
  <2>1. UNCHANGED next_sequence_number /\ CancelStorage(req)
    BY DEF SubmitCancel, Answer
  <2>2. e \in Event
    BY <1>a, <2>1, CancelStorageStep
  <2> QED BY <1>a, <2>2, TypesOfEvents DEF cancel_event
<1> QED BY <1>1, <1>a, AnswerAtOnce DEF SubmitCancel

LEMMA SubmitModifyAnswers ==
  ASSUME IInv, NEW market, AnswerIsComing(market),
         NEW req \in ModifyOrderRequest, req.order_id \in OrderIds,
         market \/ req.order_type # "Market", SubmitModify(req)
  PROVE  AnswerIsComing(market)'
<1>1. pc = "idle"
  BY DEF SubmitModify, Ready
<1>2. CASE modify_order_reason(req) # "None"
  <2>a. PICK e : e = ModifyRejected(req, modify_order_reason(req))
    OBVIOUS
  <2>1. e \in Event /\ e.event_type = "OrderRejected"
    BY <2>a, MapReasons, RejectionTypes, TypesOfEvents
  <2> QED BY <1>1, <1>2, <2>1, <2>a, AnswerAtOnce DEF SubmitModify
<1>3. CASE modify_order_reason(req) = "None"
  <2>a. PICK old : old = order_at(order_lookup[req.order_id])
    OBVIOUS
  <2>1. old \in Order /\ BeginModify(req, old, OrderCancelled(old))
    <3>1. old \in Order
      BY <1>3, <2>a, LookedUpOrder DEF modify_order_reason
    <3>2. cancel_order_reason([order_id |-> req.order_id]) = "None"
      BY <1>3, CancelIsNeverRefusedInside
      DEF modify_order_reason, is_valid_modify_order_request
    <3> QED BY <1>3, <2>a, <3>1, <3>2 DEF SubmitModify, cancel_event
  <2> QED BY <2>1, ModifyBegun
<1> QED BY <1>2, <1>3

LEMMA ContinueAnswers ==
  ASSUME IInv, NEW market, AnswerIsComing(market),
         Resubmit \/ match_buy \/ match_sell \/ add_resting_order \/ NothingRests
  PROVE  AnswerIsComing(market)'
<1>0. HandlerTypeOK
  BY DEF IInv, TypeOK
<1>1. CASE Resubmit
  <2>1. pc = "resubmit" /\ new_order_reason(new_req) = "None"
    BY <1>1 DEF Resubmit, IInv, CallIsSound
  <2>2. new_req.quantity # 0 /\ handle_new_order(new_req, "None", events)
    BY <1>1, <2>1 DEF Resubmit, new_order_reason, is_valid_new_order_request
  <2> QED BY <1>0, <2>1, <2>2, ResubmittedAnswer
<1>2. CASE match_buy \/ match_sell
  <2>1. PICK s \in BookSides : pc = "matching" /\ CanMatch(s) /\ MatchFront(s)
    BY <1>2, NoEmptyLevelIsMatched DEF BookSides
  <2>a. PICK p : p = best_price(s)
    OBVIOUS
  <2>b. PICK resting : resting = OrdersAt(s, p)[1]
    OBVIOUS
  <2>c. PICK qty : qty = trade_qty(resting)
    OBVIOUS
  <2>2. resting \in Order /\ TradeWith(resting)
    BY <2>1, <2>a, <2>b, <2>c, FillOfFront DEF CanMatch
  <2> QED BY <1>0, <2>1, <2>2, TradedAnswer
<1>3. CASE add_resting_order
  <2>1. /\ pc = "matching" /\ ~is_market
        /\ Return(new_req, Append(events, OrderRested(incoming)))
    BY <1>3 DEF add_resting_order, MatchingDone, IInv, CallIsSound
  <2> QED BY <1>0, <2>1, RestedAnswer
<1>4. CASE NothingRests
  BY <1>0, <1>4, FinishedAnswer DEF NothingRests, MatchingDone
<1> QED BY <1>1, <1>2, <1>3, <1>4

\* Whatever the request, it is accepted, refused or cancels an order, and is told so
\* once; a modify that is not refused tells of a cancellation, an acceptance and
\* itself. A limit order that changed nothing was refused, and what was accepted and
\* did not trade rests, or was cancelled as a market order.
THEOREM MapRequestsAreAnswered == Spec => []AnsweredOnce
<1>1. Init => AnswerIsComing(TRUE)
  BY InitialAnswer DEF Init
<1>2. IInv /\ AnswerIsComing(TRUE) /\ [Next]_vars => AnswerIsComing(TRUE)'
  <2> SUFFICES ASSUME IInv, AnswerIsComing(TRUE), [Next]_vars PROVE AnswerIsComing(TRUE)'
    OBVIOUS
  <2>1. CASE Submit
    BY <2>1, HandlerAssumption, SubmitNewAnswers, SubmitModifyAnswers, SubmitCancelAnswers
    DEF Submit
  <2>2. CASE Continue
    BY <2>2, ContinueAnswers, CollectedAnswer DEF Continue
  <2>3. CASE UNCHANGED vars
    BY <2>3, SameAnswer DEF vars
  <2> QED BY <2>1, <2>2, <2>3 DEF Next
<1>3. AnswerIsComing(TRUE) => AnsweredOnce
  BY DEF AnswerIsComing
<1> QED BY <1>1, <1>2, <1>3, MapSoundness, PTL DEF Spec
=============================================================================
