SPECIFICATION Spec
CONSTANTS
  OrderIds = {0, 1, 2, 3}
  Prices = {10, 12, 14}
  Quantities = {1, 2}
  NewOrderRequests <- LimitOrders
  ModifyOrderRequests <- LimitModifies
  CancelOrderRequests <- MCCancelOrderRequests
  MaxSequence = 4
  QuantityMod = 16
  MinPrice = 10
  MaxPrice = 14
  TickSize = 2
  PriceMod = 64
  PoolCapacity = 3
VIEW LiveContents
INVARIANTS
  CheckInvariants
  BestIsCurrent
  NeverCrossed
  BestPriceFirst
