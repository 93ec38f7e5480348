SPECIFICATION Spec
CONSTANTS
  OrderIds = {1, 2}
  Prices = {10}
  Quantities = {1, 2, 3}
  NewOrderRequests <- MCNewOrderRequests
  ModifyOrderRequests <- MCModifyOrderRequests
  CancelOrderRequests <- MCCancelOrderRequests
  MaxSequence = 2
  QuantityMod = 4
  MinPrice = 10
  MaxPrice = 10
  TickSize = 1
  PriceMod = 64
  PoolCapacity = 2
VIEW LiveContents
INVARIANTS
  TotalQuantityIsExact
