SPECIFICATION BothSpec
CONSTANTS
  OrderIds = {1, 2}
  Prices = {10, 11}
  Quantities = {1}
  NewOrderRequests <- MCNewOrderRequests
  ModifyOrderRequests <- MCModifyOrderRequests
  CancelOrderRequests <- MCCancelOrderRequests
  MaxSequence = 2
  QuantityMod = 16
  MinPrice = 10
  MaxPrice = 12
  TickSize = 2
  PriceMod = 64
  PoolCapacity = 2
VIEW LiveContentsOfBoth
INVARIANTS
  SameEvents
