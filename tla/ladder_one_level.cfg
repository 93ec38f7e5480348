SPECIFICATION Spec
CONSTANTS
  OrderIds = {0, 1, 2, 3}
  Prices = {10}
  Quantities = {1, 2}
  NewOrderRequests <- MCNewOrderRequests
  ModifyOrderRequests <- MCModifyOrderRequests
  CancelOrderRequests <- MCCancelOrderRequests
  MaxSequence = 5
  QuantityMod = 16
  MinPrice = 10
  MaxPrice = 10
  TickSize = 1
  PriceMod = 64
  PoolCapacity = 3
VIEW LiveContents
INVARIANTS
  TimePriorityLinks
  LookupIsExact
  NodesAreConserved
PROPERTIES
  NodesAreReused
  MatchingMakesProgress
