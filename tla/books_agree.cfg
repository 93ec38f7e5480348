SPECIFICATION BothSpec
CONSTANTS
  OrderIds = {0, 1, 2, 3}
  Prices = {10, 12}
  Quantities = {1, 2}
  NewOrderRequests <- WithMalformedNew
  ModifyOrderRequests <- WithMalformedModify
  CancelOrderRequests <- MCCancelOrderRequests
  MaxSequence = 4
  QuantityMod = 16
  MinPrice = 10
  MaxPrice = 12
  TickSize = 2
  PriceMod = 64
  PoolCapacity = 3
VIEW LiveContentsOfBoth
INVARIANTS
  SameEvents
  SameQuotes
