SPECIFICATION FairSpec
CONSTANTS
  OrderIds = {0, 1, 2}
  Prices = {9, 10, 11, 12, 14}
  Quantities = {1, 2}
  NewOrderRequests <- WithMalformedNew
  ModifyOrderRequests <- WithMalformedModify
  CancelOrderRequests <- MCCancelOrderRequests
  MaxSequence = 3
  QuantityMod = 16
  MinPrice = 10
  MaxPrice = 12
  TickSize = 2
  PriceMod = 64
  PoolCapacity = 2
INVARIANTS
  TypeOK
  ModifyNeverLosesOrder
  RefusalsAreJustified
  AnsweredOnce
PROPERTIES
  EveryCallReturns
