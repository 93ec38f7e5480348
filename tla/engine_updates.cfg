SPECIFICATION ReaderSpec
CONSTANTS
  OrderIds = {0, 1, 2}
  Prices = {10, 12}
  Quantities = {1, 2}
  NewOrderRequests <- MCNewOrderRequests
  ModifyOrderRequests <- MCModifyOrderRequests
  CancelOrderRequests <- MCCancelOrderRequests
  MaxSequence = 4
  QuantityMod = 16
  MinPrice = 10
  MaxPrice = 12
  TickSize = 2
  PriceMod = 64
  PoolCapacity = 3
  MaxCalls = 4
INVARIANTS
  ReadTypeOK
  AnnouncedTopIsTrue
  NothingGoesUnannounced
PROPERTIES
  UpdatesTellOfAChange
  EventsAreNumberedByCall
CHECK_DEADLOCK FALSE
