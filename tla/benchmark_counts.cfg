SPECIFICATION BenchSpec
CONSTANTS
  Workloads = {"mostly_adds", "many_cancels", "market_orders", "wide_price_range", "same_price_fifo", "cross_heavy", "modify_heavy", "mixed_realistic"}
  NumOps = {0, 3, 4}
  MinPrice = 8
  MaxPrice = 16
  TickSize = 2
  MidPrice = 12
  MaxQuantity = 1
  PriceMod = 64
  WarmupOps = 2
  OrderIds = {1, 2, 3, 4}
  NewOrderRequests = {}
  ModifyOrderRequests = {}
  CancelOrderRequests = {}
  MaxSequence = 4
  QuantityMod = 16
  PoolCapacity = 4
INVARIANTS
  BenchTypeOK
  SameCounts
  EveryRequestIsAnswered
  PassiveWorkloadsOnlyRest
  OnlyFilledOrdersAreRefused
  WarmupLeavesNoTrace
  EngineAnnouncesEveryAcceptedRequest
  FifoMatchesInOrder
PROPERTIES
  EveryRunEnds
CHECK_DEADLOCK FALSE
