SPECIFICATION BenchSpec
CONSTANTS
  Workloads = {"modify_heavy"}
  NumOps = {4}
  MinPrice = 8
  MaxPrice = 16
  TickSize = 2
  MidPrice = 12
  MaxQuantity = 1
  PriceMod = 64
  WarmupOps = 2
  OrderIds = {1, 2, 3, 4}
  NewOrderRequests = {}
  ModifyOrderRequests = {}
  CancelOrderRequests = {}
  MaxSequence = 4
  QuantityMod = 16
  PoolCapacity = 4
INVARIANTS
  ModifiesUsePassivePrices
CHECK_DEADLOCK FALSE
