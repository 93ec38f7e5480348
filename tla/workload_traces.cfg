SPECIFICATION GeneratorSpec
CONSTANTS
  Workloads <- all_workload_names
  NumOps = {2, 5}
  MinPrice = 8
  MaxPrice = 16
  TickSize = 2
  MidPrice = 12
  MaxQuantity = 1
  PriceMod = 64
INVARIANTS
  TraceNamesLiveOrders
  PassivePricesDoNotCross
CHECK_DEADLOCK FALSE
