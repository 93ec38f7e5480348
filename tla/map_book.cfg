SPECIFICATION Spec
CONSTANTS
  OrderIds = {0, 1, 2, 3}
  Prices = {10, 12}
  Quantities = {1, 2}
  NewOrderRequests <- WithMalformedNew
  ModifyOrderRequests <- WithMalformedModify
  CancelOrderRequests <- MCCancelOrderRequests
  MaxSequence = 4
  QuantityMod = 16
INVARIANTS
  TypeOK
  MapCheckInvariants
  NoDanglingIterator
  ListsAreInArrivalOrder
PROPERTIES
  MapImplementsPriceTimeBook
