SPECIFICATION Spec
CONSTANTS
  Traffics <- AllTraffics
  Given <- GivenOne
  Late = {"raising"}
  Readers = {"reader", "reader2"}
  Raising = {"raising"}
  PoolSize = 2
  MaxDatagrams = 2
INVARIANTS HandedOnce  QuietWhenClosed
PROPERTIES MessagesHandled CloseReturns
CHECK_DEADLOCK FALSE
