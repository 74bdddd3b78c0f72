CONSTANTS
  a = a
  b = b
  c = c
  Operands = {a, b, c}
  Orders <- MCOrders
SPECIFICATION FairSpec
INVARIANTS
  EnsureComplete
  FailureRequeues
  CleanupReversed
PROPERTIES
  Stepwise
  CallsReturn
