CONSTANTS
  a = a
  b = b
  c = c
  Operands = {a, b, c}
  Orders <- MCOrders
SPECIFICATION Spec
INVARIANT CleanupComplete
