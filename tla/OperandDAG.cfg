CONSTANTS
  Operands = {A, B, C, D}
  A = A
  B = B
  C = C
  D = D
SPECIFICATION FairSpec
INVARIANTS
  RequiredNotLater
  OrderTotal
PROPERTY OrderTerminates
