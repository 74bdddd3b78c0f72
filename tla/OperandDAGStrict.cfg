CONSTANTS
  Operands = {A, B, C}
  A = A
  B = B
  C = C
SPECIFICATION Spec
INVARIANT RequiredEarlier
