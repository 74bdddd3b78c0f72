CONSTANTS
  Children = {c1, c2}
  c1 = c1
  c2 = c2
  Budget <- MCBudget
  edits = 0
  deletions = 1
  finalizerFailures = 1
  apiFailures = 0
  callbackErrors = 0
  restarts = 0
SPECIFICATION Spec
INVARIANT AnotherReconciliation
CHECK_DEADLOCK FALSE
