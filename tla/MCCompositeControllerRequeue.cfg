CONSTANTS
  a = a
  b = b
  Children = {a, b}
  Budget <- MCBudget
  Orders <- MCOrders
  Suspensions = {FALSE}
  RequeueSets <- FirstRequeueAlways
  edits = 0
  deletions = 1
  finalizerFailures = 0
  apiFailures = 0
  callbackErrors = 0
  restarts = 0
SPECIFICATION ControllerSpec
INVARIANT FinalizerRemovedLast
CHECK_DEADLOCK FALSE
