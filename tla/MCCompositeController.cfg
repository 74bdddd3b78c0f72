CONSTANTS
  a = a
  b = b
  Children = {a, b}
  Budget <- MCBudget
  Orders <- MCOrders
  Suspensions = {FALSE}
  RequeueSets <- NoRequeueAlways
  edits = 1
  deletions = 1
  finalizerFailures = 0
  apiFailures = 0
  callbackErrors = 1
  restarts = 1
SPECIFICATION FairControllerSpec
INVARIANTS
  ChildrenGuarded
PROPERTIES
  Converges
  DeletionCompletes
CHECK_DEADLOCK FALSE
