CONSTANTS
  Children = {c1, c2}
  c1 = c1
  c2 = c2
  Budget <- MCBudget
  edits = 1
  deletions = 1
  finalizerFailures = 1
  apiFailures = 1
  callbackErrors = 1
  restarts = 1
SPECIFICATION FairSpec
INVARIANTS
  ChildrenGuarded
  ConflictsRetried
PROPERTIES
  Converges
  DeletionCompletes
  ComesToRest
CHECK_DEADLOCK FALSE
