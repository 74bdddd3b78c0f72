CONSTANTS
  Keys = {n1}
  Objects = {n1}
  Ids = {1, 2}
  Budget <- MCBudget
  events = 2
  apiFailures = 1
  restarts = 1
SPECIFICATION FairRecorderSpec
INVARIANTS
  DeferredOnce
  SettledOrExpired
  SettledIsRecorded
PROPERTIES
  ActionsEnd
  Recorded
CHECK_DEADLOCK FALSE
