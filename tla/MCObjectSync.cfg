CONSTANTS
  Keys = {k1, k2}
  Workers = 1
  Budget <- MCBudget
  writes = 3
  drifts = 1
  apiFailures = 1
  callbackErrors = 1
  restarts = 1
SPECIFICATION FairSpec
PROPERTIES
  HeldIsKept
  Mirrored
  Collected
  Resynced
CHECK_DEADLOCK FALSE
