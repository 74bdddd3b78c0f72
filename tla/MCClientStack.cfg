SPECIFICATION FairSpec
CONSTANTS
  c1 = c1
  c2 = c2
  src = src
  Callers <- MCCallers
  Source = src
  Names = {n1, n2}
  Values <- MCValues
  Ignored = {}
  DefaultLabels = {"foo"}
  ValidLabels = {"foo", "ok"}
  Setups <- MCSetups
INVARIANTS StackTypeOK RunOnce SyncedReads Admitted AtMostOne NotFoundIsReal RulesComplete AtRestReconciled
PROPERTIES Reconciled Responds
CHECK_DEADLOCK FALSE
