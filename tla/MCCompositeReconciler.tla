----------------------- MODULE MCCompositeReconciler -----------------------
(* CompositeReconciler for TLC: two children, and the budgets of the runs. *)
EXTENDS CompositeReconciler

CONSTANTS edits, deletions, finalizerFailures, apiFailures, callbackErrors, restarts

MCBudget ==
  [k \in Kinds |->
     CASE k = "edit" -> edits
       [] k = "delete" -> deletions
       [] k = "finalizer" -> finalizerFailures
       [] k = "api" -> apiFailures
       [] k = "callback" -> callbackErrors
       [] k = "restart" -> restarts]
=============================================================================
