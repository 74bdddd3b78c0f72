----------------------- MODULE MCCompositeController -----------------------
(***************************************************************************)
(* CompositeController for TLC: the operator orders its operands in two    *)
(* steps, a number that Reverse does not shorten.                          *)
(***************************************************************************)
EXTENDS CompositeController

CONSTANTS a, b, edits, deletions, finalizerFailures, apiFailures, callbackErrors, restarts

MCBudget ==
  [k \in Kinds |->
     CASE k = "edit" -> edits
       [] k = "delete" -> deletions
       [] k = "finalizer" -> finalizerFailures
       [] k = "api" -> apiFailures
       [] k = "callback" -> callbackErrors
       [] k = "restart" -> restarts]

MCOrders == { <<{a}, {b}>> }

NoRequeueAlways == { {} }
FirstRequeueAlways == { {b} }
=============================================================================
