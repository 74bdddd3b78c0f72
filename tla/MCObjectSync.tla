---------------------------- MODULE MCObjectSync ----------------------------
(***************************************************************************)
(* ObjectSync for TLC.                                                     *)
(***************************************************************************)
EXTENDS ObjectSync

CONSTANTS writes, drifts, apiFailures, callbackErrors, restarts

MCBudget ==
  [k \in Kinds |->
     CASE k = "write" -> writes
       [] k = "drift" -> drifts
       [] k = "api" -> apiFailures
       [] k = "callback" -> callbackErrors
       [] k = "restart" -> restarts]
=============================================================================
