------------------------- MODULE MCNamespaceRecorder -------------------------
(***************************************************************************)
(* NamespaceRecorder for TLC.                                              *)
(***************************************************************************)
EXTENDS NamespaceRecorder

CONSTANTS events, apiFailures, restarts

MCBudget ==
  [k \in Kinds |->
     CASE k = "event" -> events
       [] k = "api" -> apiFailures
       [] k = "restart" -> restarts]
=============================================================================
