----------------------------- MODULE Admission -----------------------------
(***************************************************************************)
(* The admission webhooks: the handlers of webhook/admission with a        *)
(* controller built from webhook/function and singleton, registered as     *)
(* webhook/builder does.  A handler keeps no state; what follows are the   *)
(* functions from a request, and what the handler's client lists for it,   *)
(* to a response.  An object is its set of label keys; a request's raw     *)
(* object is <<labels>>, or <<>> if it does not decode.                    *)
(***************************************************************************)
EXTENDS Integers, Sequences, FiniteSets

CONSTANTS
    Ignored,        \* names RequireDefaulting and RequireValidating wave on
    DefaultLabels,  \* what AddLabels adds
    ValidLabels     \* what ValidateLabels accepts

RequireDefaulting(n) == n \notin Ignored
RequireValidating(n) == n \notin Ignored

AddLabels(labels) == labels \cup DefaultLabels

ValidateLabels(labels) == labels \subseteq ValidLabels

\* mutatingHandler.Handle: the object with its defaults, or <<>> as an error.
Defaulted(n, raw) ==
    IF raw # <<>> /\ RequireDefaulting(n) THEN <<AddLabels(raw[1])>> ELSE raw

\* validatingHandler.Handle up to the first validation that calls a client.
\* An update is judged by its new object, a deletion by no validation.
ValidatedOld(op, n, raw, old) ==
    IF raw = <<>> \/ (op = "update" /\ old = <<>>) THEN "errored"
    ELSE IF ~RequireValidating(n) \/ op = "delete" THEN "allowed"
    ELSE IF ~ValidateLabels(IF op = "update" THEN old[1] ELSE raw[1]) THEN "denied"
    ELSE IF op = "create" THEN "singleton" ELSE "allowed"

Validated(op, n, raw, old) ==
    IF raw = <<>> \/ (op = "update" /\ old = <<>>) THEN "errored"
    ELSE IF ~RequireValidating(n) \/ op = "delete" THEN "allowed"
    ELSE IF ~ValidateLabels(raw[1]) THEN "denied"
    ELSE IF op = "create" THEN "singleton" ELSE "allowed"

\* GetInstance over the listed names, and what ValidateSingletonCreate makes
\* of it: an instance, or the error that there are several, denies.
ValidateSingletonSeveral(instances) ==
    IF Cardinality(instances) > 1 THEN "denied" ELSE "allowed"

ValidateSingletonCreate(instances) ==
    IF instances # {} THEN "denied" ELSE "allowed"
=============================================================================
