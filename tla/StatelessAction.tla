--------------------------- MODULE StatelessAction ---------------------------
(***************************************************************************)
(* The stateless-action controller, controller/stateless-action/v1:        *)
(* Reconcile decides whether an object needs an action and starts it in a  *)
(* goroutine per object; RunAction runs the action, checks it after every  *)
(* retry period and runs it again until the check is satisfied or the      *)
(* timeout of its context has passed.                                      *)
(*                                                                         *)
(* The Controller and its action.Manager are parameters of the code; here  *)
(* their methods return anything, and each step has the outcome of the     *)
(* call as its parameter, for modules that say what the methods do.        *)
(***************************************************************************)
EXTENDS Integers

CONSTANTS
  Keys,                 \* requests of Reconcile
  Objects,              \* objects that actions are run on
  Ids                   \* goroutines; a bound on how many there are at once

VARIABLES
  queue,                \* the work queue
  stage,                \* where Reconcile is, for each request
  pc,                   \* where RunAction is, for each goroutine
  object,               \* the object of the goroutine
  expired,              \* the context's deadline has passed
  settled,              \* a check was satisfied after the last run
  deferred              \* how often Defer was called

reconciling == <<queue, stage>>
running == <<pc, object, expired, settled, deferred>>
actionVars == <<reconciling, running>>

Free(i) == pc[i] \in {"none", "ended"}

ActionInit ==
  /\ queue = {}
  /\ stage = [k \in Keys |-> "idle"]
  /\ pc = [i \in Ids |-> "none"]
  /\ object = [i \in Ids |-> CHOOSE o \in Objects : TRUE]
  /\ expired = [i \in Ids |-> FALSE]
  /\ settled = [i \in Ids |-> FALSE]
  /\ deferred = [i \in Ids |-> 0]

-----------------------------------------------------------------------------
(* Reconcile. A returned error queues the request again. *)

(* An event of the object. *)
Event(k) == queue' = queue \union {k} /\ UNCHANGED <<stage, running>>

(* A new process: the goroutines are gone, and every object has an event.  *)
ActionRestart(listed) ==
  /\ queue' = listed
  /\ stage' = [k \in Keys |-> "idle"]
  /\ pc' = [i \in Ids |-> "none"]
  /\ UNCHANGED <<object, expired, settled, deferred>>

Return(k, err) ==
  /\ stage' = [stage EXCEPT ![k] = "idle"]
  /\ queue' = IF err THEN queue \union {k} ELSE queue

Proceed(k, next) == stage' = [stage EXCEPT ![k] = next]

(* NotFound is ignored, and a nil object is nothing to act on. *)
GetObject(k, outcome) ==
  /\ k \in queue /\ stage[k] = "idle"
  /\ \/ outcome = "object" /\ queue' = queue \ {k} /\ Proceed(k, "require")
     \/ outcome \in {"NotFound", "nil"} /\ queue' = queue \ {k} /\ UNCHANGED stage
     \/ outcome = "error" /\ UNCHANGED reconciling
  /\ UNCHANGED running

RequireAction(k, outcome) ==
  /\ stage[k] = "require"
  /\ IF outcome = "true"
       THEN Proceed(k, "manage") /\ UNCHANGED queue
       ELSE Return(k, outcome = "error")
  /\ UNCHANGED running

(* BuildActionManager or GetObjects fails. *)
ManagerFails(k) ==
  /\ stage[k] = "manage"
  /\ Return(k, TRUE)
  /\ UNCHANGED running

(* A goroutine for each of the objects; nobody waits for them. *)
RunActionManager(k, objects, started) ==
  /\ stage[k] = "manage"
  /\ \A i \in DOMAIN started : Free(i)
  /\ {started[i] : i \in DOMAIN started} = objects
  /\ \A i, j \in DOMAIN started : i # j => started[i] # started[j]
  /\ Return(k, FALSE)
  /\ pc' = [i \in Ids |-> IF i \in DOMAIN started THEN "name" ELSE pc[i]]
  /\ object' = [i \in Ids |-> IF i \in DOMAIN started THEN started[i] ELSE object[i]]
  /\ expired' = [i \in Ids |-> i \notin DOMAIN started /\ expired[i]]
  /\ settled' = [i \in Ids |-> i \notin DOMAIN started /\ settled[i]]
  /\ deferred' = [i \in Ids |-> IF i \in DOMAIN started THEN 0 ELSE deferred[i]]

-----------------------------------------------------------------------------
(* RunAction. *)

Goto(i, next) == pc' = [pc EXCEPT ![i] = next]

(* Without a name the action is given up, before Defer is deferred. *)
GetName(i, ok) ==
  /\ pc[i] = "name"
  /\ Goto(i, IF ok THEN "run" ELSE "ended")
  /\ UNCHANGED <<reconciling, object, expired, settled, deferred>>

(* The deadline of the context passes. *)
Expire(i) ==
  /\ pc[i] \in {"run", "select", "check", "defer"} /\ ~expired[i]
  /\ expired' = [expired EXCEPT ![i] = TRUE]
  /\ UNCHANGED <<reconciling, pc, object, settled, deferred>>

(* The first run or a retry; an error is logged. *)
Run(i) ==
  /\ pc[i] = "run"
  /\ Goto(i, "select")
  /\ settled' = [settled EXCEPT ![i] = FALSE]
  /\ UNCHANGED <<reconciling, object, expired, deferred>>

(* select takes the timer, also when the context is done as well. *)
Retry(i) ==
  /\ pc[i] = "select"
  /\ Goto(i, "check")
  /\ UNCHANGED <<reconciling, object, expired, settled, deferred>>

(* Mutant of Check: a check that fails ends the action. *)
CheckErrorEnds(i, outcome) ==
  /\ pc[i] = "check"
  /\ Goto(i, IF outcome = "true" THEN "run" ELSE "defer")
  /\ settled' = [settled EXCEPT ![i] = outcome = "false"]
  /\ UNCHANGED <<reconciling, object, expired, deferred>>

(* Whether the action is still needed. *)
Check(i, outcome) ==
  /\ pc[i] = "check"
  /\ Goto(i, CASE outcome = "error" -> "select"
               [] outcome = "true" -> "run"
               [] outcome = "false" -> "defer")
  /\ settled' = [settled EXCEPT ![i] = outcome = "false"]
  /\ UNCHANGED <<reconciling, object, expired, deferred>>

(* Mutant of Done: the context's deadline is not looked at. *)
DoneNever(i) == FALSE /\ UNCHANGED actionVars

(* Mutant of Done: it returns before Defer was deferred. *)
DoneUndeferred(i) ==
  /\ pc[i] = "select" /\ expired[i]
  /\ Goto(i, "ended")
  /\ UNCHANGED <<reconciling, object, expired, settled, deferred>>

(* select takes the context that is done. *)
Done(i) ==
  /\ pc[i] = "select" /\ expired[i]
  /\ Goto(i, "defer")
  /\ UNCHANGED <<reconciling, object, expired, settled, deferred>>

Defer(i) ==
  /\ pc[i] = "defer"
  /\ Goto(i, "ended")
  /\ deferred' = [deferred EXCEPT ![i] = @ + 1]
  /\ UNCHANGED <<reconciling, object, expired, settled>>

-----------------------------------------------------------------------------

ReconcileStep(k) ==
  \/ \E outcome \in {"object", "NotFound", "nil", "error"} : GetObject(k, outcome)
  \/ \E outcome \in {"true", "false", "error"} : RequireAction(k, outcome)
  \/ ManagerFails(k)
  \/ \E objects \in SUBSET Objects : \E ids \in SUBSET Ids :
       \E started \in [ids -> Objects] : RunActionManager(k, objects, started)

ActionStep(i) ==
  \/ \E ok \in BOOLEAN : GetName(i, ok)
  \/ Run(i) \/ Retry(i) \/ Done(i) \/ Defer(i)
  \/ \E outcome \in {"true", "false", "error"} : Check(i, outcome)

ActionNext ==
  \/ \E k \in Keys : Event(k) \/ ReconcileStep(k)
  \/ \E listed \in SUBSET Keys : ActionRestart(listed)
  \/ \E i \in Ids : ActionStep(i) \/ Expire(i)

ActionSpec == ActionInit /\ [][ActionNext]_actionVars

-----------------------------------------------------------------------------

(* Every goroutine that got as far as running its action calls Defer, once *)
(* and as the last thing it does; one without a name never calls it.       *)
(* Timeouts, retries and failed checks do not change that.                 *)
DeferredOnce ==
  \A i \in Ids :
    /\ pc[i] \in {"name", "run", "select", "check", "defer"} => deferred[i] = 0
    /\ pc[i] = "ended" => deferred[i] <= 1
    /\ pc[i] = "ended" /\ (settled[i] \/ expired[i]) => deferred[i] = 1

(* RunAction gives up only on a timeout: an action that called Defer has   *)
(* been found done by a check after its last run, or its context's         *)
(* deadline has passed.                                                    *)
SettledOrExpired ==
  \A i \in Ids :
    pc[i] = "defer" \/ (pc[i] = "ended" /\ deferred[i] > 0) => settled[i] \/ expired[i]
=============================================================================
