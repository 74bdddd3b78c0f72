------------------------- MODULE CompositeOperator -------------------------
(***************************************************************************)
(* A composite operator and its executor: operator/v1/composite_operator.go,*)
(* operator/v1/executor and the run calls of operator/v1/operand.          *)
(*                                                                         *)
(* Ensure and Cleanup run the operands step by step, the operands of a     *)
(* step in goroutines of their own (Parallel) or one after the other       *)
(* (Serial). The operands are the user's code: Ensure, ReadyCheck,         *)
(* PostReady and Delete succeed or fail as they like.                      *)
(***************************************************************************)
EXTENDS Integers, Sequences

CONSTANTS
  Operands,             \* the operands
  Orders                \* orders OperandDAG can compute: sequences of steps

ASSUME OrdersAssumption ==
  \A s \in Orders :
    /\ s \in Seq(SUBSET Operands)
    /\ \A j, k \in DOMAIN s : j # k => s[j] \cap s[k] = {}

VARIABLES
  order,                \* CompositeOperator.order
  strategy,             \* CompositeOperator.executionStrategy
  always,               \* operands with the RequeueAlways strategy
  world,                \* operands whose target objects exist
  pc,                   \* "idle" or "exec" (in ExecuteOperands)
  call,                 \* the call in progress, or the last one
  run,                  \* the order ExecuteOperands iterates over
  i,                    \* its current step
  phase,                \* how far each operand is in this call
  errs,                 \* errors of the current step (errChan)
  changed,              \* an operand of the current step returned an event
  result                \* what the last call returned

config == <<order, strategy, always>>
vars == <<order, strategy, always, world, pc, call, run, i, phase, errs,
          changed, result>>

Strategies == {"Serial", "Parallel"}
Errors == {"ErrNotReady", "other"}
Phases == {"idle", "ensured", "ready", "ok", "failed"}
Results == [requeue : BOOLEAN, after : BOOLEAN, err : SUBSET Errors]

NoResult == [requeue |-> FALSE, after |-> FALSE, err |-> {}]
Requeue == [NoResult EXCEPT !.requeue = TRUE]

All(steps) == UNION {steps[k] : k \in DOMAIN steps}

(* Mutant of Reverse: the steps are not reversed. *)
ReverseNot(o) == o

(***************************************************************************)
(* OperandOrder.Reverse: swaps the ends while left < right, into a slice   *)
(* of empty steps, so the middle step of an odd number of steps is left    *)
(* empty.                                                                  *)
(***************************************************************************)
Reverse(o) ==
  [k \in 1..Len(o) |-> IF k = Len(o) + 1 - k THEN {} ELSE o[Len(o) + 1 - k]]

(* StepRequeueStrategy is RequeueAlways if that of one operand is. *)
StepRequeueAlways(step) == step \cap always # {}

-----------------------------------------------------------------------------

TypeOK ==
  /\ order \in Orders
  /\ strategy \in Strategies
  /\ always \subseteq Operands
  /\ world \subseteq Operands
  /\ pc \in {"idle", "exec"}
  /\ call \in {"none", "Suspended", "Ensure", "Cleanup"}
  /\ run \in Seq(SUBSET Operands)
  /\ i \in 1..(Len(run) + 1)
  /\ phase \in [Operands -> Phases]
  /\ errs \subseteq Errors
  /\ changed \in BOOLEAN
  /\ result \in Results

(* NewCompositeOperator, with any options. *)
Init ==
  /\ order \in Orders
  /\ strategy \in Strategies
  /\ always \in SUBSET Operands
  /\ world = {}
  /\ pc = "idle"
  /\ call = "none"
  /\ run = <<>>
  /\ i = 1
  /\ phase = [o \in Operands |-> "idle"]
  /\ errs = {}
  /\ changed = FALSE
  /\ result = NoResult

(* ExecuteOperands starts on the given steps. *)
Execute(kind, steps) ==
  /\ pc' = "exec"
  /\ call' = kind
  /\ run' = steps
  /\ i' = 1
  /\ phase' = [o \in Operands |-> "idle"]
  /\ errs' = {}
  /\ changed' = FALSE
  /\ UNCHANGED <<config, world, result>>

(* A suspended operator does nothing and returns an empty result. *)
Skip ==
  /\ call' = "Suspended"
  /\ result' = NoResult
  /\ UNCHANGED <<config, world, pc, run, i, phase, errs, changed>>

Ensure(suspended) ==
  /\ pc = "idle"
  /\ IF suspended THEN Skip ELSE Execute("Ensure", order)

Cleanup(suspended) ==
  /\ pc = "idle"
  /\ IF suspended THEN Skip ELSE Execute("Cleanup", Reverse(order))

-----------------------------------------------------------------------------
(* The operands of the current step. *)

Stopped(o) == phase[o] \in {"ok", "failed"}

(***************************************************************************)
(* The call of o is running or may start: concurrentExec starts all of the *)
(* step, serialExec one after the other and none after an error.           *)
(***************************************************************************)
Runs(o) ==
  /\ pc = "exec"
  /\ i <= Len(run)
  /\ o \in run[i]
  /\ strategy = "Serial" =>
       \A p \in run[i] \ {o} : phase[p] \in {"idle", "ok"}

Advance(o, to) ==
  /\ phase' = [phase EXCEPT ![o] = to]
  /\ UNCHANGED <<config, pc, call, run, i, errs, changed, result>>

Fail(o, err) ==
  /\ phase' = [phase EXCEPT ![o] = "failed"]
  /\ errs' = errs \cup {err}
  /\ UNCHANGED <<config, pc, call, run, i, changed, result>>

Succeed(o, event) ==
  /\ phase' = [phase EXCEPT ![o] = "ok"]
  /\ changed' = (changed \/ event)
  /\ UNCHANGED <<config, pc, call, run, i, errs, result>>

(* CallEnsure: op.Ensure; one that fails may have applied its change. *)
OpEnsure(o) ==
  /\ call = "Ensure" /\ Runs(o) /\ phase[o] = "idle"
  /\ \/ world' = world \cup {o} /\ Advance(o, "ensured")
     \/ world' \in {world, world \cup {o}} /\ Fail(o, "other")

(* CallEnsure: op.ReadyCheck fails, is false, or is true. *)
OpReadyCheck(o) ==
  /\ call = "Ensure" /\ Runs(o) /\ phase[o] = "ensured"
  /\ Advance(o, "ready") \/ Fail(o, "other") \/ Fail(o, "ErrNotReady")
  /\ UNCHANGED world

(* CallEnsure: op.PostReady; then the event of op.Ensure is returned. *)
OpPostReady(o) ==
  /\ call = "Ensure" /\ Runs(o) /\ phase[o] = "ready"
  /\ Fail(o, "other") \/ \E event \in BOOLEAN : Succeed(o, event)
  /\ UNCHANGED world

(* CallCleanup: op.Delete, which may return an event beside an error; only  *)
(* operateWithWaitGroup looks at the event then.                            *)
OpDelete(o) ==
  /\ call = "Cleanup" /\ Runs(o) /\ phase[o] = "idle"
  /\ \/ /\ world' = world \ {o}
        /\ \E event \in BOOLEAN : Succeed(o, event)
     \/ /\ world' \in {world, world \ {o}}
        /\ phase' = [phase EXCEPT ![o] = "failed"]
        /\ errs' = errs \cup {"other"}
        /\ changed' \in {changed, changed \/ strategy = "Parallel"}
        /\ UNCHANGED <<config, pc, call, run, i, result>>

-----------------------------------------------------------------------------
(* The loop of ExecuteOperands. *)

(* Mutant of StepOver: the wait group is not waited for. *)
StepOverEarly ==
  \/ \E o \in run[i] : Stopped(o)
  \/ run[i] = {}

(***************************************************************************)
(* The step's operands are done: wg.Wait in concurrentExec, the end of the *)
(* loop or the first error in serialExec.                                  *)
(***************************************************************************)
StepOver ==
  \/ \A o \in run[i] : Stopped(o)
  \/ strategy = "Serial" /\ errs # {}

Return(res) ==
  /\ pc' = "idle"
  /\ result' = res
  /\ UNCHANGED <<config, world, call, run, i, phase, errs, changed>>

(* Mutant of Failed: an operand that is not ready ends the call quietly. *)
FailedQuietly ==
  IF call = "Ensure" /\ "ErrNotReady" \in errs
  THEN NoResult
  ELSE [Requeue EXCEPT !.err = errs]

(***************************************************************************)
(* The result of a call with a failed step. CompositeOperator.Ensure turns *)
(* an aggregate with ErrNotReady in it into a requeue without an error,    *)
(* whatever else is in the aggregate.                                      *)
(***************************************************************************)
Failed ==
  IF call = "Ensure" /\ "ErrNotReady" \in errs
  THEN [Requeue EXCEPT !.after = TRUE]
  ELSE [Requeue EXCEPT !.err = errs]

(* The loop goes on with the next step. *)
Continue ==
  /\ i' = i + 1
  /\ changed' = FALSE
  /\ UNCHANGED <<config, world, pc, call, run, phase, errs, result>>

(* Mutant of EndStep: the loop breaks without setting the result. *)
EndStepNoRequeue ==
  /\ pc = "exec" /\ i <= Len(run) /\ StepOver
  /\ IF errs # {} THEN Return(Failed)
     ELSE IF changed /\ StepRequeueAlways(run[i]) THEN Return(NoResult)
     ELSE Continue

(* Mutant of EndStep: a step that failed is run again at once. *)
EndStepRetries ==
  /\ pc = "exec" /\ i <= Len(run) /\ StepOver
  /\ IF errs # {}
     THEN /\ phase' = [o \in Operands |-> IF o \in run[i] THEN "idle" ELSE phase[o]]
          /\ errs' = {}
          /\ UNCHANGED <<config, world, pc, call, run, i, changed, result>>
     ELSE IF changed /\ StepRequeueAlways(run[i]) THEN Return(Requeue)
     ELSE Continue

(* The end of an iteration: break on an error, or on a change to requeue. *)
EndStep ==
  /\ pc = "exec" /\ i <= Len(run) /\ StepOver
  /\ IF errs # {} THEN Return(Failed)
     ELSE IF changed /\ StepRequeueAlways(run[i]) THEN Return(Requeue)
     ELSE Continue

(* The loop has run every step. *)
EndOrder == pc = "exec" /\ i > Len(run) /\ Return(NoResult)

Operand(o) == OpEnsure(o) \/ OpReadyCheck(o) \/ OpPostReady(o) \/ OpDelete(o)

Next ==
  \/ \E suspended \in BOOLEAN : Ensure(suspended)
  \/ \E suspended \in BOOLEAN : Cleanup(suspended)
  \/ \E o \in Operands : OpEnsure(o)
  \/ \E o \in Operands : OpReadyCheck(o)
  \/ \E o \in Operands : OpPostReady(o)
  \/ \E o \in Operands : OpDelete(o)
  \/ EndStep
  \/ EndOrder

Spec == Init /\ [][Next]_vars

(* Operands return from their calls, and the executor goes on by itself. *)
Fairness ==
  /\ \A o \in Operands : WF_vars(Operand(o))
  /\ WF_vars(EndStep)
  /\ WF_vars(EndOrder)

FairSpec == Spec /\ Fairness

-----------------------------------------------------------------------------

(* The last call returned, from the executor, no error and no requeue. *)
Clean == pc = "idle" /\ call \in {"Ensure", "Cleanup"} /\ result = NoResult

(***************************************************************************)
(* The executor implements StepwiseExecution: with goroutines and events   *)
(* of a step in any order, an operand is run only after all of the earlier *)
(* steps succeeded, and a clean result means that all of them did.         *)
(***************************************************************************)
Abstract ==
  INSTANCE StepwiseExecution WITH
    active <- pc = "exec",
    completed <- {o \in Operands : phase[o] = "ok"},
    clean <- Clean
Stepwise == Abstract!Spec

(***************************************************************************)
(* After a clean Ensure, every operand of the operator was ensured, ready  *)
(* and through PostReady in this call, and its objects exist.              *)
(***************************************************************************)
EnsureComplete ==
  Clean /\ call = "Ensure" =>
    \A o \in All(order) : phase[o] = "ok" /\ o \in world

(***************************************************************************)
(* A failure of an operand is never dropped: the call asks for a requeue,  *)
(* also where Ensure takes the error out of the result.                    *)
(***************************************************************************)
FailureRequeues ==
  pc = "idle" /\ (\E o \in Operands : phase[o] = "failed") /\ call # "Suspended" =>
    result.requeue

(***************************************************************************)
(* Cleanup of an even number of steps deletes an operand only after those  *)
(* of every later step, which may require it, have been deleted.           *)
(***************************************************************************)
CleanupReversed ==
  Len(order) % 2 = 0 /\ call = "Cleanup" =>
    \A j, k \in DOMAIN order : j < k =>
      \A o \in order[j], p \in order[k] : phase[o] # "idle" => phase[p] = "ok"

(* Every call returns, if the operands' own methods do. *)
CallsReturn == (pc = "exec") ~> (pc = "idle")

(***************************************************************************)
(* "Cleanup runs all the operands' Delete method in reverse order defined  *)
(* by their dependencies" (operate.go): after a clean Cleanup every        *)
(* operand has been deleted.                                               *)
(***************************************************************************)
CleanupComplete ==
  Clean /\ call = "Cleanup" => \A o \in All(order) : phase[o] = "ok"
=============================================================================
