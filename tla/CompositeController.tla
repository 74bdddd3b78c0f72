------------------------- MODULE CompositeController -------------------------
(***************************************************************************)
(* A composite controller whose Operate and Cleanup call the operator's    *)
(* Ensure and Cleanup ("to be used in a controller control loop",          *)
(* operate.go): CompositeReconciler and CompositeOperator together. Each   *)
(* operand manages one child. The operands run while users and the         *)
(* informer go on.                                                         *)
(***************************************************************************)
EXTENDS CompositeReconciler

CONSTANTS
  Orders,               \* orders of the operator
  RequeueSets,          \* sets of operands that may have RequeueAlways
  Suspensions           \* what IsSuspended may answer

VARIABLES
  waiting,              \* Reconcile is in a call of the operator
  order, strategy, always, opPc, call, run, i, phase, errs, changed, opResult

operator == <<order, strategy, always, opPc, call, run, i, phase, errs,
              changed, opResult>>
reconciler == <<cleanupStrategy, hist, seen, queued, pc, rv, result, returned>>
allVars == <<vars, waiting, operator>>

Operator ==
  INSTANCE CompositeOperator WITH
    Operands <- Children, world <- children, pc <- opPc, result <- opResult

-----------------------------------------------------------------------------

ControllerInit ==
  /\ Init /\ FinalizerCleanup
  /\ Operator!Init
  /\ always \in RequeueSets
  /\ waiting = FALSE

(* gc.Operator.Ensure and gc.Operator.Cleanup are called. *)
CallOperator ==
  /\ ~waiting /\ waiting' = TRUE
  /\ \E suspended \in Suspensions :
       \/ pc = "operate" /\ Operator!Ensure(suspended)
       \/ pc = "cleanup" /\ Operator!Cleanup(suspended)
  /\ UNCHANGED <<reconciler, budget>>

(* The executor and the operands run; failures of operands are limited. *)
OperatorRuns ==
  /\ waiting
  /\ \/ \E o \in Children : Operator!Operand(o)
     \/ Operator!EndStep
     \/ Operator!EndOrder
  /\ IF \E o \in Children : phase[o] # "failed" /\ phase'[o] = "failed"
     THEN Spend("callback") ELSE UNCHANGED budget
  /\ UNCHANGED <<reconciler, waiting>>

(* Mutant of OperatorResult: the operator's error is not passed on. *)
OperatorResultNoError == [requeue |-> opResult.requeue \/ opResult.after, err |-> FALSE]

(* What Reconcile makes of the operator's result. *)
OperatorResult ==
  [requeue |-> opResult.requeue \/ opResult.after, err |-> opResult.err # {}]

(* The call returns to Reconcile. *)
OperatorReturns ==
  /\ waiting /\ waiting' = FALSE
  /\ opPc = "idle"
  /\ OperateReturns(children, OperatorResult) \/ CleanupReturns(children, OperatorResult)
  /\ UNCHANGED <<operator, budget>>

(* The process restarts, and the operator with it. *)
RestartAll ==
  /\ Restart
  /\ waiting' = FALSE
  /\ opPc' = "idle" /\ call' = "none" /\ run' = <<>> /\ i' = 1
  /\ phase' = [o \in Children |-> "idle"] /\ errs' = {} /\ changed' = FALSE
  /\ opResult' = Operator!NoResult
  /\ UNCHANGED <<order, strategy, always>>

(* The rest of Reconcile, and of the world, leaves the operator alone. *)
Quiet == UNCHANGED <<waiting, operator>>

ReconcilerRuns ==
  \/ (Get \/ Initialize \/ cleanupHandler \/ removeFinalizer \/ UpdateStatus) /\ Quiet
  \/ CallOperator
  \/ OperatorRuns
  \/ OperatorReturns

ControllerNext ==
  \/ ReconcilerRuns
  \/ EditSpec /\ Quiet
  \/ Delete /\ Quiet
  \/ Release /\ Quiet
  \/ Watch /\ Quiet
  \/ RestartAll

ControllerSpec == ControllerInit /\ [][ControllerNext]_allVars

(* As in CompositeReconciler; the operator's calls are part of Reconcile.  *)
FairControllerSpec ==
  ControllerSpec /\ WF_allVars(ReconcilerRuns) /\ WF_allVars(Watch /\ Quiet)

-----------------------------------------------------------------------------

(***************************************************************************)
(* "the custom cleanup code is executed to delete all the child objects.   *)
(* Once all custom cleanup code finished, the finalizer from the parent    *)
(* object is removed" (composite.go, FinalizerCleanup): an object that is  *)
(* being deleted and has no finalizer has no children.                     *)
(***************************************************************************)
FinalizerRemovedLast ==
  object.deleting /\ ~object.finalizer => children = {}
=============================================================================
