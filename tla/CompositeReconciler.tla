------------------------ MODULE CompositeReconciler ------------------------
(***************************************************************************)
(* The composite controller, controller/composite/v1: Reconcile and its    *)
(* cleanupHandler, working on one object of the API server.                *)
(*                                                                         *)
(* hist is the object as the API server stored it, version after version;  *)
(* the index of a version is its resource version. Reconcile reads the     *)
(* object from the informer's cache, which holds an earlier version until  *)
(* the watch catches up, and writes with the resource version it read.     *)
(* Users, other controllers and the informer interleave with the requests  *)
(* Reconcile makes.                                                        *)
(*                                                                         *)
(* The user's Controller (Operate, Cleanup, UpdateStatus...) is a          *)
(* parameter of the code: its calls return anything its interface allows.  *)
(* What it manages is abstracted to the set of child objects that exist.   *)
(***************************************************************************)
EXTENDS Integers, Sequences

CONSTANTS
  Children,             \* the child objects the controller manages
  Budget                \* Budget[k]: how often k may happen

(* What is limited: users' edits, deletion, API failures of the updates of *)
(* the finalizers and of the other requests, errors returned by the        *)
(* controller's methods, restarts of the process.                          *)
Kinds == {"edit", "delete", "finalizer", "api", "callback", "restart"}

ASSUME BudgetAssumption == Budget \in [Kinds -> Nat]

VARIABLES
  cleanupStrategy,      \* the option of that name
  hist,                 \* versions of the object in the API server
  seen,                 \* the version in the informer's cache
  queued,               \* the object's name is in the work queue
  pc,                   \* where Reconcile is
  rv,                   \* resource version of Reconcile's instance
  result,               \* [requeue, err] of the reconciliation
  returned,             \* which block the last reconciliation returned from
  children,             \* child objects that exist
  budget                \* what is left of Budget

vars == <<cleanupStrategy, hist, seen, queued, pc, rv, result, returned,
          children, budget>>

FinalizerCleanup == cleanupStrategy = "FinalizerCleanup"

(***************************************************************************)
(* An object: not deleted yet, with a deletion timestamp, with this        *)
(* controller's finalizer, with somebody else's, its spec valid, and its   *)
(* status. The object is initialized when the status has conditions.       *)
(***************************************************************************)
Statuses == {"none", "progressing", "ready"}
Objects == [live : BOOLEAN, deleting : BOOLEAN, finalizer : BOOLEAN,
            held : BOOLEAN, valid : BOOLEAN, status : Statuses]

object == hist[Len(hist)]
instance == hist[rv]

IsInitialized(obj) == obj.status # "none"
StatusOf(kids) == IF kids = Children THEN "ready" ELSE "progressing"

(* Deletion is finished by the API server once no finalizer is left. *)
Stored(obj) ==
  [obj EXCEPT !.live = @ /\ ~(obj.deleting /\ ~obj.finalizer /\ ~obj.held)]

Spend(kind) ==
  /\ budget[kind] > 0
  /\ budget' = [budget EXCEPT ![kind] = @ - 1]

-----------------------------------------------------------------------------

TypeOK ==
  /\ cleanupStrategy \in {"OwnerReferenceCleanup", "FinalizerCleanup"}
  /\ hist \in Seq(Objects) /\ Len(hist) > 0
  /\ seen \in 1..Len(hist)
  /\ queued \in BOOLEAN
  /\ pc \in {"idle", "initialize", "finalizer", "cleanup", "remove",
             "operate", "status"}
  /\ rv \in 1..seen
  /\ result \in [requeue : BOOLEAN, err : BOOLEAN]
  /\ returned \in {"none", "get", "initialize", "finalizer", "status"}
  /\ children \subseteq Children
  /\ budget \in [Kinds -> Nat]

NoResult == [requeue |-> FALSE, err |-> FALSE]

(* An object has been created and the informer has seen it. *)
Init ==
  /\ cleanupStrategy \in {"OwnerReferenceCleanup", "FinalizerCleanup"}
  /\ \E held, valid \in BOOLEAN :
       hist = <<[live |-> TRUE, deleting |-> FALSE, finalizer |-> FALSE,
                 held |-> held, valid |-> valid, status |-> "none"]>>
  /\ seen = 1
  /\ queued = TRUE
  /\ pc = "idle"
  /\ rv = 1
  /\ result = NoResult
  /\ returned = "none"
  /\ children = {}
  /\ budget = Budget

-----------------------------------------------------------------------------
(* The API server's clients and the informer. *)

UserWrites(obj) ==
  /\ object.live
  /\ hist' = Append(hist, Stored(obj))
  /\ UNCHANGED <<cleanupStrategy, seen, queued, pc, rv, result, returned, children>>

EditSpec ==
  Spend("edit") /\ \E valid \in BOOLEAN : UserWrites([object EXCEPT !.valid = valid])

Delete ==
  ~object.deleting /\ Spend("delete") /\ UserWrites([object EXCEPT !.deleting = TRUE])

(* Another controller removes its finalizer. *)
Release ==
  /\ object.held
  /\ UserWrites([object EXCEPT !.held = FALSE])
  /\ UNCHANGED budget

(* The watch delivers the next version; its event handler enqueues. *)
Watch ==
  /\ seen < Len(hist)
  /\ seen' = seen + 1
  /\ queued' = TRUE
  /\ UNCHANGED <<cleanupStrategy, hist, pc, rv, result, returned, children, budget>>

(* The process restarts: a new informer lists the object, if there is one. *)
Restart ==
  /\ Spend("restart")
  /\ seen' = Len(hist)
  /\ rv' = Len(hist)
  /\ queued' = object.live
  /\ pc' = "idle"
  /\ result' = NoResult
  /\ returned' = "none"
  /\ UNCHANGED <<cleanupStrategy, hist, children>>

-----------------------------------------------------------------------------
(* Requests of Reconcile. *)

(* A write of obj is stored, if the instance is the latest version. *)
Store(obj) ==
  /\ rv = Len(hist) /\ object.live
  /\ hist' = IF obj = object THEN hist ELSE Append(hist, Stored(obj))

Accept(obj) == Store(obj) /\ UNCHANGED budget

(* What a failure of the write in progress is counted as. *)
Request == IF pc \in {"finalizer", "remove"} THEN "finalizer" ELSE "api"

(* It fails: a conflict, or an error before or after it was stored. *)
Refuse(obj) ==
  \/ /\ rv # Len(hist) \/ ~object.live
     /\ UNCHANGED <<hist, budget>>
  \/ /\ Spend(Request)
     /\ Store(obj) \/ UNCHANGED hist

(* A write whose error is only logged. *)
Write(obj) == Accept(obj) \/ Refuse(obj)

(* Reconcile returns; an error or a requeue puts the name back. *)
ReturnFrom(block, res) ==
  /\ pc' = "idle"
  /\ result' = res
  /\ returned' = block
  /\ queued' = (queued \/ res.requeue \/ res.err)

Goto(label, res) ==
  /\ pc' = label
  /\ result' = res
  /\ UNCHANGED <<queued, returned>>

Failure == [requeue |-> FALSE, err |-> TRUE]
Requeue == [requeue |-> TRUE, err |-> FALSE]

(* Reconcile takes the name: Get, Default, Validate, IsInitialized. *)
Get ==
  /\ pc = "idle" /\ queued
  /\ rv' = seen
  /\ LET obj == hist[seen] IN
     \/ /\ ~obj.live
        /\ pc' = "idle" /\ result' = NoResult /\ returned' = "get"
        /\ queued' = FALSE
        /\ UNCHANGED budget
     \/ /\ \/ obj.live /\ ~obj.valid /\ UNCHANGED budget
           \/ Spend("api")
        /\ pc' = "idle" /\ result' = Failure /\ returned' = "get"
        /\ queued' = TRUE
     \/ /\ obj.live /\ obj.valid
        /\ UNCHANGED budget
        /\ pc' = IF ~IsInitialized(obj) THEN "initialize"
                 ELSE IF FinalizerCleanup THEN "finalizer"
                 ELSE "operate"
        /\ result' = NoResult /\ returned' = "none"
        /\ queued' = FALSE
  /\ UNCHANGED <<cleanupStrategy, hist, seen, children>>

(* The init block: a failed status update is logged only, then requeued. *)
Initialize ==
  /\ pc = "initialize"
  /\ \/ /\ Spend("callback")
        /\ ReturnFrom("initialize", Failure)
        /\ UNCHANGED hist
     \/ /\ Write([instance EXCEPT !.status = "progressing"])
        /\ ReturnFrom("initialize", Requeue)
  /\ UNCHANGED <<cleanupStrategy, seen, rv, children>>

(* Mutant of cleanupHandler: the operation goes on after the update. *)
cleanupHandlerGoesOn ==
  /\ pc = "finalizer"
  /\ \/ /\ ~instance.deleting /\ ~instance.finalizer
        /\ Write([instance EXCEPT !.finalizer = TRUE])
        /\ Goto("operate", NoResult)
     \/ /\ ~(~instance.deleting /\ ~instance.finalizer)
        /\ Goto(IF ~instance.deleting THEN "operate"
                ELSE IF instance.finalizer THEN "cleanup"
                ELSE "status", NoResult)
        /\ UNCHANGED <<hist, budget>>
  /\ UNCHANGED <<cleanupStrategy, seen, rv, children>>

(* Mutant of cleanupHandler: updated is set whether or not it updates. *)
cleanupHandlerAlwaysUpdated ==
  /\ pc = "finalizer"
  /\ \/ /\ ~instance.deleting
        /\ \/ ~instance.finalizer /\ Write([instance EXCEPT !.finalizer = TRUE])
           \/ instance.finalizer /\ UNCHANGED <<hist, budget>>
        /\ ReturnFrom("finalizer", NoResult)
     \/ /\ instance.deleting
        /\ Goto(IF instance.finalizer THEN "cleanup" ELSE "status", NoResult)
        /\ UNCHANGED <<hist, budget>>
  /\ UNCHANGED <<cleanupStrategy, seen, rv, children>>

(***************************************************************************)
(* cleanupHandler up to the call of Cleanup. The update that adds the      *)
(* finalizer may fail, which is logged only: Reconcile returns an empty    *)
(* result either way and skips the deferred status update.                 *)
(***************************************************************************)
cleanupHandler ==
  /\ pc = "finalizer"
  /\ \/ /\ ~instance.deleting /\ ~instance.finalizer
        /\ Write([instance EXCEPT !.finalizer = TRUE])
        /\ ReturnFrom("finalizer", NoResult)
     \/ /\ ~(~instance.deleting /\ ~instance.finalizer)
        /\ Goto(IF ~instance.deleting THEN "operate"
                ELSE IF instance.finalizer THEN "cleanup"
                ELSE "status", NoResult)
        /\ UNCHANGED <<hist, budget>>
  /\ UNCHANGED <<cleanupStrategy, seen, rv, children>>

(* Mutant of CleanupReturns: the error is logged and not returned. *)
CleanupReturnsQuietly(kids, res) ==
  /\ pc = "cleanup"
  /\ children' = kids
  /\ Goto(IF res.err THEN "status" ELSE "remove", NoResult)
  /\ UNCHANGED <<cleanupStrategy, hist, seen, rv>>

(***************************************************************************)
(* cleanupHandler: Cleanup returns, leaving kids. Only its error matters:  *)
(* without one the finalizer is removed, also if a requeue was asked for.  *)
(***************************************************************************)
CleanupReturns(kids, res) ==
  /\ pc = "cleanup"
  /\ children' = kids
  /\ Goto(IF res.err THEN "status" ELSE "remove", res)
  /\ UNCHANGED <<cleanupStrategy, hist, seen, rv>>

(* cleanupHandler: the finalizer is removed; a failure is logged only. *)
removeFinalizer ==
  /\ pc = "remove"
  /\ Write([instance EXCEPT !.finalizer = FALSE])
  /\ ReturnFrom("finalizer", result)
  /\ UNCHANGED <<cleanupStrategy, seen, rv, children>>

(* Mutant of OperateReturns: always requeued. *)
OperateReturnsRequeued(kids, res) ==
  /\ pc = "operate"
  /\ children' = kids
  /\ Goto("status", [res EXCEPT !.requeue = TRUE])
  /\ UNCHANGED <<cleanupStrategy, hist, seen, rv>>

(* Operate returns, leaving kids. *)
OperateReturns(kids, res) ==
  /\ pc = "operate"
  /\ children' = kids
  /\ Goto("status", res)
  /\ UNCHANGED <<cleanupStrategy, hist, seen, rv>>

StatusChanged(oldo, newo) == oldo.status # newo.status

(* Mutant of UpdateStatus: a failed update of the status is logged only. *)
UpdateStatusQuietly ==
  /\ pc = "status"
  /\ LET obj == [instance EXCEPT !.status = StatusOf(children)] IN
     \/ /\ ~StatusChanged(instance, obj)
        /\ UNCHANGED <<hist, budget>>
     \/ /\ StatusChanged(instance, obj)
        /\ Write(obj)
  /\ ReturnFrom("status", result)
  /\ UNCHANGED <<cleanupStrategy, seen, rv, children>>

(***************************************************************************)
(* The deferred status update: UpdateStatus looks at the children, and the *)
(* status is stored if it differs from the instance's.                     *)
(***************************************************************************)
UpdateStatus ==
  /\ pc = "status"
  /\ LET obj == [instance EXCEPT !.status = StatusOf(children)] IN
     \/ /\ Spend("callback")
        /\ ReturnFrom("status", [requeue |-> TRUE, err |-> TRUE])
        /\ UNCHANGED hist
     \/ /\ ~StatusChanged(instance, obj)
        /\ ReturnFrom("status", result)
        /\ UNCHANGED <<hist, budget>>
     \/ /\ StatusChanged(instance, obj)
        /\ Accept(obj)
        /\ ReturnFrom("status", result)
     \/ /\ StatusChanged(instance, obj)
        /\ Refuse(obj)
        /\ ReturnFrom("status", [result EXCEPT !.err = TRUE])
  /\ UNCHANGED <<cleanupStrategy, seen, rv, children>>

-----------------------------------------------------------------------------
(* A controller that keeps to its interface. *)

(* Cleanup deletes all children, or some of them and returns an error. *)
Cleanup ==
  \/ CleanupReturns({}, NoResult) /\ UNCHANGED budget
  \/ /\ Spend("callback")
     /\ \E kids \in SUBSET children : CleanupReturns(kids, Failure)

(* Operate ensures all children, or some and asks to be called again. *)
Operate ==
  \/ OperateReturns(Children, NoResult) /\ UNCHANGED budget
  \/ /\ Spend("callback")
     /\ \E kids \in SUBSET Children, res \in {Failure, Requeue} :
          children \subseteq kids /\ OperateReturns(kids, res)

Reconcile ==
  \/ Get
  \/ Initialize
  \/ cleanupHandler
  \/ Cleanup
  \/ removeFinalizer
  \/ Operate
  \/ UpdateStatus

Next ==
  \/ Get
  \/ Initialize
  \/ cleanupHandler
  \/ Cleanup
  \/ removeFinalizer
  \/ Operate
  \/ UpdateStatus
  \/ EditSpec
  \/ Delete
  \/ Release
  \/ Watch
  \/ Restart

Spec == Init /\ [][Next]_vars

(***************************************************************************)
(* The work queue runs Reconcile while the name is in it, a reconciliation *)
(* runs to its end, and the watch delivers what is stored.                 *)
(***************************************************************************)
FairSpec == Spec /\ WF_vars(Reconcile) /\ WF_vars(Watch)

-----------------------------------------------------------------------------

(***************************************************************************)
(* With the finalizer strategy, children exist only while the object is    *)
(* there, initialized and holding the finalizer: whatever the cache showed *)
(* Reconcile, no child is created before the finalizer is stored, and none *)
(* is left when the object goes.                                           *)
(***************************************************************************)
ChildrenGuarded ==
  FinalizerCleanup /\ children # {} =>
    object.live /\ object.finalizer /\ IsInitialized(object)

(***************************************************************************)
(* "Since adding finalizer updated the target object, it's known that      *)
(* another reconciliation will take place" (reconcile.go): after Reconcile *)
(* returned from the finalizer block, the name is in the queue or the      *)
(* watch has a version to deliver. The block returns an empty result.      *)
(***************************************************************************)
AnotherReconciliation ==
  pc = "idle" /\ returned = "finalizer" => queued \/ seen < Len(hist)

(* No update of the finalizers has failed, but for conflicts. *)
OnlyConflicts == budget["finalizer"] = Budget["finalizer"]

(***************************************************************************)
(* The same as long as the updates of the finalizers fail only for         *)
(* conflicts: a conflict in the finalizer block, which drops the error, is *)
(* always one with a version that leads to another reconciliation. Reads   *)
(* and status updates may fail in any way.                                 *)
(***************************************************************************)
ConflictsRetried == OnlyConflicts => AnotherReconciliation

(***************************************************************************)
(* No update of the finalizers is lost but to a conflict. Every other      *)
(* request may fail, the status update of the init block included.         *)
(***************************************************************************)
FinalizersUpdated == []OnlyConflicts

(***************************************************************************)
(* Once users and failures leave it alone, a valid object that is not      *)
(* being deleted gets all its children, and a status that says so.         *)
(***************************************************************************)
Converges ==
  FinalizersUpdated =>
    <>[](object.live /\ ~object.deleting /\ object.valid =>
           children = Children /\ object.status = "ready")

(***************************************************************************)
(* A valid object with a deletion timestamp loses the finalizer, after its *)
(* children are gone: the deletion is never blocked for good.              *)
(***************************************************************************)
DeletionCompletes ==
  FinalizersUpdated =>
    <>[](FinalizerCleanup /\ object.deleting /\ object.valid =>
           ~object.finalizer /\ children = {})

(***************************************************************************)
(* Reconcile comes to rest: writing the status and the finalizers, each of *)
(* which triggers a reconciliation, does not go on for ever.               *)
(***************************************************************************)
ComesToRest == <>[](pc = "idle" /\ (queued => ~object.valid))
=============================================================================
