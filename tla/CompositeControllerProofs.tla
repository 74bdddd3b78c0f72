--------------------- MODULE CompositeControllerProofs ---------------------
(***************************************************************************)
(* Proofs about CompositeReconciler, for every set of children and every   *)
(* number of edits, deletions, failures and restarts, and about the        *)
(* controller that calls a composite operator, CompositeController.        *)
(***************************************************************************)
EXTENDS CompositeController, TLAPS

(***************************************************************************)
(* The versions Reconcile may still look at, those from rv on: if one of   *)
(* them is not being deleted and has the finalizer, the stored object has  *)
(* it too, however stale the cache is. The finalizer is removed only with  *)
(* the latest version in hand, which has a deletion timestamp by then.     *)
(***************************************************************************)
Kept ==
  \A k \in rv..Len(hist) :
    /\ hist[k].finalizer /\ ~hist[k].deleting => object.finalizer
    /\ IsInitialized(hist[k]) => IsInitialized(object)

(* The finalizer keeps the object alive. *)
Alive == object.finalizer => object.live

(* What Reconcile knows of its instance obj at each place. *)
StageAt(obj, label, kids) ==
  /\ label # "idle" => obj.live
  /\ label \in {"finalizer", "operate"} => IsInitialized(obj)
  /\ label \in {"cleanup", "remove"} => obj.finalizer /\ obj.deleting
  /\ label = "remove" => kids = {}
  /\ FinalizerCleanup /\ label = "operate" => obj.finalizer /\ ~obj.deleting

Stage == StageAt(instance, pc, children)

(* The inductive invariant. *)
IndInv == TypeOK /\ Kept /\ Alive /\ Stage /\ ChildrenGuarded

-----------------------------------------------------------------------------

(* Where the object and the instance are in the history. *)
LEMMA Positions ==
  ASSUME TypeOK
  PROVE  /\ Len(hist) \in Nat /\ Len(hist) \in DOMAIN hist
         /\ seen \in Nat /\ rv \in Nat /\ rv \in 1..Len(hist)
         /\ seen \in 1..Len(hist) /\ rv <= seen
         /\ object \in Objects /\ instance \in Objects /\ hist[seen] \in Objects
<1>1. hist \in Seq(Objects) /\ Len(hist) \in Nat /\ Len(hist) > 0
  BY DEF TypeOK
<1>2. seen \in 1..Len(hist) /\ rv \in 1..seen
  BY DEF TypeOK
<1>3. rv \in 1..Len(hist) /\ Len(hist) \in 1..Len(hist)
  BY <1>1, <1>2
<1> QED
  BY <1>1, <1>2, <1>3 DEF object, instance

(* What appending a version changes. *)
LEMMA Appended ==
  ASSUME TypeOK, NEW obj \in Objects, hist' = Append(hist, Stored(obj))
  PROVE  /\ Stored(obj) \in Objects
         /\ hist' \in Seq(Objects) /\ Len(hist') = Len(hist) + 1
         /\ \A k \in 1..Len(hist) : hist'[k] = hist[k]
         /\ object' = Stored(obj)
<1>1. Stored(obj) \in Objects
  BY DEF Stored, Objects
<1>2. hist \in Seq(Objects)
  BY DEF TypeOK
<1> QED
  BY <1>1, <1>2 DEF object

(***************************************************************************)
(* A write is good if it keeps the finalizer and the status, or takes the  *)
(* finalizer from an object that Reconcile knows to be the latest and that *)
(* has a deletion timestamp.                                               *)
(***************************************************************************)
Good(obj) ==
  /\ obj \in Objects
  /\ obj.live /\ object.live
  /\ object.deleting => obj.deleting
  /\ IsInitialized(object) => IsInitialized(obj)
  /\ \/ object.finalizer => obj.finalizer
     \/ rv = Len(hist) /\ object.deleting

(* A good write keeps what the versions say of each other. *)
LEMMA GoodWrite ==
  ASSUME IndInv, NEW obj, Good(obj), hist' = Append(hist, Stored(obj)), rv' = rv
  PROVE  /\ Kept' /\ Alive' /\ instance' = instance
         /\ hist' \in Seq(Objects) /\ Len(hist') = Len(hist) + 1
         /\ object'.finalizer = obj.finalizer
         /\ object'.status = obj.status
<1>1. TypeOK /\ Kept
  BY DEF IndInv
<1>2. /\ hist' \in Seq(Objects) /\ Len(hist') = Len(hist) + 1
      /\ \A k \in 1..Len(hist) : hist'[k] = hist[k]
      /\ object' = Stored(obj)
  BY <1>1, Appended DEF Good
<1>3. /\ Len(hist) \in Nat /\ rv \in 1..Len(hist) /\ rv \in Nat
      /\ object \in Objects
  BY <1>1, Positions
<1>4. /\ object'.finalizer = obj.finalizer
      /\ object'.deleting = obj.deleting
      /\ object'.status = obj.status
      /\ object'.live = ~(obj.deleting /\ ~obj.finalizer /\ ~obj.held)
  BY <1>2 DEF Stored, Good, Objects
<1>5. Alive'
  BY <1>4, Zenon DEF Alive
<1>6. instance' = instance
  BY <1>2, <1>3 DEF instance
<1>7. Kept'
  <2> SUFFICES ASSUME NEW k \in rv..(Len(hist) + 1)
               PROVE  /\ hist'[k].finalizer /\ ~hist'[k].deleting => object'.finalizer
                      /\ IsInitialized(hist'[k]) => IsInitialized(object')
    BY <1>2, Zenon DEF Kept, IsInitialized
  <2>1. CASE k = Len(hist) + 1
    BY <1>2, <2>1 DEF object
  <2>2. CASE k \in rv..Len(hist)
    <3>1. hist'[k] = hist[k]
      BY <1>2, <1>3, <2>2
    <3>2. /\ hist[k].finalizer /\ ~hist[k].deleting => object.finalizer
          /\ IsInitialized(hist[k]) => IsInitialized(object)
      BY <1>1, <2>2 DEF Kept
    <3>3. rv = Len(hist) /\ object.deleting => hist[k].deleting
      BY <1>3, <2>2 DEF object
    <3> QED
      BY <1>4, <3>1, <3>2, <3>3 DEF Good, IsInitialized
  <2> QED
    BY <1>3, <2>1, <2>2
<1> QED
  BY <1>2, <1>4, <1>5, <1>6, <1>7

(* The history after a request of Reconcile, or a user's write. *)
Written(obj) ==
  \/ hist' = hist
  \/ Good(obj) /\ hist' = Append(hist, Stored(obj))

(* After it, the versions still agree. *)
LEMMA WrittenKeeps ==
  ASSUME IndInv, NEW obj, Written(obj), rv' = rv, seen' = seen
  PROVE  /\ Kept' /\ Alive' /\ instance' = instance
         /\ hist' \in Seq(Objects) /\ Len(hist') > 0
         /\ seen' \in 1..Len(hist') /\ rv' \in 1..seen'
         /\ \/ object' = object
            \/ object'.finalizer = obj.finalizer /\ object'.status = obj.status
<1>0. TypeOK
  BY DEF IndInv
<1>1. CASE hist' = hist
  BY <1>0, <1>1 DEF IndInv, TypeOK, Kept, Alive, instance, object
<1>2. CASE Good(obj) /\ hist' = Append(hist, Stored(obj))
  <2>1. seen \in 1..Len(hist) /\ rv \in 1..seen /\ Len(hist) \in Nat
    BY <1>0, Positions DEF TypeOK
  <2>2. seen' \in 1..Len(hist') /\ rv' \in 1..seen' /\ Len(hist') > 0
    BY <1>2, <2>1, GoodWrite
  <2> QED
    BY <1>2, <2>2, GoodWrite
<1> QED
  BY <1>1, <1>2 DEF Written

(* Children stay guarded while the finalizer and the status stay. *)
LEMMA GuardKept ==
  ASSUME ChildrenGuarded, Alive', children' \subseteq children,
         UNCHANGED cleanupStrategy,
         children # {} /\ FinalizerCleanup /\ object.finalizer => object'.finalizer,
         IsInitialized(object) => IsInitialized(object')
  PROVE  ChildrenGuarded'
<1> SUFFICES ASSUME FinalizerCleanup, children' # {}
             PROVE  object'.live /\ object'.finalizer /\ IsInitialized(object')
  BY DEF ChildrenGuarded, IsInitialized, FinalizerCleanup
<1>1. children # {}
  OBVIOUS
<1> QED
  BY <1>1 DEF ChildrenGuarded, Alive

(* The budgets stay natural numbers. *)
LEMMA BudgetType ==
  ASSUME TypeOK, NEW kind \in Kinds, Spend(kind) \/ UNCHANGED budget
  PROVE  budget' \in [Kinds -> Nat]
  BY DEF TypeOK, Spend

(* A request of Reconcile writes, if at all, the latest version. *)
LEMMA Writes ==
  ASSUME IndInv, NEW obj, Accept(obj) \/ Refuse(obj), rv' = rv, seen' = seen,
         rv = Len(hist) /\ object.live => Good(obj)
  PROVE  Written(obj) /\ budget' \in [Kinds -> Nat]
<1>1. TypeOK
  BY DEF IndInv
<1>2. hist' = hist \/ Store(obj)
  BY DEF Accept, Refuse
<1>3. Spend(Request) \/ UNCHANGED budget
  BY DEF Accept, Refuse
<1>4. budget' \in [Kinds -> Nat]
  BY <1>1, <1>3, BudgetType DEF Kinds, Request
<1> QED
  BY <1>2, <1>4 DEF Store, Written

(* Users' writes. *)
LEMMA UserStep ==
  ASSUME IndInv, NEW obj, UserWrites(obj), budget' \in [Kinds -> Nat],
         Good(obj), obj.finalizer = object.finalizer, obj.status = object.status
  PROVE  IndInv'
<1> USE DEF IndInv, UserWrites
<1>1. Written(obj)
  BY DEF Written
<1>2. /\ Kept' /\ Alive' /\ instance' = instance
      /\ hist' \in Seq(Objects) /\ Len(hist') > 0
      /\ seen' \in 1..Len(hist') /\ rv' \in 1..seen'
      /\ object'.finalizer = object.finalizer /\ object'.status = object.status
  BY <1>1, WrittenKeeps
<1>3. TypeOK'
  BY <1>2 DEF TypeOK
<1>4. Stage'
  BY <1>2 DEF Stage, StageAt, FinalizerCleanup
<1>5. ChildrenGuarded'
  BY <1>2, GuardKept DEF IsInitialized
<1> QED
  BY <1>2, <1>3, <1>4, <1>5

(* Edits, deletions and other controllers' finalizers. *)
LEMMA Users == IndInv /\ (EditSpec \/ Delete \/ Release) => IndInv'
<1> SUFFICES ASSUME IndInv, EditSpec \/ Delete \/ Release PROVE IndInv'
  OBVIOUS
<1>0. TypeOK /\ object \in Objects
  BY Positions DEF IndInv
<1>1. CASE EditSpec
  <2>1. PICK valid \in BOOLEAN : UserWrites([object EXCEPT !.valid = valid])
    BY <1>1 DEF EditSpec
  <2>2. Good([object EXCEPT !.valid = valid])
    BY <1>0, <2>1 DEF Good, Objects, IsInitialized, UserWrites
  <2>3. budget' \in [Kinds -> Nat]
    BY <1>0, <1>1, BudgetType DEF EditSpec, Kinds
  <2> QED
    BY <1>0, <2>1, <2>2, <2>3, UserStep DEF Objects
<1>2. CASE Delete
  <2>1. Good([object EXCEPT !.deleting = TRUE])
    BY <1>0, <1>2, Zenon DEF Good, Objects, IsInitialized, UserWrites, Delete
  <2>2. budget' \in [Kinds -> Nat]
    BY <1>0, <1>2, BudgetType DEF Delete, Kinds
  <2> QED
    BY <1>0, <1>2, <2>1, <2>2, UserStep DEF Objects, Delete
<1>3. CASE Release
  <2>1. Good([object EXCEPT !.held = FALSE])
    BY <1>0, <1>3, Zenon DEF Good, Objects, IsInitialized, UserWrites, Release
  <2>2. budget' \in [Kinds -> Nat]
    BY <1>0, <1>3 DEF Release, TypeOK
  <2> QED
    BY <1>0, <1>3, <2>1, <2>2, UserStep DEF Objects, Release
<1> QED
  BY <1>1, <1>2, <1>3

(* A request of Reconcile, which reads and writes one version. *)
LEMMA RequestStep ==
  ASSUME IndInv, NEW obj, Written(obj), UNCHANGED <<cleanupStrategy, seen, rv>>,
         IsInitialized(object) => IsInitialized(obj),
         children # {} /\ FinalizerCleanup /\ object.finalizer => obj.finalizer,
         children' \subseteq children,
         budget' \in [Kinds -> Nat], queued' \in BOOLEAN,
         pc' \in {"idle", "initialize", "finalizer", "cleanup", "remove",
                  "operate", "status"},
         result' \in [requeue : BOOLEAN, err : BOOLEAN],
         returned' \in {"none", "get", "initialize", "finalizer", "status"},
         StageAt(instance, pc', children')
  PROVE  IndInv'
<1>1. /\ Kept' /\ Alive' /\ instance' = instance
      /\ hist' \in Seq(Objects) /\ Len(hist') > 0
      /\ seen' \in 1..Len(hist') /\ rv' \in 1..seen'
      /\ \/ object' = object
         \/ object'.finalizer = obj.finalizer /\ object'.status = obj.status
  BY WrittenKeeps
<1>2. TypeOK'
  BY <1>1 DEF IndInv, TypeOK
<1>3. ChildrenGuarded'
  BY <1>1, GuardKept DEF IndInv, IsInitialized
<1>4. Stage'
  BY <1>1 DEF Stage, StageAt, FinalizerCleanup, IsInitialized
<1> QED
  BY <1>1, <1>2, <1>3, <1>4 DEF IndInv

(* The types of what Reconcile returns. *)
LEMMA Returns ==
  ASSUME TypeOK, NEW block, NEW res \in [requeue : BOOLEAN, err : BOOLEAN],
         ReturnFrom(block, res)
  PROVE  /\ pc' = "idle" /\ result' = res /\ returned' = block
         /\ queued' \in BOOLEAN
         /\ \A obj, kids : StageAt(obj, pc', kids)
  BY DEF TypeOK, ReturnFrom, StageAt

(* The constant results are results. *)
LEMMA ResultTypes ==
  /\ NoResult \in [requeue : BOOLEAN, err : BOOLEAN]
  /\ Failure \in [requeue : BOOLEAN, err : BOOLEAN]
  /\ Requeue \in [requeue : BOOLEAN, err : BOOLEAN]
  BY DEF NoResult, Failure, Requeue

(* Init establishes the inductive invariant. *)
LEMMA InitInd == Init => IndInv
<1> SUFFICES ASSUME Init PROVE IndInv
  OBVIOUS
<1>1. PICK obj \in Objects : hist = <<obj>> /\ obj.live
  <2>1. PICK held, valid \in BOOLEAN :
          hist = <<[live |-> TRUE, deleting |-> FALSE, finalizer |-> FALSE,
                    held |-> held, valid |-> valid, status |-> "none"]>>
    BY Zenon DEF Init
  <2> DEFINE obj == [live |-> TRUE, deleting |-> FALSE, finalizer |-> FALSE,
                     held |-> held, valid |-> valid, status |-> "none"]
  <2>2. obj \in Objects /\ obj.live
    BY DEF Objects, Statuses
  <2> QED
    BY <2>1, <2>2
<1>2. Len(hist) = 1 /\ hist \in Seq(Objects) /\ hist[1] = obj
  BY <1>1
<1>3. object = obj /\ instance = obj /\ rv = 1 /\ 1..1 = {1}
  BY <1>2 DEF object, instance, Init
<1>4. TypeOK
  BY <1>2, ResultTypes, BudgetAssumption DEF Init, TypeOK
<1>5. Kept
  BY <1>2, <1>3 DEF Kept
<1>6. Alive /\ Stage /\ ChildrenGuarded
  BY <1>1, <1>3 DEF Init, Alive, Stage, StageAt, ChildrenGuarded
<1> QED
  BY <1>4, <1>5, <1>6 DEF IndInv

(* The informer catches up. *)
LEMMA WatchStep == IndInv /\ Watch => IndInv'
<1> SUFFICES ASSUME IndInv, Watch PROVE IndInv'
  OBVIOUS
<1> USE DEF IndInv, Watch
<1>1. seen' \in 1..Len(hist') /\ rv' \in 1..seen'
  BY Positions DEF TypeOK
<1>2. TypeOK'
  BY <1>1 DEF TypeOK
<1>3. Kept' /\ Alive' /\ Stage' /\ ChildrenGuarded'
  BY DEF Kept, Alive, Stage, StageAt, ChildrenGuarded, object, instance, IsInitialized, FinalizerCleanup
<1> QED
  BY <1>2, <1>3

(* The process restarts. *)
LEMMA RestartStep == IndInv /\ Restart => IndInv'
<1> SUFFICES ASSUME IndInv, Restart PROVE IndInv'
  OBVIOUS
<1> USE DEF IndInv, Restart
<1>1. Len(hist) \in Nat /\ Len(hist) > 0 /\ object \in Objects
  BY Positions DEF TypeOK
<1>2. TypeOK'
  <2>1. budget' \in [Kinds -> Nat]
    BY BudgetType DEF Kinds
  <2>2. seen' \in 1..Len(hist') /\ rv' \in 1..seen'
    BY <1>1
  <2> QED
    BY <1>1, <2>1, <2>2, ResultTypes DEF TypeOK, Objects
<1>3. Kept'
  <2>1. rv'..Len(hist') = {Len(hist)}
    BY <1>1
  <2> QED
    BY <2>1 DEF Kept, object
<1>4. Alive' /\ Stage' /\ ChildrenGuarded'
  BY DEF Alive, Stage, StageAt, ChildrenGuarded, object, IsInitialized, FinalizerCleanup
<1> QED
  BY <1>2, <1>3, <1>4

(* Reconcile takes the name from the queue and reads the object. *)
LEMMA GetStep == IndInv /\ Get => IndInv'
<1> SUFFICES ASSUME IndInv, Get PROVE IndInv'
  OBVIOUS
<1>0. TypeOK
  BY DEF IndInv
<1>1. /\ seen \in 1..Len(hist) /\ rv <= seen /\ hist[seen] \in Objects
      /\ rv \in Nat /\ seen \in Nat /\ Len(hist) \in Nat
  BY <1>0, Positions
<1>2. rv' = seen /\ UNCHANGED <<cleanupStrategy, hist, seen, children>>
  BY DEF Get
<1>3. budget' \in [Kinds -> Nat]
  BY <1>0, BudgetType DEF Get, Kinds
<1>4. TypeOK'
  <2>1. rv' \in 1..seen'
    BY <1>1, <1>2
  <2> QED
    BY <1>0, <1>2, <1>3, <2>1, ResultTypes, Zenon DEF Get, TypeOK
<1>5. Kept'
  <2>1. \A k \in rv'..Len(hist') : k \in rv..Len(hist)
    BY <1>1, <1>2
  <2> QED
    BY <1>2, <2>1 DEF IndInv, Kept, object, IsInitialized
<1>6. Alive' /\ ChildrenGuarded'
  BY <1>2 DEF IndInv, Alive, ChildrenGuarded, object, IsInitialized, FinalizerCleanup
<1>7. Stage'
  <2>1. instance' = hist[seen]
    BY <1>2 DEF instance
  <2> QED
    BY <1>2, <2>1 DEF Get, Stage, StageAt, FinalizerCleanup, IsInitialized
<1> QED
  BY <1>4, <1>5, <1>6, <1>7 DEF IndInv

(* What Reconcile writes, when nobody has written since it read. *)
LEMMA GoodRequests ==
  ASSUME IndInv, pc # "idle", rv = Len(hist)
  PROVE  /\ instance = object
         /\ \A status \in Statuses \ {"none"} :
              Good([instance EXCEPT !.status = status])
         /\ Good([instance EXCEPT !.finalizer = TRUE])
         /\ instance.deleting => Good([instance EXCEPT !.finalizer = FALSE])
<1>1. instance = object /\ object \in Objects /\ object.live
  BY Positions DEF IndInv, Stage, StageAt, instance, object
<1> QED
  BY <1>1, Zenon DEF Good, Objects, IsInitialized

(* Reconcile writes obj, and returns whether or not that succeeds. *)
LEMMA WriteAndReturn ==
  ASSUME IndInv, pc # "idle", UNCHANGED <<cleanupStrategy, seen, rv, children>>,
         NEW obj, Accept(obj) \/ Refuse(obj), rv = Len(hist) => Good(obj),
         IsInitialized(instance) => IsInitialized(obj),
         children # {} /\ FinalizerCleanup /\ instance.finalizer => obj.finalizer,
         NEW block \in {"initialize", "finalizer", "status"},
         NEW res \in [requeue : BOOLEAN, err : BOOLEAN], ReturnFrom(block, res)
  PROVE  IndInv'
<1>0. TypeOK
  BY DEF IndInv
<1>1. Written(obj) /\ budget' \in [Kinds -> Nat]
  BY Writes
<1>2. CASE hist' = hist
  <2>1. Written(object)
    BY <1>2 DEF Written
  <2> QED
    BY <1>0, <1>1, <2>1, Returns, RequestStep
<1>3. CASE rv = Len(hist)
  <2>1. instance = object
    BY <1>3, GoodRequests
  <2> QED
    BY <1>0, <1>1, <2>1, Returns, RequestStep
<1> QED
  BY <1>2, <1>3 DEF Accept, Refuse, Store

(* Reconcile writes nothing. *)
LEMMA NoWrite ==
  ASSUME IndInv, UNCHANGED <<cleanupStrategy, hist, seen, rv>>, children' \subseteq children,
         NEW kind \in Kinds, Spend(kind) \/ UNCHANGED budget,
         queued' \in BOOLEAN,
         pc' \in {"idle", "initialize", "finalizer", "cleanup", "remove",
                  "operate", "status"},
         result' \in [requeue : BOOLEAN, err : BOOLEAN],
         returned' \in {"none", "get", "initialize", "finalizer", "status"},
         StageAt(instance, pc', children')
  PROVE  IndInv'
<1>1. Written(object)
  BY DEF Written
<1>2. budget' \in [Kinds -> Nat]
  BY BudgetType DEF IndInv
<1> QED
  BY <1>1, <1>2, RequestStep

(* The init block. *)
LEMMA InitializeStep == IndInv /\ Initialize => IndInv'
<1> SUFFICES ASSUME IndInv, Initialize PROVE IndInv'
  OBVIOUS
<1>0. TypeOK /\ pc # "idle" /\ UNCHANGED <<cleanupStrategy, seen, rv, children>> /\ instance \in Objects
  BY Positions DEF IndInv, Initialize
<1> DEFINE obj == [instance EXCEPT !.status = "progressing"]
<1>1. CASE Spend("callback") /\ ReturnFrom("initialize", Failure) /\ UNCHANGED hist
  BY <1>0, <1>1, Returns, ResultTypes, NoWrite DEF Kinds
<1>2. CASE Write(obj) /\ ReturnFrom("initialize", Requeue)
  <2>1. obj.status = "progressing" /\ obj.finalizer = instance.finalizer
    BY <1>0 DEF Objects
  <2>2. rv = Len(hist) => Good(obj)
    BY <1>0, GoodRequests DEF Statuses
  <2> HIDE DEF obj
  <2> QED
    BY <1>0, <1>2, <2>1, <2>2, ResultTypes, WriteAndReturn DEF IsInitialized, Write
<1> QED
  BY <1>1, <1>2 DEF Initialize

(* cleanupHandler up to Cleanup. *)
LEMMA HandlerStep == IndInv /\ cleanupHandler => IndInv'
<1> SUFFICES ASSUME IndInv, cleanupHandler PROVE IndInv'
  OBVIOUS
<1>0. /\ TypeOK /\ pc = "finalizer" /\ UNCHANGED <<cleanupStrategy, seen, rv, children>>
      /\ instance \in Objects
  BY Positions DEF IndInv, cleanupHandler
<1> DEFINE obj == [instance EXCEPT !.finalizer = TRUE]
<1>1. CASE Write(obj) /\ ReturnFrom("finalizer", NoResult)
  <2>1. obj.status = instance.status /\ obj.finalizer = TRUE
    BY <1>0 DEF Objects
  <2>2. rv = Len(hist) => Good(obj)
    BY <1>0, GoodRequests
  <2> HIDE DEF obj
  <2> QED
    BY <1>0, <1>1, <2>1, <2>2, ResultTypes, WriteAndReturn DEF IsInitialized, Write
<1>2. ASSUME NEW label, Goto(label, NoResult), UNCHANGED <<hist, budget>>,
             label = IF ~instance.deleting THEN "operate"
                     ELSE IF instance.finalizer THEN "cleanup" ELSE "status",
             ~(~instance.deleting /\ ~instance.finalizer)
      PROVE  IndInv'
  <2>1. StageAt(instance, label, children)
    BY <1>0, <1>2 DEF IndInv, Stage, StageAt
  <2>2. label \in {"operate", "cleanup", "status"}
    BY <1>2
  <2>3. pc' = label /\ result' = NoResult /\ UNCHANGED <<queued, returned>>
    BY <1>2 DEF Goto
  <2> QED
    BY <1>0, <1>2, <2>1, <2>2, <2>3, ResultTypes, NoWrite DEF TypeOK, Kinds
<1> QED
  BY <1>1, <1>2 DEF cleanupHandler

(* Cleanup returns. *)
LEMMA CleanupStep == IndInv /\ Cleanup => IndInv'
<1> SUFFICES ASSUME IndInv, Cleanup PROVE IndInv'
  OBVIOUS
<1>0. TypeOK
  BY DEF IndInv
<1>1. ASSUME NEW kids \in SUBSET children, NEW res \in {NoResult, Failure},
             kids = {} \/ res = Failure,
             CleanupReturns(kids, res), Spend("callback") \/ UNCHANGED budget
      PROVE  IndInv'
  <2>1. /\ pc = "cleanup" /\ children' = kids
        /\ UNCHANGED <<cleanupStrategy, hist, seen, rv, queued, returned>>
        /\ pc' = (IF res.err THEN "status" ELSE "remove") /\ result' = res
    BY <1>1 DEF CleanupReturns, Goto
  <2>2. StageAt(instance, pc', children')
    BY <1>1, <2>1 DEF IndInv, Stage, StageAt, Failure
  <2> QED
    BY <1>0, <1>1, <2>1, <2>2, ResultTypes, NoWrite DEF TypeOK, Kinds
<1> QED
  BY <1>1 DEF Cleanup

(* The finalizer is removed. *)
LEMMA RemoveStep == IndInv /\ removeFinalizer => IndInv'
<1> SUFFICES ASSUME IndInv, removeFinalizer PROVE IndInv'
  OBVIOUS
<1>0. /\ TypeOK /\ pc = "remove" /\ UNCHANGED <<cleanupStrategy, seen, rv, children>>
      /\ instance \in Objects
  BY Positions DEF IndInv, removeFinalizer
<1> DEFINE obj == [instance EXCEPT !.finalizer = FALSE]
<1>1. obj.status = instance.status
  BY <1>0 DEF Objects
<1>2. children = {} /\ instance.deleting
  BY <1>0 DEF IndInv, Stage, StageAt
<1>3. rv = Len(hist) => Good(obj)
  BY <1>0, <1>2, GoodRequests
<1>4. Write(obj) /\ ReturnFrom("finalizer", result)
  BY DEF removeFinalizer
<1>5. result \in [requeue : BOOLEAN, err : BOOLEAN]
  BY <1>0 DEF TypeOK
<1> HIDE DEF obj
<1> QED
  BY <1>0, <1>1, <1>2, <1>3, <1>4, <1>5, WriteAndReturn DEF IsInitialized, Write

(***************************************************************************)
(* Operate has done something to the children, and has returned or not:    *)
(* the instance it works on has the finalizer, so the stored object has it. *)
(***************************************************************************)
LEMMA Operating ==
  ASSUME IndInv, pc = "operate", pc' \in {"operate", "status"},
         children' \subseteq Children,
         result' \in [requeue : BOOLEAN, err : BOOLEAN],
         budget' \in [Kinds -> Nat],
         UNCHANGED <<cleanupStrategy, hist, seen, rv, queued, returned>>
  PROVE  IndInv'
<1>1. TypeOK
  BY DEF IndInv
<1>2. TypeOK'
  BY <1>1 DEF TypeOK
<1>3. Kept' /\ Alive' /\ Stage'
  BY DEF IndInv, Kept, Alive, Stage, StageAt, object, instance, IsInitialized, FinalizerCleanup
<1>4. ChildrenGuarded'
  <2> SUFFICES ASSUME FinalizerCleanup
               PROVE  object.live /\ object.finalizer /\ IsInitialized(object)
    BY DEF ChildrenGuarded, object, IsInitialized, FinalizerCleanup
  <2>1. instance.finalizer /\ ~instance.deleting /\ IsInitialized(instance)
    BY DEF IndInv, Stage, StageAt
  <2>2. rv \in rv..Len(hist)
    BY <1>1, Positions
  <2> QED
    BY <2>1, <2>2 DEF IndInv, Kept, Alive, instance
<1> QED
  BY <1>2, <1>3, <1>4 DEF IndInv

(* Operate returns. *)
LEMMA OperateStep == IndInv /\ Operate => IndInv'
<1> SUFFICES ASSUME IndInv, Operate PROVE IndInv'
  OBVIOUS
<1>1. PICK kids \in SUBSET Children, res \in {NoResult, Failure, Requeue} :
        OperateReturns(kids, res)
  BY DEF Operate
<1>2. /\ pc = "operate" /\ pc' = "status" /\ children' = kids /\ result' = res
      /\ UNCHANGED <<cleanupStrategy, hist, seen, rv, queued, returned>>
  BY <1>1 DEF OperateReturns, Goto
<1>3. budget' \in [Kinds -> Nat]
  BY BudgetType DEF Operate, Kinds, IndInv
<1> QED
  BY <1>1, <1>2, <1>3, ResultTypes, Operating

(* The deferred status update. *)
LEMMA StatusStep == IndInv /\ UpdateStatus => IndInv'
<1> SUFFICES ASSUME IndInv, UpdateStatus PROVE IndInv'
  OBVIOUS
<1>0. /\ TypeOK /\ pc = "status" /\ UNCHANGED <<cleanupStrategy, seen, rv, children>>
      /\ instance \in Objects /\ result \in [requeue : BOOLEAN, err : BOOLEAN]
  BY Positions DEF IndInv, UpdateStatus, TypeOK
<1> DEFINE obj == [instance EXCEPT !.status = StatusOf(children)]
<1>1. StatusOf(children) \in Statuses \ {"none"}
  BY DEF StatusOf, Statuses
<1>2. obj.status # "none" /\ obj.finalizer = instance.finalizer
  BY <1>0, <1>1 DEF Objects
<1>3. rv = Len(hist) => Good(obj)
  BY <1>0, <1>1, GoodRequests
<1>4. ASSUME NEW res \in [requeue : BOOLEAN, err : BOOLEAN],
             ReturnFrom("status", res), UNCHANGED hist,
             Spend("callback") \/ UNCHANGED budget
      PROVE  IndInv'
  BY <1>0, <1>4, Returns, NoWrite DEF Kinds
<1>5. ASSUME NEW res \in [requeue : BOOLEAN, err : BOOLEAN],
             ReturnFrom("status", res), Accept(obj) \/ Refuse(obj)
      PROVE  IndInv'
  <2> HIDE DEF obj
  <2> QED
    BY <1>0, <1>2, <1>3, <1>5, WriteAndReturn DEF IsInitialized
<1>6. /\ [requeue |-> TRUE, err |-> TRUE] \in [requeue : BOOLEAN, err : BOOLEAN]
      /\ [result EXCEPT !.err = TRUE] \in [requeue : BOOLEAN, err : BOOLEAN]
  BY <1>0, Zenon
<1> QED
  BY <1>0, <1>4, <1>5, <1>6, Zenon DEF UpdateStatus

(* A step that leaves Reconcile, the object and the children alone. *)
LEMMA Untouched ==
  ASSUME IndInv, UNCHANGED vars
  PROVE  IndInv'
<1>0. /\ UNCHANGED <<cleanupStrategy, hist, seen, queued, pc, rv>>
      /\ UNCHANGED <<result, returned, children, budget>>
  BY DEF vars
<1>1. TypeOK'
  BY <1>0 DEF IndInv, TypeOK
<1>2. Kept' /\ Alive'
  BY <1>0 DEF IndInv, Kept, Alive, object, IsInitialized
<1>3. Stage'
  BY <1>0 DEF IndInv, Stage, StageAt, instance, IsInitialized, FinalizerCleanup
<1>4. ChildrenGuarded'
  BY <1>0 DEF IndInv, ChildrenGuarded, object, IsInitialized, FinalizerCleanup
<1> QED
  BY <1>1, <1>2, <1>3, <1>4 DEF IndInv

(* Every step keeps the inductive invariant. *)
LEMMA IndStep == IndInv /\ [Next]_vars => IndInv'
  BY Untouched, GetStep, InitializeStep, HandlerStep, CleanupStep, RemoveStep,
     OperateStep, StatusStep, Users, WatchStep, RestartStep DEF Next

(* The invariant holds in every behaviour. *)
LEMMA Inductive == Spec => []IndInv
  BY InitInd, IndStep, PTL DEF Spec

-----------------------------------------------------------------------------

(* Reconcile's variables keep their types. *)
THEOREM TypeCorrect == Spec => []TypeOK
<1>1. IndInv => TypeOK
  BY DEF IndInv
<1> QED
  BY <1>1, Inductive, PTL

(***************************************************************************)
(* With the finalizer strategy and a Cleanup that deletes what it says, no *)
(* child exists without an object that holds the finalizer, whatever the   *)
(* cache, conflicts, failures and restarts do.                             *)
(***************************************************************************)
THEOREM ChildrenGuardedHolds == Spec => []ChildrenGuarded
<1>1. IndInv => ChildrenGuarded
  BY DEF IndInv
<1> QED
  BY <1>1, Inductive, PTL

-----------------------------------------------------------------------------
(* Another reconciliation follows the finalizer block, if only conflicts   *)
(* make its update fail.                                                   *)

(* What the watch delivered while Reconcile was working is in the queue. *)
Noticed == pc # "idle" /\ rv < seen => queued

Followed ==
  budget["finalizer"] <= Budget["finalizer"] /\ Noticed /\ ConflictsRetried

(***************************************************************************)
(* An update of the finalizers that changes something either is stored,    *)
(* and the watch has it to deliver, or is refused because the watch has or *)
(* had another version.                                                    *)
(***************************************************************************)
LEMMA WriteFollowed ==
  ASSUME IndInv, Followed, pc \in {"finalizer", "remove"},
         NEW obj, Write(obj), obj # instance, seen' = seen, OnlyConflicts'
  PROVE  queued \/ seen' < Len(hist')
<1>0. TypeOK
  BY DEF IndInv
<1>1. /\ rv \in Nat /\ seen \in 1..Len(hist) /\ seen \in Nat /\ Len(hist) \in Nat
      /\ rv <= seen
  BY <1>0, Positions
<1>2. ~Spend(Request)
  <2>1. /\ budget \in [Kinds -> Nat] /\ Budget["finalizer"] \in Nat
        /\ budget["finalizer"] <= Budget["finalizer"]
        /\ budget'["finalizer"] = Budget["finalizer"]
    BY <1>0, BudgetAssumption DEF TypeOK, Followed, OnlyConflicts, Kinds
  <2> QED
    BY <2>1 DEF Spend, Kinds, Request
<1>3. CASE Accept(obj)
  <2>1. obj # object /\ hist' = Append(hist, Stored(obj))
    BY <1>3 DEF Accept, Store, instance, object
  <2>2. Len(hist') = Len(hist) + 1
    BY <1>0, <2>1 DEF TypeOK
  <2> QED
    BY <1>1, <1>3, <2>2 DEF Accept
<1>4. CASE UNCHANGED <<hist, budget>> /\ (rv # Len(hist) \/ ~object.live)
  <2>1. instance.live
    BY DEF IndInv, Stage, StageAt
  <2>2. rv # Len(hist)
    BY <1>4, <2>1 DEF instance, object
  <2> QED
    BY <1>1, <1>4, <2>2 DEF Followed, Noticed
<1> QED
  BY <1>2, <1>3, <1>4 DEF Write, Refuse

(* A step spends from at most one budget. *)
LEMMA BudgetSpent ==
  ASSUME [Next]_vars
  PROVE  (\E kind \in Kinds : Spend(kind)) \/ UNCHANGED budget
<1> DEFINE Spent == (\E kind \in Kinds : Spend(kind)) \/ UNCHANGED budget
<1>0. \A kind \in {"edit", "delete", "finalizer", "api", "callback", "restart"} :
        Spend(kind) => Spent
  BY DEF Kinds
<1>1. \A obj : Write(obj) \/ Accept(obj) \/ Refuse(obj) => Spent
  BY <1>0 DEF Write, Accept, Refuse, Request
<1>2. UNCHANGED budget => Spent
  OBVIOUS
<1> HIDE DEF Spent
<1>3. Get => Spent
  BY <1>0, <1>2 DEF Get
<1>4. Initialize => Spent
  BY <1>0, <1>1 DEF Initialize
<1>5. cleanupHandler => Spent
  BY <1>1, <1>2 DEF cleanupHandler
<1>6. Cleanup \/ Operate => Spent
  BY <1>0, <1>2 DEF Cleanup, Operate
<1>7. removeFinalizer => Spent
  BY <1>1 DEF removeFinalizer
<1>8. UpdateStatus => Spent
  BY <1>0, <1>1, <1>2 DEF UpdateStatus
<1>9. EditSpec \/ Delete \/ Release \/ Watch \/ Restart => Spent
  BY <1>0, <1>2 DEF EditSpec, Delete, Release, Watch, Restart
<1>10. UNCHANGED vars => Spent
  BY <1>2 DEF vars
<1>11. Spent
  BY <1>3, <1>4, <1>5, <1>6, <1>7, <1>8, <1>9, <1>10, ZenonT(30) DEF Next
<1> QED
  BY <1>11 DEF Spent

(* Every step keeps Followed. *)
LEMMA FollowedStep == IndInv /\ Followed /\ [Next]_vars => Followed'
<1> SUFFICES ASSUME IndInv, Followed, [Next]_vars PROVE Followed'
  OBVIOUS
<1>0. /\ TypeOK /\ instance \in Objects /\ rv <= seen /\ seen \in Nat /\ rv \in Nat
      /\ Len(hist) \in Nat /\ seen <= Len(hist) /\ budget \in [Kinds -> Nat]
  BY Positions DEF IndInv, TypeOK
<1>1. /\ budget'["finalizer"] <= Budget["finalizer"]
      /\ OnlyConflicts' => OnlyConflicts
  <2>1. (\E kind \in Kinds : Spend(kind)) \/ UNCHANGED budget
    BY BudgetSpent
  <2>2. /\ budget["finalizer"] \in Nat /\ budget'["finalizer"] \in Nat
        /\ budget'["finalizer"] <= budget["finalizer"]
    BY <1>0, <2>1 DEF Spend, Kinds
  <2>3. Budget["finalizer"] \in Nat /\ budget["finalizer"] <= Budget["finalizer"]
    BY BudgetAssumption DEF Followed, Kinds
  <2> QED
    BY <2>2, <2>3 DEF OnlyConflicts
<1> USE DEF Followed, Noticed, ConflictsRetried, AnotherReconciliation
<1>2. CASE Get
  BY <1>0, <1>1, <1>2 DEF Get
<1>3. CASE Initialize \/ UpdateStatus
  BY <1>1, <1>3 DEF Initialize, UpdateStatus, ReturnFrom
<1>4. CASE cleanupHandler
  <2>1. CASE Write([instance EXCEPT !.finalizer = TRUE]) /\ ~instance.finalizer
             /\ ReturnFrom("finalizer", NoResult)
    <3>1. [instance EXCEPT !.finalizer = TRUE] # instance
      BY <1>0, <2>1 DEF Objects
    <3> QED
      BY <1>1, <1>4, <2>1, <3>1, WriteFollowed, Zenon DEF cleanupHandler, ReturnFrom
  <2>2. CASE \E label \in {"operate", "cleanup", "status"} : Goto(label, NoResult)
    BY <1>1, <1>4, <2>2 DEF cleanupHandler, Goto
  <2> QED
    BY <1>4, <2>1, <2>2 DEF cleanupHandler
<1>5. CASE Cleanup \/ Operate
  BY <1>1, <1>5 DEF Cleanup, CleanupReturns, Operate, OperateReturns, Goto
<1>6. CASE removeFinalizer
  <2>1. instance.finalizer
    BY <1>6 DEF removeFinalizer, IndInv, Stage, StageAt
  <2>2. [instance EXCEPT !.finalizer = FALSE] # instance
    BY <1>0, <2>1 DEF Objects
  <2> QED
    BY <1>1, <1>6, <2>2, WriteFollowed, Zenon DEF removeFinalizer, ReturnFrom
<1>7. CASE EditSpec \/ Delete \/ Release
  <2>1. PICK obj : UserWrites(obj)
    BY <1>7, Zenon DEF EditSpec, Delete, Release
  <2>2. Len(hist') = Len(hist) + 1
    BY <1>0, <2>1 DEF UserWrites, TypeOK
  <2> QED
    BY <1>0, <1>1, <2>1, <2>2 DEF UserWrites
<1>8. CASE Watch \/ Restart
  BY <1>1, <1>8 DEF Watch, Restart
<1>9. CASE UNCHANGED vars
  BY <1>1, <1>9 DEF vars
<1> QED
  BY <1>2, <1>3, <1>4, <1>5, <1>6, <1>7, <1>8, <1>9 DEF Next

(***************************************************************************)
(* "Since adding finalizer updated the target object, it's known that      *)
(* another reconciliation will take place": true, for adding as well as    *)
(* removing it, as long as these updates fail only for a conflict.         *)
(***************************************************************************)
THEOREM ConflictsRetriedHolds == Spec => []ConflictsRetried
<1>1. Init => Followed
  BY BudgetAssumption
     DEF Init, Followed, Noticed, ConflictsRetried, AnotherReconciliation, Kinds
<1>2. Followed => ConflictsRetried
  BY DEF Followed
<1> QED
  BY <1>1, <1>2, Inductive, FollowedStep, PTL DEF Spec

-----------------------------------------------------------------------------
(* What has been achieved when the controller comes to rest.                *)

(* Nothing is queued, in progress or still to be delivered. *)
Rests == pc = "idle" /\ ~queued /\ seen = Len(hist)

(* What the controller is to make of an object. *)
Reconciled(obj, kids) ==
  /\ obj.valid
  /\ obj.status = StatusOf(kids)
  /\ ~obj.deleting => kids = Children
  /\ FinalizerCleanup /\ obj.deleting => ~obj.finalizer /\ kids = {}

(***************************************************************************)
(* Unless an update of a finalizer was lost to a failure other than a      *)
(* conflict, the controller never rests on unfinished work: not after it   *)
(* acted on a stale version, nor after an error it only logged.            *)
(***************************************************************************)
RestsReconciled ==
  OnlyConflicts /\ Rests /\ object.live => Reconciled(object, children)

(* What Reconcile has done once it is to update the status. *)
Worked ==
  /\ pc # "idle" => instance.valid
  /\ pc = "status" /\ ~result.requeue /\ ~result.err =>
       /\ ~instance.deleting => children = Children
       /\ FinalizerCleanup /\ instance.deleting => ~instance.finalizer

Resting == Worked /\ RestsReconciled

(* A version is appended or none, and the instance stays what it is. *)
LEMMA InstanceStays ==
  ASSUME IndInv, rv' = rv, NEW obj, hist' = hist \/ hist' = Append(hist, Stored(obj))
  PROVE  /\ instance' = instance
         /\ hist' = hist \/ Len(hist') = Len(hist) + 1
<1>1. hist \in Seq(Objects) /\ rv \in 1..Len(hist)
  BY Positions DEF IndInv, TypeOK
<1> QED
  BY <1>1 DEF instance

(* Reconcile's requests but for Operate and Cleanup, and everybody else's. *)
LEMMA RestingOwn ==
  ASSUME IndInv, Followed, Resting, Followed',
         \/ Get \/ Initialize \/ cleanupHandler \/ removeFinalizer \/ UpdateStatus
         \/ EditSpec \/ Delete \/ Release \/ Watch \/ Restart \/ UNCHANGED vars
  PROVE  Resting'
<1>0. /\ rv \in Nat /\ seen \in Nat /\ Len(hist) \in Nat /\ rv <= seen
      /\ seen <= Len(hist) /\ object \in Objects /\ instance \in Objects
  BY Positions DEF IndInv
<1>1. ASSUME pc' # "idle" \/ queued' \/ seen' # Len(hist') PROVE RestsReconciled'
  BY <1>1 DEF RestsReconciled, Rests
<1>2. ASSUME pc' = "idle" PROVE Worked'
  BY <1>2 DEF Worked
<1>3. ASSUME pc' = "idle", returned' = "finalizer" PROVE Resting'
  BY <1>2, <1>3 DEF Resting, RestsReconciled, Rests, Followed, ConflictsRetried,
                    AnotherReconciliation
<1>4. CASE Get
  <2>1. /\ pc' = "idle" \/ (hist[seen].valid /\ pc' # "status")
        /\ pc' = "idle" => queued' \/ ~hist[seen].live
        /\ rv' = seen /\ hist' = hist /\ seen' = seen
    BY <1>4 DEF Get
  <2>2. Worked'
    BY <2>1 DEF Worked, instance
  <2>3. RestsReconciled'
    BY <2>1 DEF RestsReconciled, Rests, object
  <2> QED
    BY <2>2, <2>3, ZenonT(30) DEF Resting
<1>5. CASE Initialize
  <2>1. pc' = "idle" /\ queued' = TRUE
    BY <1>5, Zenon DEF Initialize, ReturnFrom, Failure, Requeue
  <2> QED
    BY <1>1, <1>2, <2>1 DEF Resting
<1>6. CASE cleanupHandler
  <2>1. CASE ReturnFrom("finalizer", NoResult)
    BY <1>3, <2>1 DEF ReturnFrom
  <2>2. CASE ~ReturnFrom("finalizer", NoResult)
    <3>1. /\ pc = "finalizer" /\ pc' # "idle" /\ hist' = hist /\ rv' = rv
          /\ pc' = "status" => instance.deleting /\ ~instance.finalizer
      BY <1>6, <2>2 DEF cleanupHandler, Goto
    <3>2. Worked'
      BY <3>1 DEF Worked, Resting, instance
    <3> QED
      BY <1>1, <3>1, <3>2 DEF Resting
  <2> QED
    BY <2>1, <2>2
<1>7. CASE removeFinalizer
  BY <1>3, <1>7 DEF removeFinalizer, ReturnFrom
<1>8. CASE UpdateStatus
  <2> DEFINE obj == [instance EXCEPT !.status = StatusOf(children)]
  <2>0. /\ pc = "status" /\ pc' = "idle"
        /\ UNCHANGED <<cleanupStrategy, seen, rv, children>>
    BY <1>8 DEF UpdateStatus, ReturnFrom
  <2>1. CASE queued'
    BY <1>1, <1>2, <2>0, <2>1 DEF Resting
  <2>2. CASE StatusChanged(instance, obj) /\ Accept(obj)
    <3>1. rv = Len(hist) /\ obj # object /\ hist' = Append(hist, Stored(obj))
      BY <2>2, Zenon DEF Accept, Store, StatusChanged, instance, object
    <3>2. Len(hist') = Len(hist) + 1
      BY <3>1 DEF IndInv, TypeOK
    <3> QED
      BY <1>0, <1>1, <1>2, <2>0, <3>2 DEF Resting
  <2>3. CASE ~queued' /\ ~(StatusChanged(instance, obj) /\ Accept(obj))
    <3>1. /\ ~StatusChanged(instance, obj) /\ hist' = hist
          /\ ~queued /\ ~result.requeue /\ ~result.err
      <4>1. [result EXCEPT !.err = TRUE].err = TRUE
        BY DEF IndInv, TypeOK
      <4>2. /\ ~ReturnFrom("status", [result EXCEPT !.err = TRUE])
            /\ ~ReturnFrom("status", [requeue |-> TRUE, err |-> TRUE])
        BY <2>3, <4>1, ZenonT(30) DEF ReturnFrom
      <4>3. ~StatusChanged(instance, obj) /\ hist' = hist /\ ReturnFrom("status", result)
        BY <1>8, <2>3, <4>2, Zenon DEF UpdateStatus
      <4> QED
        BY <2>3, <4>3, Zenon DEF ReturnFrom
    <3>2. ~(rv < seen)
      BY <2>0, <3>1 DEF Followed, Noticed
    <3>3. seen = Len(hist) => instance = object
      BY <1>0, <3>2 DEF instance, object
    <3>4. /\ instance.valid /\ instance.status = StatusOf(children)
          /\ ~instance.deleting => children = Children
          /\ FinalizerCleanup /\ instance.deleting => ~instance.finalizer
      BY <1>0, <2>0, <3>1 DEF Resting, Worked, StatusChanged, Objects
    <3>5. FinalizerCleanup /\ ~object.finalizer => children = {}
      BY DEF IndInv, ChildrenGuarded
    <3>6. object' = object
      BY <3>1 DEF object
    <3>7. RestsReconciled'
      BY <2>0, <3>1, <3>3, <3>4, <3>5, <3>6
         DEF RestsReconciled, Rests, Reconciled, FinalizerCleanup, StatusOf
    <3> QED
      BY <1>2, <2>0, <3>7 DEF Resting
  <2> QED
    BY <2>1, <2>2, <2>3
<1>9. CASE EditSpec \/ Delete \/ Release
  <2>1. PICK obj : UserWrites(obj)
    BY <1>9, Zenon DEF EditSpec, Delete, Release
  <2>2. /\ hist' = Append(hist, Stored(obj))
        /\ UNCHANGED <<cleanupStrategy, seen, queued, pc, rv, result, returned, children>>
    BY <2>1 DEF UserWrites
  <2>3. instance' = instance /\ Len(hist') = Len(hist) + 1
    BY <2>2, InstanceStays DEF IndInv, TypeOK
  <2>4. Worked'
    BY <2>2, <2>3 DEF Resting, Worked, FinalizerCleanup
  <2> QED
    BY <1>0, <1>1, <2>2, <2>3, <2>4 DEF Resting
<1>10. CASE Watch
  <2>1. Worked'
    BY <1>10 DEF Watch, Resting, Worked, FinalizerCleanup, instance
  <2> QED
    BY <1>1, <1>10, <2>1 DEF Watch, Resting
<1>11. CASE Restart
  <2>1. pc' = "idle" /\ queued' = object.live /\ object' = object
    BY <1>11, ZenonT(30) DEF Restart, object
  <2> QED
    BY <1>2, <2>1 DEF Resting, RestsReconciled, Rests
<1>12. CASE UNCHANGED vars
  <2>1. /\ UNCHANGED <<cleanupStrategy, hist, seen, queued, pc, rv>>
        /\ UNCHANGED <<result, returned, children, budget>>
    BY <1>12 DEF vars
  <2> QED
    BY <2>1 DEF Resting, Worked, RestsReconciled, Rests, Reconciled, FinalizerCleanup,
                instance, object, StatusOf, OnlyConflicts
<1> QED
  BY <1>4, <1>5, <1>6, <1>7, <1>8, <1>9, <1>10, <1>11, <1>12

(* Operate and Cleanup return. *)
LEMMA RestingCalls ==
  ASSUME IndInv, Resting, Operate \/ Cleanup
  PROVE  Resting'
<1>1. pc' # "idle" /\ pc # "idle" /\ UNCHANGED <<cleanupStrategy, hist, rv>>
  BY DEF Operate, Cleanup, OperateReturns, CleanupReturns, Goto
<1>2. instance' = instance /\ instance.valid
  BY <1>1 DEF instance, Resting, Worked
<1>3. CASE Operate
  <2>1. children' = Children \/ result'.requeue \/ result'.err
    BY <1>3 DEF Operate, OperateReturns, Goto, Failure, Requeue
  <2>2. FinalizerCleanup => ~instance.deleting
    BY <1>3 DEF Operate, OperateReturns, IndInv, Stage, StageAt
  <2> QED
    BY <1>1, <1>2, <2>1, <2>2 DEF Resting, Worked, RestsReconciled, Rests, FinalizerCleanup
<1>4. CASE Cleanup
  <2>1. pc' = "remove" \/ result'.err
    BY <1>4 DEF Cleanup, CleanupReturns, Goto, Failure, NoResult
  <2> QED
    BY <1>1, <1>2, <2>1, ZenonT(30) DEF Resting, Worked, RestsReconciled, Rests
<1> QED
  BY <1>3, <1>4

(* At first the new object is queued. *)
LEMMA RestingStarts == Init => Followed /\ Resting
  BY BudgetAssumption
     DEF Init, Followed, Noticed, ConflictsRetried, AnotherReconciliation, Kinds,
         Resting, Worked, RestsReconciled, Rests

(***************************************************************************)
(* The controller rests only on a reconciled object: valid, its status     *)
(* that of its children, all of which exist, or being deleted, without the *)
(* finalizer and without children.                                         *)
(***************************************************************************)
THEOREM RestsReconciledHolds == Spec => []RestsReconciled
<1>1. IndInv /\ Followed /\ Resting /\ [Next]_vars => Followed' /\ Resting'
  BY FollowedStep, RestingOwn, RestingCalls DEF Next
<1>2. Resting => RestsReconciled
  BY DEF Resting
<1> QED
  BY <1>1, <1>2, Inductive, RestingStarts, PTL DEF Spec

-----------------------------------------------------------------------------
(* The step that removes the finalizer.                                     *)

(***************************************************************************)
(* The finalizer is taken from the stored object only when that object is  *)
(* being deleted and no child is left: not by an update made with a stale  *)
(* instance, nor by one whose answer was lost and that is made again.      *)
(***************************************************************************)
FinalizerGuards ==
  [][object.finalizer /\ ~(object').finalizer => object.deleting /\ children = {}]_vars

(* Users do not touch it, and of Reconcile's updates only one removes it.  *)
LEMMA FinalizerStep ==
  ASSUME IndInv, object.finalizer, ~(object').finalizer,
         \/ Get \/ Initialize \/ cleanupHandler \/ removeFinalizer \/ UpdateStatus
         \/ EditSpec \/ Delete \/ Release \/ Watch \/ Restart \/ hist' = hist
  PROVE  object.deleting /\ children = {}
<1>0. TypeOK /\ object \in Objects /\ instance \in Objects
  BY Positions DEF IndInv
<1>1. hist' # hist
  BY DEF object
<1>2. ASSUME NEW obj \in Objects, hist' = Append(hist, Stored(obj)), obj.finalizer = TRUE
      PROVE  FALSE
  <2>1. object' = Stored(obj)
    BY <1>0, <1>2, Appended
  <2>2. Stored(obj).finalizer = obj.finalizer
    BY DEF Stored, Objects
  <2> QED
    BY <1>2, <2>1, <2>2
<1>3. CASE EditSpec \/ Delete \/ Release
  <2> DEFINE Same(obj) == obj \in Objects /\ obj.finalizer = object.finalizer
  <2>1. /\ \A valid \in BOOLEAN : Same([object EXCEPT !.valid = valid])
        /\ Same([object EXCEPT !.deleting = TRUE]) /\ Same([object EXCEPT !.held = FALSE])
    BY <1>0, Zenon DEF Objects
  <2>2. PICK obj : UserWrites(obj) /\ Same(obj)
    <3> HIDE DEF Same
    <3> QED
      BY <1>3, <2>1, Zenon DEF EditSpec, Delete, Release
  <2> QED
    BY <1>0, <1>2, <2>2, Zenon DEF UserWrites, Objects
<1>4. ASSUME NEW obj \in Objects, Write(obj), instance.finalizer => obj.finalizer = TRUE
      PROVE  FALSE
  <2>1. rv = Len(hist) /\ hist' = Append(hist, Stored(obj))
    BY <1>1, <1>4 DEF Write, Accept, Refuse, Store
  <2>2. instance = object
    BY <2>1 DEF instance, object
  <2> QED
    BY <1>2, <1>4, <2>1, <2>2, Zenon
<1>5. CASE Initialize
  <2> DEFINE obj == [instance EXCEPT !.status = "progressing"]
  <2>1. obj \in Objects /\ (instance.finalizer => obj.finalizer = TRUE)
    BY <1>0 DEF Objects, Statuses
  <2>2. Write(obj)
    BY <1>1, <1>5 DEF Initialize
  <2> HIDE DEF obj
  <2> QED
    BY <1>4, <2>1, <2>2, Zenon
<1>6. CASE cleanupHandler
  <2> DEFINE obj == [instance EXCEPT !.finalizer = TRUE]
  <2>1. obj \in Objects /\ obj.finalizer = TRUE
    BY <1>0, Zenon DEF Objects
  <2>2. Write(obj)
    BY <1>1, <1>6 DEF cleanupHandler
  <2> HIDE DEF obj
  <2> QED
    BY <1>4, <2>1, <2>2, Zenon
<1>7. CASE UpdateStatus
  <2> DEFINE obj == [instance EXCEPT !.status = StatusOf(children)]
  <2>1. obj \in Objects /\ (instance.finalizer => obj.finalizer = TRUE)
    BY <1>0 DEF Objects, Statuses, StatusOf
  <2>2. Write(obj)
    BY <1>1, <1>7, Zenon DEF UpdateStatus, Write
  <2> HIDE DEF obj
  <2> QED
    BY <1>4, <2>1, <2>2, Zenon
<1>8. CASE removeFinalizer
  <2>1. pc = "remove" /\ children = {} /\ instance.deleting
    BY <1>8 DEF removeFinalizer, IndInv, Stage, StageAt
  <2>2. rv = Len(hist)
    BY <1>1, <1>8, ZenonT(30) DEF removeFinalizer, Write, Accept, Refuse, Store
  <2> QED
    BY <2>1, <2>2 DEF instance, object
<1>9. CASE Get \/ Watch \/ Restart
  BY <1>1, <1>9 DEF Get, Watch, Restart
<1> QED
  BY <1>1, <1>3, <1>5, <1>6, <1>7, <1>8, <1>9, ZenonT(30)

(***************************************************************************)
(* With a Cleanup that deletes what it says, the finalizer guards the      *)
(* children to the end.                                                    *)
(***************************************************************************)
THEOREM FinalizerGuardsHolds == Spec => FinalizerGuards
<1>1. IndInv /\ [Next]_vars =>
        [object.finalizer /\ ~(object').finalizer => object.deleting /\ children = {}]_vars
  <2> SUFFICES ASSUME IndInv, Next, object.finalizer, ~(object').finalizer
               PROVE  object.deleting /\ children = {}
    OBVIOUS
  <2>1. Operate \/ Cleanup => hist' = hist
    BY DEF Operate, OperateReturns, Cleanup, CleanupReturns
  <2> QED
    BY <2>1, FinalizerStep DEF Next
<1> QED
  BY <1>1, Inductive, PTL DEF Spec, FinalizerGuards

-----------------------------------------------------------------------------
(* The controller whose Cleanup is that of a composite operator.            *)

(***************************************************************************)
(* What the operator has to be configured like, for its Cleanup to delete  *)
(* every child whenever it returns no error: it is never suspended, no     *)
(* operand has RequeueAlways, and its orders cover the children in an even *)
(* number of steps.                                                        *)
(***************************************************************************)
WholeCleanup ==
  /\ Suspensions = {FALSE}
  /\ RequeueSets = {{}}
  /\ \A s \in Orders : /\ s \in Seq(SUBSET Children)
                       /\ Len(s) % 2 = 0
                       /\ Operator!All(s) = Children

(* Reconcile waits for the call that it made. *)
Calling ==
  /\ order \in Orders /\ always = {}
  /\ opPc \in {"idle", "exec"}
  /\ opPc = "exec" => waiting
  /\ waiting => pc \in {"operate", "cleanup"}
  /\ waiting => call = IF pc = "operate" THEN "Ensure" ELSE "Cleanup"
  /\ errs \subseteq Operator!Errors
  /\ opResult \in Operator!Results

(***************************************************************************)
(* How far Cleanup has come: the steps before the current one are without  *)
(* children, as are the operands done in this one; a failure leaves an     *)
(* error, and a call that ends without one leaves no child.                *)
(***************************************************************************)
Emptied ==
  /\ run = Operator!Reverse(order)
  /\ i \in Nat
  /\ \A k \in DOMAIN run : k < i => run[k] \cap children = {}
  /\ \A o \in Children : phase[o] = "ok" => o \notin children
  /\ \A o \in Children : phase[o] = "failed" => errs # {}
  /\ opPc = "idle" => opResult.err # {} \/ children = {}

ControllerInv ==
  /\ IndInv /\ FinalizerCleanup
  /\ Calling
  /\ phase \in [Children -> Operator!Phases]
  /\ waiting /\ pc = "cleanup" => Emptied

(* The positions of a sequence. *)
LEMMA SeqIndices ==
  ASSUME NEW S, NEW s \in Seq(S)
  PROVE  DOMAIN s = 1..Len(s) /\ Len(s) \in Nat
  OBVIOUS

(* The counter that goes through them, from the first to past the last. *)
LEMMA Indices ==
  ASSUME NEW n \in Nat, NEW j \in Nat
  PROVE  /\ \A k \in 1..n : ~(k < 1)
         /\ j + 1 \in Nat
         /\ j > n => \A k \in 1..n : k < j
  OBVIOUS

(* The steps of the order and of its reverse are the same, if even. *)
LEMMA ReverseCovers ==
  ASSUME WholeCleanup, NEW s \in Orders
  PROVE  /\ DOMAIN Operator!Reverse(s) = 1..Len(s) /\ Len(s) \in Nat
         /\ Len(Operator!Reverse(s)) = Len(s)
         /\ \A k \in 1..Len(s) : Operator!Reverse(s)[k] \subseteq Children
         /\ \A o \in Children : \E k \in 1..Len(s) : o \in Operator!Reverse(s)[k]
<1>1. s \in Seq(SUBSET Children) /\ Len(s) \in Nat /\ DOMAIN s = 1..Len(s)
  BY DEF WholeCleanup
<1>2. PICK n \in Nat : n = Len(s)
  BY <1>1, Zenon
<1>3. PICK h \in Int : n = 2 * h
  <2>1. n % 2 = 0
    BY <1>2 DEF WholeCleanup
  <2> QED
    BY <2>1, Z3
<1>4. \A k \in 1..n : n + 1 - k \in 1..n /\ k # n + 1 - k /\ n + 1 - (n + 1 - k) = k
  BY <1>3
<1> DEFINE R == Operator!Reverse(s)
<1>5. R = [k \in 1..n |-> s[n + 1 - k]]
  BY <1>2, <1>4, ZenonT(30) DEF Operator!Reverse
<1> HIDE DEF R
<1>6. DOMAIN R = 1..n /\ \A k \in 1..n : R[k] = s[n + 1 - k] /\ R[k] \subseteq Children
  BY <1>1, <1>2, <1>4, <1>5
<1>7. Len(R) = n
  BY <1>2, <1>5, <1>6
<1>8. ASSUME NEW o \in Children PROVE \E k \in 1..n : o \in R[k]
  <2>1. PICK j \in 1..n : o \in s[j]
    BY <1>1, <1>2 DEF WholeCleanup, Operator!All
  <2>2. n + 1 - j \in 1..n /\ R[n + 1 - j] = s[j]
    BY <1>4, <1>6
  <2> QED
    BY <2>1, <2>2
<1> QED
  BY <1>2, <1>6, <1>7, <1>8, Zenon DEF R

(* Reconcile's own steps, while it waits for nothing. *)
LEMMA OwnStep ==
  ASSUME ControllerInv, Quiet, IndInv', UNCHANGED cleanupStrategy,
         ~waiting \/ (pc' = pc /\ children' = children)
  PROVE  ControllerInv'
<1>1. FinalizerCleanup' /\ Calling' /\ phase' \in [Children -> Operator!Phases]
  BY ZenonT(30) DEF ControllerInv, Quiet, operator, Calling, FinalizerCleanup, Operator!Results,
         Operator!Errors, Operator!Phases
<1>2. waiting' /\ pc' = "cleanup" => Emptied'
  BY DEF ControllerInv, Quiet, operator, Emptied, Operator!Reverse
<1> QED
  BY <1>1, <1>2 DEF ControllerInv

(* Reconcile calls the operator, which is not suspended. *)
LEMMA CallStep ==
  ASSUME WholeCleanup, ControllerInv, CallOperator
  PROVE  ControllerInv'
<1>1. /\ waiting' = TRUE /\ UNCHANGED <<reconciler, budget>>
      /\ \/ pc = "operate" /\ Operator!Execute("Ensure", order)
         \/ pc = "cleanup" /\ Operator!Execute("Cleanup", Operator!Reverse(order))
  BY DEF CallOperator, WholeCleanup, Operator!Ensure, Operator!Cleanup
<1>2. /\ opPc' = "exec" /\ i' = 1 /\ phase' = [o \in Children |-> "idle"]
      /\ UNCHANGED <<order, strategy, always, children, opResult>> /\ errs' = {}
      /\ pc = "operate" => call' = "Ensure"
      /\ pc = "cleanup" => call' = "Cleanup" /\ run' = Operator!Reverse(order)
      /\ pc \in {"operate", "cleanup"} /\ UNCHANGED <<pc, cleanupStrategy>>
  BY <1>1 DEF Operator!Execute, Operator!config, reconciler
<1>3. IndInv'
  <2>1. UNCHANGED vars
    BY <1>1, <1>2, ZenonT(30) DEF vars, reconciler
  <2> QED
    BY <2>1, Untouched DEF ControllerInv
<1>4. FinalizerCleanup' /\ Calling' /\ phase' \in [Children -> Operator!Phases]
  BY <1>1, <1>2, ZenonT(30) DEF ControllerInv, Calling, FinalizerCleanup, Operator!Results,
                    Operator!Errors, Operator!Phases
<1>5. pc = "cleanup" => Emptied'
  <2> SUFFICES ASSUME pc = "cleanup" PROVE Emptied'
    OBVIOUS
  <2>1. run' = Operator!Reverse(order') /\ i' \in Nat /\ opPc' # "idle"
    BY <1>2, Zenon DEF Operator!Reverse
  <2>2. \A k \in DOMAIN run' : ~(k < i')
    <3>1. order \in Orders /\ run' = Operator!Reverse(order) /\ i' = 1
      BY <1>2, Zenon DEF ControllerInv, Calling
    <3>2. DOMAIN run' = 1..Len(order) /\ Len(order) \in Nat
      BY <3>1, ReverseCovers, Zenon
    <3> QED
      BY <3>1, <3>2, Indices, Zenon
  <2>3. \A o \in Children : phase'[o] = "idle"
    BY <1>2, ZenonT(30)
  <2> QED
    BY <2>1, <2>2, <2>3 DEF Emptied, Operator!Reverse
<1> QED
  BY <1>2, <1>3, <1>4, <1>5 DEF ControllerInv

(* What a step of the operator leaves to Reconcile. *)
LEMMA RunsStep ==
  ASSUME ControllerInv, waiting, UNCHANGED <<reconciler, waiting, order, always, call>>,
         budget' \in [Kinds -> Nat],
         children' \subseteq Children, call = "Cleanup" => children' \subseteq children,
         opPc' \in {"idle", "exec"}, opResult' \in Operator!Results,
         errs' \subseteq Operator!Errors, phase' \in [Children -> Operator!Phases],
         pc = "cleanup" => Emptied'
  PROVE  ControllerInv'
<1>0. UNCHANGED <<cleanupStrategy, hist, seen, queued, pc, rv, result, returned>>
  BY DEF reconciler
<1>1. IndInv'
  <2>1. IndInv /\ pc \in {"operate", "cleanup"} /\ (pc = "cleanup" => call = "Cleanup")
        /\ result \in [requeue : BOOLEAN, err : BOOLEAN] /\ TypeOK
    BY DEF ControllerInv, Calling, IndInv, TypeOK
  <2>2. CASE pc = "operate"
    BY <1>0, <2>1, <2>2, Operating, ZenonT(30)
  <2>3. CASE pc = "cleanup"
    <3>1. Written(object)
      BY <1>0, ZenonT(30) DEF Written
    <3>2. StageAt(instance, pc', children')
      BY <1>0, <2>1, <2>3, ZenonT(30) DEF IndInv, Stage, StageAt
    <3> QED
      BY <1>0, <2>1, <2>3, <3>1, <3>2, RequestStep, ZenonT(30) DEF TypeOK
  <2> QED
    BY <2>1, <2>2, <2>3, ZenonT(30)
<1>2. FinalizerCleanup' /\ Calling'
  BY <1>0 DEF ControllerInv, Calling, FinalizerCleanup, Operator!Results, Operator!Errors
<1> QED
  BY <1>0, <1>1, <1>2 DEF ControllerInv, Operator!Phases

(* An operand of the current step runs, and during Cleanup deletes. *)
LEMMA OperandStep ==
  ASSUME ControllerInv, waiting, UNCHANGED <<reconciler, waiting>>,
         budget' \in [Kinds -> Nat], NEW o \in Children, Operator!Operand(o)
  PROVE  ControllerInv'
<1> USE DEF Operator!Operand, Operator!OpEnsure, Operator!OpReadyCheck,
            Operator!OpPostReady, Operator!OpDelete, Operator!Advance, Operator!Fail,
            Operator!Succeed, Operator!config
<1>1. /\ children \subseteq Children /\ phase \in [Children -> Operator!Phases]
      /\ opResult \in Operator!Results /\ opPc \in {"idle", "exec"}
  BY ZenonT(30) DEF ControllerInv, Calling, IndInv, TypeOK
<1>2. /\ UNCHANGED <<order, always, opPc, call, run, i, opResult>>
      /\ opPc = "exec"
  BY ZenonT(30) DEF Operator!Runs
<1>3. children' \subseteq Children /\ (call = "Cleanup" => children' \subseteq children)
  BY <1>1, ZenonT(30)
<1>4. PICK to \in Operator!Phases : phase' = [phase EXCEPT ![o] = to]
  BY ZenonT(30) DEF Operator!Phases
<1>5. errs' \subseteq Operator!Errors
  BY ZenonT(30) DEF ControllerInv, Calling, Operator!Errors
<1>6. ASSUME pc = "cleanup" PROVE Emptied'
  <2>1. Emptied /\ call = "Cleanup"
    BY <1>6, ZenonT(30) DEF ControllerInv, Calling
  <2>2. \/ to = "ok" /\ children' = children \ {o} /\ errs' = errs
        \/ to = "failed" /\ children' \subseteq children /\ errs' = errs \cup {"other"}
    BY <1>1, <1>4, <2>1, ZenonT(30)
  <2>3. \A p \in Children : phase'[p] = IF p = o THEN to ELSE phase[p]
    BY <1>1, <1>4
  <2>4. run' = Operator!Reverse(order')
    BY <1>2, <2>1, ZenonT(30) DEF Emptied, Operator!Reverse
  <2>5. \A k \in DOMAIN run' : k < i' => run'[k] \cap children' = {}
    BY <1>2, <2>1, <2>2, ZenonT(30) DEF Emptied
  <2>6. \A p \in Children : phase'[p] = "ok" => p \notin children'
    BY <2>1, <2>2, <2>3, ZenonT(30) DEF Emptied
  <2>7. \A p \in Children : phase'[p] = "failed" => errs' # {}
    BY <2>1, <2>2, <2>3, ZenonT(30) DEF Emptied
  <2> QED
    BY <1>2, <2>1, <2>4, <2>5, <2>6, <2>7, Zenon DEF Emptied
<1> QED
  BY <1>1, <1>2, <1>3, <1>4, <1>5, <1>6, RunsStep, ZenonT(30)

(* A step of the order is over: the call fails, or goes on. *)
LEMMA StepEnds ==
  ASSUME WholeCleanup, ControllerInv, waiting, UNCHANGED <<reconciler, waiting, budget>>,
         Operator!EndStep
  PROVE  ControllerInv'
<1>1. /\ children \subseteq Children /\ phase \in [Children -> Operator!Phases]
      /\ opResult \in Operator!Results /\ order \in Orders /\ always = {}
      /\ budget \in [Kinds -> Nat] /\ errs \subseteq Operator!Errors
  BY ZenonT(30) DEF ControllerInv, Calling, IndInv, TypeOK
<1>2. /\ UNCHANGED <<order, always, children, call, run, phase, errs, budget>>
      /\ opPc = "exec" /\ i <= Len(run) /\ Operator!StepOver
      /\ \/ /\ errs # {} /\ opPc' = "idle" /\ opResult' = Operator!Failed /\ i' = i
         \/ /\ errs = {} /\ opPc' = "exec" /\ opResult' = opResult /\ i' = i + 1
  BY <1>1, ZenonT(30) DEF Operator!EndStep, Operator!Return, Operator!Continue, Operator!config,
              Operator!StepRequeueAlways
<1>3. opResult' \in Operator!Results
  BY <1>1, <1>2, Zenon DEF Operator!Failed, Operator!Requeue, Operator!NoResult,
                    Operator!Results
<1>4. ASSUME pc = "cleanup" PROVE Emptied'
  <2>1. Emptied /\ call = "Cleanup"
    BY <1>4 DEF ControllerInv, Calling
  <2>2. /\ DOMAIN run = 1..Len(run) /\ Len(run) \in Nat
        /\ \A k \in DOMAIN run : run[k] \subseteq Children
    <3>1. run = Operator!Reverse(order) /\ order \in Orders
      BY <1>1, <2>1, Zenon DEF Emptied
    <3>2. /\ DOMAIN run = 1..Len(order) /\ Len(order) \in Nat /\ Len(run) = Len(order)
          /\ \A k \in 1..Len(order) : run[k] \subseteq Children
      BY <3>1, ReverseCovers, Zenon
    <3> QED
      BY <3>2, Zenon
  <2>3. ASSUME errs = {}, i \in DOMAIN run PROVE run[i] \cap children = {}
    BY <1>1, <1>2, <2>1, <2>2, <2>3, ZenonT(30) DEF Emptied, Operator!StepOver, Operator!Stopped
  <2>4. \A k \in DOMAIN run : k < i' => run[k] \cap children = {}
    <3> SUFFICES ASSUME NEW k \in DOMAIN run, k < i' PROVE run[k] \cap children = {}
      BY ZenonT(30)
    <3>1. CASE k < i
      BY <2>1, <3>1, ZenonT(30) DEF Emptied
    <3>2. CASE ~(k < i)
      <4>1. errs = {} /\ k = i
        BY <1>2, <2>1, <2>2, <3>2 DEF Emptied
      <4> QED
        BY <2>3, <4>1, ZenonT(30)
    <3> QED
      BY <3>1, <3>2
  <2>5. opPc' = "idle" => opResult'.err # {}
    BY <1>2, <2>1, ZenonT(30) DEF Operator!Failed, Operator!Requeue, Operator!NoResult
  <2>6. run' = Operator!Reverse(order') /\ i' \in Nat
    <3>1. run' = Operator!Reverse(order') /\ i \in Nat
      BY <1>2, <2>1, Zenon DEF Emptied, Operator!Reverse
    <3> QED
      BY <1>2, <3>1, Indices, Zenon
  <2> QED
    BY <1>2, <2>1, <2>4, <2>5, <2>6 DEF Emptied
<1> QED
  BY <1>1, <1>2, <1>3, <1>4, RunsStep, ZenonT(30)

(* All the steps are over: a Cleanup has left no child. *)
LEMMA OrderEnds ==
  ASSUME WholeCleanup, ControllerInv, waiting, UNCHANGED <<reconciler, waiting, budget>>,
         Operator!EndOrder
  PROVE  ControllerInv'
<1>1. /\ children \subseteq Children /\ phase \in [Children -> Operator!Phases]
      /\ order \in Orders /\ budget \in [Kinds -> Nat] /\ errs \subseteq Operator!Errors
  BY DEF ControllerInv, Calling, IndInv, TypeOK
<1>2. /\ UNCHANGED <<order, always, children, call, run, i, phase, errs, budget>>
      /\ opPc' = "idle" /\ i > Len(run) /\ opResult' = Operator!NoResult
  BY ZenonT(30) DEF Operator!EndOrder, Operator!Return, Operator!config
<1>3. opResult' \in Operator!Results
  BY <1>2, ZenonT(30) DEF Operator!NoResult, Operator!Results
<1>4. ASSUME pc = "cleanup" PROVE Emptied'
  <2>1. Emptied
    BY <1>4, ZenonT(30) DEF ControllerInv
  <2>2. /\ DOMAIN run = 1..Len(run) /\ Len(run) \in Nat
        /\ \A o \in Children : \E k \in DOMAIN run : o \in run[k]
    BY <1>1, <2>1, ReverseCovers, ZenonT(30) DEF Emptied
  <2>3. \A k \in DOMAIN run : k < i
    <3>1. i \in Nat
      BY <2>1, Zenon DEF Emptied
    <3> QED
      BY <1>2, <2>2, <3>1, Indices, Zenon
  <2>4. children = {}
    BY <1>1, <2>1, <2>2, <2>3, ZenonT(30) DEF Emptied
  <2>5. run' = Operator!Reverse(order')
    BY <1>2, <2>1 DEF Emptied, Operator!Reverse
  <2> QED
    BY <1>2, <2>1, <2>4, <2>5 DEF Emptied
<1> QED
  BY <1>1, <1>2, <1>3, <1>4, RunsStep

(* The call returns: without an error, the finalizer may go. *)
LEMMA ReturnsStep ==
  ASSUME ControllerInv, OperatorReturns
  PROVE  ControllerInv'
<1>1. /\ IndInv /\ TypeOK /\ children \subseteq Children /\ waiting /\ opPc = "idle"
      /\ opResult \in Operator!Results /\ budget \in [Kinds -> Nat]
      /\ waiting' = FALSE /\ UNCHANGED <<operator, budget>>
  BY ZenonT(30) DEF OperatorReturns, ControllerInv, Calling, IndInv, TypeOK
<1>2. OperatorResult \in [requeue : BOOLEAN, err : BOOLEAN]
  BY <1>1 DEF OperatorResult, Operator!Results
<1>3. /\ UNCHANGED <<cleanupStrategy, hist, seen, rv, queued, returned, children>>
      /\ result' = OperatorResult
  BY DEF OperatorReturns, OperateReturns, CleanupReturns, Goto
<1>4. IndInv'
  <2>1. CASE OperateReturns(children, OperatorResult)
    <3>1. pc = "operate" /\ pc' = "status"
      BY <2>1, ZenonT(30) DEF OperateReturns, Goto
    <3> QED
      BY <1>1, <1>2, <1>3, <3>1, Operating
  <2>2. CASE CleanupReturns(children, OperatorResult)
    <3>1. /\ pc = "cleanup" /\ pc' \in {"status", "remove"}
          /\ pc' = "remove" => ~OperatorResult.err
      BY <2>2 DEF CleanupReturns, Goto
    <3>2. pc' = "remove" => children = {}
      BY <1>1, <3>1, ZenonT(30) DEF ControllerInv, Emptied, OperatorResult
    <3>3. StageAt(instance, pc', children')
      BY <1>1, <1>3, <3>1, <3>2 DEF IndInv, Stage, StageAt
    <3>4. "callback" \in Kinds
      BY ZenonT(30) DEF Kinds
    <3> QED
      BY <1>1, <1>2, <1>3, <3>1, <3>3, <3>4, NoWrite DEF TypeOK
  <2> QED
    BY <2>1, <2>2 DEF OperatorReturns
<1>5. FinalizerCleanup' /\ Calling' /\ phase' \in [Children -> Operator!Phases]
  BY <1>1, <1>3, ZenonT(30) DEF ControllerInv, Calling, FinalizerCleanup, operator, Operator!Results,
                    Operator!Errors, Operator!Phases
<1> QED
  BY <1>1, <1>4, <1>5, ZenonT(30) DEF ControllerInv

(* The process restarts, and the call is lost. *)
LEMMA RestartAllStep ==
  ASSUME ControllerInv, RestartAll
  PROVE  ControllerInv'
<1>1. IndInv' /\ UNCHANGED <<cleanupStrategy, order, always>>
  BY RestartStep DEF RestartAll, Restart, ControllerInv
<1>2. /\ waiting' = FALSE /\ opPc' = "idle" /\ errs' = {}
      /\ phase' = [o \in Children |-> "idle"] /\ opResult' = Operator!NoResult
  BY DEF RestartAll
<1> QED
  BY <1>1, <1>2 DEF ControllerInv, Calling, FinalizerCleanup, Operator!Results,
                    Operator!NoResult, Operator!Phases

(* The operator runs; the failure of an operand is counted. *)
LEMMA OperatorStep ==
  ASSUME WholeCleanup, ControllerInv, OperatorRuns
  PROVE  ControllerInv'
<1>1. waiting /\ UNCHANGED <<reconciler, waiting>> /\ TypeOK
  BY DEF OperatorRuns, ControllerInv, IndInv
<1>2. budget' \in [Kinds -> Nat]
  BY <1>1, BudgetType DEF OperatorRuns, Kinds
<1>3. ASSUME NEW o \in Children, Operator!Operand(o) PROVE ControllerInv'
  BY <1>1, <1>2, <1>3, OperandStep
<1>4. ASSUME Operator!EndStep \/ Operator!EndOrder PROVE UNCHANGED budget
  <2>1. phase' = phase
    BY <1>4, ZenonT(30) DEF Operator!EndStep, Operator!EndOrder, Operator!Return, Operator!Continue
  <2> QED
    BY <2>1, ZenonT(30) DEF OperatorRuns
<1> QED
  BY <1>1, <1>3, <1>4, StepEnds, OrderEnds DEF OperatorRuns

(* The new object, and the new operator. *)
LEMMA ControllerStarts == WholeCleanup /\ ControllerInit => ControllerInv
<1> SUFFICES ASSUME WholeCleanup, ControllerInit PROVE ControllerInv
  OBVIOUS
<1>1. IndInv /\ FinalizerCleanup /\ waiting = FALSE /\ always = {}
  BY InitInd DEF ControllerInit, WholeCleanup
<1>2. /\ order \in Orders /\ opPc = "idle" /\ errs = {}
      /\ phase = [o \in Children |-> "idle"] /\ opResult = Operator!NoResult
  BY DEF ControllerInit, Operator!Init
<1> QED
  BY <1>1, <1>2 DEF ControllerInv, Calling, Operator!Results, Operator!NoResult,
                    Operator!Phases

(* Every step keeps the controller's invariant. *)
LEMMA ControllerStep ==
  WholeCleanup /\ ControllerInv /\ [ControllerNext]_allVars => ControllerInv'
<1> SUFFICES ASSUME WholeCleanup, ControllerInv, [ControllerNext]_allVars
             PROVE  ControllerInv'
  OBVIOUS
<1>0. IndInv /\ (waiting => pc \in {"operate", "cleanup"})
  BY DEF ControllerInv, Calling
<1>1. ASSUME Get \/ Initialize \/ cleanupHandler \/ removeFinalizer \/ UpdateStatus, Quiet
      PROVE  ControllerInv'
  <2>1. ~waiting /\ UNCHANGED cleanupStrategy
    BY <1>0, <1>1 DEF Get, Initialize, cleanupHandler, removeFinalizer, UpdateStatus
  <2>2. IndInv'
    BY <1>0, <1>1, GetStep, InitializeStep, HandlerStep, RemoveStep, StatusStep
  <2> QED
    BY <1>1, <2>1, <2>2, OwnStep
<1>2. ASSUME EditSpec \/ Delete \/ Release \/ Watch, Quiet PROVE ControllerInv'
  <2>1. UNCHANGED <<cleanupStrategy, pc, children>>
    BY <1>2, Zenon DEF EditSpec, Delete, Release, UserWrites, Watch
  <2>2. IndInv'
    BY <1>0, <1>2, Users, WatchStep
  <2> QED
    BY <1>2, <2>1, <2>2, OwnStep
<1>3. CASE UNCHANGED allVars
  <2>1. UNCHANGED vars /\ Quiet
    BY <1>3 DEF allVars, Quiet
  <2>2. UNCHANGED <<cleanupStrategy, pc, children>>
    BY <2>1 DEF vars
  <2> QED
    BY <1>0, <2>1, <2>2, Untouched, OwnStep
<1> QED
  BY <1>1, <1>2, <1>3, CallStep, OperatorStep, ReturnsStep, RestartAllStep
     DEF ControllerNext, ReconcilerRuns

(***************************************************************************)
(* A controller that leaves its children to a composite operator guards    *)
(* them just as well, while users, the informer and restarts come between  *)
(* the operands of a call, if the operator's Cleanup is a whole one.       *)
(***************************************************************************)
THEOREM OperatorChildrenGuarded == WholeCleanup => (ControllerSpec => []ChildrenGuarded)
<1> SUFFICES ASSUME WholeCleanup PROVE ControllerSpec => []ChildrenGuarded
  OBVIOUS
<1>1. ControllerInit => ControllerInv
  BY ControllerStarts
<1>2. ControllerInv /\ [ControllerNext]_allVars => ControllerInv'
  BY ControllerStep
<1>3. ControllerInv => ChildrenGuarded
  BY DEF ControllerInv, IndInv
<1> QED
  BY <1>1, <1>2, <1>3, PTL DEF ControllerSpec

(***************************************************************************)
(* "Once all custom cleanup code finished, the finalizer from the parent   *)
(* object is removed" (composite.go): refuted by TLC for an operator with a *)
(* RequeueAlways operand (MCCompositeControllerRequeue), it holds for every *)
(* operator whose Cleanup is a whole one.                                  *)
(***************************************************************************)
THEOREM RemovedLastHolds == WholeCleanup => (ControllerSpec => []FinalizerRemovedLast)
<1> SUFFICES ASSUME WholeCleanup PROVE ControllerSpec => []FinalizerRemovedLast
  OBVIOUS
<1>1. ControllerInit => ControllerInv
  BY ControllerStarts
<1>2. ControllerInv /\ [ControllerNext]_allVars => ControllerInv'
  BY ControllerStep
<1>3. ControllerInv => FinalizerRemovedLast
  BY DEF ControllerInv, IndInv, ChildrenGuarded, FinalizerRemovedLast
<1> QED
  BY <1>1, <1>2, <1>3, PTL DEF ControllerSpec

-----------------------------------------------------------------------------
(* The same controller at rest, and the steps of its finalizer.             *)

(* How far Ensure has come, as Emptied says it of Cleanup. *)
Filled ==
  /\ run = order
  /\ i \in Nat
  /\ \A k \in DOMAIN run : k < i => run[k] \subseteq children
  /\ \A o \in Children : phase[o] \in {"ensured", "ready", "ok"} => o \in children
  /\ \A o \in Children : phase[o] = "failed" => errs # {}
  /\ opPc = "idle" => opResult.requeue \/ children = Children

Filling == waiting /\ pc = "operate" => Filled

(* An operand runs, and during Ensure creates its child and keeps it. *)
LEMMA OperandFills ==
  ASSUME ControllerInv, Filling, waiting, pc = "operate",
         NEW o \in Children, Operator!Operand(o)
  PROVE  Filled'
<1> USE DEF Operator!Operand, Operator!OpEnsure, Operator!OpReadyCheck,
            Operator!OpPostReady, Operator!OpDelete, Operator!Advance, Operator!Fail,
            Operator!Succeed, Operator!config
<1>1. Filled /\ call = "Ensure" /\ phase \in [Children -> Operator!Phases]
  BY ZenonT(30) DEF Filling, ControllerInv, Calling
<1>2. opPc' = "exec" /\ UNCHANGED <<order, run, i>>
  BY ZenonT(30) DEF Operator!Runs
<1>3. children \subseteq children' /\ errs \subseteq errs'
  BY <1>1
<1>4. PICK to \in Operator!Phases \ {"idle"} :
        /\ phase' = [phase EXCEPT ![o] = to]
        /\ to = "failed" => errs' # {}
        /\ to \in {"ensured", "ready", "ok"} => o \in children'
  BY <1>1, ZenonT(30) DEF Operator!Phases, Filled
<1>5. \A p \in Children : phase'[p] = IF p = o THEN to ELSE phase[p]
  BY <1>1, <1>4, ZenonT(30)
<1>6. \A p \in Children : /\ phase'[p] \in {"ensured", "ready", "ok"} => p \in children'
                          /\ phase'[p] = "failed" => errs' # {}
  BY <1>1, <1>3, <1>4, <1>5, ZenonT(30) DEF Filled
<1> QED
  BY <1>1, <1>2, <1>3, <1>6, ZenonT(30) DEF Filled

(* The end of a step, and of the order. *)
LEMMA EndFills ==
  ASSUME WholeCleanup, ControllerInv, Filling, waiting, pc = "operate",
         Operator!EndStep \/ Operator!EndOrder
  PROVE  Filled'
<1>1. /\ Filled /\ order \in Orders /\ always = {} /\ children \subseteq Children
      /\ phase \in [Children -> Operator!Phases]
  BY DEF Filling, ControllerInv, Calling, IndInv, TypeOK
<1>2. /\ run \in Seq(SUBSET Children) /\ DOMAIN run = 1..Len(run) /\ Len(run) \in Nat
      /\ \A c \in Children : \E k \in DOMAIN run : c \in run[k]
  <2>1. run = order
    BY <1>1, Zenon DEF Filled
  <2>2. order \in Seq(SUBSET Children) /\ Operator!All(order) = Children
    BY <1>1, Zenon DEF WholeCleanup
  <2>3. \A c \in Children : \E k \in DOMAIN order : c \in order[k]
    BY <2>2, Zenon DEF Operator!All
  <2>4. DOMAIN order = 1..Len(order) /\ Len(order) \in Nat
    BY <2>2, SeqIndices, Zenon
  <2> QED
    BY <2>1, <2>2, <2>3, <2>4, Zenon
<1>3. CASE Operator!EndOrder
  <2>1. /\ UNCHANGED <<order, run, i, phase, errs, children>> /\ i > Len(run)
    BY <1>3, ZenonT(30) DEF Operator!EndOrder, Operator!Return, Operator!config
  <2>2. \A k \in DOMAIN run : run[k] \subseteq children
    BY <1>1, <1>2, <2>1 DEF Filled
  <2>3. children = Children
    BY <1>1, <1>2, <2>2, ZenonT(30)
  <2> QED
    BY <1>1, <2>1, <2>3 DEF Filled
<1>4. CASE Operator!EndStep
  <2>1. /\ UNCHANGED <<order, run, phase, errs, children>> /\ i <= Len(run)
        /\ Operator!StepOver
        /\ \/ opPc' = "idle" /\ opResult' = Operator!Failed /\ i' = i
           \/ errs = {} /\ opPc' = opPc /\ opPc = "exec" /\ i' = i + 1
    BY <1>1, <1>4, Zenon DEF Operator!EndStep, Operator!Return, Operator!Continue,
                      Operator!config, Operator!StepRequeueAlways
  <2>2. Operator!Failed.requeue = TRUE
    BY DEF Operator!Failed, Operator!Requeue, Operator!NoResult
  <2>3. ASSUME errs = {}, i \in DOMAIN run PROVE run[i] \subseteq children
    <3> SUFFICES ASSUME NEW o \in run[i] PROVE o \in children
      OBVIOUS
    <3>1. run[i] \in SUBSET Children
      BY <1>2, <2>3
    <3>2. o \in Children
      BY <3>1, Zenon
    <3>3. phase[o] \in {"ok", "failed"}
      BY <2>1, <2>3, Zenon DEF Operator!StepOver, Operator!Stopped
    <3> QED
      BY <1>1, <2>3, <3>2, <3>3, Zenon DEF Filled
  <2>4. \A k \in DOMAIN run : k < i' => run[k] \subseteq children
    <3> SUFFICES ASSUME NEW k \in DOMAIN run, k < i' PROVE run[k] \subseteq children
      BY ZenonT(30)
    <3>1. CASE k < i
      BY <1>1, <3>1, ZenonT(30) DEF Filled
    <3>2. CASE ~(k < i)
      <4>1. errs = {} /\ k = i
        BY <1>1, <1>2, <2>1, <3>2 DEF Filled
      <4> QED
        BY <2>3, <4>1, ZenonT(30)
    <3> QED
      BY <3>1, <3>2
  <2> QED
    BY <1>1, <2>1, <2>2, <2>4 DEF Filled
<1> QED
  BY <1>3, <1>4, ZenonT(30)

(* Every step keeps what is known of a running Ensure. *)
LEMMA FillingStep ==
  WholeCleanup /\ ControllerInv /\ Filling /\ [ControllerNext]_allVars => Filling'
<1> SUFFICES ASSUME WholeCleanup, ControllerInv, Filling, [ControllerNext]_allVars,
                    waiting', pc' = "operate"
             PROVE  Filled'
  BY ZenonT(30) DEF Filling
<1>1. CASE Quiet /\ UNCHANGED <<pc, children>>
  BY <1>1 DEF Quiet, operator, Filling, Filled
<1>2. ASSUME Get \/ Initialize \/ cleanupHandler \/ removeFinalizer \/ UpdateStatus, Quiet
      PROVE  FALSE
  BY <1>2 DEF Get, Initialize, cleanupHandler, removeFinalizer, UpdateStatus, Quiet,
              ControllerInv, Calling
<1>3. ASSUME EditSpec \/ Delete \/ Release \/ Watch PROVE UNCHANGED <<pc, children>>
  BY <1>3, Zenon DEF EditSpec, Delete, Release, UserWrites, Watch
<1>4. UNCHANGED allVars => Quiet /\ UNCHANGED <<pc, children>>
  BY Zenon DEF allVars, vars, Quiet
<1>5. CASE CallOperator
  <2>1. pc = "operate" /\ Operator!Execute("Ensure", order)
    BY <1>5, Zenon DEF CallOperator, WholeCleanup, Operator!Ensure, reconciler
  <2>2. /\ run' = order /\ order' = order /\ i' = 1 /\ opPc' = "exec"
        /\ phase' = [o \in Children |-> "idle"]
    BY <2>1 DEF Operator!Execute, Operator!config
  <2>3. order \in Seq(SUBSET Children)
    BY DEF ControllerInv, Calling, WholeCleanup
  <2> QED
    BY <2>2, <2>3 DEF Filled
<1>6. CASE OperatorRuns
  <2>1. waiting /\ pc = "operate"
    BY <1>6 DEF OperatorRuns, reconciler
  <2> QED
    BY <1>6, <2>1, OperandFills, EndFills, ZenonT(30) DEF OperatorRuns
<1>7. ~OperatorReturns /\ ~RestartAll
  BY DEF OperatorReturns, RestartAll
<1> QED
  BY <1>1, <1>2, <1>3, <1>4, <1>5, <1>6, <1>7 DEF ControllerNext, ReconcilerRuns

(* The steps the reconciler takes as in CompositeReconciler. *)
LEMMA OwnSteps ==
  ASSUME WholeCleanup, [ControllerNext]_allVars, ~OperatorRuns, ~OperatorReturns
  PROVE  \/ Get \/ Initialize \/ cleanupHandler \/ removeFinalizer \/ UpdateStatus
         \/ EditSpec \/ Delete \/ Release \/ Watch \/ Restart \/ UNCHANGED vars
<1>1. CallOperator => UNCHANGED vars
  BY DEF CallOperator, WholeCleanup, Operator!Ensure, Operator!Cleanup, Operator!Execute,
         reconciler, vars
<1>2. UNCHANGED allVars => UNCHANGED vars
  BY DEF allVars
<1> QED
  BY <1>1, <1>2, ZenonT(30) DEF ControllerNext, ReconcilerRuns, RestartAll

(* While the operator runs, Reconcile stays where it is. *)
LEMMA RunsRests ==
  ASSUME ControllerInv, Followed, Resting, OperatorRuns
  PROVE  Followed' /\ Resting'
<1>1. /\ UNCHANGED <<cleanupStrategy, hist, seen, queued, pc, rv, result, returned>>
      /\ pc \in {"operate", "cleanup"} /\ budget \in [Kinds -> Nat]
  BY ZenonT(30) DEF OperatorRuns, reconciler, ControllerInv, Calling, IndInv, TypeOK
<1>2. budget'["finalizer"] = budget["finalizer"]
  BY <1>1 DEF OperatorRuns, Spend, Kinds
<1>3. Followed'
  BY <1>1, <1>2, ZenonT(30) DEF Followed, Noticed, ConflictsRetried, OnlyConflicts,
                    AnotherReconciliation
<1>4. Resting'
  BY <1>1 DEF Resting, Worked, RestsReconciled, Rests, instance
<1> QED
  BY <1>3, <1>4, ZenonT(30)

(* An operator's call returns: without a requeue all children exist. *)
LEMMA ReturnsRests ==
  ASSUME ControllerInv, Filling, Followed, Resting, OperatorReturns
  PROVE  Followed' /\ Resting'
<1>1. /\ UNCHANGED <<cleanupStrategy, hist, seen, queued, rv, returned, children, budget>>
      /\ pc \in {"operate", "cleanup"} /\ pc' \in {"status", "remove"}
      /\ pc = "cleanup" => pc' = "remove" \/ OperatorResult.err
      /\ result' = OperatorResult
  BY DEF OperatorReturns, OperateReturns, CleanupReturns, Goto
<1>2. Followed'
  BY <1>1 DEF Followed, Noticed, ConflictsRetried, OnlyConflicts, AnotherReconciliation
<1>3. instance' = instance /\ instance.valid
  BY <1>1 DEF instance, Resting, Worked
<1>4. pc = "operate" => children = Children \/ OperatorResult.requeue
  BY Zenon DEF OperatorReturns, Filling, Filled, OperatorResult
<1>5. pc = "operate" /\ FinalizerCleanup => ~instance.deleting
  BY ZenonT(30) DEF ControllerInv, IndInv, Stage, StageAt
<1>6. Resting'
  BY <1>1, <1>3, <1>4, <1>5 DEF Resting, Worked, RestsReconciled, Rests, FinalizerCleanup
<1> QED
  BY <1>2, <1>6

(* Every step of the controller. *)
LEMMA ControllerRests ==
  ASSUME WholeCleanup, ControllerInv, Filling, Followed, Resting,
         [ControllerNext]_allVars
  PROVE  Followed' /\ Resting'
<1>1. IndInv
  BY DEF ControllerInv
<1>2. CASE ~OperatorRuns /\ ~OperatorReturns
  <2>1. \/ Get \/ Initialize \/ cleanupHandler \/ removeFinalizer \/ UpdateStatus
        \/ EditSpec \/ Delete \/ Release \/ Watch \/ Restart \/ UNCHANGED vars
    BY <1>2, OwnSteps
  <2>2. Followed'
    BY <1>1, <2>1, FollowedStep DEF Next
  <2> QED
    BY <1>1, <2>1, <2>2, RestingOwn
<1> QED
  BY <1>2, RunsRests, ReturnsRests

(* The controller's invariants, from the start. *)
LEMMA ControllerAlways ==
  ASSUME WholeCleanup
  PROVE  ControllerSpec => [](ControllerInv /\ Filling /\ Followed /\ Resting)
<1>1. ControllerInit => ControllerInv /\ Filling /\ Followed /\ Resting
  BY ControllerStarts, RestingStarts DEF ControllerInit, Filling
<1>2. ControllerInv /\ Filling /\ Followed /\ Resting /\ [ControllerNext]_allVars =>
        ControllerInv' /\ Filling' /\ Followed' /\ Resting'
  BY ControllerStep, FillingStep, ControllerRests
<1> QED
  BY <1>1, <1>2, PTL DEF ControllerSpec

(***************************************************************************)
(* A controller that leaves its children to a composite operator rests     *)
(* only on a reconciled object, too: a call of the operator that stops     *)
(* early is always followed by another.                                    *)
(***************************************************************************)
THEOREM OperatorRestsReconciled == WholeCleanup => (ControllerSpec => []RestsReconciled)
<1> SUFFICES ASSUME WholeCleanup PROVE ControllerSpec => []RestsReconciled
  OBVIOUS
<1>1. ControllerInv /\ Filling /\ Followed /\ Resting => RestsReconciled
  BY DEF Resting
<1> QED
  BY <1>1, ControllerAlways, PTL

(***************************************************************************)
(* Nor does it take the finalizer from an object with children left.       *)
(***************************************************************************)
THEOREM OperatorFinalizerGuards == WholeCleanup => (ControllerSpec => FinalizerGuards)
<1> SUFFICES ASSUME WholeCleanup PROVE ControllerSpec => FinalizerGuards
  OBVIOUS
<1>1. ControllerInv /\ [ControllerNext]_allVars =>
        [object.finalizer /\ ~(object').finalizer => object.deleting /\ children = {}]_vars
  <2> SUFFICES ASSUME ControllerInv, [ControllerNext]_allVars, object.finalizer,
                      ~(object').finalizer
               PROVE  object.deleting /\ children = {}
    OBVIOUS
  <2>1. IndInv
    BY DEF ControllerInv
  <2>2. OperatorRuns \/ OperatorReturns \/ UNCHANGED vars => hist' = hist
    BY Zenon DEF OperatorRuns, OperatorReturns, reconciler, OperateReturns, CleanupReturns, vars
  <2> QED
    BY <2>1, <2>2, OwnSteps, FinalizerStep
<1>2. ControllerInv /\ Filling /\ Followed /\ Resting => ControllerInv
  OBVIOUS
<1> QED
  BY <1>1, <1>2, ControllerAlways, PTL DEF ControllerSpec, FinalizerGuards
=============================================================================
