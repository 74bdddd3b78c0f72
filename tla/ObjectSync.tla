----------------------------- MODULE ObjectSync -----------------------------
(***************************************************************************)
(* The sync controllers: controller/sync/v1 and the two that embed it,     *)
(* controller/external-object-sync/v1 (garbage collection) and             *)
(* controller/metadata-sync/v1 (resync).                                   *)
(*                                                                         *)
(* k8s is one store and the external system another. hist[k] is what the   *)
(* API server stored for the name k, version after version: whether the    *)
(* object exists. The informer's cache is at version seen[k]; version 0    *)
(* is the name before its first object. Reconcile copies one object at a   *)
(* time from the cache to the external system, and the sync function,      *)
(* which Init starts in a goroutine, compares all of them periodically.    *)
(* The two share nothing but the stores.                                   *)
(*                                                                         *)
(* The user's Controller is a parameter of the code: Ensure applies a      *)
(* version, Delete removes the object, and either may fail, before or      *)
(* after it took effect.                                                   *)
(***************************************************************************)
EXTENDS Integers, Sequences, FiniteSets

CONSTANTS
  Keys,                 \* the namespaced names
  Workers,              \* MaxConcurrentReconciles of the controller
  Budget                \* Budget[k]: how often k may happen

(* What is limited: users' writes, changes made in the external system by  *)
(* others, failed lists and reads, errors of the Controller, restarts.     *)
Kinds == {"write", "drift", "api", "callback", "restart"}

ASSUME SyncAssumption == Budget \in [Kinds -> Nat] /\ Workers \in Nat

VARIABLES
  reconciler,           \* which of the three reconcilers this is
  syncFunc,             \* its sync function was added: the period is not 0
  hist,                 \* versions of the objects in the API server
  seen,                 \* the versions in the informer's cache
  queue,                \* the names in the work queue
  working,              \* the names that workers are reconciling
  instance,             \* the versions Reconcile has read for them
  external,             \* version in the external system, 0 if there is none
  round,                \* where the sync function is
  instances,            \* the versions the sync function listed
  todo,                 \* the names it has still to delete or to ensure
  budget                \* what is left of Budget

stores == <<hist, seen>>
requests == <<working, instance>>
rounds == <<round, instances, todo>>
config == <<reconciler, syncFunc>>
vars == <<config, stores, queue, requests, external, rounds, budget>>

Live(k, v) == v > 0 /\ hist[k][v]
Present(k) == Live(k, Len(hist[k]))

Spend(kind) ==
  /\ budget[kind] > 0
  /\ budget' = [budget EXCEPT ![kind] = @ - 1]

-----------------------------------------------------------------------------

(* The variables' types, and that nobody has a version that the informer's *)
(* cache has not had before, nor the cache one that was not stored.        *)
SyncTypeOK ==
  /\ reconciler \in {"sync", "external-object", "metadata"}
  /\ syncFunc \in BOOLEAN
  /\ hist \in [Keys -> Seq(BOOLEAN)]
  /\ seen \in [Keys -> Nat] /\ \A k \in Keys : seen[k] <= Len(hist[k])
  /\ queue \subseteq Keys
  /\ working \subseteq Keys
  /\ instance \in [Keys -> Nat] /\ \A k \in Keys : instance[k] <= seen[k]
  /\ external \in [Keys -> Nat]
  /\ round \in {"wait", "list", "compare", "apply"}
  /\ instances \in [Keys -> Nat] /\ \A k \in Keys : instances[k] <= seen[k]
  /\ todo \subseteq Keys
  /\ budget \in [Kinds -> Nat]

(* The base reconciler has no sync function of its own; the others add     *)
(* theirs if the period that was set is greater than zero.                 *)
SyncInit == reconciler = "sync" /\ syncFunc = FALSE
ExternalObjectInit == reconciler = "external-object" /\ syncFunc \in BOOLEAN
MetadataInit == reconciler = "metadata" /\ syncFunc \in BOOLEAN

Init ==
  /\ SyncInit \/ ExternalObjectInit \/ MetadataInit
  /\ hist = [k \in Keys |-> <<>>]
  /\ seen = [k \in Keys |-> 0]
  /\ queue = {}
  /\ working = {} /\ instance = seen
  /\ external = [k \in Keys |-> 0]
  /\ round = "wait" /\ instances = seen /\ todo = {}
  /\ budget = Budget

-----------------------------------------------------------------------------
(* Users of the API server and of the external system, and the informer.   *)

(* The object is created, updated or deleted. *)
Write(k) ==
  /\ Spend("write")
  /\ \E live \in BOOLEAN :
       /\ Present(k) \/ live
       /\ hist' = [hist EXCEPT ![k] = Append(@, live)]
  /\ UNCHANGED <<config, seen, queue, requests, external, rounds>>

(* Somebody else changes or removes the external object. *)
Drift(k) ==
  /\ Spend("drift")
  /\ \E v \in 0..Len(hist[k]) : external' = [external EXCEPT ![k] = v]
  /\ UNCHANGED <<config, stores, queue, requests, rounds>>

(* The watch delivers the next version; its event enqueues the name. *)
Watch(k) ==
  /\ seen[k] < Len(hist[k])
  /\ seen' = [seen EXCEPT ![k] = @ + 1]
  /\ queue' = queue \union {k}
  /\ UNCHANGED <<config, hist, requests, external, rounds, budget>>

(* A new process lists what exists. Names deleted meanwhile have no event. *)
Restart ==
  /\ Spend("restart")
  /\ seen' = [k \in Keys |-> Len(hist[k])]
  /\ queue' = {k \in Keys : Present(k)}
  /\ working' = {} /\ instance' = [k \in Keys |-> 0]
  /\ round' = "wait" /\ todo' = {} /\ instances' = [k \in Keys |-> 0]
  /\ UNCHANGED <<config, hist, external>>

-----------------------------------------------------------------------------
(* The Controller. *)

Ensured(k, v) == external' = [external EXCEPT ![k] = v]
Deleted(k) == external' = [external EXCEPT ![k] = 0]

(* A call that returns an error, with or without having taken effect. *)
Fails(call) == Spend("callback") /\ (call \/ UNCHANGED external)

-----------------------------------------------------------------------------
(* Reconcile. *)

(* A worker takes a name that no other worker has, and reads the cache. *)
Get(k) ==
  /\ k \in queue \ working /\ Cardinality(working) < Workers
  /\ queue' = queue \ {k}
  /\ working' = working \union {k}
  /\ instance' = [instance EXCEPT ![k] = seen[k]]
  /\ UNCHANGED <<config, stores, external, rounds, budget>>

(* Another error than NotFound: it is returned, and the name queued again. *)
GetFails(k) ==
  /\ k \in queue \ working
  /\ Spend("api")
  /\ UNCHANGED <<config, stores, queue, requests, external, rounds>>

(* Not found means that it was deleted. *)
Apply(k) ==
  IF Live(k, instance[k]) THEN Ensured(k, instance[k]) ELSE Deleted(k)

(* Mutant of Return: the error is not returned. *)
ReturnDropsError(k, requeue) ==
  /\ working' = working \ {k}
  /\ instance' = [instance EXCEPT ![k] = 0]
  /\ UNCHANGED <<queue, config, stores, rounds>>

(* The result; a request that failed is queued again. *)
Return(k, requeue) ==
  /\ working' = working \ {k}
  /\ instance' = [instance EXCEPT ![k] = 0]
  /\ queue' = IF requeue THEN queue \union {k} ELSE queue
  /\ UNCHANGED <<config, stores, rounds>>

Reconcile(k) ==
  /\ k \in working
  /\ \/ Apply(k) /\ Return(k, FALSE) /\ UNCHANGED budget
     \/ Fails(Apply(k)) /\ Return(k, TRUE)

-----------------------------------------------------------------------------
(* The sync function: collectGarbage or resync. *)

NamespacedNames == {k \in Keys : Live(k, instances[k])}

(* Mutant of NamespacedNamesDiff: the arguments the other way round. *)
NamespacedNamesDiffSwapped(a, b) == b \ a

NamespacedNamesDiff(a, b) == a \ b

(* After the delay at startup, and then whenever the ticker fires. *)
Tick ==
  /\ syncFunc /\ round = "wait"
  /\ round' = "list"
  /\ UNCHANGED <<config, stores, queue, requests, external, instances, todo, budget>>

List ==
  /\ round = "list"
  /\ instances' = seen
  /\ round' = "compare"
  /\ UNCHANGED <<config, stores, queue, requests, external, todo, budget>>

(* Listing, or converting what was listed, fails: this round is over. *)
ListFails ==
  /\ round \in {"list", "compare"}
  /\ Spend("api")
  /\ round' = "wait" /\ instances' = [k \in Keys |-> 0]
  /\ UNCHANGED <<config, stores, queue, requests, external, todo>>

(* Mutant of Garbage: only what the cache has never seen. *)
GarbageNeverSeen == {k \in Keys : external[k] # 0 /\ instances[k] = 0}

(* The external objects are listed now, the k8s objects were before. *)
Garbage == NamespacedNamesDiff({k \in Keys : external[k] # 0}, NamespacedNames)

(* Mutant of Diff: an object that is missing there is no difference. *)
DiffOfExisting ==
  {k \in NamespacedNames : external[k] # 0 /\ external[k] # instances[k]}

(* What Controller.Diff finds of the listed objects. *)
Diff == {k \in NamespacedNames : external[k] # instances[k]}

Compare ==
  /\ round = "compare"
  /\ todo' = IF reconciler = "external-object" THEN Garbage ELSE Diff
  /\ round' = "apply"
  /\ UNCHANGED <<config, stores, queue, requests, external, instances, budget>>

(* One object of the loop: an error is logged and the loop goes on. *)
CollectOne(k) == reconciler = "external-object" /\ Deleted(k)
ResyncOne(k) == reconciler = "metadata" /\ Ensured(k, instances[k])

SyncOne(k) ==
  /\ round = "apply" /\ k \in todo
  /\ LET call == CollectOne(k) \/ ResyncOne(k)
     IN (call /\ UNCHANGED budget) \/ Fails(call)
  /\ todo' = todo \ {k}
  /\ UNCHANGED <<config, stores, queue, requests, round, instances>>

EndRound ==
  /\ round = "apply" /\ todo = {}
  /\ round' = "wait" /\ instances' = [k \in Keys |-> 0]
  /\ UNCHANGED <<config, stores, queue, requests, external, todo, budget>>

-----------------------------------------------------------------------------

Next ==
  \/ \E k \in Keys :
       \/ Write(k) \/ Drift(k) \/ Watch(k)
       \/ Get(k) \/ GetFails(k) \/ Reconcile(k) \/ SyncOne(k)
  \/ Restart
  \/ Tick \/ List \/ ListFails \/ Compare \/ EndRound

Spec == Init /\ [][Next]_vars

(* The watch, the workers and the goroutine of the sync function go on;    *)
(* the work queue is first in, first out.                                  *)
Fairness ==
  /\ \A k \in Keys :
       WF_vars(Watch(k)) /\ SF_vars(Get(k)) /\ WF_vars(Reconcile(k)) /\ WF_vars(SyncOne(k))
  /\ WF_vars(Tick) /\ WF_vars(List) /\ WF_vars(Compare) /\ WF_vars(EndRound)

FairSpec == Spec /\ Fairness

-----------------------------------------------------------------------------

(* The versions of k since the oldest read that is still in use. *)
Window(k) ==
  LET ofReconcile == IF k \in working THEN instance[k]..seen[k] ELSE {}
      ofRound == IF round \in {"compare", "apply"} THEN instances[k]..seen[k] ELSE {}
  IN  {seen[k]} \union ofReconcile \union ofRound

(* Neither Reconcile nor collectGarbage deletes the external object of an  *)
(* object that the cache has held ever since they read it: only an absence *)
(* the process has seen itself justifies a deletion, however the steps of  *)
(* the two, the users' writes and the watch interleave.                    *)
HeldIsKept ==
  [][\A k \in Keys :
       /\ external[k] # 0 /\ external'[k] = 0
       /\ budget'["drift"] = budget["drift"]
       => \E v \in Window(k) : ~Live(k, v)]_vars

Quiet(kind) == budget[kind] = Budget[kind]

(* Without a sync function, changes by others and restarts, the external   *)
(* system ends up with exactly the objects of k8s, each in its latest      *)
(* version: stale reads and failed calls of Reconcile are made good.       *)
Mirrored ==
  \A k \in Keys :
    <>[](~syncFunc /\ Quiet("drift") /\ Quiet("restart")
          => external[k] = IF Present(k) THEN Len(hist[k]) ELSE 0)

(* Garbage collection makes good what Reconcile cannot: after restarts     *)
(* that lose the events of deletions, and after changes by others, no      *)
(* external object stays without its k8s object.                           *)
Collected ==
  \A k \in Keys :
    <>[](reconciler = "external-object" /\ syncFunc /\ ~Present(k)
          => external[k] = 0)

(* Resync makes good changes by others, and its own late writes of old     *)
(* versions: every k8s object ends up in its latest version outside.       *)
Resynced ==
  \A k \in Keys :
    <>[](reconciler = "metadata" /\ syncFunc /\ Present(k)
          => external[k] = Len(hist[k]))
=============================================================================
