# Verification of operator-toolkit

operator-toolkit is a Go library for Kubernetes operators. This directory holds
TLA+ models of its core, the TLC configurations that check them on small
instances, and TLAPS proofs of their main invariants for all instances. The
models are translated from the code; where a comment of the code promises more
than the code does, a run shows the difference (see *Findings*).

## The system and its parts

| Part | Code | Model |
|---|---|---|
| Operand graph: orders operands by what they require | `operator/v1/dag` | `OperandDAG` |
| Order and operand calls: `Reverse`, requeue strategy, `CallEnsure`, `CallCleanup` | `operator/v1/operand` | `CompositeOperator` |
| Executor: runs steps serially or in goroutines | `operator/v1/executor` | `CompositeOperator`, `StepwiseExecution` |
| Composite operator: `Ensure`, `Cleanup`, suspension | `operator/v1` | `CompositeOperator` |
| Composite controller: `Reconcile`, `cleanupHandler` | `controller/composite/v1` | `CompositeReconciler` |
| Controller that calls the operator | as in `example/controllers/game` | `CompositeController` |
| Sync controllers: sync, external object, metadata | `controller/sync`, `external-object-sync`, `metadata-sync` | `ObjectSync` |
| Stateless action controller | `controller/stateless-action` | `StatelessAction` |
| Namespace recorder, a stateless action | `example/controllers/nsrecorder_controller.go` | `NamespaceRecorder` |
| Webhook certificate manager, provisioner, secret writer, generator | `webhook/cert`, `internal/webhook/cert` | `CertManager` |
| Informer cache | `cache`, `cache/informer` | `InformersMap` |
| Admission handlers and functions, singleton | `webhook/admission`, `webhook/function`, `singleton` | `Admission` |
| RBAC recorder | `rbac/client` | `RBACRecorder` |
| Composite client, event source, and all of these together | `client/composite`, `source` | `ClientStack` |
| Object helpers | `object` | in `CompositeReconciler` and `ObjectSync` |
| The rest | | see *Not modelled* |

How they interact. `NewCompositeOperator` builds the graph once and keeps its
order. The manager's work queue calls `Reconcile` with an object's name.
`Reconcile` reads the object from the informer's cache, initializes its status,
adds or removes the finalizer, and calls the user's `Operate` or `Cleanup`,
which call the operator's `Ensure` or `Cleanup`. The operator hands the order to
the executor, which runs the operands. Every write to the object comes back
through the watch as a new version and a new entry in the queue.

The sync controllers have a `Reconcile` of their own, which copies objects to an
external system, and a goroutine beside it that compares the two systems
periodically. The stateless-action controller's `Reconcile` starts goroutines
that nobody waits for. The certificate manager of every replica works on one
secret, on webhook configurations and CRDs, and on its own certificate
directory. Admission handlers and other callers use the composite client, which
asks the informer cache first, perhaps through the recording client; a source
watches the same cache for a controller, and what the handlers admit changes the
objects that the cache lists and watches.

## The modules

**`OperandDAG`** (`dag.go`). `NewOperandDAG` refuses repeated names, unknown
requirements and cycles; `solveStep(c)` is one iteration of the loop over the
current roots; `solve` ends a pass; `Order` is the result. `order` is the map
the code fills, so a pass sees what it has just put there. Roots of a pass are
visited in any order. The graph library `goombaio/dag` is external. `dag.go`
itself tests neither for cycles nor for repeated names: it returns the errors of
the library's `AddVertex` and `AddEdge`. That these refuse repeated names and
cycles is an assumption of the model (`composite_operator.go:89` takes it for
granted: "If the relationships do not form a proper DAG, an error is returned").
`OrderTotal` and `OrderTerminates` both depend on it; `RequiredNotLater` does
not.

**`CompositeOperator`** (`composite_operator.go`, `executor.go`, `operand.go`,
`order.go`). `Ensure` and `Cleanup` start a call, the `Op...` actions are the
calls an operand's goroutine makes, `EndStep` and `EndOrder` are the loop of
`ExecuteOperands`. `Runs` separates the strategies: all operands of a step at
once, or one after the other and none after an error. `Reverse` is written as
the code computes it. Operands are the user's: each call succeeds, fails, or
fails after its change was applied. The execution strategy and the operands'
requeue strategies are chosen in `Init`, so one run covers all of them.

**`StepwiseExecution`** is the abstract specification of running operands: they
complete step after step, and a clean return means all completed.
`CompositeOperator` implements it (`Stepwise`).

**`CompositeReconciler`** (`reconcile.go`, `composite.go`). `hist` is the
sequence of versions the API server stored for one object, and a version's index
its resource version. `seen` is the version in the cache and `rv` the one
`Reconcile` works on, so both may be old. One action per request: `Get` (with
defaults, validation and the initialization test), `Initialize`,
`cleanupHandler` up to the call of `Cleanup`, `CleanupReturns`,
`removeFinalizer`, `OperateReturns`, `UpdateStatus` (the deferred function). A
write succeeds only with the latest version; it may also fail before or after it
was stored, which is counted apart for updates of the finalizers and for all
other requests (`Request`). Users edit and delete, another controller holds a
finalizer and releases it, the watch delivers one version at a time, the process
restarts. The cleanup strategy is chosen in `Init`.

**`CompositeController`** composes the two: `Operate` and `Cleanup` call the
operator, whose operands run while users, the watch and restarts go on. The
example's own `Cleanup` does nothing, since it relies on owner references; the
composition is the use `operate.go:16` describes, with the finalizer strategy.

**`ObjectSync`** (`sync.go`, `reconcile.go` and `syncfunc.go` of
`controller/sync/v1`, and the two `sync.go` that embed it). `hist` and `seen`
are versions stored and cached, as above, for each name; `external` is the
version the external system holds. A worker's `Get` and its call of the
Controller (`Reconcile`) are two steps, so the cache may move on in between. The
sync function is a loop of `Tick`, `List`, `Compare` and one `SyncOne` for each
object: `collectGarbage` deletes, `resync` ensures. Which of the three
reconcilers it is, and whether a period was set, is chosen in `Init`.
Controllers are the user's: a call succeeds, fails, or fails after its effect.

**`StatelessAction`** (`reconcile.go` of `controller/stateless-action/v1`).
`Reconcile` per request (`GetObject`, `RequireAction`, `ManagerFails`,
`RunActionManager`) and `RunAction` per goroutine (`GetName`, `Run`, `Retry`,
`Check`, `Done`, `Defer`, and `Expire` for the context's deadline). Each action
has the outcome of the user's method as a parameter; `ActionSpec` lets the
methods return anything, and is so the specification of the controller with any
`Controller`. **`NamespaceRecorder`** says what the methods of the example do:
the `Ns...` actions, and `RunGet`, `RunCreate`, `RunUpdate` for the three
requests of its `Run`, with a ConfigMap that has versions and a cache that is
behind. Its actions are those of `StatelessAction` with the outcomes filled in,
so that what holds with any `Controller` holds of it.

**`CertManager`**. One action per request to the API server or file write of
`run`: `GetConfig` for every configuration, `Read`, `Create`, `ReRead` and
`Overwrite` of the secret, `Update` for every configuration, `Fetch`,
`WriteCert`, `WriteKey`. `ReadFails` and `FetchFails` are the two requests whose
errors other than NotFound are dropped. The other requests fail before or after
they took effect: `ConfigFails`, `SecretFails` (the certificate may be stored
and the run end without knowing), `UpdateFails` (the configuration may be
updated, the rest of the batch is not) and `WriteFails` (a file may be left
empty). `Abandon` is `run` returning early: the first run ends the process, a later one
waits for the next tick. A certificate is a serial number and the CA that signed
it; a CABundle is a sequence of CAs; `stale` says which configurations a
replica's run holds in an outdated version, so that its update conflicts.
`missed` records where the code leaves a host behind the secret.

**`InformersMap`** (`informersmap.go`, `cache_reader.go`, `listwatcher.go`).
`Lookup` is the critical section under the read lock, `addInformerToMap` the one
under the write lock, `WaitForCacheSync` the wait without a lock, `Start` the
start of the map. The informer lists (`ListFunc`), watches (`WatchFunc`) and
delivers events; `gap` records names changed between the two calls, since
`WatchFunc` is not given the list's resource version. `addInformerFails` is the
error of `createListWatcher`. `MapSpec` lets goroutines
do anything outside `Get`, so it is what the map promises in any program.

**`Admission`** has the handlers as functions from a request to a response.

**`RBACRecorder`** has the recorder's three slices (the rules of the role and of
the cluster role, and the errors), `rule`, and `reorderRules`. A rule names the
plural resource that `UnsafeGuessKindToResource` makes of the kind, so a `List`,
which is handed the list, is recorded as `gamelists`. Slices are read and
written in two steps, `ReadSlice` and `WriteSlice`, because neither `record.go`
nor `result.go` synchronises them; `raced` records that two goroutines were at
one slice at a time.

**`ClientStack`** puts these on the map: a request is admitted, recorded
(`RecordReads`, `RecordCluster`, `RecordWrites`), passed through the composite
client (`CachedGet`, `RawGet`, `CachedList`, `RawList`) and persisted; `Result`
reorders both roles and writes them back (`ResultReads`, `ResultWrites`); the
source starts, gets events and feeds a controller's queue. The RESTMapper is
external: it knows the scope of a kind or it does not, and then the error is
kept and the rule goes to the cluster role, as `recordRuleWithStatus` does.
Whether it knows the kind of a list is not assumed either way. Calls of the API
server and of the map fail (`RawGet`, `RawList`, `MapFails`, `MapFailed`), and a
caller's context ends (`Expire`). A *setup* is an operator: raw or cached
listing, a cache of all namespaces or of one, with or without a source, with or
without failures, and its requests.

`MC...` modules only give values to constants. Operators introduced as "Mutant
of X" are faulty variants of `X`; no specification uses them. They exist to show
that each property fails when the code is wrong in a plausible way.

## The runs

| Run | Question | States |
|---|---|---|
| `dag` | Does every graph of up to four operands get a total order that respects requirements, and does the walk end? | 176,964 |
| `operator` | Do both strategies implement stepwise execution and keep what `Ensure` and `Cleanup` promise, with any failures? | 50,301 |
| `reconciler` | Do children stay guarded by the finalizer, do conflicts lead to a retry, does reconciliation converge, finish deletions and come to rest? | 374,568 |
| `controller` | The same with the operator running inside `Reconcile` | 519,374 |
| `sync` | Is nothing deleted outside that the cache held, and does the external system end up as each reconciler promises? | 339,138 |
| `action` | Do actions end, with `Defer` once and not before they are done or out of time, and is a namespace recorded unless its last action was given up? | 23,512 |
| `cert` | Does one CA sign everything, has the host the secret's pair, do the configurations come to trust it and go on to? | 199,801 |
| `clients` | Is the informer run once and read only when synced, is what is stored admitted, is NotFound real, do the roles grant what was called, does the controller follow, does no call hang? | 214,606 |
| `dag_strict`, `operator_cleanup`, `reconciler_lost`, `controller_requeue` | Does the code keep what its comments say? (violations, see *Findings*) | |

The properties, where they say less than one might expect, and why:

- `HeldIsKept` justifies a deletion outside by an absence *between the read and
  the deletion*. More does not hold: see *Observed*, 1.
- `Mirrored` is for the base reconciler without changes by others and restarts,
  which it has nothing to make good with; `Collected` and `Resynced` are what
  the sync functions add.
- `Converges` and `DeletionCompletes` except behaviours in which an update of
  the finalizers failed for another reason than a conflict. All other requests
  fail, with either cleanup strategy, the status update of the init block
  included.
- `Recorded` excepts namespaces in `dropped`: an action that timed out, was lost
  in a restart, or was not started because of a failed read, is not run again
  before the next event. Another action started for the namespace ends the
  exception.
- `OneRoot` excepts a secret that was deleted, or overwritten by a manager that
  could not read it. `HostCert` excepts hosts in `missed`. `Trusted` has no such
  exception: it holds whenever some manager keeps running. `TrustKept` is about
  steps: what trusts the secret's certificate goes on doing so, unless the
  configuration is applied anew or the secret uprooted.
- `AtMostOne` is for a raw listing and creations that do not overlap.
- `RulesComplete` promises completeness until two goroutines have been at one
  slice at a time; that the roles grant nothing but calls made, and that Result
  leaves one rule for a resource, it promises always.
- `Reconciled` and `AtRestReconciled` except names in `gap`; `Reconciled` also a
  source whose `Start` failed.

Where an exception is a behaviour of the code, it is listed under *Observed*,
and the hazard it belongs to says so: the property covers what is around it, not
the behaviour itself.

Bounds, and why they are enough to be of interest:

- `dag`: four operands are the fewest with which a root is visited in a pass
  before the one that finds its predecessor (A, B, C, D each requiring the one
  before it, and D requiring A as well).
- `operator`: three operands and eight orders: none, one, two and three steps,
  steps of several operands, and a trailing empty step, which a walk can leave.
- `reconciler`: two children, and one each of an edit, a deletion, a failed
  update of the finalizers, another failed request, an error of a user's method
  and a restart. Conflicts and stale reads
  are not limited: they follow from the interleaving.
- `controller`: two operands in two steps, because `Reverse` is right for even
  numbers only; one each of an edit, a deletion, an operand's failure and a
  restart, no API failure (`reconciler` has those) and no suspension.
- `sync`: two names, so that a round has something to go through while a worker
  has another; three writes (create, delete, create again) and one each of a
  change outside, a failed read, a failed call and a restart.
- `action`: one namespace, since actions on different namespaces share nothing,
  with two goroutines at a time, two events, one failed request, one restart.
- `cert`: one replica with four faults, or two with one; two webhook
  configurations and a CRD, which are treated differently. A fault is a failed
  call (before or after its effect), a crash, the ageing or deletion of the
  secret, or a reapplied configuration.
- `clients`: two callers and the source, two names, a default, an allowed and an
  invalid label, six setups with one to three requests. The recorder's setup has
  both status calls and `Result`, so that calls overlap with each
  other and with `Result`.

Deadlock is not checked in the runs of controllers and clients: with nothing to
do they stop until something changes, and the numbers of requests, events and
faults are bounded. `OperandDAG` and `CompositeOperator` are checked for it.

### Fairness

`OperandDAG`: a sequential computation goes on. `CompositeOperator`: the
operands' methods return, which the executor's `wg.Wait` has no timeout to do
without, and the executor goes on by itself; new calls are not assumed.
`CompositeReconciler` and `CompositeController`: the work queue runs `Reconcile`
while the name is in it, `Reconcile` runs to its end, and the watch delivers
what is stored. Nothing is assumed of users, other controllers or restarts. The
informer's periodic resync is not modelled: it is hours long by default, and it
would hide that nothing else brings an object back.

`ObjectSync`: the watch, the workers and the goroutine of the sync function go
on. `Get` is strongly fair: the work queue is first in, first out, so a name is
not passed over for ever while the only worker is busy with others.
`NamespaceRecorder`: workers, the watch, goroutines and deadlines go on. `Retry`
and `Done` are strongly fair, because `select` chooses at random among the cases
that are ready; without that an action might take the retry timer for ever
although its context is done. `CertManager`: each manager's goroutine runs, its
ticker fires, and a container that stopped is started again; nothing is assumed
of faults. `ClientStack`: goroutines run, the manager starts the cache, the
informer lists and watches again, and the controller's worker works.

`Converges` and `DeletionCompletes` are stated for behaviours in which updates
of the finalizers fail only for conflicts (`FinalizersUpdated`);
`reconciler_lost` shows why. They say nothing of objects with an invalid spec,
which `Reconcile` leaves alone, deletion included.

## What is proved

For every value of the constants, checked by TLAPS:

- `OperandDAGProofs`: `TypeCorrect`, `RequiredNotLaterHolds`, `OrderTotalHolds`,
  `PartitionHolds`, `StepsFixedHolds`. `OrderTotal` needs a *frontier*: an
  operand without a step whose requirements all have one is waiting in this pass
  or the next. With no roots left, an operand without a step requires another
  such operand, and acyclicity excludes that. `Partition` says that the computed
  order is a sequence of disjoint steps that cover the operands, `StepsFixed`
  that no later pass moves an operand.
- `CompositeOperatorProofs`: `TypeCorrect`, `EnsureCompleteHolds`,
  `FailureRequeuesHolds`, `CleanupReversedHolds`, `EvenCleanupComplete` and the
  refinement `StepwiseHolds`. The invariant says that steps before the current
  one succeeded and later ones have not started (`Progress`), that failures
  leave an error which ends the call (`Failures`), what each call runs
  (`Calls`), and that a clean result comes only from the end of the order
  (`CleanEnds`). It rests on `OrdersAssumption`: the steps of an order are
  disjoint, which is part of what `PartitionHolds` proves of the orders
  `OperandDAG` computes. `EvenCleanupComplete` is the part of `CleanupComplete`
  that is true: the finding `operator_cleanup` is about odd numbers of steps,
  and only they fail.
- `CompositeControllerProofs`: `TypeCorrect`, `ChildrenGuardedHolds`,
  `ConflictsRetriedHolds`, `RestsReconciledHolds`, `FinalizerGuardsHolds` about
  the reconciler with any operator. `ChildrenGuarded` speaks of the stored
  object while `Reconcile` acts on an old version, so the invariant relates them
  (`Kept`): if a version from `rv` on has the finalizer and is not being
  deleted, the stored object has the finalizer. `Stage` adds what `Reconcile`
  knows at each place. `ConflictsRetried` needs a second invariant, `Followed`:
  a conflict means that a version is still to be delivered. `RestsReconciled` is
  the safety part of `Converges` and `DeletionCompletes`: with nothing queued,
  in progress or to be delivered, the object is valid, its status is that of its
  children, and they exist or the object was released. It needs `Followed` and
  `Worked`, what `Reconcile` has achieved when it gets to the deferred update of
  the status. It excludes updates of the finalizers that failed other than by a
  conflict, which the run `reconciler_lost` shows to be dropped.
  `FinalizerGuards` is about steps: nothing takes the finalizer from an object
  that is not being deleted or has children left.

  The same module then proves it of `CompositeController`:
  `OperatorChildrenGuarded`, `RemovedLastHolds`, `OperatorRestsReconciled` and
  `OperatorFinalizerGuards`. They have one hypothesis on the constants,
  `WholeCleanup`: the operator is not suspended, no operand has `RequeueAlways`,
  and every order has an even number of steps that cover the children. Each part
  is needed: a suspended operator, a requeue after a change and the middle step
  of an odd order all make `Cleanup` return no error with children left; the
  runs `controller_requeue` and `operator_cleanup` show the last two. That an
  order covers the operands is `PartitionHolds`; the constants of
  `MCCompositeController` satisfy all of it. The invariant `ControllerInv` adds
  to the reconciler's that `Reconcile` waits while the operator runs (`Calling`)
  and that the steps a `Cleanup` has been through have no children left
  (`Emptied`); `Filled` says the converse of an `Ensure`.
- `ObjectSyncProofs`: `SyncTypeHolds`, `HeldIsKeptHolds`, `MirroredAtRestHolds`.
  The type invariant already says that no worker and no round has a version
  newer than the cache's. For collection it does not suffice: the list of
  garbage is computed one step and used many steps later. `Listed` says that
  while a round is at work on its list, no name on the list was live in the
  version the round had listed. `MirroredAtRest` is the safety part of
  `Mirrored`: without a sync function and changes by others, the external system
  holds what the cache does of every name that is neither queued nor worked on,
  unless a restart lost its deletion. It needs that a worker on a name that is not queued
  again holds the cached version (`Copied`).
- `StatelessActionProofs`: `DeferredOnceHolds`, `SettledOrExpiredHolds` for any
  `Controller`; `RecorderDefers`, the first of them for the recorder, by the
  lemma that its steps are the controller's (a `Run` that makes three requests
  is two stutters and a step); `SettledIsRecordedHolds`. `SettledIsRecorded`
  needs that versions once stored stay, and that a cached version is a stored
  one.
- `CertManagerProofs`: `CertTypeHolds`, `OneRootHolds`, `HostCertHolds`,
  `TrustKeptHolds`. One CA is not inductive: a manager signs with the CA its
  generator was given, perhaps many steps ago. `RootInv` adds that every
  generator has the secret's CA or none, and that one about to overwrite what it
  has read has it. `HostInv` follows the two flags that make `run` write the
  files (`changed`, `need`) through the run: with neither set, the host's files
  are the secret's already; with one set, `run` gets to the writes or leaves the
  host in `missed`. A request that fails after its effect is part of it: a
  certificate that was stored without the run knowing leaves every host behind.
  `CertTypeOK` needs that the certificates managers hold were
  issued and that a bundle has only CAs that exist (`TypeInv`). `TrustKept`, an
  action property, combines it with `RootInv`: an update replaces a bundle by
  one computed many steps before, which is harmless because it holds the CA and
  there is only one.
- `ClientPartsProofs`: of the informers' map `RunOnceHolds`, `SyncedReadsHolds`,
  `MapTypes` and `CacheFollowsHolds`, for any goroutines. The invariant adds
  that an informer is running only in a map that was started, and created
  without running only in one that was not. `CacheFollows` says what the indexer
  is worth: once every event is delivered it is the API server's state, but for
  the names in `gap`; its invariant follows the last event of each name in the
  stream. Of the recorder `ReorderKeeps` and `ReorderFixes`: for every sequence
  of rules `reorderRules` grants the same, with one rule for a resource, and
  doing it again changes nothing. The functions are recursive; the proofs are by
  induction on the length, from the well-foundedness of the natural numbers
  (`SetInduction`, which speaks of a set and not of a predicate).
- `ClientStackProofs`: `StackRunsOnce`, by the lemma that the stack uses the map
  only through its operations; `NotFoundIsRealHolds`, `AdmittedHolds`,
  `AtMostOneHolds`, `RulesCompleteHolds`, `StackTypeHolds`,
  `AtRestReconciledHolds`. `Admitted` needs that what waits to be stored was
  defaulted and validated. `NotFoundIsReal` needs `gone`, the history of absence
  during the call. `AtMostOne` needs most: a creation on its way to be stored
  has seen an API without instances, nothing was stored since, and it is the
  only one. `RulesComplete` needs two invariants. `RecordInv`: what a role grants,
  also in a goroutine's copy of it, belongs to calls that were made.
  `KeptInv`, until two goroutines have been at one slice at a time: a copy is
  the slice it was read from, every call made is granted, and what the cluster
  role grants, or is about to, is among the errors; that
  `Result` keeps all of it is `ReorderKeeps`. `StackTypeOK` needs the resources
  of the rules to stay plural through the merging. `AtRestReconciled` is the
  safety part of `Reconciled`: it combines `CacheFollows`, carried over from the
  map by the same lemma, with `SourceInv`, that a name not queued was reconciled as the
  indexer has it.

The assumptions on constants are weak: `BudgetAssumption`, `SyncAssumption` and
`RecorderAssumption` say that budgets and the number of workers are natural
numbers (the last also that actions are on the namespaces themselves),
`CertAssumption` that the webhooks and CRDs are lists of configurations, each
listed once, `StackAssumption` that the source is a goroutine and that labels
can be added. The theorem about children holds for a `Cleanup` that returns no
error only when all children are gone, the contract of the interface;
`controller_requeue` shows an operator that breaks it.

Only model-checked: all liveness (`OrderTerminates`, `CallsReturn`, `Converges`,
`DeletionCompletes`, `ComesToRest`, `Mirrored`, `Collected`, `Resynced`,
`ActionsEnd`, `Recorded`, `Trusted`, `Reconciled`, `Responds`), which the prover
does not support under fairness. What is proved instead for several of them is
what they come to rest in (`RestsReconciled`, `MirroredAtRest`,
`AtRestReconciled`), so that TLC has left to show that rest is reached. The
composition's theorems are about operators as `WholeCleanup` describes them;
what others do is shown by runs. Conversely the types of `OperandDAG`,
`CompositeOperator`, `CompositeReconciler` and `ObjectSync` are proved, and no
run repeats them.

## Findings

1. `dag_strict`: an operand can be in the same step as one it requires, since
   `solveStep` looks predecessors up in the map it is filling (`dag.go:117`).
   They then run in parallel. The proved property is the weaker
   `RequiredNotLater`.
2. `operator_cleanup`: `Reverse` leaves the middle step of an odd number empty
   (`order.go:45`), so `Cleanup` of one or three steps reports success without
   having deleted those operands. `CleanupReversed` is stated for even numbers.
3. `reconciler_lost`: a failed update of the finalizers is logged and the result
   is empty (`reconcile.go:175`, `197`), although a comment says that another
   reconciliation will take place.
4. `controller_requeue`: the finalizer is removed when `Cleanup` returned a
   requeue without an error (`reconcile.go:191`), which the operator does after
   the first step with a `RequeueAlways` operand that changed something.

## Observed

Behaviours the models have because the code has them, and which the properties
above except. No run is about them alone, but a user of the library should know
them. Where a comment of the code says otherwise, it is quoted.

1. `collectGarbage` deletes the external object of a k8s object that was created
   and ensured between its two lists (`external-object-sync/v1/sync.go:79`).
   Nothing ensures it again before the next event of the object. The comment
   (`sync.go:64`) says that it "deletes all the objects in the external system
   that don't have an associated k8s object". Likewise a
   round of `resync` re-creates the external object of an object deleted since
   it was listed (`metadata-sync/v1/sync.go:98`).
2. The recorder's `Check` returns an error if the ConfigMap is not found
   (`nsrecorder_controller.go:182`), so `RunAction` checks until the timeout and
   does not run the action again after a `Create` that failed. The comment
   (`nsrecorder_controller.go:177`) says "Check if the target configmap exists,
   if not, there's no data to check, action is needed". An action that
   timed out between `Create` and `Update` leaves an empty ConfigMap, which
   `RequireAction` later takes for a record.
3. `RunAction` runs the action once before the first check
   (`stateless-action/v1/reconcile.go:224`), although its comment (line 187)
   says that it "checks if an action needs to be run before running it". Two
   actions on one object may overlap (line 177). A restart or a timeout drops an
   action for good (line 184), unless another event comes.
4. Only the replica that regenerated the certificate writes it to its host
   (`webhook/cert/manager.go:273`); others keep the old pair, and so does the one
   whose update of a configuration failed after it had stored the secret
   (`manager.go:398`). `missed` marks both. The comments say that `run` "ensures
   that a valid certificate exists and upon certificate update, it updates the
   certificate on the host" (`manager.go:251`), and that the short refresh
   interval is "to reduce the impact of out of sync instances" (`manager.go:35`):
   a refresh does not bring such an instance back in sync.
5. A read of the secret that fails with another error than NotFound leads to the
   secret being overwritten (`secret.go:128`), with a new CA if the generator
   has none yet. In `writeCertOnDisk` it leads to two empty files
   (`manager.go:289`), which `certExists` takes for a certificate.
6. A replica that starts with an existing certificate never manages it
   (`manager.go:217`), also if a crash left a certificate and a key that do not
   belong together.
7. In a cache of all namespaces `CacheReader.Get` drops the namespace of the key
   (`cache_reader.go:37`): every `Get` of a namespaced object misses, and the
   composite client answers from the API server.
8. `WatchFunc` does not pass the list's resource version on (`listwatcher.go:44`):
   a change between list and watch is seen with the next change or list. A
   comment (`eventsource.go:91`) relies on no event being missed: "This should
   never happen if we aren't missing events, which we have concluded that we are
   not".
9. Overlapping creations, or a listing from the cache, pass the singleton check
   twice (`webhook/function/validate.go:43`), where the comment (line 38) says:
   "If an instance of an object already exists, this will prevent creation of
   another object".
10. Overlapping calls of the recording client, or a call and `Result`, lose rules
   (`rbac/client/record.go:60`, `result.go:21`). A `List` is recorded with the
   resource guessed from the kind of the list (`record.go:38`), `gamelists` for
   games, and a kind the RESTMapper does not know goes to the cluster role
   (`record.go:40`, `62`); `client.go:32` says that the observed calls "are used
   to create a list of RBAC permissions that were used".

## What is left out

In the modelled parts: tracing and logging, the text of errors and events,
durations (a requeue after a period is a requeue), errors of the scheme in
`IsInitialized` and `StatusChanged`, panics of operands, and the value of
`ctrl.Result` beyond whether it asks for a requeue. Reconciliations of one
object do not overlap, as the work queue guarantees; different objects share no
state. With owner references the garbage collector is not modelled.

In `CertManager` a configuration stands for one webhook, durations are whether
the certificate outlives six months (so a `CertValidity` below that is not
covered), CAs do not expire, and the tests of DNS names and PEM encoding always
succeed on what a manager has stored. In `InformersMap` there is one kind of
object in one namespace. In `ClientStack` the client's other methods (`Create`,
`Patch`, ...), which record in the same way and go straight to the API server,
are left out, as are predicates, selectors and field indexes. Of the recorder
also errors of the scheme (`GVKForObject`), torn reads of a slice header (a
slice is read and written whole) and what `Result` prints, which is what it has
left in the roles.

## Not modelled

- `declarative` (loader, transforms, kustomize, applier, deleter): manifests are
  copied in memory, edited, rendered and handed to kubectl. It is sequential,
  shares no state, and what could be wrong is in the YAML, which a model would
  have to take for granted.
- `internal/pkiutil`: cryptography and file I/O; certificates are opaque here.
- `webhook/builder`, `controller/external`, `example/main.go`: wiring that is
  done once, before anything runs. The handler of `controller/external` has one
  condition, over the user's cache.
- `runnable`: the wait group it calls `Done` on is the user's, with the `Add` and
  the `Wait`; whether they fit is not decided in this repository.
- `telemetry`, `discovery/cluster`, `predicate`: logging and tracing, read-only
  queries, and a pure comparison.
- Mocks and generated deep copies.
