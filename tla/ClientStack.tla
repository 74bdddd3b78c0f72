---------------------------- MODULE ClientStack ----------------------------
(***************************************************************************)
(* How an operator's goroutines reach the API's objects: admission         *)
(* handlers (Admission) that list through a client, callers that get, all  *)
(* through a recording client (RBACRecorder) around the composite client   *)
(* (client/composite), whose cached half is the informer cache             *)
(* (cache/informer_cache.go on InformersMap); and a controller whose       *)
(* source.Kind (source) watches the same cache.  Requests that are         *)
(* admitted change the objects that the informer lists and watches.        *)
(***************************************************************************)
EXTENDS InformersMap, Admission, RBACRecorder

CONSTANTS
    Source,     \* the goroutine of Callers that starts the source
    Setups      \* the operators: RawListing, a cache of all namespaces, a
                \* source; and bounds: the operations that are asked for, how
                \* many requests, broken watches, expired contexts and failed
                \* calls

ASSUME StackAssumption ==
    /\ Source \in Callers
    /\ Names # {}
    /\ \A v \in Values : AddLabels(v) \in Values

VARIABLES
    setup,      \* the operator this is
    call,       \* each goroutine's current operation
    answer,     \* what its last Get said
    gone,       \* history: the name was absent at some time of the Get
    overlapped, \* history: two singleton checks were under way at a time
    handler,    \* the source's event handler is registered
    queue,      \* the controller's work queue
    reconciled, \* history: the object that was last reconciled for a name
    budget

controller == <<handler, queue, reconciled>>
history == <<answer, gone, overlapped>>
vars == <<mapVars, setup, call, recorder, controller, history, budget>>

Handlers == Callers \ {Source}

Operation(op, n, object) ==
    [op |-> op, name |-> n, object |-> object]

Idle == Operation("none", CHOOSE n \in Names : TRUE, Absent)

Spend(kind) == budget[kind] > 0 /\ budget' = [budget EXCEPT ![kind] = @ - 1]

RecorderInit ==
    /\ recorded = [s \in Slices |-> <<>>]
    /\ copy = [c \in Callers |-> NoCopy]
    /\ raced = FALSE
    /\ made = {}

ControllerInit ==
    /\ handler = FALSE /\ queue = {}
    /\ reconciled = [n \in Names |-> Absent]

Init ==
    /\ MapInit
    /\ setup \in Setups
    /\ pc = [c \in Callers |->
         IF c = Source /\ setup.source THEN "lookup" ELSE "idle"]
    /\ call = [c \in Callers |->
         IF c = Source THEN Operation("source", Idle.name, Absent) ELSE Idle]
    /\ answer = [c \in Callers |-> "none"]
    /\ gone = [c \in Callers |-> FALSE]
    /\ RecorderInit
    /\ ControllerInit
    /\ overlapped = FALSE
    /\ budget = setup.budget

Goto(c, p) == pc' = [pc EXCEPT ![c] = p]

Finish(c) ==
    /\ Goto(c, "idle")
    /\ call' = [call EXCEPT ![c] = Idle]

----------------------------------------------------------------------------
(* Requests. *)

\* The API server asks the mutating, then the validating webhook about a
\* write to n; update and delete are about an object that exists.
Admit(c, op, n, raw) ==
    /\ op # "create" => api[n] # Absent
    /\ LET object == IF op = "delete" THEN api[n] ELSE Defaulted(n, raw)
           response == Validated(op, n, object, api[n])
       IN  CASE response = "singleton" ->
                  /\ Goto(c, "record")
                  /\ call' = [call EXCEPT ![c] = Operation(op, n, object)]
                  /\ overlapped' = (overlapped \/
                       \E d \in Handlers : call[d].op = "create")
             [] response = "allowed" ->
                  /\ Goto(c, "persist")
                  /\ call' = [call EXCEPT ![c] = Operation(op, n,
                       IF op = "delete" THEN Absent ELSE object)]
                  /\ UNCHANGED overlapped
             [] OTHER -> UNCHANGED <<pc, call, overlapped>>
    /\ UNCHANGED <<answer, gone>>

\* A caller gets the object n, updates or patches its status, or asks for the
\* recorder's Result.
Call(c, op, n) ==
    /\ Goto(c, IF op = "result" THEN "result" ELSE "record")
    /\ call' = [call EXCEPT ![c] = Operation(op, n, Absent)]
    /\ answer' = [answer EXCEPT ![c] = "none"]
    /\ gone' = [gone EXCEPT ![c] = (api[n] = Absent)]
    /\ UNCHANGED overlapped

Request(c) ==
    /\ pc[c] = "idle"
    /\ Spend("request")
    /\ \E n \in Names :
        \/ \E op \in {"create", "update"} \cap setup.ops, raw \in Objects :
             Admit(c, op, n, raw)
        \/ "delete" \in setup.ops /\ Admit(c, "delete", n, Absent)
        \/ \E op \in {"get", "status", "patch", "result"} \cap setup.ops :
             Call(c, op, n)
    /\ UNCHANGED <<informer, objects, saw, setup, recorder, controller>>

----------------------------------------------------------------------------
(* The recording client. *)

\* The rule of c's call: a List passes the list, whose kind is GameList.
CallRule(c) ==
    CASE call[c].op = "create" -> rule("GameList", "list", FALSE)
      [] call[c].op = "get" -> rule("Game", "get", FALSE)
      [] call[c].op = "status" -> rule("Game", "update", TRUE)
      [] call[c].op = "patch" -> rule("Game", "patch", TRUE)

\* isNamespaced asks the RESTMapper for the scope, which is the namespace's; a
\* mapper that does not know the kind is an error, and the rule is then taken
\* for a cluster's.
RecordReads(c) ==
    /\ pc[c] = "record"
    /\ \/ ReadSlice(c, "Role") /\ UNCHANGED budget
       \/ ReadSlice(c, "errors") /\ Spend("fail")
    /\ Goto(c, "append")
    /\ UNCHANGED <<informer, objects, saw, setup, call, controller, history>>

RecordCluster(c) ==
    /\ pc[c] = "cluster"
    /\ ReadSlice(c, "ClusterRole")
    /\ Goto(c, "append")
    /\ UNCHANGED <<informer, objects, saw, setup, call, controller, history, budget>>

\* Once the rule is recorded the client passes the call on: a raw listing, and
\* an update or a patch of the status, go to the API server.
RecordWrites(c) ==
    /\ pc[c] = "append"
    /\ WriteSlice(c, Append(copy[c].rules, CallRule(c)))
    /\ IF copy[c].slice = "errors"
       THEN Goto(c, "cluster") /\ UNCHANGED <<call, made>>
       ELSE /\ made' = made \cup Granted(<<CallRule(c)>>)
            /\ CASE call[c].op \in {"status", "patch"} -> Finish(c)
                 [] call[c].op = "create" /\ setup.rawListing ->
                      Goto(c, "rawlist") /\ UNCHANGED call
                 [] OTHER -> Goto(c, "lookup") /\ UNCHANGED call
    /\ UNCHANGED <<informer, objects, saw, setup, controller, history, budget>>

\* Result reorders the rules of one role, then of the other; what it prints is
\* what it leaves in them.
ResultReads(c) ==
    /\ pc[c] \in {"result", "resultCluster"}
    /\ ReadSlice(c, IF pc[c] = "result" THEN "Role" ELSE "ClusterRole")
    /\ Goto(c, "reorder")
    /\ UNCHANGED <<informer, objects, saw, setup, call, controller, history, budget>>

ResultWrites(c) ==
    /\ pc[c] = "reorder"
    /\ WriteSlice(c, reorderRules(copy[c].rules))
    /\ IF copy[c].slice = "Role" THEN Goto(c, "resultCluster") /\ UNCHANGED call
       ELSE Finish(c)
    /\ UNCHANGED <<informer, objects, saw, setup, made, controller, history, budget>>

----------------------------------------------------------------------------
(* The composite client on the informer cache. *)

Singleton(c, instances) ==
    IF ValidateSingletonCreate(instances) = "allowed"
    THEN Goto(c, "persist") /\ UNCHANGED call
    ELSE Finish(c)

\* The map's Get has returned.  A cache that was not started is an error,
\* which denies the request and is not answered from the API server.
CachedList(c) ==
    /\ pc[c] = "got" /\ call[c].op = "create"
    /\ IF saw[c] THEN Singleton(c, ReaderList) ELSE Finish(c)
    /\ UNCHANGED <<informer, objects, saw, setup, recorder, controller, history,
                   budget>>

Answers(c, says) ==
    /\ Finish(c)
    /\ answer' = [answer EXCEPT ![c] = says]

CachedGetOnly(c) ==
    /\ pc[c] = "got" /\ call[c].op = "get"
    /\ IF ~saw[c] THEN Answers(c, "error")
       ELSE Answers(c, IF ReaderGet(call[c].name, setup.allNamespaces) = Absent
                       THEN "notfound" ELSE "found")
    /\ UNCHANGED <<informer, objects, saw, setup, recorder, controller, gone,
                   overlapped, budget>>

CachedGetRetries(c) ==
    /\ pc[c] = "got" /\ call[c].op = "get"
    /\ IF ~saw[c] THEN Answers(c, "error")
       ELSE IF ReaderGet(call[c].name, setup.allNamespaces) = Absent
       THEN Goto(c, "lookup") /\ UNCHANGED <<call, answer>>
       ELSE Answers(c, "found")
    /\ UNCHANGED <<informer, objects, saw, setup, recorder, controller, gone,
                   overlapped, budget>>

CachedGet(c) ==
    /\ pc[c] = "got" /\ call[c].op = "get"
    /\ IF ~saw[c] THEN Answers(c, "error")
       ELSE IF ReaderGet(call[c].name, setup.allNamespaces) = Absent
       THEN Goto(c, "rawget") /\ UNCHANGED <<call, answer>>
       ELSE Answers(c, "found")
    /\ UNCHANGED <<informer, objects, saw, setup, recorder, controller, gone,
                   overlapped, budget>>

\* The API server answers, or the call fails.
RawGet(c) ==
    /\ pc[c] = "rawget"
    /\ \/ /\ Answers(c, IF api[call[c].name] = Absent THEN "notfound" ELSE "found")
          /\ UNCHANGED budget
       \/ Answers(c, "error") /\ Spend("fail")
    /\ UNCHANGED <<informer, objects, saw, setup, recorder, controller, gone,
                   overlapped>>

\* A listing that fails denies the request.
RawList(c) ==
    /\ pc[c] = "rawlist"
    /\ \/ Singleton(c, {n \in Names : api[n] # Absent}) /\ UNCHANGED budget
       \/ Finish(c) /\ Spend("fail")
    /\ UNCHANGED <<informer, objects, saw, setup, recorder, controller, history>>

\* The context of a call ends while it waits for the informer.
Expire(c) ==
    /\ pc[c] = "wait"
    /\ Spend("expire")
    /\ Goto(c, "failed")
    /\ UNCHANGED <<informer, objects, saw, setup, call, recorder, controller, history>>

\* The map's Get has returned an error, which is not NotFound: it answers a Get
\* and denies a request.  Kind.Start returns it, and the source stays off.
MapFailed(c) ==
    /\ pc[c] = "failed" /\ c \in Handlers
    /\ IF call[c].op = "get" THEN Answers(c, "error")
       ELSE Finish(c) /\ UNCHANGED answer
    /\ UNCHANGED <<informer, objects, saw, setup, recorder, controller, gone,
                   overlapped, budget>>

\* The API server stores what was admitted, if the object is still, or still
\* not, there.
Persist(c) ==
    /\ pc[c] = "persist"
    /\ LET n == call[c].name
           writes == (call[c].op = "create") = (api[n] = Absent)
       IN  IF writes
           THEN /\ Change(n, call[c].object)
                /\ gone' = [d \in Callers |-> gone[d] \/
                     (call[d].name = n /\ call[c].object = Absent)]
           ELSE UNCHANGED <<objects, gone>>
    /\ Finish(c)
    /\ UNCHANGED <<informer, saw, setup, recorder, controller, answer,
                   overlapped, budget>>

----------------------------------------------------------------------------
(* The source and its controller. *)

\* The map's Get has returned; whether the cache was started is ignored.
GetInformer == pc[Source] = "got"

\* Kind.Start: AddEventHandler delivers what the indexer holds.
SourceStart ==
    /\ GetInformer
    /\ Goto(Source, "watching")
    /\ handler' = TRUE
    /\ queue' = ReaderList
    /\ UNCHANGED <<informer, objects, saw, setup, call, recorder, reconciled,
                   history, budget>>

\* The map's WaitForCacheSync: after the start, the informers held before it.
CacheSynced == started /\ HasSynced

\* Kind.WaitForSync, after which the controller starts its workers.
SourceReady ==
    /\ pc[Source] = "watching"
    /\ CacheSynced
    /\ Goto(Source, "ready")
    /\ UNCHANGED <<informer, objects, saw, setup, call, recorder, controller,
                   history, budget>>

\* OnAdd, OnUpdate and OnDelete enqueue the name.  A deletion found out by
\* listing again arrives as a tombstone that holds the object.
EnqueuedNoTombstone(n, relisted) ==
    /\ indexer[n] # indexer'[n]
    /\ ~(relisted /\ indexer'[n] = Absent)

Enqueued(n, relisted) == indexer[n] # indexer'[n]

Events(relisted) ==
    queue' = IF handler
             THEN queue \cup {n \in Names : Enqueued(n, relisted)} ELSE queue

Informs ==
    /\ \/ ListFunc /\ Events(TRUE)
       \/ WatchFunc /\ UNCHANGED queue
       \/ Deliver /\ Events(FALSE)
    /\ UNCHANGED <<setup, call, recorder, handler, reconciled, history, budget>>

Breaks ==
    /\ WatchEnds
    /\ Spend("break")
    /\ UNCHANGED <<setup, call, recorder, controller, history>>

Starts == Start /\ UNCHANGED <<setup, call, recorder, controller, history, budget>>

\* A worker of the controller reads the object from the cache.
Reconcile ==
    /\ pc[Source] = "ready"
    /\ \E n \in queue :
        /\ queue' = queue \ {n}
        /\ reconciled' = [reconciled EXCEPT ![n] = indexer[n]]
    /\ UNCHANGED <<mapVars, setup, call, recorder, handler, history, budget>>

----------------------------------------------------------------------------
\* A goroutine inside InformersMap.Get.
Map(c) ==
    /\ Lookup(c) \/ addInformerToMap(c) \/ WaitForCacheSync(c)
    /\ UNCHANGED <<setup, call, recorder, controller, history, budget>>

MapFails(c) ==
    /\ addInformerFails(c)
    /\ Spend("fail")
    /\ UNCHANGED <<setup, call, recorder, controller, history>>

Records(c) ==
    \/ RecordReads(c) \/ RecordCluster(c) \/ RecordWrites(c)
    \/ ResultReads(c) \/ ResultWrites(c)

Runs(c) ==
    \/ Map(c) \/ Records(c) \/ CachedList(c) \/ CachedGet(c) \/ RawGet(c)
    \/ RawList(c) \/ MapFailed(c) \/ Persist(c)

Next ==
    \/ \E c \in Callers : Runs(c) \/ MapFails(c)
    \/ \E c \in Handlers : Request(c) \/ Expire(c)
    \/ SourceStart \/ SourceReady \/ Reconcile
    \/ Starts \/ Informs \/ Breaks

Spec == Init /\ [][Next]_vars

\* Goroutines run on, the manager starts the cache, the informer lists and
\* watches again, and the controller's worker works.
Fairness ==
    /\ \A c \in Callers : WF_vars(Runs(c))
    /\ WF_vars(SourceStart) /\ WF_vars(SourceReady) /\ WF_vars(Reconcile)
    /\ WF_vars(Starts) /\ WF_vars(Informs)

FairSpec == Spec /\ Fairness

----------------------------------------------------------------------------
(* Properties. *)

Rules == [resource : {"games", "games/status", "gamelists"},
          verbs : Seq({"list", "get", "update", "patch"})]

\* The stack holds what its operations can put there, the recorder's rules
\* plural resources and their status; and a goroutine holds a slice while it is
\* to write it and no longer, whatever ends its call.
StackTypeOK ==
    /\ MapTypeOK
    /\ pc \in [Callers -> {"idle", "record", "append", "cluster", "result",
                           "resultCluster", "reorder", "lookup", "add", "wait",
                           "got", "failed", "rawget", "rawlist", "persist",
                           "watching", "ready"}]
    /\ call \in [Callers -> [op : {"none", "source", "create", "update", "delete",
                                   "get", "status", "patch", "result"},
                             name : Names, object : Objects]]
    /\ recorded \in [Slices -> Seq(Rules)]
    /\ copy \in [Callers -> [slice : Slices \cup {"none"}, rules : Seq(Rules)]]
    /\ \A c \in Callers : copy[c].slice # "none" <=> pc[c] \in {"append", "reorder"}
    /\ queue \subseteq Names
    /\ reconciled \in [Names -> Objects]

\* Every object the webhooks do not ignore has the default labels and no
\* label that ValidateLabels rejects, whatever the order of requests:
\* defaulting precedes validation, and an update is judged by its new object.
Admitted ==
    \A n \in Names \ Ignored :
        api[n] # Absent => /\ DefaultLabels \subseteq api[n][1]
                           /\ api[n][1] \subseteq ValidLabels

\* With RawListing, and creations one at a time, there is never a second
\* instance of the kind.  (Overlapping creations, or a listing from the
\* cache, which may be behind, can admit two.)
AtMostOne ==
    setup.rawListing /\ ~overlapped =>
        \A m, n \in Names \ Ignored :
            api[m] # Absent /\ api[n] # Absent => m = n

\* A Get of the composite client answers NotFound only if the object was
\* absent at some time during the call, however far the cache is behind and
\* whatever its scope: a miss is settled with the API server.
NotFoundIsReal == \A c \in Callers : answer[c] = "notfound" => gone[c]

\* The roles grant no more than the calls made, and Result leaves one rule for
\* a resource.  Unless two goroutines were at a slice at a time they grant all
\* of it, whatever Results came between, and a rule is with the cluster's only
\* if the error that put it there was kept.
RulesComplete ==
    /\ \A s \in Roles : /\ Granted(recorded[s]) \subseteq made
                        /\ WellOrdered(reorderRules(recorded[s]))
    /\ ~raced =>
         /\ made \subseteq UNION {Granted(recorded[s]) : s \in Roles}
         /\ Granted(recorded["ClusterRole"]) \subseteq Granted(recorded["errors"])

\* At rest the controller has reconciled every object as the API holds it: with
\* its queue empty, the watch on and no event under way, only a change between a
\* list and its watch is unknown to it.
AtRestReconciled ==
    handler /\ queue = {} /\ watch = "on" /\ stream = <<>> =>
        \A n \in Names \ gap : reconciled[n] = api[n]

\* The controller comes to reconcile the last state of every object, also of
\* one whose deletion happened while the watch was broken, unless its source
\* could not start; only a change between a list and its watch can pass it by.
Reconciled ==
    setup.source => <>[](\/ pc[Source] = "failed"
                         \/ \A n \in Names \ gap : reconciled[n] = api[n])

\* No goroutine is stuck in a call.
Responds == \A c \in Handlers : pc[c] # "idle" ~> pc[c] = "idle"
=============================================================================
