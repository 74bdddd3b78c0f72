---------------------------- MODULE InformersMap ----------------------------
(***************************************************************************)
(* The cache for objects of any API (cache, cache/informer): the map of    *)
(* informers that is filled on demand, its start, and an informer that     *)
(* lists and watches through a ListWatcherClient.  Goroutines look an      *)
(* informer up under the read lock, add it under the write lock and then   *)
(* wait for it without a lock; the map is started by yet another one.  One *)
(* action is one critical section, one call of the client or one event.    *)
(*                                                                         *)
(* One kind of object is modelled: the kinds share nothing but the lock.   *)
(* An object is <<value>>, and <<>> where there is none.                   *)
(***************************************************************************)
EXTENDS Integers, Sequences

CONSTANTS
    Callers,    \* goroutines that use the map
    Names,      \* names of objects of the kind, all in one namespace
    Values      \* what an object can be

Absent == <<>>
Objects == {Absent} \cup {<<v>> : v \in Values}

VARIABLES
    started,    \* the map has been started
    entry,      \* the kind's informer: "none", "created", "running", "synced"
    runs,       \* how many informers of the kind were run
    watch,      \* its watch: "off", "gap" between list and watch, "on"
    pc,         \* where each goroutine is
    saw,        \* the value of started it goes by
    api,        \* the objects the API holds
    indexer,    \* the informer's objects
    stream,     \* watch events under way: <<name, object>>
    gap         \* history: names changed unseen between list and watch

informer == <<started, entry, runs>>
objects == <<api, indexer, watch, stream, gap>>
mapVars == <<informer, objects, pc, saw>>

HasSynced == entry = "synced"

MapInit ==
    /\ started = FALSE
    /\ entry = "none"
    /\ runs = 0
    /\ watch = "off"
    /\ api = [n \in Names |-> Absent]
    /\ indexer = [n \in Names |-> Absent]
    /\ stream = <<>>
    /\ gap = {}
    /\ saw = [c \in Callers |-> FALSE]

----------------------------------------------------------------------------
(* InformersMap.Get, and Start. *)

\* Where Get goes with the informer in hand: it waits only if it was told
\* that the map has been started.
ProceedUnsynced(c, isStarted) ==
    /\ saw' = [saw EXCEPT ![c] = isStarted]
    /\ pc' = [pc EXCEPT ![c] = "got"]

Proceed(c, isStarted) ==
    /\ saw' = [saw EXCEPT ![c] = isStarted]
    /\ pc' = [pc EXCEPT ![c] =
         IF isStarted /\ ~HasSynced THEN "wait" ELSE "got"]

\* Under the read lock.
Lookup(c) ==
    /\ pc[c] = "lookup"
    /\ IF entry = "none"
       THEN pc' = [pc EXCEPT ![c] = "add"] /\ UNCHANGED saw
       ELSE Proceed(c, started)
    /\ UNCHANGED <<informer, objects>>

\* Under the write lock.  The lookup's answer is stale by now: another
\* goroutine may have added the informer.
addInformerToMapUnchecked(c) ==
    /\ pc[c] = "add"
    /\ entry' = IF started THEN "running" ELSE "created"
    /\ runs' = IF started THEN runs + 1 ELSE runs
    /\ Proceed(c, started)
    /\ UNCHANGED <<started, objects>>

addInformerToMap(c) ==
    /\ pc[c] = "add"
    /\ IF entry # "none" THEN UNCHANGED <<entry, runs>>
       ELSE /\ entry' = IF started THEN "running" ELSE "created"
            /\ runs' = IF started THEN runs + 1 ELSE runs
    /\ Proceed(c, started)
    /\ UNCHANGED <<started, objects>>

\* createListWatcher fails: there is still no informer, and Get returns the
\* error.
addInformerFails(c) ==
    /\ pc[c] = "add"
    /\ entry = "none"
    /\ pc' = [pc EXCEPT ![c] = "failed"]
    /\ UNCHANGED <<informer, objects, saw>>

WaitForCacheSync(c) ==
    /\ pc[c] = "wait"
    /\ HasSynced
    /\ pc' = [pc EXCEPT ![c] = "got"]
    /\ UNCHANGED <<informer, objects, saw>>

\* Under the write lock: the informers of the map are run, later ones will be.
Start ==
    /\ ~started
    /\ started' = TRUE
    /\ entry' = IF entry = "created" THEN "running" ELSE entry
    /\ runs' = IF entry = "created" THEN runs + 1 ELSE runs
    /\ UNCHANGED <<objects, pc, saw>>

----------------------------------------------------------------------------
(* The informer. *)

ListFuncOnce ==
    /\ entry = "running"
    /\ watch = "off"
    /\ entry' = "synced"
    /\ indexer' = api
    /\ watch' = "gap"
    /\ gap' = {}
    /\ UNCHANGED <<started, runs, api, stream, pc, saw>>

\* ListFunc: the indexer becomes what the API holds.
ListFunc ==
    /\ entry \in {"running", "synced"}
    /\ watch = "off"
    /\ entry' = "synced"
    /\ indexer' = api
    /\ watch' = "gap"
    /\ gap' = {}
    /\ UNCHANGED <<started, runs, api, stream, pc, saw>>

\* WatchFunc is not given the list's resource version: the watch begins with
\* what happens from now on.
WatchFunc ==
    /\ watch = "gap"
    /\ watch' = "on"
    /\ UNCHANGED <<informer, api, indexer, stream, gap, pc, saw>>

\* The watch ends, with the events that were under way; the informer lists
\* again.
WatchEnds ==
    /\ watch = "on"
    /\ watch' = "off"
    /\ stream' = <<>>
    /\ UNCHANGED <<informer, api, indexer, gap, pc, saw>>

Deliver ==
    /\ watch = "on"
    /\ stream # <<>>
    /\ indexer' = [indexer EXCEPT ![Head(stream)[1]] = Head(stream)[2]]
    /\ stream' = Tail(stream)
    /\ gap' = gap \ {Head(stream)[1]}
    /\ UNCHANGED <<informer, api, watch, pc, saw>>

\* The object n of the API becomes object.
Change(n, object) ==
    /\ api' = [api EXCEPT ![n] = object]
    /\ stream' = IF watch = "on" /\ object # api[n]
                 THEN Append(stream, <<n, object>>) ELSE stream
    /\ gap' = IF watch = "gap" /\ object # api[n] THEN gap \cup {n} ELSE gap
    /\ UNCHANGED <<indexer, watch>>

----------------------------------------------------------------------------
(* The map among goroutines that are elsewhere between two calls of Get. *)

Inside == {"add", "wait", "got"}

\* c calls Get, or goes about its other business, with a call of the API or
\* without.
Elsewhere(c) ==
    /\ pc[c] \notin {"lookup", "add"}
    /\ pc' = [pc EXCEPT ![c] = pc'[c]]
    /\ pc'[c] \notin Inside
    /\ UNCHANGED <<informer, saw>>
    /\ UNCHANGED objects \/ \E n \in Names, o \in Objects : Change(n, o)

----------------------------------------------------------------------------
(* CacheReader. *)

\* In a cache of all namespaces the reader has root scope: it drops the
\* namespace from the key, which then names no object of a namespace.
ReaderGet(n, allNamespaces) == IF allNamespaces THEN Absent ELSE indexer[n]

ReaderList == {n \in Names : indexer[n] # Absent}

----------------------------------------------------------------------------
MapNext ==
    \/ \E c \in Callers : \/ Lookup(c) \/ addInformerToMap(c)
                          \/ addInformerFails(c) \/ WaitForCacheSync(c)
                          \/ Elsewhere(c)
    \/ Start \/ ListFunc \/ WatchFunc \/ WatchEnds \/ Deliver

\* Every goroutine is somewhere, and none in Get.
Outside ==
    /\ pc = [c \in Callers |-> pc[c]]
    /\ \A c \in Callers : pc[c] \notin Inside

MapSpec == MapInit /\ Outside /\ [][MapNext]_mapVars

----------------------------------------------------------------------------
(* Properties. *)

\* The variables' types.
MapTypeOK ==
    /\ started \in BOOLEAN
    /\ entry \in {"none", "created", "running", "synced"}
    /\ runs \in Nat
    /\ watch \in {"off", "gap", "on"}
    /\ saw \in [Callers -> BOOLEAN]
    /\ api \in [Names -> Objects]
    /\ indexer \in [Names -> Objects]
    /\ stream \in Seq(Names \X Objects)
    /\ gap \subseteq Names

\* However lookups, additions and the start interleave, the kind's informer
\* is run exactly once when the map is started and not before: never by Start
\* and addInformerToMap both, never by neither, never a second informer.
RunOnce == runs = IF started /\ entry # "none" THEN 1 ELSE 0

\* Get returns an informer of a map it takes to be started only when the
\* informer has synced, so that a cached read never takes the empty indexer
\* of a new informer for an API without objects.
SyncedReads == \A c \in Callers : pc[c] = "got" /\ saw[c] => HasSynced
=============================================================================
