-------------------------- MODULE NamespaceRecorder --------------------------
(***************************************************************************)
(* The namespace recorder of the example operator,                         *)
(* example/controllers/nsrecorder_controller.go: a stateless-action        *)
(* controller whose action records a namespace in a ConfigMap, with a      *)
(* Create and an Update. Keys and objects of the actions are namespaces.   *)
(*                                                                         *)
(* configmap[n] is what the API server stored as the ConfigMap of n,       *)
(* version after version, and seen[n] the version in the cache that Get    *)
(* reads: 0 is no ConfigMap, and a ConfigMap is "empty" or "recorded".     *)
(***************************************************************************)
EXTENDS StatelessAction, Sequences

CONSTANT Budget         \* Budget[k]: how often k may happen

(* Limited: events of namespaces, API failures, restarts. *)
Kinds == {"event", "api", "restart"}

ASSUME RecorderAssumption ==
  Budget \in [Kinds -> Nat] /\ Objects = Keys /\ Keys # {}

VARIABLES
  exists,               \* the namespaces that exist
  configmap,            \* versions of the ConfigMaps
  seen,                 \* the versions in the cache
  call,                 \* where Run is
  cm,                   \* the version of the ConfigMap that Run has
  dropped,              \* namespaces whose action was given up
  budget                \* what is left of Budget

recorderVars == <<exists, configmap, seen, call, cm, dropped, budget>>
vars == <<actionVars, recorderVars>>

Spend(kind) ==
  /\ budget[kind] > 0
  /\ budget' = [budget EXCEPT ![kind] = @ - 1]

Cached(n) == IF seen[n] = 0 THEN "absent" ELSE configmap[n][seen[n]]

RecorderInit ==
  /\ ActionInit
  /\ exists = {}
  /\ configmap = [n \in Keys |-> <<>>] /\ seen = [n \in Keys |-> 0]
  /\ call = [i \in Ids |-> "get"] /\ cm = [i \in Ids |-> 0]
  /\ dropped = {}
  /\ budget = Budget

-----------------------------------------------------------------------------

(* A namespace is created, updated or deleted. *)
NamespaceEvent(n) ==
  /\ Spend("event")
  /\ exists' \in {exists \union {n}, exists \ {n}}
  /\ Event(n)
  /\ UNCHANGED <<configmap, seen, call, cm, dropped>>

(* The watch of the cache. *)
WatchConfigMap(n) ==
  /\ seen[n] < Len(configmap[n])
  /\ seen' = [seen EXCEPT ![n] = @ + 1]
  /\ UNCHANGED <<actionVars, exists, configmap, call, cm, dropped, budget>>

(* Whatever was under way is given up. *)
RecorderRestart ==
  /\ Spend("restart")
  /\ ActionRestart(exists)
  /\ seen' = [n \in Keys |-> Len(configmap[n])]
  /\ call' = [i \in Ids |-> "get"] /\ cm' = [i \in Ids |-> 0]
  /\ dropped' = dropped \union {object[i] : i \in {j \in Ids : ~Free(j)}}
  /\ UNCHANGED <<exists, configmap>>

-----------------------------------------------------------------------------
(* nsRecorder, the Controller. *)

NsGetObject(n) ==
  /\ \/ GetObject(n, IF n \in exists THEN "object" ELSE "NotFound") /\ UNCHANGED budget
     \/ GetObject(n, "error") /\ Spend("api")
  /\ UNCHANGED <<exists, configmap, seen, call, cm, dropped>>

(* Mutant of NsRequireAction: a ConfigMap that was not found is a record. *)
NsRequireActionNever(n) ==
  /\ RequireAction(n, "false")
  /\ UNCHANGED recorderVars

(* A failed Get is logged, and no action is required. *)
NsRequireAction(n) ==
  /\ \/ /\ RequireAction(n, IF Cached(n) = "absent" THEN "true" ELSE "false")
        /\ UNCHANGED <<dropped, budget>>
     \/ /\ RequireAction(n, "false") /\ Spend("api")
        /\ dropped' = dropped \union {n}
  /\ UNCHANGED <<exists, configmap, seen, call, cm>>

(* The manager's only object is the namespace itself. *)
NsGetObjects(n) == {n}

NsRunActionManager(n) ==
  /\ \E i \in Ids :
       /\ RunActionManager(n, NsGetObjects(n), [j \in {i} |-> n])
       /\ cm' = [cm EXCEPT ![i] = 0]
  /\ dropped' = dropped \ {n}
  /\ UNCHANGED <<exists, configmap, seen, call, budget>>

-----------------------------------------------------------------------------
(* nsActionManager, the action. Requests with an expired context fail.     *)

NsGetName(i) == GetName(i, TRUE) /\ UNCHANGED recorderVars

(* Run returns, with or without an error. *)
RunReturns(i) ==
  /\ Run(i)
  /\ call' = [call EXCEPT ![i] = "get"]
  /\ cm' = [cm EXCEPT ![i] = 0]

RunGet(i) ==
  /\ pc[i] = "run" /\ call[i] = "get"
  /\ \/ /\ call' = [call EXCEPT ![i] = IF Cached(object[i]) = "absent"
                                         THEN "create" ELSE "update"]
        /\ cm' = [cm EXCEPT ![i] = seen[object[i]]]
        /\ UNCHANGED <<actionVars, budget>>
     \/ RunReturns(i) /\ Spend("api")
  /\ UNCHANGED <<exists, configmap, seen, dropped>>

Stores(i, data) ==
  configmap' = [configmap EXCEPT ![object[i]] = Append(@, data)]

(* Somebody else has created it, or the request fails, perhaps after it    *)
(* was stored: the error is returned.                                      *)
RunCreate(i) ==
  LET possible == ~expired[i] /\ Len(configmap[object[i]]) = 0 IN
  /\ pc[i] = "run" /\ call[i] = "create"
  /\ \/ /\ possible /\ Stores(i, "empty")
        /\ call' = [call EXCEPT ![i] = "update"]
        /\ cm' = [cm EXCEPT ![i] = 1]
        /\ UNCHANGED <<actionVars, budget>>
     \/ ~possible /\ RunReturns(i) /\ UNCHANGED <<configmap, budget>>
     \/ possible /\ RunReturns(i) /\ Spend("api") /\ (Stores(i, "empty") \/ UNCHANGED configmap)
  /\ UNCHANGED <<exists, seen, dropped>>

(* The update is stored if the version is the latest. *)
RunUpdate(i) ==
  LET possible == ~expired[i] /\ cm[i] = Len(configmap[object[i]]) IN
  /\ pc[i] = "run" /\ call[i] = "update"
  /\ RunReturns(i)
  /\ \/ possible /\ Stores(i, "recorded") /\ UNCHANGED budget
     \/ ~possible /\ UNCHANGED <<configmap, budget>>
     \/ possible /\ Spend("api") /\ UNCHANGED configmap
  /\ UNCHANGED <<exists, seen, dropped>>

NsRetry(i) == Retry(i) /\ UNCHANGED recorderVars

(* Mutant of NsCheck: a ConfigMap without the data will do. *)
NsCheckExists(i) ==
  /\ Check(i, IF Cached(object[i]) = "absent" THEN "error" ELSE "false")
  /\ UNCHANGED recorderVars

(* A ConfigMap that is not found is an error: it is checked again later,   *)
(* without a run in between.                                               *)
NsCheck(i) ==
  /\ \/ /\ Check(i, CASE Cached(object[i]) = "absent" -> "error"
                      [] Cached(object[i]) = "empty" -> "true"
                      [] Cached(object[i]) = "recorded" -> "false")
        /\ UNCHANGED budget
     \/ Check(i, "error") /\ Spend("api")
  /\ UNCHANGED <<exists, configmap, seen, call, cm, dropped>>

NsExpire(i) ==
  /\ Expire(i)
  /\ dropped' = IF pc[i] = "defer" THEN dropped ELSE dropped \union {object[i]}
  /\ UNCHANGED <<exists, configmap, seen, call, cm, budget>>

NsDone(i) == Done(i) /\ UNCHANGED recorderVars

(* No-op. *)
NsDefer(i) == Defer(i) /\ UNCHANGED recorderVars

-----------------------------------------------------------------------------

NsReconcile(n) == NsGetObject(n) \/ NsRequireAction(n) \/ NsRunActionManager(n)

NsAction(i) ==
  \/ NsGetName(i) \/ RunGet(i) \/ RunCreate(i) \/ RunUpdate(i)
  \/ NsCheck(i) \/ NsDefer(i)

RecorderNext ==
  \/ \E n \in Keys : NamespaceEvent(n) \/ WatchConfigMap(n) \/ NsReconcile(n)
  \/ RecorderRestart
  \/ \E i \in Ids : NsAction(i) \/ NsRetry(i) \/ NsDone(i) \/ NsExpire(i)

RecorderSpec == RecorderInit /\ [][RecorderNext]_vars

(* Workers, the watch, goroutines and timers go on. select chooses at      *)
(* random among the cases that are ready: neither is passed over for good. *)
RecorderFairness ==
  /\ \A n \in Keys : WF_vars(WatchConfigMap(n)) /\ WF_vars(NsReconcile(n))
  /\ \A i \in Ids :
       /\ WF_vars(NsAction(i)) /\ WF_vars(NsExpire(i))
       /\ SF_vars(NsRetry(i)) /\ SF_vars(NsDone(i))

FairRecorderSpec == RecorderSpec /\ RecorderFairness

-----------------------------------------------------------------------------

(* Every goroutine ends: whatever Check and Run return and however often,  *)
(* the timeout of the context gets it out of the loop of RunAction.        *)
ActionsEnd == \A i \in Ids : ~Free(i) ~> Free(i)

(* A namespace is recorded in the end unless its action was given up: the  *)
(* cache may be behind, requests may fail, and actions on one namespace    *)
(* may overlap. Given up are actions whose context expired, actions of a   *)
(* process that stopped, and those RequireAction did not start because     *)
(* its Get failed, until another action is started for the namespace.      *)
Recorded ==
  \A n \in Keys :
    <>[](n \in exists /\ n \notin dropped
          => Len(configmap[n]) > 0 /\ configmap[n][Len(configmap[n])] = "recorded")

(* An action that ended in time left a record that the API server has      *)
(* stored (nothing deletes it here): Check believes the cache only if the  *)
(* cache has the data.                                                     *)
SettledIsRecorded ==
  \A i \in Ids :
    settled[i] => \E v \in 1..Len(configmap[object[i]]) : configmap[object[i]][v] = "recorded"
=============================================================================
