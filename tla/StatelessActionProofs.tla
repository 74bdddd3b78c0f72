------------------------ MODULE StatelessActionProofs ------------------------
(***************************************************************************)
(* RunAction for any Controller and any number of objects and goroutines:  *)
(* every action that was run calls Defer exactly once, and gives up only   *)
(* on a timeout. The invariant adds that a goroutine that has not run its  *)
(* action yet is neither settled nor expired, which is what makes an       *)
(* action without a name end without Defer. The namespace recorder is such *)
(* a Controller.                                                           *)
(***************************************************************************)
EXTENDS NamespaceRecorder, TLAPS

Places == {"none", "name", "run", "select", "check", "defer", "ended"}

RunTypeOK ==
  /\ pc \in [Ids -> Places]
  /\ expired \in [Ids -> BOOLEAN]
  /\ settled \in [Ids -> BOOLEAN]
  /\ deferred \in [Ids -> Nat]

ActionInv ==
  /\ RunTypeOK
  /\ DeferredOnce
  /\ SettledOrExpired
  /\ \A i \in Ids : pc[i] = "name" => ~expired[i] /\ ~settled[i]

(* What a goroutine has to satisfy. *)
Sound(p, e, s, d) ==
  /\ p \in {"name", "run", "select", "check", "defer"} => d = 0
  /\ p = "ended" => d <= 1
  /\ p = "ended" /\ (s \/ e) => d = 1
  /\ p = "defer" \/ (p = "ended" /\ d > 0) => s \/ e
  /\ p = "name" => ~e /\ ~s

(* The invariant speaks of each goroutine by itself. *)
LEMMA ActionInvSound ==
  ActionInv <=> RunTypeOK /\ \A i \in Ids : Sound(pc[i], expired[i], settled[i], deferred[i])
BY DEF ActionInv, DeferredOnce, SettledOrExpired, Sound

(* Before the first reconciliation no goroutine runs. *)
LEMMA ActionInitInv == ActionInit => ActionInv
<1> SUFFICES ASSUME ActionInit PROVE ActionInv
  OBVIOUS
<1>1. RunTypeOK
  BY DEF ActionInit, RunTypeOK, Places
<1>2. \A i \in Ids : pc[i] = "none"
  BY DEF ActionInit
<1> QED  BY <1>1, <1>2 DEF ActionInv, DeferredOnce, SettledOrExpired

(* A step of the goroutine i. *)
OnlyOf(i) ==
  \A j \in Ids \ {i} :
    /\ pc'[j] = pc[j] /\ expired'[j] = expired[j]
    /\ settled'[j] = settled[j] /\ deferred'[j] = deferred[j]

(* A step of one goroutine keeps the invariant if it leaves that goroutine *)
(* sound, since it does not touch the others.                              *)
LEMMA StepOfOne ==
  ASSUME ActionInv, NEW i \in Ids, RunTypeOK', OnlyOf(i),
         Sound(pc'[i], expired'[i], settled'[i], deferred'[i])
  PROVE  ActionInv'
<1>1. ASSUME NEW j \in Ids, j # i
      PROVE  Sound(pc'[j], expired'[j], settled'[j], deferred'[j])
  <2>1. Sound(pc[j], expired[j], settled[j], deferred[j])
    BY ActionInvSound
  <2> QED  BY <1>1, <2>1 DEF OnlyOf
<1>2. \A j \in Ids : Sound(pc'[j], expired'[j], settled'[j], deferred'[j])
  BY <1>1
<1> QED  BY <1>2 DEF ActionInv, DeferredOnce, SettledOrExpired, Sound

(* Every step of the controller and of its goroutines keeps the invariant. *)
LEMMA ActionStepInv == ActionInv /\ [ActionNext]_actionVars => ActionInv'
<1> SUFFICES ASSUME ActionInv, [ActionNext]_actionVars PROVE ActionInv'
  OBVIOUS
<1>1. CASE UNCHANGED running
  <2>1. UNCHANGED <<pc, expired, settled, deferred>>
    BY <1>1 DEF running
  <2> QED  BY <2>1 DEF ActionInv, RunTypeOK, DeferredOnce, SettledOrExpired
<1>2. ASSUME NEW listed, ActionRestart(listed) PROVE ActionInv'
  <2>1. pc' = [i \in Ids |-> "none"] /\ UNCHANGED <<expired, settled, deferred>>
    BY <1>2 DEF ActionRestart
  <2>2. RunTypeOK'
    BY <2>1 DEF ActionInv, RunTypeOK, Places
  <2> QED  BY <2>1, <2>2 DEF ActionInv, DeferredOnce, SettledOrExpired
<1>3. ASSUME NEW k \in Keys, NEW objects, NEW started, RunActionManager(k, objects, started)
      PROVE  ActionInv'
  <2> DEFINE S == DOMAIN started
  <2>1. /\ pc' = [i \in Ids |-> IF i \in S THEN "name" ELSE pc[i]]
        /\ expired' = [i \in Ids |-> i \notin S /\ expired[i]]
        /\ settled' = [i \in Ids |-> i \notin S /\ settled[i]]
        /\ deferred' = [i \in Ids |-> IF i \in S THEN 0 ELSE deferred[i]]
    BY <1>3 DEF RunActionManager
  <2> HIDE DEF S
  <2>2. RunTypeOK'
    BY <2>1 DEF ActionInv, RunTypeOK, Places
  <2>3. ASSUME NEW i \in Ids
        PROVE  Sound(pc'[i], expired'[i], settled'[i], deferred'[i])
    <3>1. CASE i \in S
      BY <2>1, <3>1, ZenonT(30) DEF Sound
    <3>2. CASE i \notin S
      <4>1. /\ pc'[i] = pc[i] /\ expired'[i] = expired[i]
            /\ settled'[i] = settled[i] /\ deferred'[i] = deferred[i]
        BY <2>1, <3>2 DEF ActionInv, RunTypeOK
      <4> QED  BY <4>1, ActionInvSound
    <3> QED  BY <3>1, <3>2
  <2> QED  BY <2>2, <2>3 DEF ActionInv, DeferredOnce, SettledOrExpired, Sound
<1>4. ASSUME NEW i \in Ids, ActionStep(i) \/ Expire(i) PROVE ActionInv'
  <2>1. /\ Sound(pc[i], expired[i], settled[i], deferred[i])
        /\ expired[i] \in BOOLEAN /\ settled[i] \in BOOLEAN /\ deferred[i] \in Nat
        /\ pc[i] \in Places
    BY ActionInvSound DEF RunTypeOK
  <2>2. ASSUME NEW ok \in BOOLEAN, GetName(i, ok) PROVE ActionInv'
    <3>1. PICK p \in {"run", "ended"} : pc' = [pc EXCEPT ![i] = p]
      BY <2>2, ZenonT(30) DEF GetName, Goto
    <3>2. pc[i] = "name" /\ UNCHANGED <<expired, settled, deferred>>
      BY <2>2 DEF GetName
    <3>5. RunTypeOK' /\ OnlyOf(i)
      BY <3>1, <3>2 DEF ActionInv, RunTypeOK, OnlyOf, Places
    <3>6. Sound(pc'[i], expired'[i], settled'[i], deferred'[i])
      BY <2>1, <3>1, <3>2 DEF ActionInv, RunTypeOK, Sound
    <3> QED  BY <3>5, <3>6, StepOfOne
  <2>3. CASE Run(i)
    <3>1. /\ pc[i] = "run" /\ pc' = [pc EXCEPT ![i] = "select"]
          /\ settled' = [settled EXCEPT ![i] = FALSE]
          /\ UNCHANGED <<expired, deferred>>
      BY <2>3 DEF Run, Goto
    <3>5. RunTypeOK' /\ OnlyOf(i)
      BY <3>1 DEF ActionInv, RunTypeOK, OnlyOf, Places
    <3>6. Sound(pc'[i], expired'[i], settled'[i], deferred'[i])
      BY <2>1, <3>1 DEF ActionInv, RunTypeOK, Sound
    <3> QED  BY <3>5, <3>6, StepOfOne
  <2>4. CASE Retry(i) \/ Done(i)
    <3>1. PICK p \in {"check", "defer"} :
            pc' = [pc EXCEPT ![i] = p] /\ (p = "defer" => expired[i])
      BY <2>4 DEF Retry, Done, Goto
    <3>2. pc[i] = "select" /\ UNCHANGED <<expired, settled, deferred>>
      BY <2>4 DEF Retry, Done
    <3>5. RunTypeOK' /\ OnlyOf(i)
      BY <3>1, <3>2 DEF ActionInv, RunTypeOK, OnlyOf, Places
    <3>6. Sound(pc'[i], expired'[i], settled'[i], deferred'[i])
      BY <2>1, <3>1, <3>2 DEF ActionInv, RunTypeOK, Sound
    <3> QED  BY <3>5, <3>6, StepOfOne
  <2>5. ASSUME NEW outcome \in {"true", "false", "error"}, Check(i, outcome)
        PROVE  ActionInv'
    <3>1. PICK p \in {"select", "run", "defer"} :
            pc' = [pc EXCEPT ![i] = p] /\ (p = "defer" => outcome = "false")
      BY <2>5, ZenonT(30) DEF Check, Goto
    <3>2. /\ pc[i] = "check" /\ settled' = [settled EXCEPT ![i] = (outcome = "false")]
          /\ UNCHANGED <<expired, deferred>>
      BY <2>5 DEF Check
    <3>5. RunTypeOK' /\ OnlyOf(i)
      BY <3>1, <3>2 DEF ActionInv, RunTypeOK, OnlyOf, Places
    <3>6. Sound(pc'[i], expired'[i], settled'[i], deferred'[i])
      BY <2>1, <3>1, <3>2, ZenonT(30) DEF ActionInv, RunTypeOK, Sound
    <3> QED  BY <3>5, <3>6, StepOfOne
  <2>6. CASE Defer(i)
    <3>1. /\ pc[i] = "defer" /\ pc' = [pc EXCEPT ![i] = "ended"]
          /\ deferred' = [deferred EXCEPT ![i] = deferred[i] + 1]
          /\ UNCHANGED <<expired, settled>>
      BY <2>6 DEF Defer, Goto
    <3>5. RunTypeOK' /\ OnlyOf(i)
      BY <3>1 DEF ActionInv, RunTypeOK, OnlyOf, Places
    <3>6. Sound(pc'[i], expired'[i], settled'[i], deferred'[i])
      BY <2>1, <3>1 DEF ActionInv, RunTypeOK, Sound
    <3> QED  BY <3>5, <3>6, StepOfOne
  <2>7. CASE Expire(i)
    <3>1. /\ pc[i] \in {"run", "select", "check", "defer"}
          /\ expired' = [expired EXCEPT ![i] = TRUE]
          /\ UNCHANGED <<pc, settled, deferred>>
      BY <2>7 DEF Expire
    <3>5. RunTypeOK' /\ OnlyOf(i)
      BY <3>1 DEF ActionInv, RunTypeOK, OnlyOf, Places
    <3>6. Sound(pc'[i], expired'[i], settled'[i], deferred'[i])
      BY <2>1, <3>1 DEF ActionInv, RunTypeOK, Sound
    <3> QED  BY <3>5, <3>6, StepOfOne
  <2> QED  BY <1>4, <2>2, <2>3, <2>4, <2>5, <2>6, <2>7 DEF ActionStep
<1>5. ASSUME NEW k \in Keys, Event(k) \/ ReconcileStep(k) PROVE ActionInv'
  BY <1>1, <1>3, <1>5, ZenonT(30) DEF Event, ReconcileStep, GetObject, RequireAction, ManagerFails
<1> QED  BY <1>1, <1>2, <1>4, <1>5 DEF ActionNext, actionVars

-----------------------------------------------------------------------------

(* Defer is called exactly once by every action that was run, by no other, *)
(* and last, for any Controller and any interleaving of its actions.       *)
THEOREM DeferredOnceHolds == ActionSpec => []DeferredOnce
<1>1. ActionInv => DeferredOnce
  BY DEF ActionInv
<1> QED  BY <1>1, ActionInitInv, ActionStepInv, PTL DEF ActionSpec

(* RunAction gives up only on a timeout, for any Controller. *)
THEOREM SettledOrExpiredHolds == ActionSpec => []SettledOrExpired
<1>1. ActionInv => SettledOrExpired
  BY DEF ActionInv
<1> QED  BY <1>1, ActionInitInv, ActionStepInv, PTL DEF ActionSpec

(* What the recorder's own state is. *)
RecorderInv ==
  /\ exists \subseteq Keys
  /\ configmap \in [Keys -> Seq({"empty", "recorded"})]
  /\ seen \in [Keys -> Nat]
  /\ \A n \in Keys : seen[n] <= Len(configmap[n])
  /\ object \in [Ids -> Keys]
  /\ settled \in [Ids -> BOOLEAN]
  /\ SettledIsRecorded

(* The stores without a namespace. *)
LEMMA RecorderInitInv == RecorderInit => RecorderInv
<1> SUFFICES ASSUME RecorderInit PROVE RecorderInv
  OBVIOUS
<1>1. object \in [Ids -> Keys]
  BY RecorderAssumption, ZenonT(30) DEF RecorderInit, ActionInit
<1>2. settled \in [Ids -> BOOLEAN] /\ SettledIsRecorded
  BY DEF RecorderInit, ActionInit, SettledIsRecorded
<1>3. /\ exists \subseteq Keys /\ configmap \in [Keys -> Seq({"empty", "recorded"})]
      /\ seen \in [Keys -> Nat] /\ \A n \in Keys : seen[n] <= Len(configmap[n])
  BY DEF RecorderInit
<1> QED  BY <1>1, <1>2, <1>3 DEF RecorderInv

(* What the cache has of a ConfigMap was stored. *)
LEMMA CachedStored ==
  ASSUME RecorderInv, NEW n \in Keys
  PROVE  /\ Cached(n) \in {"absent", "empty", "recorded"}
         /\ Cached(n) = "recorded" => \E v \in 1..Len(configmap[n]) : configmap[n][v] = "recorded"
<1>1. configmap[n] \in Seq({"empty", "recorded"}) /\ seen[n] \in Nat
      /\ seen[n] <= Len(configmap[n])
  BY DEF RecorderInv
<1>2. CASE seen[n] = 0
  BY <1>2 DEF Cached
<1>3. CASE seen[n] # 0
  <2>1. seen[n] \in 1..Len(configmap[n]) /\ Cached(n) = configmap[n][seen[n]]
    BY <1>1, <1>3 DEF Cached
  <2> QED  BY <1>1, <2>1
<1> QED  BY <1>2, <1>3

(* A request that stores a version, or none, and leaves the action not     *)
(* settled, or as it was.                                                  *)
LEMMA StoresInv ==
  ASSUME RecorderInv, NEW i \in Ids, NEW data \in {"empty", "recorded"},
         Stores(i, data) \/ UNCHANGED configmap,
         settled' = [settled EXCEPT ![i] = FALSE] \/ UNCHANGED settled,
         UNCHANGED <<exists, seen, object>>
  PROVE  RecorderInv'
<1>1. ASSUME NEW n \in Keys
      PROVE  /\ configmap'[n] \in Seq({"empty", "recorded"})
             /\ Len(configmap[n]) <= Len(configmap'[n])
             /\ \A v \in 1..Len(configmap[n]) : configmap'[n][v] = configmap[n][v]
  <2>1. configmap[n] \in Seq({"empty", "recorded"})
    BY DEF RecorderInv
  <2>2. configmap'[n] = configmap[n] \/ configmap'[n] = Append(configmap[n], data)
    BY DEF RecorderInv, Stores
  <2> QED  BY <2>1, <2>2
<1>2. configmap' \in [Keys -> Seq({"empty", "recorded"})]
  BY <1>1 DEF RecorderInv, Stores
<1>3. \A n \in Keys : seen'[n] <= Len(configmap'[n])
  <2> SUFFICES ASSUME NEW n \in Keys PROVE seen[n] <= Len(configmap'[n])
    OBVIOUS
  <2>1. seen[n] \in Nat /\ Len(configmap[n]) \in Nat /\ Len(configmap'[n]) \in Nat
        /\ seen[n] <= Len(configmap[n])
    BY <1>1 DEF RecorderInv
  <2> QED  BY <1>1, <2>1
<1>4. settled' \in [Ids -> BOOLEAN]
  BY ZenonT(30) DEF RecorderInv
<1>5. SettledIsRecorded'
  <2> SUFFICES ASSUME NEW j \in Ids, settled'[j]
               PROVE  \E v \in 1..Len(configmap'[object[j]]) :
                        configmap'[object[j]][v] = "recorded"
    BY DEF SettledIsRecorded
  <2>1. settled[j] /\ object[j] \in Keys
    BY ZenonT(30) DEF RecorderInv
  <2>2. PICK v \in 1..Len(configmap[object[j]]) : configmap[object[j]][v] = "recorded"
    BY <2>1 DEF RecorderInv, SettledIsRecorded
  <2>3. Len(configmap[object[j]]) \in Nat /\ Len(configmap'[object[j]]) \in Nat
    BY <1>1, <2>1 DEF RecorderInv
  <2>4. v \in 1..Len(configmap'[object[j]]) /\ configmap'[object[j]][v] = "recorded"
    BY <1>1, <2>1, <2>2, <2>3
  <2> QED  BY <2>4
<1> QED  BY <1>2, <1>3, <1>4, <1>5 DEF RecorderInv

(* Every step of the recorder is a step of the action controller, or none. *)
LEMMA RecorderSteps == RecorderInv /\ [RecorderNext]_vars => [ActionNext]_actionVars
<1> SUFFICES ASSUME RecorderInv, [RecorderNext]_vars PROVE [ActionNext]_actionVars
  OBVIOUS
<1>1. CASE UNCHANGED vars
  BY <1>1 DEF vars
<1>2. ASSUME NEW n \in Keys, NamespaceEvent(n) PROVE ActionNext
  BY <1>2 DEF NamespaceEvent, ActionNext
<1>3. ASSUME NEW n \in Keys, WatchConfigMap(n) PROVE UNCHANGED actionVars
  BY <1>3 DEF WatchConfigMap
<1>4. CASE RecorderRestart
  <2>1. ActionRestart(exists)
    BY <1>4 DEF RecorderRestart
  <2>2. exists \in SUBSET Keys
    BY DEF RecorderInv
  <2> QED  BY <2>1, <2>2 DEF ActionNext
<1>5. ASSUME NEW n \in Keys, NsGetObject(n) PROVE ActionNext
  <2>1. \E outcome \in {"object", "NotFound", "nil", "error"} : GetObject(n, outcome)
    BY <1>5 DEF NsGetObject
  <2> QED  BY <2>1 DEF ActionNext, ReconcileStep
<1>6. ASSUME NEW n \in Keys, NsRequireAction(n) PROVE ActionNext
  <2>1. \E outcome \in {"true", "false", "error"} : RequireAction(n, outcome)
    BY <1>6 DEF NsRequireAction
  <2> QED  BY <2>1 DEF ActionNext, ReconcileStep
<1>7. ASSUME NEW n \in Keys, NsRunActionManager(n) PROVE ActionNext
  <2>1. PICK i \in Ids : RunActionManager(n, {n}, [j \in {i} |-> n])
    BY <1>7 DEF NsRunActionManager, NsGetObjects
  <2>2. n \in Objects
    BY RecorderAssumption
  <2>3. {i} \in SUBSET Ids /\ {n} \in SUBSET Objects
        /\ [j \in {i} |-> n] \in [{i} -> Objects]
    BY <2>2
  <2>4. ReconcileStep(n)
    BY <2>1, <2>3 DEF ReconcileStep
  <2> QED  BY <2>4 DEF ActionNext
<1>8. ASSUME NEW i \in Ids, NsAction(i) PROVE ActionNext \/ UNCHANGED actionVars
  <2>1. CASE NsGetName(i)
    BY <2>1, ZenonT(30) DEF NsGetName, ActionNext, ActionStep
  <2>2. CASE RunGet(i) \/ RunCreate(i) \/ RunUpdate(i)
    <3>1. Run(i) \/ UNCHANGED actionVars
      BY <2>2 DEF RunGet, RunCreate, RunUpdate, RunReturns
    <3> QED  BY <3>1 DEF ActionNext, ActionStep
  <2>3. CASE NsCheck(i)
    <3>1. \E outcome \in {"true", "false", "error"} : Check(i, outcome)
      <4>1. Cached(object[i]) \in {"absent", "empty", "recorded"}
        BY CachedStored DEF RecorderInv
      <4> QED  BY <2>3, <4>1 DEF NsCheck
    <3> QED  BY <3>1 DEF ActionNext, ActionStep
  <2>4. CASE NsDefer(i)
    BY <2>4 DEF NsDefer, ActionNext, ActionStep
  <2> QED  BY <1>8, <2>1, <2>2, <2>3, <2>4 DEF NsAction
<1>9. ASSUME NEW i \in Ids, NsRetry(i) \/ NsDone(i) \/ NsExpire(i) PROVE ActionNext
  BY <1>9 DEF NsRetry, NsDone, NsExpire, ActionNext, ActionStep
<1> QED
  BY <1>1, <1>2, <1>3, <1>4, <1>5, <1>6, <1>7, <1>8, <1>9
  DEF RecorderNext, NsReconcile

(* Every step of the recorder keeps its invariant. *)
LEMMA RecorderStepInv == RecorderInv /\ [RecorderNext]_vars => RecorderInv'
<1> SUFFICES ASSUME RecorderInv, [RecorderNext]_vars PROVE RecorderInv'
  OBVIOUS
<1>1. ASSUME UNCHANGED <<exists, configmap, seen, object, settled>> PROVE RecorderInv'
  BY <1>1 DEF RecorderInv, SettledIsRecorded
<1>2. ASSUME NEW n \in Keys, NamespaceEvent(n) PROVE RecorderInv'
  <2>1. UNCHANGED <<configmap, seen, object, settled>> /\ exists' \subseteq Keys
    BY <1>2 DEF NamespaceEvent, Event, running, RecorderInv
  <2> QED  BY <2>1 DEF RecorderInv, SettledIsRecorded
<1>3. ASSUME NEW n \in Keys, WatchConfigMap(n) PROVE RecorderInv'
  <2>1. /\ seen[n] < Len(configmap[n]) /\ seen' = [seen EXCEPT ![n] = seen[n] + 1]
        /\ UNCHANGED <<exists, configmap, object, settled>>
    BY <1>3 DEF WatchConfigMap, actionVars, running
  <2>2. \A m \in Keys : seen[m] \in Nat /\ Len(configmap[m]) \in Nat
    BY DEF RecorderInv
  <2>3. seen' \in [Keys -> Nat] /\ \A m \in Keys : seen'[m] <= Len(configmap'[m])
    BY <2>1, <2>2 DEF RecorderInv
  <2> QED  BY <2>1, <2>3 DEF RecorderInv, SettledIsRecorded
<1>4. CASE RecorderRestart
  <2>1. /\ seen' = [n \in Keys |-> Len(configmap[n])]
        /\ UNCHANGED <<exists, configmap, object, settled>>
    BY <1>4 DEF RecorderRestart, ActionRestart
  <2>2. \A m \in Keys : Len(configmap[m]) \in Nat
    BY DEF RecorderInv
  <2>3. seen' \in [Keys -> Nat] /\ \A m \in Keys : seen'[m] <= Len(configmap'[m])
    BY <2>1, <2>2
  <2> QED  BY <2>1, <2>3 DEF RecorderInv, SettledIsRecorded
<1>5. ASSUME NEW n \in Keys, NsGetObject(n) \/ NsRequireAction(n) PROVE RecorderInv'
  <2>1. UNCHANGED <<exists, configmap, seen, object, settled>>
    BY <1>5 DEF NsGetObject, NsRequireAction, GetObject, RequireAction, running
  <2> QED  BY <1>1, <2>1
<1>6. ASSUME NEW n \in Keys, NsRunActionManager(n) PROVE RecorderInv'
  <2>1. PICK i \in Ids : RunActionManager(n, {n}, [j \in {i} |-> n])
    BY <1>6 DEF NsRunActionManager, NsGetObjects
  <2>2. /\ object' = [j \in Ids |-> IF j \in {i} THEN n ELSE object[j]]
        /\ settled' = [j \in Ids |-> j \notin {i} /\ settled[j]]
    BY <2>1 DEF RunActionManager
  <2>3. UNCHANGED <<exists, configmap, seen>>
    BY <1>6 DEF NsRunActionManager
  <2>4. object' \in [Ids -> Keys] /\ settled' \in [Ids -> BOOLEAN]
    BY <2>2 DEF RecorderInv
  <2>5. SettledIsRecorded'
    BY <2>2, <2>3, ZenonT(30) DEF RecorderInv, SettledIsRecorded
  <2> QED  BY <2>3, <2>4, <2>5 DEF RecorderInv
<1>7. ASSUME NEW i \in Ids,
             NsGetName(i) \/ NsDefer(i) \/ NsRetry(i) \/ NsDone(i) \/ NsExpire(i)
      PROVE  RecorderInv'
  <2>1. UNCHANGED <<exists, configmap, seen, object, settled>>
    BY <1>7 DEF NsGetName, NsDefer, NsRetry, NsDone, NsExpire, GetName, Defer,
                Retry, Done, Expire, recorderVars
  <2> QED  BY <1>1, <2>1
<1>8. ASSUME NEW i \in Ids, RunGet(i) \/ RunCreate(i) \/ RunUpdate(i)
      PROVE  RecorderInv'
  <2>1. UNCHANGED <<exists, seen>> /\ (RunReturns(i) \/ UNCHANGED actionVars)
    BY <1>8 DEF RunGet, RunCreate, RunUpdate
  <2>2. Stores(i, "empty") \/ Stores(i, "recorded") \/ UNCHANGED configmap
    BY <1>8 DEF RunGet, RunCreate, RunUpdate
  <2>3. UNCHANGED object
        /\ (settled' = [settled EXCEPT ![i] = FALSE] \/ UNCHANGED settled)
    BY <2>1 DEF RunReturns, Run, actionVars, running
  <2> QED  BY <2>1, <2>2, <2>3, StoresInv
<1>9. ASSUME NEW i \in Ids, NsCheck(i) PROVE RecorderInv'
  <2>1. UNCHANGED <<exists, configmap, seen, object>>
    BY <1>9 DEF NsCheck, Check
  <2>2. object[i] \in Keys
    BY DEF RecorderInv
  <2>3. PICK s \in BOOLEAN :
          /\ settled' = [settled EXCEPT ![i] = s]
          /\ s => Cached(object[i]) = "recorded"
    <3>1. CASE Check(i, "error") \/ Check(i, "true")
      BY <3>1, ZenonT(30) DEF Check
    <3>2. CASE Cached(object[i]) = "recorded" /\ Check(i, "false")
      BY <3>2, ZenonT(30) DEF Check
    <3>3. Cached(object[i]) \in {"absent", "empty", "recorded"}
      BY <2>2, CachedStored
    <3> QED  BY <1>9, <3>1, <3>2, <3>3 DEF NsCheck
  <2>4. settled' \in [Ids -> BOOLEAN]
    BY <2>3 DEF RecorderInv
  <2>5. ASSUME NEW j \in Ids, settled'[j]
        PROVE  \E v \in 1..Len(configmap[object[j]]) : configmap[object[j]][v] = "recorded"
    <3>1. CASE j = i
      BY <2>2, <2>3, <2>5, <3>1, CachedStored DEF RecorderInv
    <3>2. CASE j # i
      BY <2>3, <2>5, <3>2 DEF RecorderInv, SettledIsRecorded
    <3> QED  BY <3>1, <3>2
  <2> QED  BY <2>1, <2>4, <2>5 DEF RecorderInv, SettledIsRecorded
<1>10. CASE UNCHANGED vars
  BY <1>1, <1>10 DEF vars, actionVars, running, recorderVars
<1> QED
  BY <1>2, <1>3, <1>4, <1>5, <1>6, <1>7, <1>8, <1>9, <1>10
  DEF RecorderNext, NsReconcile, NsAction

(* The namespace recorder's actions are actions as the controller runs     *)
(* them, so that what is proved of any Controller holds of the recorder.   *)
LEMMA RecorderUsesAction == RecorderSpec => ActionSpec
<1>1. RecorderInit => ActionInit
  BY DEF RecorderInit
<1> QED
  BY <1>1, RecorderInitInv, RecorderStepInv, RecorderSteps, PTL
  DEF RecorderSpec, ActionSpec

(* And so they end with Defer, once, and give up only on a timeout.        *)
THEOREM RecorderDefers == RecorderSpec => [](DeferredOnce /\ SettledOrExpired)
BY RecorderUsesAction, DeferredOnceHolds, SettledOrExpiredHolds, PTL

(* An action that was found done has left a record in the API server,      *)
(* however far the cache is behind.                                        *)
THEOREM SettledIsRecordedHolds == RecorderSpec => []SettledIsRecorded
<1>1. RecorderInv => SettledIsRecorded
  BY DEF RecorderInv
<1> QED  BY <1>1, RecorderInitInv, RecorderStepInv, PTL DEF RecorderSpec
=============================================================================
