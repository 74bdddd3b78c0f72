-------------------------- MODULE ObjectSyncProofs --------------------------
(***************************************************************************)
(* HeldIsKept for any number of names, workers, writes, failures and       *)
(* restarts. The invariant adds to the types that collectGarbage has on    *)
(* its list only names that were absent when it listed the k8s objects,    *)
(* and that this stays so while the objects are written to: the versions   *)
(* that were read do not change. The last section is about Reconcile       *)
(* without a sync function: what it leaves behind when it rests.           *)
(***************************************************************************)
EXTENDS ObjectSync, TLAPS

Listed ==
  round = "apply" /\ reconciler = "external-object" =>
    \A k \in todo : ~Live(k, instances[k])

SyncInv == SyncTypeOK /\ Listed

(* Something of the budget is spent. *)
LEMMA SpendType ==
  ASSUME budget \in [Kinds -> Nat], NEW kind \in Kinds, Spend(kind)
  PROVE  /\ budget' \in [Kinds -> Nat]
         /\ budget'[kind] # budget[kind]
BY DEF Spend

(* A version that was read stays as it was. *)
LEMMA LiveStays ==
  ASSUME SyncTypeOK, NEW k \in Keys, NEW j \in Keys, NEW live \in BOOLEAN,
         hist' = [hist EXCEPT ![j] = Append(@, live)],
         NEW v \in Nat, v <= seen[k]
  PROVE  Live(k, v)' <=> Live(k, v)
<1>1. PICK h \in Seq(BOOLEAN) : h = hist[k] /\ v <= Len(h)
  BY DEF SyncTypeOK
<1>2. hist'[k] = h \/ hist'[k] = Append(h, live)
  BY <1>1 DEF SyncTypeOK
<1>3. v > 0 => hist'[k][v] = h[v]
  BY <1>1, <1>2
<1> QED  BY <1>1, <1>3 DEF Live

(* The controller before its first event. *)
LEMMA SyncInitInv == Init => SyncInv
<1> SUFFICES ASSUME Init PROVE SyncInv
  OBVIOUS
<1>1. reconciler \in {"sync", "external-object", "metadata"} /\ syncFunc \in BOOLEAN
  BY ZenonT(30) DEF Init, SyncInit, ExternalObjectInit, MetadataInit
<1>2. /\ hist \in [Keys -> Seq(BOOLEAN)] /\ seen \in [Keys -> Nat]
      /\ \A k \in Keys : seen[k] <= Len(hist[k]) /\ instance[k] <= seen[k]
                         /\ instances[k] <= seen[k]
  BY DEF Init
<1>3. /\ instance \in [Keys -> Nat] /\ instances \in [Keys -> Nat]
      /\ external \in [Keys -> Nat]
      /\ queue \subseteq Keys /\ working \subseteq Keys /\ todo \subseteq Keys
      /\ round = "wait" /\ budget \in [Kinds -> Nat]
  BY SyncAssumption DEF Init
<1> QED  BY <1>1, <1>2, <1>3 DEF SyncInv, SyncTypeOK, Listed

(* Every step keeps the types, and the names on collectGarbage's list      *)
(* absent at the versions it listed.                                       *)
LEMMA SyncStepInv == SyncInv /\ [Next]_vars => SyncInv'
<1> SUFFICES ASSUME SyncInv, [Next]_vars PROVE SyncInv'
  OBVIOUS
<1> USE DEF Kinds
<1>1. CASE UNCHANGED vars
  BY <1>1 DEF vars, config, stores, requests, rounds, SyncInv, SyncTypeOK, Listed, Live
<1>2. ASSUME NEW k \in Keys, Write(k) PROVE SyncInv'
  <2>1. PICK live \in BOOLEAN : hist' = [hist EXCEPT ![k] = Append(@, live)]
    BY <1>2, ZenonT(30) DEF Write
  <2>2. /\ UNCHANGED <<reconciler, syncFunc, seen, queue, working, instance>>
        /\ UNCHANGED <<external, round, instances, todo>>
    BY <1>2 DEF Write, config, requests, rounds
  <2>3. budget' \in [Kinds -> Nat]
    BY <1>2, SpendType DEF Write, SyncInv, SyncTypeOK
  <2>4. hist' \in [Keys -> Seq(BOOLEAN)]
    BY <2>1 DEF SyncInv, SyncTypeOK
  <2>5. ASSUME NEW j \in Keys PROVE seen'[j] <= Len(hist'[j])
    <3>1. PICK h \in Seq(BOOLEAN) : h = hist[j] /\ seen[j] <= Len(h) /\ seen[j] \in Nat
      BY DEF SyncInv, SyncTypeOK
    <3>2. hist'[j] = h \/ hist'[j] = Append(h, live)
      BY <2>1, <3>1 DEF SyncInv, SyncTypeOK
    <3>3. Len(hist'[j]) >= Len(h) /\ Len(h) \in Nat /\ Len(hist'[j]) \in Nat
      BY <3>2
    <3> QED  BY <2>2, <3>1, <3>3
  <2>6. SyncTypeOK'
    BY <2>2, <2>3, <2>4, <2>5, ZenonT(30) DEF SyncInv, SyncTypeOK
  <2>7. Listed'
    <3> SUFFICES ASSUME round = "apply", reconciler = "external-object", NEW j \in todo
                 PROVE  ~Live(j, instances[j])'
      BY <2>2 DEF Listed
    <3>1. j \in Keys /\ instances[j] \in Nat /\ instances[j] <= seen[j] /\ SyncTypeOK
      BY ZenonT(30) DEF SyncInv, SyncTypeOK
    <3>2. ~Live(j, instances[j])
      BY DEF SyncInv, Listed
    <3>3. PICK v \in Nat : v = instances[j] /\ v = instances'[j]
      BY <2>2, <3>1
    <3>4. Live(j, v)' <=> Live(j, v)
      BY <2>1, <3>1, <3>3, LiveStays, ZenonT(30)
    <3> QED  BY <3>2, <3>3, <3>4 DEF Live
  <2> QED  BY <2>6, <2>7 DEF SyncInv
<1>3. ASSUME NEW k \in Keys, Drift(k) PROVE SyncInv'
  <2>1. SyncTypeOK'
    <3>1. external' \in [Keys -> Nat]
      <4>1. PICK v \in Nat : external' = [external EXCEPT ![k] = v]
        <5>1. hist[k] \in Seq(BOOLEAN)
          BY DEF SyncInv, SyncTypeOK
        <5>2. Len(hist[k]) \in Nat
          BY <5>1
        <5>3. \A v \in 0..Len(hist[k]) : v \in Nat
          BY <5>2
        <5> QED  BY <1>3, <5>3, Zenon DEF Drift
      <4> QED  BY <4>1 DEF SyncInv, SyncTypeOK
    <3>2. budget' \in [Kinds -> Nat]
      BY <1>3, SpendType DEF Drift, SyncInv, SyncTypeOK
    <3> QED
      BY <1>3, <3>1, <3>2, ZenonT(30) DEF Drift, SyncInv, SyncTypeOK, config, stores, requests, rounds
  <2>2. Listed'
    BY <1>3 DEF Drift, SyncInv, SyncTypeOK, Listed, Live, config, stores, requests, rounds
  <2> QED  BY <2>1, <2>2 DEF SyncInv
<1>4. ASSUME NEW k \in Keys, Watch(k) PROVE SyncInv'
  <2>1. SyncTypeOK'
    <3>1. /\ seen' \in [Keys -> Nat] /\ hist' = hist
          /\ \A j \in Keys : seen[j] <= seen'[j] /\ seen'[j] <= Len(hist[j])
      <4>1. seen \in [Keys -> Nat] /\ \A j \in Keys : Len(hist[j]) \in Nat /\ seen[j] <= Len(hist[j])
        BY DEF SyncInv, SyncTypeOK
      <4> QED  BY <1>4, <4>1 DEF Watch
    <3>2. \A j \in Keys : instance[j] <= seen'[j] /\ instances[j] <= seen'[j]
      BY <3>1, SMTT(30) DEF SyncInv, SyncTypeOK
    <3> QED
      BY <1>4, <3>1, <3>2, SMTT(30) DEF Watch, SyncInv, SyncTypeOK, config, requests, rounds
  <2>2. Listed'
    BY <1>4 DEF Watch, SyncInv, SyncTypeOK, Listed, Live, config, stores, requests, rounds
  <2> QED  BY <2>1, <2>2 DEF SyncInv
<1>5. ASSUME NEW k \in Keys, Get(k) PROVE SyncInv'
  <2>1. SyncTypeOK'
    BY <1>5 DEF Get, SyncInv, SyncTypeOK, config, stores, requests, rounds
  <2>2. Listed'
    BY <1>5 DEF Get, SyncInv, SyncTypeOK, Listed, Live, config, stores, requests, rounds
  <2> QED  BY <2>1, <2>2 DEF SyncInv
<1>6. ASSUME NEW k \in Keys, GetFails(k) PROVE SyncInv'
  <2>1. SyncTypeOK'
    BY <1>6, SpendType, ZenonT(30) DEF GetFails, SyncInv, SyncTypeOK, config, stores, requests, rounds
  <2>2. Listed'
    BY <1>6 DEF GetFails, SyncInv, SyncTypeOK, Listed, Live, config, stores, requests, rounds
  <2> QED  BY <2>1, <2>2 DEF SyncInv
<1>7. ASSUME NEW k \in Keys, Reconcile(k) PROVE SyncInv'
  <2>1. SyncTypeOK'
    <3>1. external' \in [Keys -> Nat]
      <4>1. Apply(k) \/ UNCHANGED external
        BY <1>7, ZenonT(30) DEF Reconcile, Fails
      <4>2. external \in [Keys -> Nat] /\ instance[k] \in Nat
        BY DEF SyncInv, SyncTypeOK
      <4>3. (\E v \in Nat : external' = [external EXCEPT ![k] = v]) \/ UNCHANGED external
        BY <4>1, <4>2 DEF Apply, Ensured, Deleted
      <4> QED  BY <4>2, <4>3
    <3>2. budget' \in [Kinds -> Nat]
      BY <1>7, SpendType, ZenonT(30) DEF Reconcile, Fails, SyncInv, SyncTypeOK
    <3>3. /\ working' \subseteq Keys /\ queue' \subseteq Keys
          /\ instance' \in [Keys -> Nat] /\ \A j \in Keys : instance'[j] <= seen[j]
      <4>1. /\ working' = working \ {k}
            /\ instance' = [instance EXCEPT ![k] = 0]
            /\ queue' = queue \union {k} \/ queue' = queue
        BY <1>7 DEF Reconcile, Return
      <4>2. /\ working \subseteq Keys /\ queue \subseteq Keys
            /\ instance \in [Keys -> Nat] /\ seen \in [Keys -> Nat]
            /\ \A j \in Keys : instance[j] <= seen[j]
        BY DEF SyncInv, SyncTypeOK
      <4> QED  BY <4>1, <4>2
    <3>4. UNCHANGED <<config, stores, rounds>>
      BY <1>7 DEF Reconcile, Return
    <3> QED
      BY <3>1, <3>2, <3>3, <3>4, ZenonT(30) DEF SyncInv, SyncTypeOK, config, stores, rounds
  <2>2. Listed'
    BY <1>7, ZenonT(30) DEF Reconcile, Apply, Ensured, Deleted, Fails, Return, SyncInv, SyncTypeOK, Listed, Live, config, stores, requests, rounds
  <2> QED  BY <2>1, <2>2 DEF SyncInv
<1>8. ASSUME NEW k \in Keys, SyncOne(k) PROVE SyncInv'
  <2>1. SyncTypeOK'
    <3>1. external' \in [Keys -> Nat]
      <4>1. CollectOne(k) \/ ResyncOne(k) \/ UNCHANGED external
        BY <1>8 DEF SyncOne, Fails
      <4>2. external \in [Keys -> Nat] /\ instances[k] \in Nat
        BY DEF SyncInv, SyncTypeOK
      <4>3. (\E v \in Nat : external' = [external EXCEPT ![k] = v]) \/ UNCHANGED external
        BY <4>1, <4>2 DEF CollectOne, ResyncOne, Ensured, Deleted
      <4> QED  BY <4>2, <4>3
    <3>2. budget' \in [Kinds -> Nat]
      BY <1>8, SpendType DEF SyncOne, Fails, SyncInv, SyncTypeOK
    <3>3. todo' \subseteq Keys /\ UNCHANGED <<config, stores, queue, requests, round, instances>>
      BY <1>8 DEF SyncOne, SyncInv, SyncTypeOK
    <3> QED
      BY <3>1, <3>2, <3>3, ZenonT(30) DEF SyncInv, SyncTypeOK, config, stores, requests
  <2>2. Listed'
    BY <1>8 DEF SyncOne, CollectOne, ResyncOne, Ensured, Deleted, Fails, SyncInv, SyncTypeOK, Listed, Live, config, stores, requests, rounds
  <2> QED  BY <2>1, <2>2 DEF SyncInv
<1>9. CASE Restart
  <2>1. SyncTypeOK'
    BY <1>9, SpendType DEF Restart, SyncInv, SyncTypeOK, config, stores, requests, rounds
  <2>2. Listed'
    BY <1>9 DEF Restart, SyncInv, SyncTypeOK, Listed, Live, config, stores, requests, rounds
  <2> QED  BY <2>1, <2>2 DEF SyncInv
<1>10. CASE Tick
  <2>1. SyncTypeOK'
    BY <1>10 DEF Tick, SyncInv, SyncTypeOK, config, stores, requests, rounds
  <2>2. Listed'
    BY <1>10 DEF Tick, SyncInv, SyncTypeOK, Listed, Live, config, stores, requests, rounds
  <2> QED  BY <2>1, <2>2 DEF SyncInv
<1>11. CASE List
  <2>1. SyncTypeOK'
    BY <1>11 DEF List, SyncInv, SyncTypeOK, config, stores, requests, rounds
  <2>2. Listed'
    BY <1>11 DEF List, SyncInv, SyncTypeOK, Listed, Live, config, stores, requests, rounds
  <2> QED  BY <2>1, <2>2 DEF SyncInv
<1>12. CASE ListFails
  <2>1. SyncTypeOK'
    BY <1>12, SpendType, SMTT(30) DEF ListFails, SyncInv, SyncTypeOK, config, stores, requests, rounds
  <2>2. Listed'
    BY <1>12 DEF ListFails, SyncInv, SyncTypeOK, Listed, Live, config, stores, requests, rounds
  <2> QED  BY <2>1, <2>2 DEF SyncInv
<1>13. CASE Compare
  <2>1. SyncTypeOK'
    BY <1>13 DEF Compare, Garbage, Diff, NamespacedNamesDiff, NamespacedNames, SyncInv, SyncTypeOK, config, stores, requests, rounds
  <2>2. Listed'
    BY <1>13 DEF Compare, Garbage, Diff, NamespacedNamesDiff, NamespacedNames, SyncInv, SyncTypeOK, Listed, Live, config, stores, requests, rounds
  <2> QED  BY <2>1, <2>2 DEF SyncInv
<1>14. CASE EndRound
  <2>1. SyncTypeOK'
    BY <1>14 DEF EndRound, SyncInv, SyncTypeOK, config, stores, requests, rounds
  <2>2. Listed'
    BY <1>14 DEF EndRound, SyncInv, SyncTypeOK, Listed, Live, config, stores, requests, rounds
  <2> QED  BY <2>1, <2>2 DEF SyncInv
<1> QED
  BY <1>1, <1>2, <1>3, <1>4, <1>5, <1>6, <1>7, <1>8, <1>9, <1>10, <1>11, <1>12, <1>13,
     <1>14 DEF Next

(* The types hold, and no reader is ahead of the informer's cache nor the  *)
(* cache of the API server: what SyncTypeOK states of the sync             *)
(* controllers.                                                            *)
THEOREM SyncTypeHolds == Spec => []SyncTypeOK
<1>1. SyncInv => SyncTypeOK
  BY DEF SyncInv
<1> QED  BY <1>1, SyncInitInv, SyncStepInv, PTL DEF Spec

(* What a step that deletes an external object has read as absent. *)
LEMMA DeletionStep ==
  ASSUME SyncInv, Next, NEW k \in Keys,
         external[k] # 0, external'[k] = 0, budget'["drift"] = budget["drift"]
  PROVE  \E v \in Window(k) : ~Live(k, v)
<1> USE DEF Kinds
<1>1. /\ external \in [Keys -> Nat] /\ instance \in [Keys -> Nat]
      /\ instances \in [Keys -> Nat] /\ seen \in [Keys -> Nat]
      /\ instance[k] <= seen[k] /\ instances[k] <= seen[k]
  BY DEF SyncInv, SyncTypeOK
<1>2. \A j \in Keys : ~Drift(j)
  BY SpendType, SMTT(30) DEF Drift, SyncInv, SyncTypeOK
<1>3. PICK j \in Keys : Reconcile(j) \/ SyncOne(j)
  BY <1>2 DEF Next, Write, Watch, Get, GetFails, Restart, Tick, List, ListFails, Compare,
     EndRound
<1>4. CASE Reconcile(j)
  <2>1. j \in working /\ Apply(j)
    BY <1>4, ZenonT(30) DEF Reconcile, Fails
  <2>2. j = k /\ ~Live(k, instance[k])
    BY <1>1, <2>1 DEF Apply, Ensured, Deleted, Live
  <2>3. instance[k] \in Window(k)
    BY <1>1, <2>1, <2>2 DEF Window
  <2> QED  BY <2>2, <2>3
<1>5. CASE SyncOne(j)
  <2>1. round = "apply" /\ j \in todo /\ (CollectOne(j) \/ ResyncOne(j))
    BY <1>5 DEF SyncOne, Fails
  <2>2. j = k
    BY <1>1, <2>1 DEF CollectOne, ResyncOne, Ensured, Deleted
  <2>3. ~Live(k, instances[k])
    <3>1. CASE CollectOne(j)
      BY <2>1, <2>2, <3>1 DEF CollectOne, SyncInv, Listed
    <3>2. CASE ResyncOne(j)
      BY <1>1, <2>2, <3>2 DEF ResyncOne, Ensured, Live
    <3> QED  BY <2>1, <3>1, <3>2
  <2>4. instances[k] \in Window(k)
    BY <1>1, <2>1 DEF Window
  <2> QED  BY <2>3, <2>4
<1> QED  BY <1>3, <1>4, <1>5

(* Neither Reconcile nor collectGarbage (nor resync) deletes the external  *)
(* object of an object that the cache has held ever since they read it:    *)
(* HeldIsKept for any number of names, workers, failures and restarts.     *)
THEOREM HeldIsKeptHolds == Spec => HeldIsKept
<1>1. SyncInv /\ [Next]_vars =>
        [\A k \in Keys :
           /\ external[k] # 0 /\ external'[k] = 0
           /\ budget'["drift"] = budget["drift"]
           => \E v \in Window(k) : ~Live(k, v)]_vars
  BY DeletionStep
<1> QED  BY <1>1, SyncInitInv, SyncStepInv, PTL DEF Spec, HeldIsKept

-----------------------------------------------------------------------------
(* Reconcile alone, without a sync function. *)

(* What the external system should hold of a version. *)
Image(k, v) == IF Live(k, v) THEN v ELSE 0

(***************************************************************************)
(* Where nothing is left to be done for a name, the external system has    *)
(* the version in the cache. A process that was restarted may have missed  *)
(* the event of a deletion, and only of a deletion.                        *)
(***************************************************************************)
MirroredAtRest ==
  ~syncFunc /\ Quiet("drift") =>
    \A k \in Keys :
      k \notin queue \union working =>
        \/ external[k] = Image(k, seen[k])
        \/ ~Live(k, seen[k]) /\ ~Quiet("restart")

(* It takes that a worker on a name that is not queued has read the        *)
(* version that is in the cache now.                                       *)
Copied(k) ==
  \/ k \in queue
  \/ k \in working /\ instance[k] = seen[k]
  \/ /\ k \notin working
     /\ \/ external[k] = Image(k, seen[k])
        \/ ~Live(k, seen[k]) /\ ~Quiet("restart")

Spent == \A kind \in Kinds : budget[kind] <= Budget[kind]

Copying ==
  /\ Spent
  /\ ~syncFunc => round = "wait"
  /\ ~syncFunc /\ Quiet("drift") => \A k \in Keys : Copied(k)

(* What is spent stays spent. *)
LEMMA SpentStep ==
  ASSUME SyncInv, Spent, [Next]_vars
  PROVE  /\ Spent'
         /\ \A kind \in Kinds : Quiet(kind)' => Quiet(kind)
<1>1. budget \in [Kinds -> Nat] /\ Budget \in [Kinds -> Nat]
  BY SyncAssumption DEF SyncInv, SyncTypeOK
<1>2. budget' = budget \/ \E kind \in Kinds : Spend(kind)
  BY ZenonT(30) DEF Next, Write, Drift, Watch, Get, GetFails, Reconcile, Fails, SyncOne, Restart,
         Tick, List, ListFails, Compare, EndRound, vars, Kinds
<1>3. \A kind \in Kinds : budget'[kind] <= budget[kind] /\ budget'[kind] \in Nat
  BY <1>1, <1>2 DEF Spend
<1> QED
  BY <1>1, <1>3 DEF Spent, Quiet

(* A worker's call, and the watch: the steps that matter to a name. *)
LEMMA ReconcileCopies ==
  ASSUME SyncInv, NEW k \in Keys, Copied(k), NEW j \in Keys,
         Reconcile(j), \A kind \in Kinds : Quiet(kind)' => Quiet(kind)
  PROVE  Copied(k)'
<1>1. /\ UNCHANGED <<hist, seen>> /\ working' = working \ {j} /\ j \in working
      /\ instance' = [instance EXCEPT ![j] = 0]
      /\ instance \in [Keys -> Nat] /\ external \in [Keys -> Nat]
      /\ queue \subseteq queue'
      /\ \/ Apply(j)
         \/ (external' = external \/ Apply(j)) /\ j \in queue'
  BY DEF Reconcile, Return, Fails, stores, SyncInv, SyncTypeOK
<1>2. Live(k, seen[k])' <=> Live(k, seen[k])
  BY <1>1 DEF Live
<1>3. Image(k, seen[k])' = Image(k, seen[k])
  BY <1>1 DEF Image, Live
<1>4. ~Quiet("restart") => ~Quiet("restart")'
  BY DEF Kinds
<1>5. CASE k # j
  <2>1. external'[k] = external[k] /\ instance'[k] = instance[k]
    BY <1>1, <1>5 DEF Apply, Ensured, Deleted
  <2> QED
    BY <1>1, <1>2, <1>3, <1>4, <1>5, <2>1 DEF Copied
<1>6. CASE k = j
  <2>1. k \in queue' \/ (instance[k] = seen[k] /\ Apply(k))
    BY <1>1, <1>6 DEF Copied
  <2>2. instance[k] = seen[k] /\ Apply(k) => external'[k] = Image(k, seen[k])
    BY <1>1 DEF Apply, Ensured, Deleted, Image
  <2> QED
    BY <1>1, <1>3, <1>6, <2>1, <2>2 DEF Copied
<1> QED
  BY <1>5, <1>6

(* Every step. *)
LEMMA CopyingStep == SyncInv /\ Copying /\ [Next]_vars => Copying'
<1> SUFFICES ASSUME SyncInv, Copying, [Next]_vars PROVE Copying'
  OBVIOUS
<1>1. Spent' /\ \A kind \in Kinds : Quiet(kind)' => Quiet(kind)
  BY SpentStep DEF Copying
<1>2. syncFunc' = syncFunc
  BY DEF Next, Write, Drift, Watch, Get, GetFails, Reconcile, Return, SyncOne, Restart,
         Tick, List, ListFails, Compare, EndRound, vars, config
<1>3. SUFFICES ASSUME ~syncFunc PROVE /\ round' = "wait"
                                      /\ Quiet("drift")' => \A k \in Keys : Copied(k)'
  BY <1>1, <1>2 DEF Copying
<1>4. round = "wait"
  BY <1>3, ZenonT(30) DEF Copying
<1>5. round' = "wait" /\ (Next => \/ \E j \in Keys : Write(j) \/ Drift(j) \/ Watch(j)
                                                    \/ Get(j) \/ GetFails(j) \/ Reconcile(j)
                                  \/ Restart)
  BY <1>3, <1>4 DEF Next, Write, Drift, Watch, Get, GetFails, Reconcile, Return, SyncOne,
                    Restart, Tick, List, ListFails, Compare, EndRound, vars, rounds
<1>6. SUFFICES ASSUME Quiet("drift")', NEW k \in Keys PROVE Copied(k)'
  BY <1>5
<1>7. Quiet("drift") /\ (~Quiet("restart") => ~Quiet("restart")')
  BY <1>1, <1>6 DEF Kinds
<1>8. Copied(k)
  BY <1>3, <1>7 DEF Copying
<1>9. \A j \in Keys : ~Drift(j)
  BY <1>6, <1>7, SpendType, ZenonT(30) DEF Drift, Quiet, Kinds, SyncInv, SyncTypeOK
<1>10. ASSUME NEW j \in Keys, Write(j) PROVE Copied(k)'
  <2>1. PICK live \in BOOLEAN : hist' = [hist EXCEPT ![j] = Append(@, live)]
    BY <1>10, ZenonT(30) DEF Write
  <2>2. UNCHANGED <<seen, queue, working, instance, external>>
    BY <1>10 DEF Write, requests
  <2>3. PICK v \in Nat : v = seen[k] /\ v = seen'[k] /\ v <= seen[k]
    BY <2>2 DEF SyncInv, SyncTypeOK
  <2>4. Live(k, v)' <=> Live(k, v)
    <3>1. SyncTypeOK
      BY DEF SyncInv
    <3> QED  BY <2>1, <2>3, <3>1, LiveStays, ZenonT(30)
  <2>5. (Live(k, seen[k])' <=> Live(k, seen[k])) /\ Image(k, seen[k])' = Image(k, seen[k])
    BY <2>3, <2>4 DEF Live, Image
  <2> QED
    BY <1>7, <1>8, <2>2, <2>5, ZenonT(30) DEF Copied
<1>11. ASSUME NEW j \in Keys, Watch(j) PROVE Copied(k)'
  <2>1. /\ UNCHANGED <<hist, working, instance, external, budget>>
        /\ queue' = queue \union {j} /\ seen' = [seen EXCEPT ![j] = @ + 1]
        /\ seen \in [Keys -> Nat]
    BY <1>11 DEF Watch, requests, SyncInv, SyncTypeOK
  <2>2. k # j => seen'[k] = seen[k]
    BY <2>1
  <2> QED
    BY <1>7, <1>8, <2>1, <2>2 DEF Copied, Image, Live
<1>12. ASSUME NEW j \in Keys, Get(j) PROVE Copied(k)'
  <2>1. /\ UNCHANGED <<hist, seen, external, budget>>
        /\ queue' = queue \ {j} /\ working' = working \union {j} /\ j \notin working
        /\ instance' = [instance EXCEPT ![j] = seen[j]] /\ instance \in [Keys -> Nat]
    BY <1>12 DEF Get, stores, SyncInv, SyncTypeOK
  <2>2. instance'[k] = IF k = j THEN seen[k] ELSE instance[k]
    BY <2>1
  <2> QED
    BY <1>7, <1>8, <2>1, <2>2 DEF Copied, Image, Live
<1>13. CASE Restart
  <2>1. /\ hist' = hist /\ external' = external /\ working' = {}
        /\ queue' = {j \in Keys : Present(j)} /\ seen'[k] = Len(hist[k])
    BY <1>13 DEF Restart
  <2>2. ~Quiet("restart")'
    BY <1>1, <1>13 DEF Restart, Spend, Quiet, Kinds, Copying, Spent, SyncInv, SyncTypeOK
  <2>3. k \notin queue' => ~Live(k, seen[k])'
    BY <2>1 DEF Present, Live
  <2> QED
    BY <2>1, <2>2, <2>3 DEF Copied
<1>14. ASSUME NEW j \in Keys, Reconcile(j) PROVE Copied(k)'
  BY <1>1, <1>8, <1>14, ReconcileCopies
<1>15. ASSUME UNCHANGED vars \/ \E j \in Keys : GetFails(j) PROVE Copied(k)'
  BY <1>7, <1>8, <1>15 DEF GetFails, vars, stores, requests, Copied, Image, Live
<1> QED
  BY <1>5, <1>9, <1>10, <1>11, <1>12, <1>13, <1>14, <1>15

(***************************************************************************)
(* However reads lag, calls fail and names are queued again, Reconcile     *)
(* leaves a name only with what the cache holds of it copied outside; a    *)
(* deletion that a restart has lost is the one exception.                  *)
(***************************************************************************)
THEOREM MirroredAtRestHolds == Spec => []MirroredAtRest
<1>1. Init => Copying
  BY SyncAssumption DEF Init, Copying, Spent, Copied, Image, Live
<1>2. Copying => MirroredAtRest
  BY DEF Copying, Copied, MirroredAtRest
<1> QED
  BY <1>1, <1>2, CopyingStep, SyncInitInv, SyncStepInv, PTL DEF Spec
=============================================================================
