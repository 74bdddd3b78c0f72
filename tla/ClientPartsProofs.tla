------------------------- MODULE ClientPartsProofs -------------------------
(***************************************************************************)
(* What the parts of the client stack do for any number of goroutines,     *)
(* names and values, whoever uses them.                                    *)
(*                                                                         *)
(* The informers' map: RunOnce and SyncedReads need to know that an        *)
(* informer is only ever running in a map that was started, and created    *)
(* but not running only in one that was not.  CacheFollows says what its   *)
(* indexer is worth.                                                       *)
(*                                                                         *)
(* The recorder: reorderRules loses no permission, adds none, and leaves   *)
(* one rule for a resource.  The functions are recursive, so these facts   *)
(* are proved by induction on the length of their arguments.               *)
(***************************************************************************)
EXTENDS InformersMap, RBACRecorder, WellFoundedInduction, TLAPS

-----------------------------------------------------------------------------
(* The informers' map. *)

\* What an informer can be in a map that was started, and in one that was not.
EntryFits == entry \in IF started THEN {"none", "running", "synced"}
                                  ELSE {"none", "created"}

MapInv ==
    /\ started \in BOOLEAN
    /\ saw \in [Callers -> BOOLEAN]
    /\ pc = [c \in Callers |-> pc[c]]
    /\ EntryFits
    /\ RunOnce
    /\ SyncedReads

\* The map as NewInformersMap makes it has the invariant: it holds no informer
\* and no goroutine is in Get.
LEMMA InitInv == MapInit /\ Outside => MapInv
BY ZenonT(30) DEF MapInit, Outside, Inside, MapInv, EntryFits, RunOnce, SyncedReads

\* Where Proceed sends a goroutine, it does not read an informer that has not
\* synced, whatever the other goroutines do.
LEMMA ProceedSynced ==
    ASSUME NEW c \in Callers, MapInv, Proceed(c, started),
           HasSynced' = HasSynced
    PROVE  /\ saw' \in [Callers -> BOOLEAN]
           /\ pc' = [d \in Callers |-> pc'[d]]
           /\ SyncedReads'
<1>1. saw' = [saw EXCEPT ![c] = started]
      /\ pc' = [pc EXCEPT ![c] = IF started /\ ~HasSynced THEN "wait" ELSE "got"]
  BY DEF Proceed
<1>2. saw' \in [Callers -> BOOLEAN]
  BY <1>1 DEF MapInv
<1>3. pc' = [d \in Callers |-> pc'[d]]
  BY <1>1 DEF MapInv
<1>4. ASSUME NEW d \in Callers, pc'[d] = "got", saw'[d] PROVE HasSynced'
  <2>1. CASE d = c
    BY <1>1, <1>4, <2>1 DEF MapInv
  <2>2. CASE d # c
    <3>1. pc'[d] = pc[d] /\ saw'[d] = saw[d]
      BY <1>1, <2>2 DEF MapInv
    <3> QED  BY <1>4, <3>1 DEF MapInv, SyncedReads
  <2> QED  BY <2>1, <2>2
<1> QED  BY <1>2, <1>3, <1>4 DEF SyncedReads

\* Every step of the map, and of what goes on around it, keeps the invariant.
LEMMA StepInv == MapInv /\ [MapNext]_mapVars => MapInv'
<1> SUFFICES ASSUME MapInv, [MapNext]_mapVars PROVE MapInv'
  OBVIOUS
<1>1. ASSUME NEW c \in Callers, Lookup(c) PROVE MapInv'
  <2>1. CASE entry = "none"
    <3>1. pc' = [pc EXCEPT ![c] = "add"] /\ UNCHANGED <<started, entry, runs, saw>>
      BY <1>1, <2>1 DEF Lookup, informer
    <3>2. pc' = [d \in Callers |-> pc'[d]]
      BY <3>1 DEF MapInv
    <3>3. SyncedReads'
      BY <3>1 DEF MapInv, SyncedReads, HasSynced
    <3> QED  BY <3>1, <3>2, <3>3 DEF MapInv, EntryFits, RunOnce
  <2>2. CASE entry # "none"
    <3>1. Proceed(c, started) /\ UNCHANGED <<started, entry, runs>>
      BY <1>1, <2>2 DEF Lookup, informer
    <3>2. saw' \in [Callers -> BOOLEAN] /\ pc' = [d \in Callers |-> pc'[d]]
          /\ SyncedReads'
      BY <3>1, ProceedSynced DEF HasSynced
    <3> QED  BY <3>1, <3>2 DEF MapInv, EntryFits, RunOnce
  <2> QED  BY <2>1, <2>2
<1>2. ASSUME NEW c \in Callers, addInformerToMap(c) PROVE MapInv'
  <2>1. Proceed(c, started) /\ UNCHANGED started
    BY <1>2 DEF addInformerToMap
  <2>2. HasSynced' = HasSynced
    BY <1>2 DEF addInformerToMap, HasSynced
  <2>3. saw' \in [Callers -> BOOLEAN] /\ pc' = [d \in Callers |-> pc'[d]]
        /\ SyncedReads'
    BY <2>1, <2>2, ProceedSynced
  <2>4. EntryFits'
    BY <1>2, <2>1 DEF addInformerToMap, MapInv, EntryFits
  <2>5. RunOnce'
    BY <1>2, <2>1 DEF addInformerToMap, MapInv, RunOnce
  <2> QED  BY <2>1, <2>3, <2>4, <2>5 DEF MapInv
<1>3. ASSUME NEW c \in Callers, WaitForCacheSync(c) PROVE MapInv'
  <2>1. HasSynced /\ UNCHANGED <<started, entry, runs, saw>>
        /\ pc' = [pc EXCEPT ![c] = "got"]
    BY <1>3 DEF WaitForCacheSync, informer
  <2>2. pc' = [d \in Callers |-> pc'[d]]
    BY <2>1 DEF MapInv
  <2> QED  BY <2>1, <2>2 DEF MapInv, EntryFits, RunOnce, SyncedReads, HasSynced
<1>4. ASSUME NEW c \in Callers, Elsewhere(c) \/ addInformerFails(c)
      PROVE  MapInv'
  <2>1. /\ UNCHANGED <<started, entry, runs, saw>>
        /\ pc' = [pc EXCEPT ![c] = pc'[c]] /\ pc'[c] # "got"
    BY <1>4 DEF Elsewhere, addInformerFails, Inside, informer, MapInv
  <2>2. pc' = [d \in Callers |-> pc'[d]]
    BY <2>1 DEF MapInv
  <2>3. \A d \in Callers : d # c => pc'[d] = pc[d]
    BY <2>1 DEF MapInv
  <2>4. SyncedReads'
    BY <2>1, <2>3 DEF MapInv, SyncedReads, HasSynced
  <2> QED  BY <2>1, <2>2, <2>4 DEF MapInv, EntryFits, RunOnce
<1>5. CASE Start
  <2>1. ~started /\ started' = TRUE /\ UNCHANGED <<pc, saw>>
    BY <1>5 DEF Start
  <2>2. EntryFits'
    BY <1>5 DEF Start, MapInv, EntryFits
  <2>3. RunOnce'
    BY <1>5 DEF Start, MapInv, EntryFits, RunOnce
  <2>4. SyncedReads'
    BY <1>5 DEF Start, MapInv, SyncedReads, HasSynced
  <2> QED  BY <2>1, <2>2, <2>3, <2>4 DEF MapInv
<1>6. CASE ListFunc
  <2>1. UNCHANGED <<started, runs, pc, saw>> /\ entry' = "synced"
        /\ entry \in {"running", "synced"}
    BY <1>6 DEF ListFunc
  <2>2. EntryFits' /\ RunOnce'
    BY <2>1 DEF MapInv, EntryFits, RunOnce
  <2>3. SyncedReads'
    BY <2>1 DEF SyncedReads, HasSynced
  <2> QED  BY <2>1, <2>2, <2>3 DEF MapInv
<1>7. CASE WatchFunc \/ WatchEnds \/ Deliver \/ UNCHANGED mapVars
  <2>1. UNCHANGED <<started, entry, runs, pc, saw>>
    BY <1>7 DEF WatchFunc, WatchEnds, Deliver, informer, mapVars
  <2> QED  BY <2>1 DEF MapInv, EntryFits, RunOnce, SyncedReads, HasSynced
<1> QED  BY <1>1, <1>2, <1>3, <1>4, <1>5, <1>6, <1>7 DEF MapNext

\* The kind's informer is run exactly once in a map that was started, for any
\* number of goroutines that look up, add and start in any order.
THEOREM RunOnceHolds == MapSpec => []RunOnce
<1>1. MapInv => RunOnce
  BY DEF MapInv
<1> QED  BY InitInv, StepInv, <1>1, PTL DEF MapSpec

\* A goroutine that takes the map to be started reads an informer only when
\* it has synced.
THEOREM SyncedReadsHolds == MapSpec => []SyncedReads
<1>1. MapInv => SyncedReads
  BY DEF MapInv
<1> QED  BY InitInv, StepInv, <1>1, PTL DEF MapSpec

-----------------------------------------------------------------------------
(* The types, and what the indexer is worth. *)

\* A change of an object keeps the types.
LEMMA ChangeType ==
    ASSUME MapTypeOK, NEW n \in Names, NEW o \in Objects, Change(n, o)
    PROVE  /\ api' \in [Names -> Objects] /\ stream' \in Seq(Names \X Objects)
           /\ gap' \subseteq Names
<1>1. <<n, o>> \in Names \X Objects
  OBVIOUS
<1>2. Append(stream, <<n, o>>) \in Seq(Names \X Objects)
  BY <1>1 DEF MapTypeOK
<1> QED  BY <1>2 DEF Change, MapTypeOK

\* Every step keeps the types of the map's variables.
LEMMA MapTypeStep == MapTypeOK /\ [MapNext]_mapVars => MapTypeOK'
<1> SUFFICES ASSUME MapTypeOK, [MapNext]_mapVars PROVE MapTypeOK'
  OBVIOUS
<1>1. ASSUME NEW c \in Callers, Lookup(c) \/ addInformerToMap(c) \/ WaitForCacheSync(c)
      PROVE  MapTypeOK'
  <2>1. UNCHANGED <<started, api, indexer, watch, stream, gap>>
    BY <1>1 DEF Lookup, addInformerToMap, WaitForCacheSync, informer, objects
  <2>2. saw' \in [Callers -> BOOLEAN]
    BY <1>1 DEF Lookup, addInformerToMap, WaitForCacheSync, Proceed, MapTypeOK
  <2>3. entry' \in {"none", "created", "running", "synced"} /\ runs' \in Nat
    BY <1>1 DEF Lookup, addInformerToMap, WaitForCacheSync, informer, MapTypeOK
  <2> QED  BY <2>1, <2>2, <2>3 DEF MapTypeOK
<1>2. ASSUME NEW c \in Callers, Elsewhere(c) \/ addInformerFails(c)
      PROVE  MapTypeOK'
  <2>1. UNCHANGED <<started, entry, runs, saw, indexer, watch>>
    BY <1>2 DEF Elsewhere, addInformerFails, Change, informer, objects
  <2>2. /\ api' \in [Names -> Objects] /\ stream' \in Seq(Names \X Objects)
        /\ gap' \subseteq Names
    <3>1. CASE UNCHANGED objects
      BY <3>1 DEF objects, MapTypeOK
    <3>2. CASE \E n \in Names, o \in Objects : Change(n, o)
      BY <3>2, ChangeType
    <3> QED  BY <1>2, <3>1, <3>2 DEF Elsewhere, addInformerFails
  <2> QED  BY <2>1, <2>2 DEF MapTypeOK
<1>3. CASE Start
  BY <1>3 DEF Start, objects, MapTypeOK
<1>4. CASE ListFunc
  BY <1>4 DEF ListFunc, MapTypeOK
<1>5. CASE WatchFunc \/ WatchEnds \/ UNCHANGED mapVars
  <2>1. UNCHANGED <<started, entry, runs, saw, api, indexer, gap>>
    BY <1>5 DEF WatchFunc, WatchEnds, mapVars, informer, objects
  <2>2. watch' \in {"off", "gap", "on"} /\ (stream' = <<>> \/ stream' = stream)
    BY <1>5 DEF WatchFunc, WatchEnds, mapVars, objects, MapTypeOK
  <2>3. <<>> \in Seq(Names \X Objects)
    OBVIOUS
  <2>4. stream' \in Seq(Names \X Objects)
    BY <2>2, <2>3, ZenonT(30) DEF MapTypeOK
  <2> QED  BY <2>1, <2>2, <2>4 DEF MapTypeOK
<1>6. CASE Deliver
  <2>1. /\ Head(stream) \in Names \X Objects
        /\ Tail(stream) \in Seq(Names \X Objects)
    BY <1>6 DEF Deliver, MapTypeOK
  <2>2. indexer' \in [Names -> Objects]
    BY <1>6, <2>1 DEF Deliver, MapTypeOK
  <2> QED  BY <1>6, <2>1, <2>2 DEF Deliver, informer, MapTypeOK
<1> QED  BY <1>1, <1>2, <1>3, <1>4, <1>5, <1>6 DEF MapNext

\* The k-th event under way is the last one about its name.
LastOfName(k) ==
    \A j \in DOMAIN stream : j > k => stream[j][1] # stream[k][1]

\* With a watch on, the last event of a name brings what the API holds; a
\* name without one is up to date in the indexer, unless it changed between
\* the list and the watch.
CacheInv ==
    /\ watch # "on" => stream = <<>>
    /\ \A k \in DOMAIN stream : LastOfName(k) => stream[k][2] = api[stream[k][1]]
    /\ watch # "off" =>
         \A n \in Names \ gap :
            (\A k \in DOMAIN stream : stream[k][1] # n) => indexer[n] = api[n]

\* A cache that watches and has been told everything shows what the API
\* holds, but for changes between a list and its watch, until a later event.
CacheFollows ==
    watch = "on" /\ stream = <<>> => \A n \in Names \ gap : indexer[n] = api[n]

\* A change of the API is an event, or is remembered in gap, or precedes a list.
LEMMA ChangeCache ==
    ASSUME MapTypeOK, CacheInv, NEW n \in Names, NEW o \in Objects, Change(n, o)
    PROVE  CacheInv'
<1>0. UNCHANGED <<indexer, watch>> /\ api' = [api EXCEPT ![n] = o]
  BY DEF Change
<1>1. CASE o = api[n]
  <2>1. UNCHANGED <<api, stream, gap>>
    <3>1. UNCHANGED <<stream, gap>>
      BY <1>1 DEF Change
    <3>2. \A m \in Names : api'[m] = api[m]
      BY <1>0, <1>1 DEF MapTypeOK
    <3>3. api' = api
      BY <1>0, <3>2 DEF MapTypeOK
    <3> QED  BY <3>1, <3>3
  <2> QED  BY <1>0, <2>1 DEF CacheInv, LastOfName
<1>2. CASE o # api[n] /\ watch = "on"
  <2>1. stream' = Append(stream, <<n, o>>) /\ UNCHANGED gap
    BY <1>2 DEF Change
  <2>2. /\ DOMAIN stream' = 1..(Len(stream) + 1) /\ DOMAIN stream = 1..Len(stream)
        /\ Len(stream) \in Nat
        /\ stream'[Len(stream) + 1] = <<n, o>>
        /\ \A k \in 1..Len(stream) : stream'[k] = stream[k]
        /\ \A k \in 1..Len(stream) : stream[k][1] \in Names
    BY <2>1 DEF MapTypeOK
  <2>3. ASSUME NEW k \in DOMAIN stream', LastOfName(k)'
        PROVE  stream'[k][2] = api'[stream'[k][1]]
    <3>1. CASE k = Len(stream) + 1
      BY <1>0, <2>2, <3>1 DEF MapTypeOK
    <3>2. CASE k \in 1..Len(stream)
      <4>1. stream[k][1] # n
        BY <2>2, <2>3, <3>2 DEF LastOfName
      <4>2. LastOfName(k)
        BY <2>2, <2>3, <3>2 DEF LastOfName
      <4>3. stream[k][2] = api[stream[k][1]]
        BY <2>2, <3>2, <4>2 DEF CacheInv
      <4> QED  BY <1>0, <2>2, <3>2, <4>1, <4>3 DEF MapTypeOK
    <3> QED  BY <2>2, <3>1, <3>2
  <2>4. ASSUME NEW m \in Names \ gap, \A k \in DOMAIN stream' : stream'[k][1] # m
        PROVE  indexer'[m] = api'[m]
    <3>1. m # n /\ \A k \in DOMAIN stream : stream[k][1] # m
      BY <2>2, <2>4
    <3>2. indexer[m] = api[m]
      BY <1>2, <3>1 DEF CacheInv
    <3> QED  BY <1>0, <3>1, <3>2 DEF MapTypeOK
  <2> QED  BY <1>0, <1>2, <2>1, <2>3, <2>4 DEF CacheInv
<1>3. CASE o # api[n] /\ watch # "on"
  <2>1. stream' = <<>> /\ stream = <<>> /\ (watch = "gap" => gap' = gap \cup {n})
    BY <1>3 DEF Change, CacheInv
  <2>2. CASE watch = "gap"
    BY <1>0, <2>1, <2>2 DEF CacheInv, MapTypeOK
  <2>3. CASE watch # "gap"
    BY <1>0, <1>3, <2>1, <2>3 DEF CacheInv, MapTypeOK
  <2> QED  BY <2>2, <2>3
<1> QED  BY <1>1, <1>2, <1>3

\* Delivering an event keeps it: an event that is followed by another of its
\* name may be out of date, the last one is not.
LEMMA DeliverCache ==
    ASSUME MapTypeOK, CacheInv, Deliver PROVE CacheInv'
<1> DEFINE h == Head(stream)
<1>1. /\ h \in Names \X Objects /\ h = stream[1] /\ stream # <<>>
      /\ Len(stream) \in Nat \ {0} /\ DOMAIN stream = 1..Len(stream)
      /\ Tail(stream) \in Seq(Names \X Objects)
      /\ Len(Tail(stream)) = Len(stream) - 1
      /\ \A k \in 1..(Len(stream) - 1) : Tail(stream)[k] = stream[k+1]
  BY DEF Deliver, MapTypeOK
<1>2. /\ watch = "on" /\ UNCHANGED <<watch, api>> /\ stream' = Tail(stream)
      /\ indexer' = [indexer EXCEPT ![h[1]] = h[2]] /\ gap' = gap \ {h[1]}
  BY DEF Deliver
<1> HIDE DEF h
<1>3. DOMAIN stream' = 1..(Len(stream) - 1)
      /\ \A k \in 1..(Len(stream) - 1) : stream'[k] = stream[k+1]
  BY <1>1, <1>2
<1>4. ASSUME NEW k \in DOMAIN stream', LastOfName(k)'
      PROVE  stream'[k][2] = api'[stream'[k][1]]
  <2>1. k + 1 \in DOMAIN stream /\ stream'[k] = stream[k+1]
    BY <1>1, <1>3
  <2>2. LastOfName(k+1)
    <3> SUFFICES ASSUME NEW j \in DOMAIN stream, j > k + 1
                 PROVE  stream[j][1] # stream[k+1][1]
      BY DEF LastOfName
    <3>1. j - 1 \in DOMAIN stream' /\ j - 1 > k /\ stream'[j-1] = stream[j]
      BY <1>1, <1>3, <1>4
    <3> QED  BY <1>4, <2>1, <3>1 DEF LastOfName
  <2> QED  BY <1>2, <2>1, <2>2 DEF CacheInv
<1>5. ASSUME NEW m \in Names \ gap', \A k \in DOMAIN stream' : stream'[k][1] # m
      PROVE  indexer'[m] = api'[m]
  <2>1. \A k \in DOMAIN stream : k > 1 => stream[k][1] # m
    <3> SUFFICES ASSUME NEW k \in DOMAIN stream, k > 1 PROVE stream[k][1] # m
      OBVIOUS
    <3>1. k - 1 \in DOMAIN stream' /\ stream'[k-1] = stream[k]
      BY <1>1, <1>3
    <3> QED  BY <1>5, <3>1
  <2>2. CASE m = h[1]
    <3>1. LastOfName(1) /\ 1 \in DOMAIN stream
      BY <1>1, <2>1, <2>2 DEF LastOfName
    <3>2. h[2] = api[h[1]]
      BY <1>1, <3>1 DEF CacheInv
    <3> QED  BY <1>2, <2>2, <3>2 DEF MapTypeOK
  <2>3. CASE m # h[1]
    <3>1. \A k \in DOMAIN stream : stream[k][1] # m
      BY <1>1, <2>1, <2>3
    <3>2. indexer[m] = api[m]
      BY <1>2, <1>5, <2>3, <3>1 DEF CacheInv
    <3> QED  BY <1>2, <2>3, <3>2 DEF MapTypeOK
  <2> QED  BY <2>2, <2>3
<1> QED  BY <1>2, <1>4, <1>5 DEF CacheInv

\* Every step keeps the cache's invariant.
LEMMA CacheStep == MapTypeOK /\ CacheInv /\ [MapNext]_mapVars => CacheInv'
<1> SUFFICES ASSUME MapTypeOK, CacheInv, [MapNext]_mapVars PROVE CacheInv'
  OBVIOUS
<1>1. CASE UNCHANGED objects
  BY <1>1 DEF objects, CacheInv, LastOfName
<1>2. CASE \E n \in Names, o \in Objects : Change(n, o)
  BY <1>2, ChangeCache
<1>3. CASE ListFunc
  BY <1>3 DEF ListFunc, CacheInv, LastOfName
<1>4. CASE WatchFunc
  BY <1>4 DEF WatchFunc, CacheInv, LastOfName
<1>5. CASE WatchEnds
  <2>1. stream' = <<>> /\ watch' = "off"
    BY <1>5 DEF WatchEnds
  <2> QED  BY <2>1 DEF CacheInv
<1>6. CASE Deliver
  BY <1>6, DeliverCache
<1> QED  BY <1>1, <1>2, <1>3, <1>4, <1>5, <1>6
         DEF MapNext, Lookup, addInformerToMap, addInformerFails, WaitForCacheSync,
             Elsewhere, Start, mapVars

\* The map as it is made has no events, and watches nothing.
LEMMA MapStarts == MapInit => MapTypeOK /\ CacheInv
<1> SUFFICES ASSUME MapInit PROVE MapTypeOK /\ CacheInv
  OBVIOUS
<1>1. Absent \in Objects
  BY DEF Objects
<1>2. stream = <<>> /\ stream \in Seq(Names \X Objects)
  BY DEF MapInit
<1>3. MapTypeOK
  BY <1>1, <1>2, ZenonT(30) DEF MapInit, MapTypeOK
<1> QED  BY <1>2, <1>3 DEF MapInit, CacheInv

\* The types of the map, whatever the goroutines around it do to the API.
THEOREM MapTypes == MapSpec => []MapTypeOK
BY MapStarts, MapTypeStep, PTL DEF MapSpec

\* However lists, watches that break, events and changes of the API interleave,
\* an informer that has delivered all events shows what the API holds, save for
\* the changes that ListFunc and WatchFunc leave between them.
THEOREM CacheFollowsHolds == MapSpec => []CacheFollows
<1>1. CacheInv => CacheFollows
  BY DEF CacheInv, CacheFollows
<1> QED  BY <1>1, MapStarts, MapTypeStep, CacheStep, PTL DEF MapSpec

-----------------------------------------------------------------------------
(* The recorder. *)

\* Induction over the natural numbers, for a set: a least number outside of it
\* could be neither zero nor a successor.
LEMMA SetInduction ==
  ASSUME NEW S, 0 \in S, \A n \in Nat : n \in S => n + 1 \in S
  PROVE  Nat \subseteq S
<1> DEFINE T == {n \in Nat : n \notin S}
           R == {ss \in Nat \X Nat : ss[1] < ss[2]}
<1> SUFFICES ASSUME T # {} PROVE FALSE
  OBVIOUS
<1>1. IsWellFoundedOn(R, Nat)
  BY NatLessThanWellFounded DEF OpToRel
<1>2. T \subseteq Nat
  OBVIOUS
<1> HIDE DEF R
<1>3. PICK x \in T : \A y \in T : ~(<<y, x>> \in R)
  BY <1>1, <1>2, WFMin, ZenonT(30)
<1>4. x \in Nat /\ x # 0 /\ x - 1 \in Nat
  OBVIOUS
<1>5. x - 1 \in T
  BY <1>4
<1>6. <<x - 1, x>> \in R
  BY <1>4 DEF R
<1> QED BY <1>3, <1>5, <1>6

\* Rules for resources of Res with verbs of V; the verb v is one of r's.
Rule(Res, V) == [resource : Res, verbs : Seq(V)]
Has(r, v) == \E j \in DOMAIN r.verbs : r.verbs[j] = v

\* AddVerb adds the verb, and nothing else.
LEMMA AddVerbAdds ==
  ASSUME NEW Res, NEW V, NEW r \in Rule(Res, V), NEW v \in V
  PROVE  /\ AddVerb(r, v) \in Rule(Res, V)
         /\ AddVerb(r, v).resource = r.resource
         /\ \A w : Has(AddVerb(r, v), w) <=> Has(r, w) \/ w = v
<1>1. CASE contains(r.verbs, v)
  BY <1>1 DEF AddVerb, contains, Has
<1>2. CASE ~contains(r.verbs, v)
  <2>1. r.verbs \in Seq(V)
    BY DEF Rule
  <2>2. AddVerb(r, v) = [r EXCEPT !.verbs = Append(r.verbs, v)]
    BY <1>2 DEF AddVerb
  <2>0. Append(r.verbs, v) \in Seq(V)
    BY <2>1
  <2> HIDE DEF AddVerb
  <2>3. /\ AddVerb(r, v).verbs = Append(r.verbs, v) /\ AddVerb(r, v).resource = r.resource
        /\ AddVerb(r, v) \in Rule(Res, V)
    BY <2>0, <2>2, ZenonT(30) DEF Rule
  <2>4. /\ DOMAIN Append(r.verbs, v) = 1..(Len(r.verbs) + 1)
        /\ Append(r.verbs, v)[Len(r.verbs) + 1] = v
        /\ \A j \in 1..Len(r.verbs) : Append(r.verbs, v)[j] = r.verbs[j]
        /\ DOMAIN r.verbs = 1..Len(r.verbs) /\ Len(r.verbs) \in Nat
    BY <2>1
  <2> QED BY <2>3, <2>4 DEF Has
<1> QED BY <1>1, <1>2

\* f is the recursive function of AddVerbs, up to n.
AddedBy(f, r, verbs, n) ==
  f = [i \in 0..n |-> IF i = 0 THEN r ELSE AddVerb(f[i-1], verbs[i])]

\* There is such a function, so that AddVerbs is what its definition says.
LEMMA AddedExists ==
  ASSUME NEW r, NEW verbs
  PROVE  \A n \in Nat : \E f : AddedBy(f, r, verbs, n)
<1> DEFINE S == {n \in Nat : \E f : AddedBy(f, r, verbs, n)}
<1>1. 0 \in S
  <2>1. AddedBy([i \in 0..0 |-> r], r, verbs, 0)
    BY DEF AddedBy
  <2> QED BY <2>1
<1>2. ASSUME NEW n \in Nat, n \in S PROVE n + 1 \in S
  <2>1. PICK f : AddedBy(f, r, verbs, n)
    BY <1>2
  <2> DEFINE g == [i \in 0..(n+1) |-> IF i = 0 THEN r ELSE AddVerb(f[i-1], verbs[i])]
  <2>2. \A i \in 0..n : g[i] = f[i]
    BY <2>1 DEF AddedBy
  <2>3. \A i \in 0..(n+1) : i # 0 => i - 1 \in 0..n
    OBVIOUS
  <2>4. g = [i \in 0..(n+1) |-> IF i = 0 THEN r ELSE AddVerb(g[i-1], verbs[i])]
    BY <2>2, <2>3, ZenonT(30)
  <2>5. AddedBy(g, r, verbs, n + 1)
    BY <2>4 DEF AddedBy
  <2> QED BY <2>5
<1> HIDE DEF S
<1>3. Nat \subseteq S
  BY <1>1, <1>2, SetInduction
<1> QED BY <1>3 DEF S

\* AddVerbs adds these verbs, and nothing else.
LEMMA AddVerbsAdds ==
  ASSUME NEW Res, NEW V, NEW r \in Rule(Res, V), NEW verbs \in Seq(V)
  PROVE  /\ AddVerbs(r, verbs) \in Rule(Res, V)
         /\ AddVerbs(r, verbs).resource = r.resource
         /\ \A w : Has(AddVerbs(r, verbs), w) <=> Has(r, w) \/ contains(verbs, w)
<1> DEFINE n == Len(verbs)
           f == CHOOSE g : AddedBy(g, r, verbs, n)
<1>0. n \in Nat /\ \A i \in 1..n : verbs[i] \in V
  OBVIOUS
<1>1. AddVerbs(r, verbs) = f[n]
  BY DEF AddVerbs, AddedBy
<1>2. AddedBy(f, r, verbs, n)
  BY <1>0, AddedExists
<1>3. f[0] = r /\ \A i \in 1..n : f[i] = AddVerb(f[i-1], verbs[i])
  <2> HIDE DEF f
  <2> QED  BY <1>0, <1>2 DEF AddedBy
<1> DEFINE Upto(i) ==
      /\ f[i] \in Rule(Res, V)
      /\ f[i].resource = r.resource
      /\ \A w : Has(f[i], w) <=> Has(r, w) \/ \E k \in 1..i : verbs[k] = w
           S == {i \in Nat : i <= n => Upto(i)}
<1> HIDE DEF f, n
<1>4. 0 \in S
  BY <1>3
<1>5. ASSUME NEW i \in Nat, i \in S PROVE i + 1 \in S
  <2> SUFFICES ASSUME i + 1 <= n PROVE Upto(i + 1)
    OBVIOUS
  <2>1. Upto(i) /\ i + 1 \in 1..n
    BY <1>0, <1>5
  <2>2. f[i+1] = AddVerb(f[i], verbs[i+1]) /\ verbs[i+1] \in V
    BY <1>0, <1>3, <2>1
  <2>3. /\ f[i+1] \in Rule(Res, V)
        /\ f[i+1].resource = f[i].resource
        /\ \A w : Has(f[i+1], w) <=> Has(f[i], w) \/ w = verbs[i+1]
    <3>1. f[i] \in Rule(Res, V)
      BY <2>1
    <3> DEFINE x == f[i]
               v == verbs[i+1]
    <3>2. x \in Rule(Res, V) /\ v \in V /\ f[i+1] = AddVerb(x, v)
      BY <2>2, <3>1
    <3> HIDE DEF x, v, Upto
    <3>3. /\ AddVerb(x, v) \in Rule(Res, V)
          /\ AddVerb(x, v).resource = x.resource
          /\ \A w : Has(AddVerb(x, v), w) <=> Has(x, w) \/ w = v
      BY <3>2, AddVerbAdds
    <3>4. /\ f[i+1] \in Rule(Res, V)
          /\ f[i+1].resource = x.resource
          /\ \A w : Has(f[i+1], w) <=> Has(x, w) \/ w = v
      BY <3>2, <3>3
    <3> QED  BY <3>4 DEF x, v
  <2>4. 1..(i+1) = (1..i) \cup {i+1}
    OBVIOUS
  <2> QED  BY <2>1, <2>3, <2>4
<1>6. Upto(n)
  <2> HIDE DEF Upto
  <2>1. 0 \in S /\ \A i \in Nat : i \in S => i + 1 \in S
    BY <1>4, <1>5
  <2> HIDE DEF S
  <2>2. n \in S
    BY <1>0, <2>1, SetInduction
  <2> QED  BY <1>0, <2>2 DEF S
<1>7. DOMAIN verbs = 1..n
  BY DEF n
<1> QED  BY <1>1, <1>6, <1>7 DEF contains

\* One of the rules allows the permission p.
Grants(rs, p) ==
  \E i \in DOMAIN rs : p[1] = rs[i].resource /\ Has(rs[i], p[2]) /\ p = <<p[1], p[2]>>

\* Granted is the set of the permissions that some rule allows.
LEMMA GrantedIs == ASSUME NEW rs, NEW p PROVE p \in Granted(rs) <=> Grants(rs, p)
  BY DEF Granted, Grants, Has

\* Merging a rule into rules that have one entry for a resource adds what it
\* allows, and keeps one entry for a resource.
LEMMA MergeMerges ==
  ASSUME NEW Res, NEW V, NEW rs \in Seq(Rule(Res, V)), NEW r \in Rule(Res, V),
         WellOrdered(rs)
  PROVE  /\ Merge(rs, r) \in Seq(Rule(Res, V))
         /\ WellOrdered(Merge(rs, r))
         /\ \A p : p \in Granted(Merge(rs, r)) <=>
              p \in Granted(rs) \/ p \in {<<r.resource, r.verbs[j]>> : j \in DOMAIN r.verbs}
<1> DEFINE same == {i \in DOMAIN rs : rs[i].resource = r.resource}
<1>0. r.verbs \in Seq(V) /\ DOMAIN rs = 1..Len(rs) /\ Len(rs) \in Nat
  BY DEF Rule
<1>1. CASE same = {}
  <2>1. Merge(rs, r) = Append(rs, r)
    BY <1>1 DEF Merge
  <2>2. /\ Append(rs, r) \in Seq(Rule(Res, V)) /\ DOMAIN Append(rs, r) = 1..(Len(rs) + 1)
        /\ Append(rs, r)[Len(rs) + 1] = r
        /\ \A i \in 1..Len(rs) : Append(rs, r)[i] = rs[i]
    OBVIOUS
  <2>3. WellOrdered(Append(rs, r))
    BY <1>0, <1>1, <2>2 DEF WellOrdered
  <2>4. ASSUME NEW p
        PROVE  Grants(Append(rs, r), p) <=>
                 Grants(rs, p) \/ p \in {<<r.resource, r.verbs[j]>> : j \in DOMAIN r.verbs}
    <3>1. Grants(Append(rs, r), p) <=>
            \/ \E i \in 1..Len(rs) : p[1] = rs[i].resource /\ Has(rs[i], p[2]) /\ p = <<p[1], p[2]>>
            \/ p[1] = r.resource /\ Has(r, p[2]) /\ p = <<p[1], p[2]>>
      BY <1>0, <2>2 DEF Grants
    <3>2. p[1] = r.resource /\ Has(r, p[2]) /\ p = <<p[1], p[2]>> <=>
            p \in {<<r.resource, r.verbs[j]>> : j \in DOMAIN r.verbs}
      BY DEF Has
    <3> QED  BY <1>0, <3>1, <3>2 DEF Grants
  <2> QED  BY <2>1, <2>2, <2>3, <2>4, GrantedIs
<1>2. CASE same # {}
  <2> DEFINE m == [i \in DOMAIN rs |->
                     IF i \in same THEN AddVerbs(rs[i], r.verbs) ELSE rs[i]]
  <2>1. Merge(rs, r) = m
    BY <1>2 DEF Merge
  <2>2. \A i \in DOMAIN rs : rs[i] \in Rule(Res, V)
    OBVIOUS
  <2>3. \A i \in DOMAIN rs :
          /\ AddVerbs(rs[i], r.verbs) \in Rule(Res, V)
          /\ AddVerbs(rs[i], r.verbs).resource = rs[i].resource
          /\ \A w : Has(AddVerbs(rs[i], r.verbs), w) <=> Has(rs[i], w) \/ contains(r.verbs, w)
    BY <1>0, <2>2, AddVerbsAdds
  <2>4. /\ m \in Seq(Rule(Res, V)) /\ DOMAIN m = DOMAIN rs
        /\ \A i \in DOMAIN rs : m[i].resource = rs[i].resource
    BY <1>0, <2>2, <2>3
  <2>5. WellOrdered(m)
    BY <2>4 DEF WellOrdered
  <2>6. ASSUME NEW p
        PROVE  Grants(m, p) <=>
                 Grants(rs, p) \/ p \in {<<r.resource, r.verbs[j]>> : j \in DOMAIN r.verbs}
    <3>1. \A i \in DOMAIN rs : \A w : Has(m[i], w) <=>
            Has(rs[i], w) \/ (i \in same /\ contains(r.verbs, w))
      BY <2>3
    <3> HIDE DEF m
    <3> QED  BY <1>2, <2>4, <3>1 DEF Grants, contains
  <2> HIDE DEF m
  <2> QED  BY <2>1, <2>4, <2>5, <2>6, GrantedIs
<1> QED  BY <1>1, <1>2

\* f is the recursive function of reorderRules, up to n.
MergedBy(f, rs, n) ==
  f = [i \in 0..n |-> IF i = 0 THEN <<>> ELSE Merge(f[i-1], rs[i])]

\* There is such a function, so that reorderRules is what its definition says.
LEMMA MergedExists ==
  ASSUME NEW rs
  PROVE  \A n \in Nat : \E f : MergedBy(f, rs, n)
<1> DEFINE S == {n \in Nat : \E f : MergedBy(f, rs, n)}
<1>1. 0 \in S
  <2>1. MergedBy([i \in 0..0 |-> <<>>], rs, 0)
    BY DEF MergedBy
  <2> QED  BY <2>1
<1>2. ASSUME NEW n \in Nat, n \in S PROVE n + 1 \in S
  <2>1. PICK f : MergedBy(f, rs, n)
    BY <1>2
  <2> DEFINE g == [i \in 0..(n+1) |-> IF i = 0 THEN <<>> ELSE Merge(f[i-1], rs[i])]
  <2>2. \A i \in 0..n : g[i] = f[i]
    BY <2>1 DEF MergedBy
  <2>3. \A i \in 0..(n+1) : i # 0 => i - 1 \in 0..n
    OBVIOUS
  <2>4. g = [i \in 0..(n+1) |-> IF i = 0 THEN <<>> ELSE Merge(g[i-1], rs[i])]
    BY <2>2, <2>3, ZenonT(30)
  <2>5. MergedBy(g, rs, n + 1)
    BY <2>4 DEF MergedBy
  <2> QED  BY <2>5
<1> HIDE DEF S
<1>3. Nat \subseteq S
  BY <1>1, <1>2, SetInduction
<1> QED  BY <1>3 DEF S

\* reorderRules merges one rule after the other.
LEMMA ReorderUnfolds ==
  ASSUME NEW R, NEW rs \in Seq(R)
  PROVE  \E f : /\ reorderRules(rs) = f[Len(rs)]
                /\ f[0] = <<>>
                /\ \A i \in 1..Len(rs) : f[i] = Merge(f[i-1], rs[i])
<1> DEFINE n == Len(rs)
           f == CHOOSE g : MergedBy(g, rs, n)
<1>0. n \in Nat
  OBVIOUS
<1>1. reorderRules(rs) = f[n]
  BY DEF reorderRules, MergedBy
<1>2. MergedBy(f, rs, n)
  BY <1>0, MergedExists
<1> HIDE DEF f
<1>3. f[0] = <<>> /\ \A i \in 1..n : f[i] = Merge(f[i-1], rs[i])
  BY <1>0, <1>2 DEF MergedBy
<1> QED  BY <1>1, <1>3

\* What Result writes down allows what was recorded, no more and no less, with
\* one rule for a resource, whatever was recorded in whatever order.
THEOREM ReorderKeeps ==
  ASSUME NEW Res, NEW V, NEW rs \in Seq(Rule(Res, V))
  PROVE  /\ reorderRules(rs) \in Seq(Rule(Res, V))
         /\ Granted(reorderRules(rs)) = Granted(rs)
         /\ WellOrdered(reorderRules(rs))
<1> DEFINE n == Len(rs)
<1>0. n \in Nat /\ DOMAIN rs = 1..n /\ \A i \in 1..n : rs[i] \in Rule(Res, V)
  OBVIOUS
<1>1. PICK f : /\ reorderRules(rs) = f[n] /\ f[0] = <<>>
               /\ \A i \in 1..n : f[i] = Merge(f[i-1], rs[i])
  BY ReorderUnfolds
<1> DEFINE Of(i) == {<<rs[i].resource, rs[i].verbs[j]>> : j \in DOMAIN rs[i].verbs}
           Upto(i) == /\ f[i] \in Seq(Rule(Res, V))
                      /\ WellOrdered(f[i])
                      /\ \A p : p \in Granted(f[i]) <=> \E k \in 1..i : p \in Of(k)
           S == {i \in Nat : i <= n => Upto(i)}
<1> HIDE DEF n
<1>2. 0 \in S
  <2>1. DOMAIN f[0] = {} /\ f[0] \in Seq(Rule(Res, V))
    BY <1>1
  <2>2. WellOrdered(f[0]) /\ \A p : p \notin Granted(f[0])
    BY <2>1 DEF Granted, WellOrdered
  <2>3. 1..0 = {}
    OBVIOUS
  <2> QED  BY <2>1, <2>2, <2>3
<1>3. ASSUME NEW i \in Nat, i \in S PROVE i + 1 \in S
  <2> SUFFICES ASSUME i + 1 <= n PROVE Upto(i + 1)
    OBVIOUS
  <2>1. Upto(i) /\ i + 1 \in 1..n
    BY <1>0, <1>3
  <2> DEFINE t == f[i]
             r == rs[i+1]
  <2>2. /\ f[i+1] = Merge(t, r) /\ r \in Rule(Res, V)
        /\ t \in Seq(Rule(Res, V)) /\ WellOrdered(t)
    BY <1>0, <1>1, <2>1
  <2>3. Of(i+1) = {<<r.resource, r.verbs[j]>> : j \in DOMAIN r.verbs}
    OBVIOUS
  <2>4. \A p : p \in Granted(t) <=> \E k \in 1..i : p \in Of(k)
    BY <2>1
  <2> HIDE DEF t, r, Of
  <2>5. /\ Merge(t, r) \in Seq(Rule(Res, V)) /\ WellOrdered(Merge(t, r))
        /\ \A p : p \in Granted(Merge(t, r)) <=> p \in Granted(t) \/ p \in Of(i+1)
    BY <2>2, <2>3, MergeMerges, ZenonT(30)
  <2>6. 1..(i+1) = (1..i) \cup {i+1}
    OBVIOUS
  <2> QED  BY <2>2, <2>4, <2>5, <2>6
<1>4. Upto(n)
  <2> HIDE DEF Upto
  <2>1. 0 \in S /\ \A i \in Nat : i \in S => i + 1 \in S
    BY <1>2, <1>3
  <2> HIDE DEF S
  <2>2. n \in S
    BY <1>0, <2>1, SetInduction
  <2> QED  BY <1>0, <2>2 DEF S
<1>5. \A p : p \in Granted(rs) <=> \E k \in 1..n : p \in Of(k)
  BY <1>0 DEF Granted
<1> HIDE DEF Of
<1> QED  BY <1>1, <1>4, <1>5, ZenonT(30)

\* Rules that have one entry for a resource already are left as they are: a
\* second Result, which reorders what the first one stored, changes nothing.
THEOREM ReorderFixes ==
  ASSUME NEW Res, NEW V, NEW rs \in Seq(Rule(Res, V)), WellOrdered(rs)
  PROVE  reorderRules(rs) = rs
<1> DEFINE n == Len(rs)
<1>0. n \in Nat /\ DOMAIN rs = 1..n /\ \A i \in 1..n : rs[i] \in Rule(Res, V)
  OBVIOUS
<1>1. PICK f : /\ reorderRules(rs) = f[n] /\ f[0] = <<>>
               /\ \A i \in 1..n : f[i] = Merge(f[i-1], rs[i])
  BY ReorderUnfolds
<1> DEFINE S == {i \in Nat : i <= n => f[i] = SubSeq(rs, 1, i)}
<1>2. 0 \in S
  <2>1. SubSeq(rs, 1, 0) = <<>>
    OBVIOUS
  <2> QED  BY <1>1, <2>1, ZenonT(30)
<1>3. ASSUME NEW i \in Nat, i \in S PROVE i + 1 \in S
  <2> SUFFICES ASSUME i + 1 <= n PROVE f[i+1] = SubSeq(rs, 1, i + 1)
    OBVIOUS
  <2> DEFINE t == SubSeq(rs, 1, i)
  <2>0. i + 1 \in 1..n /\ f[i] = t /\ (i + 1) - 1 = i
    BY <1>0, <1>3
  <2>1. f[i+1] = Merge(t, rs[i+1])
    <3> HIDE DEF t
    <3> QED  BY <1>1, <2>0
  <2>2. DOMAIN t = 1..i /\ \A k \in 1..i : t[k] = rs[k]
    BY <1>0
  <2>3. \A k \in 1..i : rs[k].resource # rs[i+1].resource
    BY <1>0 DEF WellOrdered
  <2>4. {k \in DOMAIN t : t[k].resource = rs[i+1].resource} = {}
    BY <2>2, <2>3
  <2> HIDE DEF t
  <2>5. Merge(t, rs[i+1]) = Append(t, rs[i+1])
    BY <2>4 DEF Merge
  <2>6. Append(t, rs[i+1]) = SubSeq(rs, 1, i + 1)
    BY <1>0 DEF t
  <2> QED  BY <2>1, <2>5, <2>6
<1>4. n \in S
  <2>1. 0 \in S /\ \A i \in Nat : i \in S => i + 1 \in S
    BY <1>2, <1>3
  <2> HIDE DEF S
  <2> QED  BY <1>0, <2>1, SetInduction
<1>5. SubSeq(rs, 1, n) = rs
  BY <1>0
<1> QED  BY <1>0, <1>1, <1>4, <1>5
=============================================================================
