-------------------------- MODULE ClientStackProofs --------------------------
(***************************************************************************)
(* For any number of goroutines, names and labels, any operator of Setups  *)
(* and any number of requests: RunOnce and SyncedReads hold of the stack,  *)
(* whose goroutines use the informers' map as InformersMap says; the       *)
(* composite client's NotFound is real; what is stored was admitted;       *)
(* creations that do not overlap leave one instance; the recorded rules    *)
(* are complete until goroutines race; and a controller at rest has        *)
(* reconciled what the API holds.                                          *)
(***************************************************************************)
EXTENDS ClientStack, ClientPartsProofs

Places == {"idle", "record", "append", "cluster", "result", "resultCluster",
           "reorder", "lookup", "add", "wait", "got", "failed", "rawget",
           "rawlist", "persist", "watching", "ready"}
Ops == {"none", "source", "create", "update", "delete", "get", "status", "patch",
        "result"}
Says == {"none", "error", "notfound", "found"}
Calls == [op : Ops, name : Names, object : Objects]

TypeInv ==
    /\ pc \in [Callers -> Places]
    /\ call \in [Callers -> Calls]
    /\ api \in [Names -> Objects]
    /\ gone \in [Callers -> BOOLEAN]
    /\ answer \in [Callers -> Says]
    /\ overlapped \in BOOLEAN
    /\ \A c \in Callers :
         /\ pc[c] \in {"record", "append", "cluster"}
              => call[c].op \in {"create", "get", "status", "patch"}
         /\ pc[c] = "rawget" => call[c].op = "get"

\* The webhooks may let n become o.
Good(n, o) ==
    o # Absent /\ n \notin Ignored =>
        DefaultLabels \subseteq o[1] /\ o[1] \subseteq ValidLabels

-----------------------------------------------------------------------------
(* Facts about the functions that the actions are made of. *)

\* No goroutine's call: what Finish leaves behind.
LEMMA IdleType == Idle \in Calls /\ Idle.op = "none" /\ Idle.object = Absent
<1>1. (CHOOSE n \in Names : TRUE) \in Names
  BY StackAssumption
<1> QED  BY <1>1 DEF Idle, Operation, Calls, Ops, Objects

\* Defaulting leaves an object an object, with the labels AddLabels adds.
LEMMA DefaultedType ==
    ASSUME NEW n, NEW raw \in Objects
    PROVE  /\ Defaulted(n, raw) \in Objects
           /\ Defaulted(n, raw) # Absent /\ n \notin Ignored
                => DefaultLabels \subseteq Defaulted(n, raw)[1]
<1>1. CASE raw = Absent
  BY <1>1 DEF Defaulted, Absent
<1>2. CASE raw # Absent
  <2>1. PICK v \in Values : raw = <<v>>
    BY <1>2 DEF Objects
  <2>2. Defaulted(n, raw) = IF n \notin Ignored THEN <<AddLabels(v)>> ELSE <<v>>
    BY <1>2, <2>1 DEF Defaulted, Absent, RequireDefaulting
  <2>3. AddLabels(v) \in Values
    BY StackAssumption
  <2> QED  BY <2>2, <2>3 DEF Objects, AddLabels
<1> QED  BY <1>1, <1>2

\* What the webhooks make of a request: nothing happens, or the singleton
\* check of a creation begins, or the API server may store an object, or
\* delete one.
LEMMA AdmitStep ==
    ASSUME TypeInv, NEW c \in Callers, NEW op \in {"create", "update", "delete"},
           NEW n \in Names, NEW raw \in Objects, Admit(c, op, n, raw)
    PROVE  /\ UNCHANGED <<answer, gone>>
           /\ \/ UNCHANGED <<pc, call, overlapped>>
              \/ \E object \in Objects :
                   /\ Good(n, object)
                   /\ pc' = [pc EXCEPT ![c] = "record"]
                   /\ call' = [call EXCEPT ![c] = Operation("create", n, object)]
                   /\ overlapped' = (overlapped \/
                        \E d \in Handlers : call[d].op = "create")
              \/ \E object \in Objects :
                   /\ Good(n, object)
                   /\ op = "create" => n \in Ignored
                   /\ pc' = [pc EXCEPT ![c] = "persist"]
                   /\ call' = [call EXCEPT ![c] = Operation(op, n, object)]
                   /\ UNCHANGED overlapped
<1> DEFINE object == IF op = "delete" THEN api[n] ELSE Defaulted(n, raw)
           response == Validated(op, n, object, api[n])
<1>1. object \in Objects
  BY DefaultedType DEF TypeInv
<1>2. response = "singleton" => op = "create" /\ Good(n, object)
  <2> SUFFICES ASSUME response = "singleton" PROVE op = "create" /\ Good(n, object)
    OBVIOUS
  <2>1. op = "create" /\ ValidateLabels(object[1])
    <3> HIDE DEF object
    <3> QED  BY DEF Validated, RequireValidating, ValidateLabels
  <2> QED  BY <2>1, DefaultedType DEF Good, ValidateLabels
<1>3. response = "allowed" => op = "delete" \/ Good(n, object)
  <2> SUFFICES ASSUME response = "allowed", op # "delete" PROVE Good(n, object)
    OBVIOUS
  <2>1. n \in Ignored \/ ValidateLabels(object[1])
    BY DEF Validated, RequireValidating
  <2> QED  BY <2>1, DefaultedType DEF Good, ValidateLabels
<1>4. response = "allowed" /\ op = "create" => n \in Ignored
  BY DEF Validated, RequireValidating
<1>5. CASE response = "singleton"
  <2>1. /\ pc' = [pc EXCEPT ![c] = "record"]
        /\ call' = [call EXCEPT ![c] = Operation("create", n, object)]
        /\ overlapped' = (overlapped \/ \E d \in Handlers : call[d].op = "create")
        /\ UNCHANGED <<answer, gone>>
    BY <1>2, <1>5 DEF Admit, Goto
  <2> HIDE DEF object
  <2> QED  BY <1>1, <1>2, <1>5, <2>1, ZenonT(30)
<1>6. CASE response = "allowed"
  <2> DEFINE new == IF op = "delete" THEN Absent ELSE object
  <2>1. /\ pc' = [pc EXCEPT ![c] = "persist"]
        /\ call' = [call EXCEPT ![c] = Operation(op, n, new)]
        /\ UNCHANGED <<answer, gone, overlapped>>
    BY <1>6 DEF Admit, Goto
  <2>2. new \in Objects /\ Good(n, new)
    BY <1>1, <1>3, <1>6 DEF Objects, Good
  <2> HIDE DEF new
  <2> QED  BY <1>4, <1>6, <2>1, <2>2, ZenonT(30)
<1>7. CASE response \notin {"singleton", "allowed"}
  <2>1. UNCHANGED <<pc, call, overlapped, answer, gone>>
    BY <1>7 DEF Admit
  <2> QED  BY <2>1
<1> QED  BY <1>5, <1>6, <1>7

-----------------------------------------------------------------------------
(* The steps, by what they do to the goroutines and to the API. *)

\* Nothing of what is told here changes.
Quiet == UNCHANGED <<pc, call, api, gone, answer, overlapped, setup>>

\* c moves within its operation to p.
Moves(c, p) ==
    /\ pc' = [pc EXCEPT ![c] = p]
    /\ UNCHANGED <<call, api, gone, answer, overlapped, setup>>

\* c begins an operation.
BeginsWith(c, op, n, object) ==
    /\ call' = [call EXCEPT ![c] = Operation(op, n, object)]
    /\ Good(n, object)
    /\ \/ /\ op = "create"
          /\ pc' = [pc EXCEPT ![c] = "record"]
          /\ overlapped' = (overlapped \/ \E d \in Handlers : call[d].op = "create")
          /\ UNCHANGED <<answer, gone>>
       \/ /\ op \in {"create", "update", "delete"}
          /\ op = "create" => n \in Ignored
          /\ pc' = [pc EXCEPT ![c] = "persist"]
          /\ UNCHANGED <<answer, gone, overlapped>>
       \/ /\ op \in {"get", "status", "patch", "result"}
          /\ pc' = [pc EXCEPT ![c] = IF op = "result" THEN "result" ELSE "record"]
          /\ answer' = [answer EXCEPT ![c] = "none"]
          /\ gone' = [gone EXCEPT ![c] = (api[n] = Absent)]
          /\ UNCHANGED overlapped

Begins(c) ==
    /\ c \in Handlers /\ pc[c] = "idle"
    /\ \E op \in Ops, n \in Names, object \in Objects : BeginsWith(c, op, n, object)
    /\ UNCHANGED <<api, setup>>

\* c is done, and may have an answer: NotFound only from the API server.
Ends(c) ==
    /\ Finish(c)
    /\ \/ UNCHANGED answer
       \/ \E says \in Says :
            /\ answer' = [answer EXCEPT ![c] = says]
            /\ says = "notfound" => call[c].op = "get" /\ api[call[c].name] = Absent
    /\ UNCHANGED <<api, gone, overlapped, setup>>

\* Where a goroutine may go from p within an operation.
After(c, p) ==
    \/ pc[c] = "record" /\ p = "append"
    \/ pc[c] = "append" /\ p \in {"cluster", "rawlist"}
    \/ pc[c] = "cluster" /\ p = "append"
    \/ pc[c] \in {"result", "resultCluster"} /\ p = "reorder"
    \/ pc[c] = "reorder" /\ p = "resultCluster"
    \/ pc[c] = "append" /\ p = "lookup" /\ ~(call[c].op = "create" /\ setup.rawListing)
    \/ pc[c] \in {"lookup", "add", "wait"} /\ p \in {"add", "wait", "got", "failed"}
    \/ pc[c] = "got" /\ p = "persist"
    \/ pc[c] = "got" /\ p = "rawget" /\ call[c].op = "get"
    \/ pc[c] = "got" /\ p = "watching"
    \/ pc[c] = "watching" /\ p = "ready"
    \/ pc[c] = "rawlist" /\ p = "persist" /\ \A n \in Names : api[n] = Absent

Within(c) == \E p \in Places : After(c, p) /\ Moves(c, p)

\* An answer ends an operation.
LEMMA AnswerEnds ==
    ASSUME TypeInv, NEW c \in Callers, NEW says \in Says, Answers(c, says),
           says = "notfound" => call[c].op = "get" /\ api[call[c].name] = Absent,
           UNCHANGED <<api, gone, overlapped, setup>>
    PROVE  Ends(c)
<1>1. Finish(c) /\ answer' = [answer EXCEPT ![c] = says]
  BY DEF Answers
<1>2. \E x \in Says :
        /\ answer' = [answer EXCEPT ![c] = x]
        /\ x = "notfound" => call[c].op = "get" /\ api[call[c].name] = Absent
  BY <1>1, ZenonT(30)
<1> QED  BY <1>1, <1>2, ZenonT(30) DEF Ends

\* Every step is one of these.
LEMMA Steps ==
    ASSUME TypeInv, [Next]_vars
    PROVE  \/ Quiet
           \/ \E c \in Callers : Begins(c) \/ Within(c) \/ Ends(c) \/ Persist(c)
<1>1. CASE UNCHANGED vars
  BY <1>1 DEF vars, mapVars, objects, recorder, history, Quiet
<1>2. CASE Starts \/ Informs \/ Breaks \/ Reconcile
  <2>1. UNCHANGED <<pc, api>>
    BY <1>2, ZenonT(30) DEF Starts, Informs, Breaks, Reconcile, Start, ListFunc, WatchFunc,
                Deliver, WatchEnds, objects, mapVars
  <2>2. UNCHANGED <<call, gone, answer, overlapped, setup>>
    BY <1>2, ZenonT(30) DEF Starts, Informs, Breaks, Reconcile, history
  <2> QED  BY <2>1, <2>2 DEF Quiet
<1>3. ASSUME NEW c \in Callers, Map(c) \/ MapFails(c) \/ Expire(c) PROVE Within(c)
  <2>1. PICK p \in {"add", "wait", "got", "failed"} :
          pc[c] \in {"lookup", "add", "wait"} /\ pc' = [pc EXCEPT ![c] = p]
    BY <1>3 DEF Map, MapFails, Expire, Goto, Lookup, addInformerToMap,
                addInformerFails, WaitForCacheSync, Proceed
  <2>2. UNCHANGED <<api, call, gone, answer, overlapped, setup>>
    BY <1>3 DEF Map, MapFails, Expire, Lookup, addInformerToMap, addInformerFails,
                WaitForCacheSync, objects, history
  <2>3. p \in Places /\ After(c, p)
    BY <2>1 DEF After, Places
  <2>4. Moves(c, p)
    BY <2>1, <2>2 DEF Moves
  <2> QED  BY <2>3, <2>4 DEF Within
<1>4. ASSUME NEW c \in Callers, RecordReads(c) \/ RecordCluster(c) \/ ResultReads(c)
      PROVE  Within(c)
  <2>1. PICK p \in {"append", "reorder"} :
          After(c, p) /\ pc' = [pc EXCEPT ![c] = p]
    BY <1>4 DEF RecordReads, RecordCluster, ResultReads, Goto, After
  <2>2. UNCHANGED <<api, call, gone, answer, overlapped, setup>>
    BY <1>4 DEF RecordReads, RecordCluster, ResultReads, objects, history
  <2>3. p \in Places /\ Moves(c, p)
    BY <2>1, <2>2 DEF Places, Moves
  <2> QED  BY <2>1, <2>3 DEF Within
<1>5. ASSUME NEW c \in Callers, RecordWrites(c) \/ ResultWrites(c)
      PROVE  Within(c) \/ Ends(c)
  <2>1. UNCHANGED <<api, gone, answer, overlapped, setup>>
    BY <1>5 DEF RecordWrites, ResultWrites, objects, history
  <2>2. CASE Finish(c)
    BY <2>1, <2>2 DEF Ends
  <2>3. CASE ~Finish(c)
    <3>1. PICK p \in {"cluster", "rawlist", "lookup", "resultCluster"} :
            After(c, p) /\ pc' = [pc EXCEPT ![c] = p] /\ UNCHANGED call
      BY <1>5, <2>3 DEF RecordWrites, ResultWrites, Goto, After
    <3>2. p \in Places /\ Moves(c, p)
      BY <2>1, <3>1 DEF Places, Moves
    <3> QED  BY <3>1, <3>2 DEF Within
  <2> QED  BY <2>2, <2>3
<1>6. ASSUME NEW c \in Callers, CachedList(c) \/ RawList(c) PROVE Within(c) \/ Ends(c)
  <2>1. UNCHANGED <<api, gone, answer, overlapped, setup>>
    BY <1>6 DEF CachedList, RawList, objects, history
  <2>2. CASE Finish(c)
    BY <2>1, <2>2 DEF Ends
  <2>3. CASE ~Finish(c)
    <3>1. Goto(c, "persist") /\ UNCHANGED call
      BY <1>6, <2>3 DEF CachedList, RawList, Singleton
    <3>2. After(c, "persist") /\ "persist" \in Places
      <4>1. CASE CachedList(c)
        BY <4>1 DEF CachedList, After, Places
      <4>2. CASE RawList(c)
        <5>1. pc[c] = "rawlist" /\ {n \in Names : api[n] # Absent} = {}
          BY <4>2, <2>3 DEF RawList, Singleton, ValidateSingletonCreate
        <5> QED  BY <5>1 DEF After, Places
      <4> QED  BY <1>6, <4>1, <4>2
    <3>3. Moves(c, "persist")
      BY <2>1, <3>1 DEF Moves, Goto
    <3> QED  BY <3>2, <3>3 DEF Within
  <2> QED  BY <2>2, <2>3
<1>7. ASSUME NEW c \in Callers, CachedGet(c) PROVE Within(c) \/ Ends(c)
  <2>1. UNCHANGED <<api, gone, overlapped, setup>> /\ pc[c] = "got"
        /\ call[c].op = "get"
    BY <1>7 DEF CachedGet, objects
  <2>2. CASE Answers(c, "error") \/ Answers(c, "found")
    BY <2>1, <2>2, AnswerEnds DEF Says
  <2>3. CASE ~(Answers(c, "error") \/ Answers(c, "found"))
    <3>1. Goto(c, "rawget") /\ UNCHANGED <<call, answer>>
      BY <1>7, <2>3 DEF CachedGet
    <3>2. Moves(c, "rawget") /\ After(c, "rawget") /\ "rawget" \in Places
      BY <2>1, <3>1 DEF Moves, After, Places, Goto
    <3> QED  BY <3>2 DEF Within
  <2> QED  BY <2>2, <2>3
<1>8. ASSUME NEW c \in Callers, RawGet(c) PROVE Ends(c)
  <2>1. UNCHANGED <<api, gone, overlapped, setup>> /\ call[c].op = "get"
    BY <1>8 DEF RawGet, objects, TypeInv
  <2>2. PICK says \in {"notfound", "found", "error"} :
          Answers(c, says) /\ (says = "notfound" => api[call[c].name] = Absent)
    BY <1>8 DEF RawGet
  <2> QED  BY <2>1, <2>2, AnswerEnds DEF Says
<1>9. ASSUME NEW c \in Callers, MapFailed(c) PROVE Ends(c)
  <2>1. UNCHANGED <<api, gone, overlapped, setup>>
    BY <1>9 DEF MapFailed, objects
  <2>2. Answers(c, "error") \/ (Finish(c) /\ UNCHANGED answer)
    BY <1>9 DEF MapFailed
  <2>3. CASE Answers(c, "error")
    BY <2>1, <2>3, AnswerEnds DEF Says
  <2>4. CASE Finish(c) /\ UNCHANGED answer
    BY <2>1, <2>4 DEF Ends
  <2> QED  BY <2>2, <2>3, <2>4
<1>10. CASE SourceStart \/ SourceReady
  <2>1. UNCHANGED <<api, call, gone, answer, overlapped, setup>>
    BY <1>10 DEF SourceStart, SourceReady, objects, history
  <2>2. PICK p \in {"watching", "ready"} :
          After(Source, p) /\ pc' = [pc EXCEPT ![Source] = p]
    BY <1>10 DEF SourceStart, SourceReady, GetInformer, After, Goto
  <2>3. p \in Places /\ Moves(Source, p)
    BY <2>1, <2>2 DEF Places, Moves
  <2> QED  BY <2>2, <2>3, StackAssumption DEF Within
<1>11. ASSUME NEW c \in Handlers, Request(c) PROVE c \in Callers /\ (Begins(c) \/ Quiet)
  <2>1. c \in Callers /\ c \in Handlers /\ pc[c] = "idle" /\ UNCHANGED <<api, setup>>
    BY <1>11 DEF Handlers, Request, objects
  <2>2. PICK n \in Names :
          \/ \E op \in {"create", "update"} \cap setup.ops, raw \in Objects :
               Admit(c, op, n, raw)
          \/ Admit(c, "delete", n, Absent)
          \/ \E op \in {"get", "status", "patch", "result"} \cap setup.ops :
               Call(c, op, n)
    BY <1>11 DEF Request
  <2>3. ASSUME NEW op \in {"create", "update", "delete"}, NEW raw \in Objects,
               Admit(c, op, n, raw)
        PROVE  Begins(c) \/ Quiet
    <3>1. op \in Ops /\ "create" \in Ops
      BY DEF Ops
    <3>2. CASE UNCHANGED <<pc, call, overlapped, answer, gone>>
      BY <2>1, <3>2 DEF Quiet
    <3>3. ASSUME NEW object \in Objects, Good(n, object),
                 pc' = [pc EXCEPT ![c] = "record"],
                 call' = [call EXCEPT ![c] = Operation("create", n, object)],
                 overlapped' = (overlapped \/ \E d \in Handlers : call[d].op = "create"),
                 UNCHANGED <<answer, gone>>
          PROVE  Begins(c)
      <4>1. BeginsWith(c, "create", n, object)
        BY <3>3 DEF BeginsWith
      <4> QED  BY <2>1, <3>1, <4>1 DEF Begins
    <3>4. ASSUME NEW object \in Objects, Good(n, object),
                 op = "create" => n \in Ignored,
                 pc' = [pc EXCEPT ![c] = "persist"],
                 call' = [call EXCEPT ![c] = Operation(op, n, object)],
                 UNCHANGED <<answer, gone, overlapped>>
          PROVE  Begins(c)
      <4>1. BeginsWith(c, op, n, object)
        BY <3>4 DEF BeginsWith
      <4> QED  BY <2>1, <3>1, <4>1 DEF Begins
    <3> QED  BY <2>1, <2>3, <3>2, <3>3, <3>4, AdmitStep
  <2>4. ASSUME NEW op \in {"get", "status", "patch", "result"}, Call(c, op, n)
        PROVE  Begins(c)
    <3>1. op \in Ops /\ Absent \in Objects /\ Good(n, Absent)
      BY DEF Ops, Objects, Good
    <3>2. BeginsWith(c, op, n, Absent)
      BY <2>4, <3>1 DEF Call, Goto, BeginsWith
    <3> QED  BY <2>1, <3>1, <3>2 DEF Begins
  <2>5. Absent \in Objects
    BY DEF Objects
  <2> QED  BY <2>1, <2>2, <2>3, <2>4, <2>5
<1>12. \A c \in Handlers : c \in Callers
  BY DEF Handlers
<1> QED
  BY <1>1, <1>2, <1>3, <1>4, <1>5, <1>6, <1>7, <1>8, <1>9, <1>10, <1>11, <1>12
  DEF Next, Runs, Records

-----------------------------------------------------------------------------
(* The inductive invariants. *)

\* A Get of an absent object knows that it was absent.
GetInv ==
    /\ NotFoundIsReal
    /\ \A c \in Callers :
         call[c].op = "get" /\ api[call[c].name] = Absent => gone[c]

\* What the webhooks let through on its way to the API server is good, too.
AdmitInv ==
    /\ Admitted
    /\ \A c \in Callers : Good(call[c].name, call[c].object)

Creates(c) == call[c].op = "create" /\ call[c].name \notin Ignored

\* Unless singleton checks overlap, at most one creation is under way; and
\* when its check is passed there is no instance, until it is stored.
SingleInv ==
    setup.rawListing /\ ~overlapped =>
        /\ \A c, d \in Callers : Creates(c) /\ Creates(d) => c = d
        /\ \A c \in Callers : Creates(c) =>
             /\ c \in Handlers
             /\ pc[c] \in {"record", "append", "cluster", "rawlist", "persist"}
             /\ pc[c] = "persist" => \A n \in Names \ Ignored : api[n] = Absent
        /\ \A m, n \in Names \ Ignored :
             api[m] # Absent /\ api[n] # Absent => m = n

\* The stack as it starts has the invariants.
LEMMA StackInit == Init => TypeInv /\ GetInv /\ AdmitInv /\ SingleInv
<1> SUFFICES ASSUME Init PROVE TypeInv /\ GetInv /\ AdmitInv /\ SingleInv
  OBVIOUS
<1>1. \A c \in Callers : call[c] \in Calls /\ call[c].op \in {"none", "source"}
                          /\ call[c].object = Absent
  <2>1. Operation("source", Idle.name, Absent) \in Calls
    BY IdleType DEF Operation, Calls, Ops, Objects
  <2> QED  BY <2>1, IdleType, ZenonT(30) DEF Init, Operation
<1>2. api = [n \in Names |-> Absent] /\ Absent \in Objects
  BY DEF Init, MapInit, Objects
<1>3. TypeInv
  <2>1. pc \in [Callers -> Places] /\ \A c \in Callers : pc[c] \in {"lookup", "idle"}
    BY DEF Init, Places
  <2>2. call \in [Callers -> Calls]
    BY <1>1 DEF Init
  <2>3. answer \in [Callers -> Says] /\ gone \in [Callers -> BOOLEAN]
        /\ overlapped \in BOOLEAN
    BY ZenonT(30) DEF Init, Says
  <2>4. api \in [Names -> Objects]
    BY <1>2
  <2> QED  BY <2>1, <2>2, <2>3, <2>4 DEF TypeInv
<1>4. GetInv
  BY <1>1 DEF Init, GetInv, NotFoundIsReal
<1>5. AdmitInv
  BY <1>1, <1>2 DEF AdmitInv, Admitted, Good
<1>6. SingleInv
  BY <1>1, <1>2, ZenonT(30) DEF SingleInv, Creates
<1> QED  BY <1>3, <1>4, <1>5, <1>6

\* What a step of c leaves alone, and what it makes of c's call.
LEMMA StepOfOne ==
    ASSUME TypeInv, NEW c \in Callers,
           Begins(c) \/ Within(c) \/ Ends(c) \/ Persist(c)
    PROVE  /\ pc' \in [Callers -> Places] /\ call' \in [Callers -> Calls]
           /\ \A d \in Callers : d # c => pc'[d] = pc[d] /\ call'[d] = call[d]
           /\ UNCHANGED setup
           /\ Ends(c) \/ Persist(c) => pc'[c] = "idle" /\ call'[c] = Idle
<1>1. CASE Begins(c)
  <2>0. PICK op \in Ops, n \in Names, object \in Objects :
          BeginsWith(c, op, n, object)
    BY <1>1 DEF Begins
  <2>1. /\ call' = [call EXCEPT ![c] = Operation(op, n, object)]
        /\ \E p \in {"record", "persist", "result"} : pc' = [pc EXCEPT ![c] = p]
    BY <2>0 DEF BeginsWith
  <2>2. Operation(op, n, object) \in Calls
    BY DEF Operation, Calls
  <2>4. UNCHANGED setup /\ {"record", "persist", "result"} \subseteq Places
    BY <1>1, ZenonT(30) DEF Begins, Places
  <2>3. ~Ends(c) /\ ~Persist(c)
    <3>1. pc'[c] # "idle"
      BY <2>1 DEF TypeInv
    <3> QED  BY <3>1 DEF Ends, Persist, Finish, Goto, TypeInv
  <2> QED  BY <2>1, <2>2, <2>3, <2>4 DEF TypeInv
<1>2. CASE Within(c)
  <2>1. PICK p \in Places : After(c, p) /\ Moves(c, p)
    BY <1>2, ZenonT(30) DEF Within
  <2>2. pc' = [pc EXCEPT ![c] = p] /\ p # "idle" /\ UNCHANGED setup
    BY <2>1 DEF After, Moves
  <2>3. call' \in [Callers -> Calls]
        /\ \A d \in Callers : d # c => call'[d] = call[d]
    BY <2>1, ZenonT(30) DEF Moves, TypeInv
  <2>4. ~Ends(c) /\ ~Persist(c)
    <3>1. pc'[c] # "idle"
      BY <2>2 DEF TypeInv
    <3> QED  BY <3>1 DEF Ends, Persist, Finish, Goto, TypeInv
  <2> QED  BY <2>2, <2>3, <2>4, ZenonT(30) DEF TypeInv
<1>3. CASE Ends(c) \/ Persist(c)
  <2>1. pc' = [pc EXCEPT ![c] = "idle"] /\ call' = [call EXCEPT ![c] = Idle]
        /\ UNCHANGED setup
    BY <1>3, ZenonT(30) DEF Ends, Persist, Finish, Goto
  <2>2. "idle" \in Places
    BY DEF Places
  <2> QED  BY <2>1, <2>2, IdleType, ZenonT(30) DEF TypeInv
<1> QED  BY <1>1, <1>2, <1>3

\* A step within an operation keeps what the operation is.
LEMMA WithinKeeps ==
    ASSUME TypeInv, NEW c \in Callers, Within(c)
    PROVE  UNCHANGED <<call, api, gone, answer, overlapped, setup>> /\ After(c, pc'[c])
<1>1. PICK p \in Places : After(c, p) /\ Moves(c, p)
  BY DEF Within
<1>2. pc'[c] = p
  BY <1>1 DEF Moves, TypeInv
<1> QED  BY <1>1, <1>2 DEF Moves

\* What Persist does to the API.
Stores(c) ==
    /\ (call[c].op = "create") <=> (api[call[c].name] = Absent)
    /\ api' = [api EXCEPT ![call[c].name] = call[c].object]
    /\ gone' = [d \in Callers |-> gone[d] \/
         (call[d].name = call[c].name /\ call[c].object = Absent)]

LEMMA PersistStores ==
    ASSUME NEW c \in Callers, Persist(c)
    PROVE  /\ pc[c] = "persist"
           /\ UNCHANGED <<answer, overlapped, setup>>
           /\ Stores(c) \/ UNCHANGED <<api, gone>>
<1>1. pc[c] = "persist" /\ UNCHANGED <<answer, overlapped, setup>>
  BY ZenonT(30) DEF Persist
<1>2. Stores(c) \/ UNCHANGED <<api, gone>>
  BY DEF Persist, Stores, Change, objects
<1> QED  BY <1>1, <1>2, ZenonT(30)

\* The types, and which operations are where.
LEMMA TypeStep == TypeInv /\ [Next]_vars => TypeInv'
<1> SUFFICES ASSUME TypeInv, [Next]_vars PROVE TypeInv'
  OBVIOUS
<1>1. CASE Quiet
  BY <1>1, ZenonT(30) DEF Quiet, TypeInv
<1>2. ASSUME NEW c \in Callers, Begins(c) \/ Within(c) \/ Ends(c) \/ Persist(c)
      PROVE  TypeInv'
  <2>1. /\ pc' \in [Callers -> Places] /\ call' \in [Callers -> Calls]
        /\ \A d \in Callers : d # c => pc'[d] = pc[d] /\ call'[d] = call[d]
        /\ Ends(c) \/ Persist(c) => pc'[c] = "idle"
    BY <1>2, StepOfOne
  <2> SUFFICES
        /\ api' \in [Names -> Objects]
        /\ gone' \in [Callers -> BOOLEAN] /\ answer' \in [Callers -> Says]
        /\ overlapped' \in BOOLEAN
        /\ pc'[c] \in {"record", "append", "cluster"}
             => call'[c].op \in {"create", "get", "status", "patch"}
        /\ pc'[c] = "rawget" => call'[c].op = "get"
    <3>1. \A d \in Callers :
            /\ pc'[d] \in {"record", "append", "cluster"}
                 => call'[d].op \in {"create", "get", "status", "patch"}
            /\ pc'[d] = "rawget" => call'[d].op = "get"
      BY <2>1 DEF TypeInv
    <3> QED  BY <2>1, <3>1 DEF TypeInv
  <2>2. CASE Begins(c)
    <3>1. PICK op \in Ops, n \in Names, object \in Objects :
            BeginsWith(c, op, n, object)
      BY <2>2 DEF Begins
    <3>2. /\ call'[c].op = op
          /\ \/ pc'[c] \in {"persist", "result"}
             \/ pc'[c] = "record" /\ op \in {"create", "get", "status", "patch"}
      BY <3>1 DEF BeginsWith, Operation, TypeInv
    <3>3. UNCHANGED api
      BY <2>2 DEF Begins
    <3>4. gone' \in [Callers -> BOOLEAN]
      BY <3>1, ZenonT(30) DEF BeginsWith, TypeInv
    <3>5. answer' \in [Callers -> Says]
      BY <3>1 DEF BeginsWith, TypeInv, Says
    <3>6. overlapped' \in BOOLEAN
      BY <3>1, ZenonT(30) DEF BeginsWith, TypeInv
    <3> QED  BY <3>2, <3>3, <3>4, <3>5, <3>6 DEF TypeInv
  <2>3. CASE Within(c)
    <3>1. UNCHANGED <<call, api, gone, answer, overlapped>> /\ After(c, pc'[c])
      BY <2>3, WithinKeeps
    <3> QED  BY <3>1 DEF After, TypeInv
  <2>4. CASE Ends(c)
    <3>1. UNCHANGED <<api, gone, overlapped>>
      BY <2>4 DEF Ends
    <3>2. answer' \in [Callers -> Says]
      BY <2>4 DEF Ends, TypeInv
    <3> QED  BY <2>1, <2>4, <3>1, <3>2 DEF TypeInv
  <2>5. CASE Persist(c)
    <3>1. Stores(c) => api' \in [Names -> Objects]
      BY DEF Stores, TypeInv, Calls
    <3>2. Stores(c) => gone' \in [Callers -> BOOLEAN]
      BY DEF Stores, TypeInv
    <3> QED  BY <2>1, <2>5, <3>1, <3>2, PersistStores DEF TypeInv
  <2> QED  BY <1>2, <2>2, <2>3, <2>4, <2>5, ZenonT(30)
<1> QED  BY <1>1, <1>2, Steps

\* NotFound stays real: a step that makes an object absent marks every Get of
\* it, and a Get that begins looks.
LEMMA GetStep == TypeInv /\ GetInv /\ [Next]_vars => GetInv'
<1> SUFFICES ASSUME TypeInv, GetInv, [Next]_vars PROVE GetInv'
  OBVIOUS
<1>1. CASE Quiet
  BY <1>1 DEF Quiet, GetInv, NotFoundIsReal
<1>2. ASSUME NEW c \in Callers, Begins(c) \/ Within(c) \/ Ends(c) \/ Persist(c)
      PROVE  GetInv'
  <2>1. /\ \A d \in Callers : d # c => call'[d] = call[d]
        /\ Ends(c) \/ Persist(c) => call'[c].op = "none"
    BY <1>2, StepOfOne, IdleType
  <2>2. CASE Begins(c)
    <3>1. PICK op \in Ops, n \in Names, object \in Objects :
            BeginsWith(c, op, n, object)
      BY <2>2 DEF Begins
    <3>2. api' = api /\ call'[c].op = op /\ call'[c].name = n
      BY <2>2, <3>1, ZenonT(30) DEF Begins, BeginsWith, Operation, TypeInv
    <3>3. CASE op \in {"get", "status", "patch", "result"}
      <4>1. /\ answer' = [answer EXCEPT ![c] = "none"]
            /\ gone' = [gone EXCEPT ![c] = (api[n] = Absent)]
        BY <3>1, <3>3 DEF BeginsWith
      <4>2. NotFoundIsReal'
        BY <4>1 DEF GetInv, NotFoundIsReal, TypeInv
      <4>3. ASSUME NEW d \in Callers, call'[d].op = "get",
                   api'[call'[d].name] = Absent
            PROVE  gone'[d]
        <5>1. CASE d = c
          BY <3>2, <4>1, <4>3, <5>1, ZenonT(30) DEF TypeInv
        <5>2. CASE d # c
          BY <2>1, <3>2, <4>1, <4>3, <5>2 DEF GetInv, TypeInv
        <5> QED  BY <5>1, <5>2, ZenonT(30)
      <4> QED  BY <4>2, <4>3 DEF GetInv
    <3>4. CASE op \notin {"get", "status", "patch", "result"}
      <4>1. UNCHANGED <<answer, gone>>
        BY <3>1, <3>4, ZenonT(30) DEF BeginsWith
      <4> QED  BY <2>1, <3>2, <3>4, <4>1 DEF GetInv, NotFoundIsReal
    <3> QED  BY <3>3, <3>4
  <2>3. CASE Within(c)
    <3>1. UNCHANGED <<call, api, gone, answer>>
      BY <2>3, WithinKeeps
    <3> QED  BY <3>1 DEF GetInv, NotFoundIsReal
  <2>4. CASE Ends(c)
    <3>1. UNCHANGED <<api, gone>>
      BY <2>4 DEF Ends
    <3>2. NotFoundIsReal'
      BY <2>4, <3>1 DEF Ends, GetInv, NotFoundIsReal, TypeInv
    <3> QED  BY <2>1, <2>4, <3>1, <3>2 DEF GetInv
  <2>5. CASE Persist(c)
    <3>1. CASE UNCHANGED <<api, gone>>
      BY <2>1, <2>5, <3>1, PersistStores, ZenonT(30) DEF GetInv, NotFoundIsReal
    <3>2. CASE Stores(c)
      <4>1. \A d \in Callers : gone[d] => gone'[d]
        BY <3>2, ZenonT(30) DEF Stores
      <4>2. NotFoundIsReal'
        BY <2>5, <4>1, PersistStores DEF GetInv, NotFoundIsReal
      <4>3. ASSUME NEW d \in Callers, call'[d].op = "get",
                   api'[call'[d].name] = Absent
            PROVE  gone'[d]
        <5>1. d # c /\ call'[d] = call[d] /\ call[d].name \in Names
          BY <2>1, <2>5, <4>3 DEF TypeInv, Calls
        <5>2. CASE call[d].name = call[c].name
          <6>1. call[c].object = Absent
            BY <3>2, <4>3, <5>1, <5>2, ZenonT(30) DEF Stores, TypeInv
          <6> QED  BY <3>2, <5>2, <6>1, ZenonT(30) DEF Stores
        <5>3. CASE call[d].name # call[c].name
          <6>1. api[call[d].name] = Absent
            BY <3>2, <4>3, <5>1, <5>3, ZenonT(30) DEF Stores, TypeInv
          <6> QED  BY <4>1, <4>3, <5>1, <6>1 DEF GetInv
        <5> QED  BY <5>2, <5>3, ZenonT(30)
      <4> QED  BY <4>2, <4>3 DEF GetInv
    <3> QED  BY <2>5, <3>1, <3>2, PersistStores, ZenonT(30)
  <2> QED  BY <1>2, <2>2, <2>3, <2>4, <2>5
<1> QED  BY <1>1, <1>2, Steps

\* What is under way to the API server, and so what is stored, stays good.
LEMMA AdmitKeeps == TypeInv /\ AdmitInv /\ [Next]_vars => AdmitInv'
<1> SUFFICES ASSUME TypeInv, AdmitInv, [Next]_vars PROVE AdmitInv'
  OBVIOUS
<1>1. CASE Quiet
  BY <1>1 DEF Quiet, AdmitInv, Admitted, Good
<1>2. ASSUME NEW c \in Callers, Begins(c) \/ Within(c) \/ Ends(c) \/ Persist(c)
      PROVE  AdmitInv'
  <2>1. /\ \A d \in Callers : d # c => call'[d] = call[d]
        /\ Ends(c) \/ Persist(c) => call'[c].object = Absent
    BY <1>2, StepOfOne, IdleType
  <2>2. CASE Begins(c)
    <3>1. PICK op \in Ops, n \in Names, object \in Objects :
            BeginsWith(c, op, n, object)
      BY <2>2 DEF Begins
    <3>2. /\ api' = api /\ Good(n, object)
          /\ call'[c].name = n /\ call'[c].object = object
      BY <2>2, <3>1, ZenonT(30) DEF Begins, BeginsWith, Operation, TypeInv
    <3> QED  BY <2>1, <3>2, ZenonT(30) DEF AdmitInv, Admitted, Good
  <2>3. CASE Within(c)
    <3>1. UNCHANGED <<call, api>>
      BY <2>3, WithinKeeps
    <3> QED  BY <3>1 DEF AdmitInv, Admitted, Good
  <2>4. CASE Ends(c) \/ (Persist(c) /\ UNCHANGED api)
    <3>1. UNCHANGED api
      BY <2>4 DEF Ends
    <3> QED  BY <2>1, <2>4, <3>1 DEF AdmitInv, Admitted, Good
  <2>5. CASE Persist(c) /\ Stores(c)
    <3>1. (\A d \in Callers : Good(call[d].name, call[d].object))'
      BY <2>1, <2>5, ZenonT(30) DEF AdmitInv, Good
    <3>2. Good(call[c].name, call[c].object)
          /\ api' = [api EXCEPT ![call[c].name] = call[c].object]
      BY <2>5, ZenonT(30) DEF AdmitInv, Stores
    <3>3. Admitted'
      BY <3>2, ZenonT(30) DEF AdmitInv, Admitted, Good, TypeInv
    <3> QED  BY <3>1, <3>3, ZenonT(30) DEF AdmitInv
  <2> QED  BY <1>2, <2>2, <2>3, <2>4, <2>5, PersistStores, ZenonT(30)
<1> QED  BY <1>1, <1>2, Steps

\* Creations that do not overlap stay single.
LEMMA SingleStep == TypeInv /\ SingleInv /\ [Next]_vars => SingleInv'
<1> SUFFICES ASSUME TypeInv, SingleInv, [Next]_vars PROVE SingleInv'
  OBVIOUS
<1>1. CASE Quiet
  BY <1>1, SMTT(30) DEF Quiet, SingleInv, Creates
<1>2. ASSUME NEW c \in Callers, Begins(c) \/ Within(c) \/ Ends(c) \/ Persist(c)
      PROVE  SingleInv'
  <2>1. /\ \A d \in Callers : d # c => pc'[d] = pc[d] /\ call'[d] = call[d]
        /\ Ends(c) \/ Persist(c) => call'[c].op = "none"
        /\ UNCHANGED setup
    BY <1>2, StepOfOne, IdleType, ZenonT(30)
  <2> SUFFICES ASSUME setup.rawListing, ~overlapped'
               PROVE
        /\ \A d, e \in Callers : Creates(d)' /\ Creates(e)' => d = e
        /\ \A d \in Callers : Creates(d)' =>
             /\ d \in Handlers
             /\ pc'[d] \in {"record", "append", "cluster", "rawlist", "persist"}
             /\ pc'[d] = "persist" => \A n \in Names \ Ignored : api'[n] = Absent
        /\ \A m, n \in Names \ Ignored :
             api'[m] # Absent /\ api'[n] # Absent => m = n
    BY <2>1, ZenonT(30) DEF SingleInv, Creates
  <2>3. ~overlapped
    <3>1. CASE Begins(c)
      BY <3>1, ZenonT(30) DEF Begins, BeginsWith, TypeInv
    <3>2. CASE Within(c) \/ Ends(c) \/ Persist(c)
      BY <3>2, WithinKeeps, PersistStores DEF Ends
    <3> QED  BY <1>2, <3>1, <3>2
  <2>4. /\ \A d, e \in Callers : Creates(d) /\ Creates(e) => d = e
        /\ \A d \in Callers : Creates(d) =>
             /\ d \in Handlers
             /\ pc[d] \in {"record", "append", "cluster", "rawlist", "persist"}
             /\ pc[d] = "persist" => \A n \in Names \ Ignored : api[n] = Absent
        /\ \A m, n \in Names \ Ignored :
             api[m] # Absent /\ api[n] # Absent => m = n
    BY <2>3, ZenonT(30) DEF SingleInv
  <2>5. \A d \in Callers : d # c => Creates(d)' = Creates(d)
    BY <2>1 DEF Creates
  <2>6. CASE Begins(c)
    <3>1. PICK op \in Ops, n \in Names, object \in Objects :
            BeginsWith(c, op, n, object)
      BY <2>6, ZenonT(30) DEF Begins
    <3>2. api' = api /\ c \in Handlers /\ call'[c].op = op /\ call'[c].name = n
      BY <2>6, <3>1, SMTT(30) DEF Begins, BeginsWith, Operation, TypeInv
    <3>3. CASE Creates(c)'
      <4>1. pc'[c] = "record" /\ ~ \E d \in Handlers : call[d].op = "create"
        BY <3>1, <3>2, <3>3, ZenonT(30) DEF BeginsWith, Creates, TypeInv
      <4>2. \A d \in Callers : ~Creates(d)
        BY <2>4, <4>1, ZenonT(30) DEF Creates
      <4> QED  BY <2>4, <2>5, <3>2, <4>1, <4>2, ZenonT(30)
    <3>4. CASE ~Creates(c)'
      BY <2>1, <2>4, <2>5, <3>2, <3>4, ZenonT(30)
    <3> QED  BY <3>3, <3>4
  <2>7. CASE Within(c)
    <3>1. UNCHANGED <<call, api>> /\ After(c, pc'[c])
      BY <2>7, WithinKeeps
    <3>2. \A d \in Callers : Creates(d)' = Creates(d)
      BY <3>1, ZenonT(30) DEF Creates
    <3>3. Creates(c) =>
            /\ pc'[c] \in {"record", "append", "cluster", "rawlist", "persist"}
            /\ pc'[c] = "persist" => \A n \in Names \ Ignored : api'[n] = Absent
      BY <2>4, <3>1, ZenonT(30) DEF After, Creates
    <3> QED  BY <2>1, <2>4, <3>1, <3>2, <3>3, ZenonT(30)
  <2>8. CASE Ends(c) \/ (Persist(c) /\ UNCHANGED api)
    <3>1. UNCHANGED api /\ ~Creates(c)'
      BY <2>1, <2>8, ZenonT(30) DEF Ends, Creates
    <3> QED  BY <2>1, <2>4, <2>5, <3>1, ZenonT(30)
  <2>9. CASE Persist(c) /\ Stores(c)
    <3>1. /\ ~Creates(c)' /\ pc[c] = "persist"
          /\ api' = [api EXCEPT ![call[c].name] = call[c].object]
          /\ (call[c].op = "create") <=> (api[call[c].name] = Absent)
      BY <2>1, <2>9, PersistStores, ZenonT(30) DEF Creates, Stores
    <3>2. CASE Creates(c)
      <4>1. \A n \in Names \ Ignored : n # call[c].name => api'[n] = Absent
        BY <2>4, <3>1, <3>2 DEF TypeInv
      <4>2. \A d \in Callers : ~Creates(d)'
        BY <2>4, <2>5, <3>1, <3>2, ZenonT(30)
      <4> QED  BY <4>1, <4>2, ZenonT(30)
    <3>3. CASE ~Creates(c)
      <4>1. \A n \in Names \ Ignored : api[n] = Absent => api'[n] = Absent
        BY <3>1, <3>3 DEF TypeInv, Creates
      <4> QED  BY <2>1, <2>4, <2>5, <3>1, <4>1, ZenonT(30)
    <3> QED  BY <3>2, <3>3, ZenonT(30)
  <2> QED  BY <1>2, <2>6, <2>7, <2>8, <2>9, PersistStores, ZenonT(30)
<1> QED  BY <1>1, <1>2, Steps

-----------------------------------------------------------------------------
(* The refinement of InformersMap. *)

\* A goroutine outside Get that goes from a place to a place.
LEMMA GoElsewhere ==
    ASSUME TypeInv, NEW c \in Callers, NEW p, p \notin Inside,
           pc[c] \notin {"lookup", "add"}, pc' = [pc EXCEPT ![c] = p],
           UNCHANGED <<informer, saw>>,
           UNCHANGED objects \/ \E n \in Names, o \in Objects : Change(n, o)
    PROVE  MapNext
<1>1. pc'[c] = p
  BY DEF TypeInv
<1>2. Elsewhere(c)
  BY <1>1, ZenonT(30) DEF Elsewhere
<1> QED  BY <1>2 DEF MapNext

\* Every step of the stack is a step of the map, or none.
LEMMA MapSteps == TypeInv /\ [Next]_vars => [MapNext]_mapVars
<1> SUFFICES ASSUME TypeInv, [Next]_vars PROVE [MapNext]_mapVars
  OBVIOUS
<1>1. CASE UNCHANGED vars
  BY <1>1 DEF vars
<1>2. CASE Starts \/ Informs \/ Breaks
  BY <1>2, ZenonT(30) DEF Starts, Informs, Breaks, MapNext
<1>3. CASE Reconcile
  BY <1>3 DEF Reconcile
<1>4. ASSUME NEW c \in Callers, Map(c) \/ MapFails(c) PROVE MapNext
  BY <1>4 DEF Map, MapFails, MapNext
<1>5. ASSUME NEW c \in Callers,
             Records(c) \/ CachedList(c) \/ CachedGet(c) \/ RawGet(c) \/ RawList(c)
             \/ MapFailed(c)
      PROVE  MapNext
  <2>1. pc[c] \notin {"lookup", "add"} /\ UNCHANGED <<informer, saw, objects>>
    BY <1>5, ZenonT(30) DEF Records, RecordReads, RecordCluster, RecordWrites,
       ResultReads, ResultWrites, CachedList, CachedGet, RawGet, RawList, MapFailed
  <2>2. PICK p \in {"idle", "append", "cluster", "reorder", "resultCluster",
                     "lookup", "rawlist", "rawget", "persist"} :
          pc' = [pc EXCEPT ![c] = p]
    <3>1. CASE Records(c)
      BY <3>1, ZenonT(30) DEF Records, RecordReads, RecordCluster, RecordWrites, ResultReads,
                  ResultWrites, Finish, Goto
    <3>2. CASE ~Records(c)
      BY <1>5, <3>2, ZenonT(30) DEF CachedList, CachedGet, RawGet, RawList, MapFailed, Singleton,
                        Answers, Finish, Goto
    <3> QED  BY <3>1, <3>2
  <2>3. p \notin Inside
    BY DEF Inside
  <2> QED  BY <2>1, <2>2, <2>3, GoElsewhere, ZenonT(30)
<1>6. ASSUME NEW c \in Callers, Persist(c) PROVE MapNext
  <2>1. /\ pc[c] \notin {"lookup", "add"} /\ UNCHANGED <<informer, saw>>
        /\ pc' = [pc EXCEPT ![c] = "idle"]
    BY <1>6, ZenonT(30) DEF Persist, Finish, Goto
  <2>2. UNCHANGED objects \/ Change(call[c].name, call[c].object)
    BY <1>6 DEF Persist
  <2>3. call[c].name \in Names /\ call[c].object \in Objects
    BY DEF TypeInv, Calls
  <2>4. "idle" \notin Inside
    BY DEF Inside
  <2> QED  BY <2>1, <2>2, <2>3, <2>4, GoElsewhere, ZenonT(30)
<1>7. ASSUME NEW c \in Handlers, Request(c) \/ Expire(c)
      PROVE  MapNext \/ UNCHANGED mapVars
  <2>1. /\ c \in Callers /\ pc[c] \notin {"lookup", "add"}
        /\ UNCHANGED <<informer, saw, objects>>
    BY <1>7, ZenonT(30) DEF Handlers, Request, Expire
  <2>2. UNCHANGED pc \/ \E p \in {"failed", "record", "result", "persist"} :
                          pc' = [pc EXCEPT ![c] = p]
    <3>1. CASE Expire(c)
      BY <3>1, ZenonT(30) DEF Expire, Goto
    <3>2. CASE Request(c)
      <4>1. ASSUME NEW op, NEW n, NEW raw, Admit(c, op, n, raw)
            PROVE  UNCHANGED pc \/ \E p \in {"record", "persist"} :
                                    pc' = [pc EXCEPT ![c] = p]
        BY <4>1 DEF Admit, Goto
      <4>2. ASSUME NEW op, NEW n, Call(c, op, n)
            PROVE  \E p \in {"record", "result"} : pc' = [pc EXCEPT ![c] = p]
        BY <4>2, ZenonT(30) DEF Call, Goto
      <4> QED  BY <3>2, <4>1, <4>2, ZenonT(30) DEF Request
    <3> QED  BY <1>7, <3>1, <3>2
  <2>3. CASE UNCHANGED pc
    BY <2>1, <2>3 DEF mapVars
  <2>4. ASSUME NEW p \in {"failed", "record", "result", "persist"},
               pc' = [pc EXCEPT ![c] = p]
        PROVE  MapNext
    <3>1. p \notin Inside
      BY DEF Inside
    <3> QED  BY <2>1, <2>4, <3>1, GoElsewhere, ZenonT(30)
  <2> QED  BY <2>2, <2>3, <2>4, ZenonT(30)
<1>8. CASE SourceStart \/ SourceReady
  <2>1. /\ pc[Source] \notin {"lookup", "add"} /\ UNCHANGED <<informer, saw, objects>>
        /\ \E p \in {"watching", "ready"} : pc' = [pc EXCEPT ![Source] = p]
    BY <1>8 DEF SourceStart, SourceReady, GetInformer, Goto
  <2>2. PICK p \in {"watching", "ready"} : pc' = [pc EXCEPT ![Source] = p]
    BY <2>1, ZenonT(30)
  <2>3. p \notin Inside
    BY DEF Inside
  <2> QED  BY <2>1, <2>2, <2>3, GoElsewhere, StackAssumption, ZenonT(30)
<1> QED
  BY <1>1, <1>2, <1>3, <1>4, <1>5, <1>6, <1>7, <1>8 DEF Next, Runs

\* The stack uses the informers' map as the specification of the map says, so
\* that what is proved of the map holds of the stack.
LEMMA UsesMap == Spec => MapSpec
<1>1. Init => MapInit /\ Outside
  BY DEF Init, Outside, Inside
<1> QED  BY <1>1, StackInit, TypeStep, MapSteps, PTL DEF Spec, MapSpec

\* And so the kind's informer is run exactly once, and is read only when it has
\* synced, in every operator that is built on it.
THEOREM StackRunsOnce == Spec => [](RunOnce /\ SyncedReads)
BY UsesMap, RunOnceHolds, SyncedReadsHolds, PTL

\* The composite client says NotFound only of an object that was absent at
\* some time of the call.
THEOREM NotFoundIsRealHolds == Spec => []NotFoundIsReal
<1>1. GetInv => NotFoundIsReal
  BY DEF GetInv
<1> QED  BY <1>1, StackInit, TypeStep, GetStep, PTL DEF Spec

\* Whatever is stored under a name that the webhooks do not ignore was
\* defaulted and validated.
THEOREM AdmittedHolds == Spec => []Admitted
<1>1. AdmitInv => Admitted
  BY DEF AdmitInv
<1> QED  BY <1>1, StackInit, TypeStep, AdmitKeeps, PTL DEF Spec

\* Singleton checks on raw listings that do not overlap admit one instance.
THEOREM AtMostOneHolds == Spec => []AtMostOne
<1>1. SingleInv => AtMostOne
  BY ZenonT(30) DEF SingleInv, AtMostOne
<1> QED  BY <1>1, StackInit, TypeStep, SingleStep, PTL DEF Spec

-----------------------------------------------------------------------------
(* The recorder. *)

\* A goroutine has a copy of a slice when it is to write it; Result writes the
\* roles.
RecordTypes ==
    /\ recorded \in [Slices -> Seq(Rules)]
    /\ copy \in [Callers -> [slice : Slices \cup {"none"}, rules : Seq(Rules)]]
    /\ raced \in BOOLEAN
    /\ \A c \in Callers :
         /\ copy[c].slice # "none" <=> pc[c] \in {"append", "reorder"}
         /\ pc[c] = "reorder" => copy[c].slice \in Roles

\* What the roles hold, or held when a goroutine read them, are permissions of
\* calls that were recorded.
RecordInv ==
    /\ \A s \in Roles : Granted(recorded[s]) \subseteq made
    /\ \A c \in Callers :
         copy[c].slice \in Roles => Granted(copy[c].rules) \subseteq made

Mine(c) == Granted(<<CallRule(c)>>)

\* c has stored the error of its rule.
Faulted(c) ==
    pc[c] = "cluster" \/ (pc[c] = "append" /\ copy[c].slice = "ClusterRole")

\* As long as no two goroutines were at one slice a copy is its slice, nothing
\* recorded is missing, and the errors tell of what is on the cluster's role or
\* on its way there.
KeptInv ==
    ~raced =>
        /\ \A c \in Callers :
             copy[c].slice # "none" => copy[c].rules = recorded[copy[c].slice]
        /\ \A c, d \in Callers :
             copy[c].slice # "none" /\ copy[c].slice = copy[d].slice => c = d
        /\ made \subseteq Granted(recorded["Role"]) \cup Granted(recorded["ClusterRole"])
        /\ Granted(recorded["ClusterRole"]) \subseteq Granted(recorded["errors"])
        /\ \A c \in Callers : Faulted(c) => Mine(c) \subseteq Granted(recorded["errors"])

\* A step that is not the recorder's.
Calm ==
    /\ UNCHANGED recorder
    /\ \A d \in Callers :
         pc[d] \in {"append", "reorder", "cluster"}
         \/ pc'[d] \in {"append", "reorder", "cluster"}
           => pc'[d] = pc[d] /\ call'[d] = call[d]

\* c reads the slice s and goes to p.
Reads(c, s, p) ==
    /\ ReadSlice(c, s)
    /\ pc[c] \notin {"append", "reorder"} /\ pc' = [pc EXCEPT ![c] = p]
    /\ p = "append" \/ (p = "reorder" /\ s \in Roles)
    /\ p = "append" /\ s = "ClusterRole" => pc[c] = "cluster"
    /\ UNCHANGED call

\* A step of c that stays clear of the recorder's places is calm.
LEMMA CalmStep ==
    ASSUME TypeInv, NEW c \in Callers, NEW p, NEW o,
           pc[c] \notin {"append", "reorder", "cluster"},
           p \notin {"append", "reorder", "cluster"},
           UNCHANGED pc \/ pc' = [pc EXCEPT ![c] = p],
           UNCHANGED call \/ call' = [call EXCEPT ![c] = o],
           UNCHANGED recorder
    PROVE  Calm
<1>1. \A d \in Callers : d # c => pc'[d] = pc[d] /\ call'[d] = call[d]
  BY DEF TypeInv
<1>2. pc'[c] \notin {"append", "reorder", "cluster"}
  BY DEF TypeInv
<1> QED  BY <1>1, <1>2, ZenonT(30) DEF Calm

\* Every step is calm, reads a slice or writes one.
LEMMA RecorderSteps ==
    ASSUME TypeInv, [Next]_vars
    PROVE  \/ Calm
           \/ \E c \in Callers, s \in Slices, p \in Places : Reads(c, s, p)
           \/ \E c \in Callers : RecordWrites(c) \/ ResultWrites(c)
<1>1. CASE UNCHANGED vars
  BY <1>1, ZenonT(30) DEF vars, mapVars, Calm
<1>2. CASE Starts \/ Informs \/ Breaks \/ Reconcile
  <2>1. UNCHANGED <<pc, call, recorder>>
    BY <1>2, ZenonT(30) DEF Starts, Informs, Breaks, Reconcile, Start, ListFunc,
                WatchFunc, Deliver, WatchEnds, mapVars
  <2> QED  BY <2>1, ZenonT(30) DEF Calm
<1>3. ASSUME NEW c \in Callers, Map(c) \/ MapFails(c) \/ Expire(c) PROVE Calm
  <2>1. PICK p \in {"add", "wait", "got", "failed"} : pc' = [pc EXCEPT ![c] = p]
    BY <1>3 DEF Map, MapFails, Expire, Goto, Lookup, addInformerToMap,
                addInformerFails, WaitForCacheSync, Proceed
  <2>2. pc[c] \notin {"append", "reorder", "cluster"} /\ UNCHANGED <<call, recorder>>
    BY <1>3, ZenonT(30) DEF Map, MapFails, Expire, Lookup, addInformerToMap,
                addInformerFails, WaitForCacheSync
  <2> QED  BY <2>1, <2>2, CalmStep, ZenonT(30)
<1>4. ASSUME NEW c \in Callers,
             CachedList(c) \/ CachedGet(c) \/ RawGet(c) \/ RawList(c) \/ MapFailed(c)
             \/ Persist(c)
      PROVE  Calm
  <2>1. pc[c] \notin {"append", "reorder", "cluster"} /\ UNCHANGED recorder
    BY <1>4, ZenonT(30) DEF CachedList, CachedGet, RawGet, RawList, MapFailed, Persist
  <2>2. UNCHANGED call \/ call' = [call EXCEPT ![c] = Idle]
    BY <1>4, ZenonT(30) DEF CachedList, CachedGet, RawGet, RawList, MapFailed, Persist,
                Singleton, Answers, Finish
  <2>3. PICK p \in {"idle", "rawget", "persist"} : pc' = [pc EXCEPT ![c] = p]
    BY <1>4, ZenonT(30) DEF CachedList, CachedGet, RawGet, RawList, MapFailed, Persist,
                Singleton, Answers, Finish, Goto
  <2> QED  BY <2>1, <2>2, <2>3, CalmStep, ZenonT(30)
<1>5. ASSUME NEW c \in Callers, Request(c) PROVE Calm
  <2>1. UNCHANGED recorder /\ pc[c] = "idle"
    BY <1>5 DEF Request
  <2>2. PICK p \in {"record", "result", "persist"} :
          UNCHANGED pc \/ pc' = [pc EXCEPT ![c] = p]
    <3>1. ASSUME NEW op, NEW n, NEW raw, Admit(c, op, n, raw)
          PROVE  \E p \in {"record", "result", "persist"} :
                   UNCHANGED pc \/ pc' = [pc EXCEPT ![c] = p]
      BY <3>1 DEF Admit, Goto
    <3>2. ASSUME NEW op, NEW n, Call(c, op, n)
          PROVE  \E p \in {"record", "result", "persist"} : pc' = [pc EXCEPT ![c] = p]
      BY <3>2, ZenonT(30) DEF Call, Goto
    <3> QED  BY <1>5, <3>1, <3>2, ZenonT(30) DEF Request
  <2>3. PICK o : UNCHANGED call \/ call' = [call EXCEPT ![c] = o]
    <3>1. ASSUME NEW op, NEW n, NEW raw, Admit(c, op, n, raw)
          PROVE  \E o : UNCHANGED call \/ call' = [call EXCEPT ![c] = o]
      BY <3>1 DEF Admit
    <3>2. ASSUME NEW op, NEW n, Call(c, op, n)
          PROVE  \E o : call' = [call EXCEPT ![c] = o]
      BY <3>2, ZenonT(30) DEF Call
    <3> QED  BY <1>5, <3>1, <3>2, ZenonT(30) DEF Request
  <2> QED  BY <2>1, <2>2, <2>3, CalmStep
<1>6. CASE SourceStart \/ SourceReady
  <2>1. /\ pc[Source] \notin {"append", "reorder", "cluster"}
        /\ UNCHANGED <<call, recorder>>
        /\ \E p \in {"watching", "ready"} : pc' = [pc EXCEPT ![Source] = p]
    BY <1>6 DEF SourceStart, SourceReady, GetInformer, Goto
  <2>2. PICK p \in {"watching", "ready"} : pc' = [pc EXCEPT ![Source] = p]
    BY <2>1, ZenonT(30)
  <2> QED  BY <2>1, <2>2, StackAssumption, CalmStep, ZenonT(30)
<1>7. ASSUME NEW c \in Callers, RecordReads(c) \/ RecordCluster(c) \/ ResultReads(c)
      PROVE  \E s \in Slices, p \in Places : Reads(c, s, p)
  <2>1. PICK s \in Slices, p \in {"append", "reorder"} : Reads(c, s, p)
    BY <1>7 DEF RecordReads, RecordCluster, ResultReads, Goto, Reads, Slices, Roles
  <2> QED  BY <2>1 DEF Places
<1>8. \A c \in Handlers : c \in Callers
  BY DEF Handlers
<1> QED
  BY <1>1, <1>2, <1>3, <1>4, <1>5, <1>6, <1>7, <1>8, ZenonT(30) DEF Next, Runs, Records

\* What a call records is a rule.
LEMMA CallRuleType ==
    ASSUME NEW c, call[c].op \in {"create", "get", "status", "patch"}
    PROVE  CallRule(c) \in Rules
<1>1. CASE call[c].op = "create"
  BY <1>1 DEF CallRule, rule, Rules, UnsafeGuessKindToResource
<1>2. CASE call[c].op = "get"
  BY <1>2 DEF CallRule, rule, Rules, UnsafeGuessKindToResource
<1>3. CASE call[c].op = "status"
  BY <1>3 DEF CallRule, rule, Rules, UnsafeGuessKindToResource
<1>4. CASE call[c].op = "patch"
  BY <1>4 DEF CallRule, rule, Rules, UnsafeGuessKindToResource
<1> QED  BY <1>1, <1>2, <1>3, <1>4

\* It depends on the call alone.
LEMMA MineStays == ASSUME NEW c, call'[c] = call[c] PROVE Mine(c)' = Mine(c)
BY DEF Mine, CallRule

\* What an append adds to the slice it was made from.
LEMMA AppendGrants ==
    ASSUME NEW s \in Seq(Rules), NEW r \in Rules
    PROVE  /\ Append(s, r) \in Seq(Rules)
           /\ Granted(Append(s, r)) = Granted(s) \cup Granted(<<r>>)
<1> DEFINE t == Append(s, r)
           Of(x) == {<<x.resource, x.verbs[j]>> : j \in DOMAIN x.verbs}
<1>1. /\ DOMAIN t = 1..(Len(s) + 1) /\ DOMAIN s = 1..Len(s) /\ Len(s) \in Nat
      /\ t[Len(s) + 1] = r
      /\ \A k \in 1..Len(s) : t[k] = s[k]
  OBVIOUS
<1>2. /\ Granted(t) = UNION {Of(t[i]) : i \in DOMAIN t}
      /\ Granted(s) = UNION {Of(s[i]) : i \in DOMAIN s}
      /\ Granted(<<r>>) = Of(r)
  BY DEF Granted
<1>3. t \in Seq(Rules)
  OBVIOUS
<1> HIDE DEF Of, t
<1>4. Granted(t) = Granted(s) \cup Granted(<<r>>)
  BY <1>1, <1>2
<1> QED  BY <1>3, <1>4 DEF t

\* What Result leaves of a role's rules.
LEMMA ResultKeeps ==
    ASSUME NEW s \in Seq(Rules)
    PROVE  /\ reorderRules(s) \in Seq(Rules) /\ WellOrdered(reorderRules(s))
           /\ Granted(reorderRules(s)) = Granted(s)
<1> DEFINE Res == {"games", "games/status", "gamelists"}
           V == {"list", "get", "update", "patch"}
<1>1. Rule(Res, V) = Rules
  BY DEF Rule, Rules
<1> HIDE DEF Res, V
<1> QED  BY <1>1, ReorderKeeps, ZenonT(30)

\* c writes rs to the slice it has read, and goes to p: nothing it read is
\* lost, what is new was recorded, and the cluster's role gets c's own rule.
Writes(c, rs, p) ==
    /\ WriteSlice(c, rs) /\ rs \in Seq(Rules)
    /\ pc[c] \in {"append", "reorder"} /\ p \notin {"append", "reorder"}
    /\ pc' = [pc EXCEPT ![c] = p]
    /\ \A d \in Callers : d # c => call'[d] = call[d]
    /\ Granted(copy[c].rules) \subseteq Granted(rs)
    /\ made \subseteq made'
    /\ copy[c].slice = "errors" => made' = made
    /\ copy[c].slice \in Roles =>
         /\ made' \subseteq made \cup Granted(rs)
         /\ Granted(rs) \subseteq Granted(copy[c].rules) \cup made'
    /\ copy[c].slice = "ClusterRole" =>
         \/ Granted(rs) = Granted(copy[c].rules)
         \/ Faulted(c) /\ Granted(rs) = Granted(copy[c].rules) \cup Mine(c)
    /\ p = "cluster" => /\ copy[c].slice = "errors" /\ call'[c] = call[c]
                        /\ Mine(c) \subseteq Granted(rs)

\* The recorder and Result write so.
LEMMA WriterSteps ==
    ASSUME TypeInv, RecordTypes, NEW c \in Callers, RecordWrites(c) \/ ResultWrites(c)
    PROVE  \E rs, p : Writes(c, rs, p)
<1>0. copy[c].rules \in Seq(Rules) /\ copy[c].slice \in Slices \cup {"none"}
  BY DEF RecordTypes
<1>1. CASE RecordWrites(c)
  <2> DEFINE r == CallRule(c)
             rs == Append(copy[c].rules, r)
  <2>1. pc[c] = "append" /\ WriteSlice(c, rs)
    BY <1>1 DEF RecordWrites
  <2>2. r \in Rules
    BY <2>1, CallRuleType DEF TypeInv
  <2>3. rs \in Seq(Rules) /\ Granted(rs) = Granted(copy[c].rules) \cup Mine(c)
    BY <1>0, <2>2, AppendGrants DEF Mine
  <2>4. /\ copy[c].slice = "errors" => made' = made
        /\ copy[c].slice # "errors" => made' = made \cup Mine(c)
    BY <1>1 DEF RecordWrites, Mine
  <2>5. UNCHANGED call \/ call' = [call EXCEPT ![c] = Idle]
    BY <1>1 DEF RecordWrites, Finish
  <2>6. PICK p \in {"cluster", "idle", "rawlist", "lookup"} :
          /\ pc' = [pc EXCEPT ![c] = p]
          /\ p = "cluster" => copy[c].slice = "errors" /\ UNCHANGED call
    BY <1>1 DEF RecordWrites, Finish, Goto
  <2>7. \A d \in Callers : d # c => call'[d] = call[d]
    BY <2>5 DEF TypeInv
  <2>8. copy[c].slice \in Roles => copy[c].slice # "errors"
    BY DEF Roles
  <2> HIDE DEF rs
  <2>9. copy[c].slice = "ClusterRole" => Faulted(c)
    BY <2>1 DEF Faulted
  <2>10. Writes(c, rs, p)
    <3>1. /\ WriteSlice(c, rs) /\ rs \in Seq(Rules) /\ pc[c] \in {"append", "reorder"}
          /\ p \notin {"append", "reorder"} /\ pc' = [pc EXCEPT ![c] = p]
      BY <2>1, <2>3, <2>6, ZenonT(30)
    <3>2. made \subseteq made' /\ Granted(copy[c].rules) \subseteq Granted(rs)
      BY <2>3, <2>4, ZenonT(30)
    <3>3. copy[c].slice \in Roles =>
            /\ made' \subseteq made \cup Granted(rs)
            /\ Granted(rs) \subseteq Granted(copy[c].rules) \cup made'
      BY <2>3, <2>4, <2>8, ZenonT(30)
    <3>4. p = "cluster" => /\ copy[c].slice = "errors" /\ call'[c] = call[c]
                           /\ Mine(c) \subseteq Granted(rs)
      BY <2>3, <2>6
    <3> QED  BY <2>3, <2>4, <2>7, <2>9, <3>1, <3>2, <3>3, <3>4, ZenonT(30) DEF Writes
  <2> QED  BY <2>10, ZenonT(30)
<1>2. CASE ResultWrites(c)
  <2> DEFINE rs == reorderRules(copy[c].rules)
  <2>1. pc[c] = "reorder" /\ WriteSlice(c, rs) /\ made' = made
    BY <1>2, ZenonT(30) DEF ResultWrites
  <2>2. rs \in Seq(Rules) /\ Granted(rs) = Granted(copy[c].rules)
    BY <1>0, ResultKeeps, ZenonT(30)
  <2>3. UNCHANGED call \/ call' = [call EXCEPT ![c] = Idle]
    BY <1>2, ZenonT(30) DEF ResultWrites, Finish
  <2>4. PICK p \in {"idle", "resultCluster"} : pc' = [pc EXCEPT ![c] = p]
    BY <1>2 DEF ResultWrites, Finish, Goto
  <2>5. \A d \in Callers : d # c => call'[d] = call[d]
    BY <2>3, ZenonT(30) DEF TypeInv
  <2>6. p \notin {"append", "reorder", "cluster"} /\ pc[c] \in {"append", "reorder"}
    BY <2>1
  <2> HIDE DEF rs
  <2>7. Writes(c, rs, p)
    BY <2>1, <2>2, <2>4, <2>5, <2>6, ZenonT(30) DEF Writes
  <2> QED  BY <2>7, ZenonT(30)
<1> QED  BY <1>1, <1>2

\* What a write makes of the slices and the copies.
LEMMA Written ==
    ASSUME TypeInv, RecordTypes, NEW c \in Callers, NEW rs, NEW p, Writes(c, rs, p)
    PROVE  /\ copy[c].slice \in Slices
           /\ recorded' = [recorded EXCEPT ![copy[c].slice] = rs]
           /\ copy'[c] = NoCopy /\ raced' = raced
           /\ \A d \in Callers : d # c => copy'[d] = copy[d] /\ pc'[d] = pc[d]
           /\ pc'[c] = p
<1>1. copy[c].slice \in Slices
  BY ZenonT(30) DEF Writes, RecordTypes
<1>2. copy' = [copy EXCEPT ![c] = NoCopy] /\ raced' = raced
      /\ recorded' = [recorded EXCEPT ![copy[c].slice] = rs]
  BY ZenonT(30) DEF Writes, WriteSlice
<1>3. pc' = [pc EXCEPT ![c] = p]
  BY DEF Writes
<1> QED  BY <1>1, <1>2, <1>3, ZenonT(30) DEF RecordTypes, TypeInv

\* Every step keeps the recorder's types.
LEMMA RecordTypesStep == TypeInv /\ RecordTypes /\ [Next]_vars => RecordTypes'
<1> SUFFICES ASSUME TypeInv, RecordTypes, [Next]_vars PROVE RecordTypes'
  OBVIOUS
<1>1. CASE Calm
  <2>1. UNCHANGED <<recorded, copy, raced>>
    BY <1>1 DEF Calm, recorder
  <2>2. \A d \in Callers :
          /\ pc'[d] \in {"append", "reorder"} <=> pc[d] \in {"append", "reorder"}
          /\ pc'[d] = "reorder" => pc[d] = "reorder"
    BY <1>1, ZenonT(30) DEF Calm
  <2> QED  BY <2>1, <2>2 DEF RecordTypes
<1>2. ASSUME NEW c \in Callers, NEW s \in Slices, NEW p \in Places, Reads(c, s, p)
      PROVE  RecordTypes'
  <2>1. /\ copy' = [copy EXCEPT ![c] = [slice |-> s, rules |-> recorded[s]]]
        /\ UNCHANGED recorded /\ raced' \in BOOLEAN
    BY <1>2 DEF Reads, ReadSlice, RecordTypes
  <2>2. /\ pc' = [pc EXCEPT ![c] = p] /\ p \in {"append", "reorder"}
        /\ p = "reorder" => s \in Roles
    BY <1>2, ZenonT(30) DEF Reads
  <2>3. [slice |-> s, rules |-> recorded[s]]
          \in [slice : Slices \cup {"none"}, rules : Seq(Rules)]
    BY ZenonT(30) DEF RecordTypes
  <2>4. copy' \in [Callers -> [slice : Slices \cup {"none"}, rules : Seq(Rules)]]
    BY <2>1, <2>3 DEF RecordTypes
  <2>5. s # "none"
    BY ZenonT(30) DEF Slices, Roles
  <2>6. \A d \in Callers :
          /\ copy'[d].slice # "none" <=> pc'[d] \in {"append", "reorder"}
          /\ pc'[d] = "reorder" => copy'[d].slice \in Roles
    BY <2>1, <2>2, <2>5, ZenonT(30) DEF RecordTypes, TypeInv
  <2> QED  BY <2>1, <2>4, <2>6, ZenonT(30) DEF RecordTypes
<1>3. ASSUME NEW c \in Callers, NEW rs, NEW p, Writes(c, rs, p) PROVE RecordTypes'
  <2>1. /\ recorded' = [recorded EXCEPT ![copy[c].slice] = rs] /\ raced' = raced
        /\ copy'[c] = NoCopy /\ pc'[c] = p
        /\ \A d \in Callers : d # c => copy'[d] = copy[d] /\ pc'[d] = pc[d]
    BY <1>3, Written, ZenonT(30)
  <2>2. rs \in Seq(Rules) /\ p \notin {"append", "reorder"}
        /\ copy' = [copy EXCEPT ![c] = NoCopy]
    BY <1>3 DEF Writes, WriteSlice
  <2>3. NoCopy \in [slice : Slices \cup {"none"}, rules : Seq(Rules)]
    BY DEF NoCopy
  <2>4. copy' \in [Callers -> [slice : Slices \cup {"none"}, rules : Seq(Rules)]]
    BY <2>2, <2>3 DEF RecordTypes
  <2>5. recorded' \in [Slices -> Seq(Rules)] /\ raced' \in BOOLEAN
    BY <2>1, <2>2, ZenonT(30) DEF RecordTypes
  <2>6. NoCopy.slice = "none"
    BY DEF NoCopy
  <2>7. \A d \in Callers :
          /\ copy'[d].slice # "none" <=> pc'[d] \in {"append", "reorder"}
          /\ pc'[d] = "reorder" => copy'[d].slice \in Roles
    BY <2>1, <2>2, <2>6, ZenonT(30) DEF RecordTypes
  <2> QED  BY <2>4, <2>5, <2>7, ZenonT(30) DEF RecordTypes
<1> QED  BY <1>1, <1>2, <1>3, RecorderSteps, WriterSteps, ZenonT(30)

\* No step invents a permission.
LEMMA RecordStep ==
    TypeInv /\ RecordTypes /\ RecordInv /\ [Next]_vars => RecordInv'
<1> SUFFICES ASSUME TypeInv, RecordTypes, RecordInv, [Next]_vars PROVE RecordInv'
  OBVIOUS
<1>1. CASE Calm
  BY <1>1 DEF Calm, recorder, RecordInv
<1>2. ASSUME NEW c \in Callers, NEW s \in Slices, NEW p \in Places, Reads(c, s, p)
      PROVE  RecordInv'
  <2>1. /\ copy' = [copy EXCEPT ![c] = [slice |-> s, rules |-> recorded[s]]]
        /\ UNCHANGED <<recorded, made>>
    BY <1>2 DEF Reads, ReadSlice
  <2>2. \A d \in Callers : copy'[d].slice \in Roles => Granted(copy'[d].rules) \subseteq made
    BY <2>1, ZenonT(30) DEF RecordTypes, RecordInv
  <2> QED  BY <2>1, <2>2 DEF RecordInv
<1>3. ASSUME NEW c \in Callers, NEW rs, NEW p, Writes(c, rs, p) PROVE RecordInv'
  <2>1. /\ recorded' = [recorded EXCEPT ![copy[c].slice] = rs]
        /\ copy'[c] = NoCopy /\ \A d \in Callers : d # c => copy'[d] = copy[d]
    BY <1>3, Written, ZenonT(30)
  <2>2. /\ made \subseteq made'
        /\ copy[c].slice \in Roles => Granted(rs) \subseteq Granted(copy[c].rules) \cup made'
    BY <1>3 DEF Writes
  <2>3. NoCopy.slice \notin Roles
    BY ZenonT(30) DEF NoCopy, Roles
  <2>4. \A d \in Callers : copy'[d].slice \in Roles => Granted(copy'[d].rules) \subseteq made'
    BY <2>1, <2>2, <2>3 DEF RecordInv
  <2>5. ASSUME NEW s \in Roles PROVE Granted(recorded'[s]) \subseteq made'
    <3>1. s \in Slices
      BY DEF Slices
    <3>2. CASE s = copy[c].slice
      <4>1. recorded'[s] = rs
        BY <2>1, <3>1, <3>2 DEF RecordTypes
      <4>2. Granted(copy[c].rules) \subseteq made
        BY <3>2, ZenonT(30) DEF RecordInv
      <4> QED  BY <2>2, <3>2, <4>1, <4>2, ZenonT(30)
    <3>3. CASE s # copy[c].slice
      <4>1. recorded'[s] = recorded[s]
        BY <2>1, <3>1, <3>3 DEF RecordTypes
      <4> QED  BY <2>2, <4>1, ZenonT(30) DEF RecordInv
    <3> QED  BY <3>2, <3>3
  <2> QED  BY <2>4, <2>5, ZenonT(30) DEF RecordInv
<1> QED  BY <1>1, <1>2, <1>3, RecorderSteps, WriterSteps, ZenonT(30)

\* Without a race a copy is its slice, and the only one.
LEMMA OneCopy ==
    ASSUME KeptInv, ~raced
    PROVE  /\ \A c \in Callers :
                copy[c].slice # "none" => copy[c].rules = recorded[copy[c].slice]
           /\ \A c, d \in Callers :
                copy[c].slice # "none" /\ copy[c].slice = copy[d].slice => c = d
BY ZenonT(30) DEF KeptInv

\* A step that is not the recorder's keeps what the slices hold and whose error
\* was stored.
LEMMA CalmKeeps == ASSUME KeptInv, Calm PROVE KeptInv'
<1> SUFFICES ASSUME ~raced' PROVE KeptInv'
  BY ZenonT(30) DEF KeptInv
<1>1. UNCHANGED <<recorded, copy, raced, made>>
  BY ZenonT(30) DEF Calm, recorder
<1>2. ASSUME NEW c \in Callers, Faulted(c)'
      PROVE  Mine(c)' \subseteq Granted(recorded'["errors"])
  <2>1. pc'[c] = pc[c] /\ call'[c] = call[c]
    BY <1>2 DEF Faulted, Calm
  <2>2. Faulted(c)
    BY <1>1, <1>2, <2>1 DEF Faulted
  <2> QED  BY <1>1, <2>1, <2>2, MineStays, ZenonT(30) DEF KeptInv
<1> QED  BY <1>1, <1>2, ZenonT(30) DEF KeptInv

\* A slice that is read while no other goroutine has it has one copy.
LEMMA ReadKeeps ==
    ASSUME TypeInv, RecordTypes, KeptInv,
           NEW c \in Callers, NEW s \in Slices, NEW p, Reads(c, s, p)
    PROVE  KeptInv'
<1> SUFFICES ASSUME ~raced' PROVE KeptInv'
  BY ZenonT(30) DEF KeptInv
<1>1. /\ copy' = [copy EXCEPT ![c] = [slice |-> s, rules |-> recorded[s]]]
      /\ UNCHANGED <<recorded, made>>
      /\ ~raced /\ \A d \in Callers : copy[d].slice # s
  BY ZenonT(30) DEF Reads, ReadSlice, RecordTypes
<1>2. /\ copy'[c].slice = s /\ copy'[c].rules = recorded[s]
      /\ \A d \in Callers : d # c => copy'[d] = copy[d]
  BY <1>1 DEF RecordTypes
<1>3. /\ \A d \in Callers : d # c => pc'[d] = pc[d]
      /\ pc'[c] \in {"append", "reorder"} /\ UNCHANGED call
      /\ pc'[c] = "append" /\ s = "ClusterRole" => pc[c] = "cluster"
  BY ZenonT(30) DEF Reads, TypeInv
<1>4. \A d \in Callers :
        copy'[d].slice # "none" => copy'[d].rules = recorded'[copy'[d].slice]
  BY <1>1, <1>2 DEF KeptInv
<1>5. \A d, e \in Callers :
        copy'[d].slice # "none" /\ copy'[d].slice = copy'[e].slice => d = e
  <2>1. \A d, e \in Callers :
          copy[d].slice # "none" /\ copy[d].slice = copy[e].slice => d = e
    BY <1>1, OneCopy, ZenonT(30)
  <2>2. \A d \in Callers : d # c => copy'[d].slice = copy[d].slice /\ copy[d].slice # s
    BY <1>1, <1>2, ZenonT(30)
  <2>3. ASSUME NEW d \in Callers, NEW e \in Callers,
               copy'[d].slice # "none", copy'[d].slice = copy'[e].slice
        PROVE  d = e
    <3>1. CASE d = c
      BY <1>2, <2>2, <2>3, <3>1, ZenonT(30)
    <3>2. CASE e = c
      BY <1>2, <2>2, <2>3, <3>2, ZenonT(30)
    <3>3. CASE d # c /\ e # c
      BY <2>1, <2>2, <2>3, <3>3, ZenonT(30)
    <3> QED  BY <3>1, <3>2, <3>3
  <2> QED  BY <2>3
<1>6. ASSUME NEW d \in Callers, Faulted(d)'
      PROVE  Mine(d)' \subseteq Granted(recorded'["errors"])
  <2>1. Faulted(d)
    <3>1. CASE d = c
      BY <1>2, <1>3, <1>6, <3>1, ZenonT(30) DEF Faulted
    <3>2. CASE d # c
      BY <1>2, <1>3, <1>6, <3>2, ZenonT(30) DEF Faulted
    <3> QED  BY <3>1, <3>2
  <2> QED  BY <1>1, <1>3, <2>1, MineStays, ZenonT(30) DEF KeptInv
<1>7. /\ made' \subseteq Granted(recorded'["Role"]) \cup Granted(recorded'["ClusterRole"])
      /\ Granted(recorded'["ClusterRole"]) \subseteq Granted(recorded'["errors"])
  BY <1>1 DEF KeptInv
<1> QED  BY <1>4, <1>5, <1>6, <1>7, ZenonT(30) DEF KeptInv

\* A slice that is written from its one copy loses nothing.
LEMMA WriteKeeps ==
    ASSUME TypeInv, RecordTypes, KeptInv, NEW c \in Callers, NEW rs, NEW p,
           Writes(c, rs, p)
    PROVE  KeptInv'
<1> SUFFICES ASSUME ~raced' PROVE KeptInv'
  BY ZenonT(30) DEF KeptInv
<1> DEFINE s == copy[c].slice
           R == Granted(recorded["Role"])
           C == Granted(recorded["ClusterRole"])
           E == Granted(recorded["errors"])
           M == Mine(c)
<1>1. /\ s \in Slices /\ recorded' = [recorded EXCEPT ![s] = rs] /\ ~raced
      /\ copy'[c] = NoCopy /\ pc'[c] = p
      /\ \A d \in Callers : d # c => copy'[d] = copy[d] /\ pc'[d] = pc[d]
  BY Written, ZenonT(30)
<1>2. s # "none" /\ NoCopy.slice = "none"
  BY <1>1, ZenonT(30) DEF Slices, Roles, NoCopy
<1>3. /\ recorded'[s] = rs
      /\ \A x \in Slices : x # s => recorded'[x] = recorded[x]
  BY <1>1, ZenonT(30) DEF RecordTypes
<1>4. copy[c].rules = recorded[s] /\ \A d \in Callers : copy[d].slice = s => d = c
  BY <1>1, <1>2, ZenonT(30) DEF KeptInv
<1>5. made \subseteq R \cup C /\ C \subseteq E /\ (Faulted(c) => M \subseteq E)
  BY <1>1, ZenonT(30) DEF KeptInv
<1>6. /\ Granted(recorded[s]) \subseteq Granted(rs)
      /\ s = "errors" => made' = made
      /\ s \in Roles => made' \subseteq made \cup Granted(rs)
      /\ s = "ClusterRole" =>
           \/ Granted(rs) = Granted(recorded[s])
           \/ Faulted(c) /\ Granted(rs) = Granted(recorded[s]) \cup M
      /\ p = "cluster" => s = "errors" /\ call'[c] = call[c] /\ M \subseteq Granted(rs)
      /\ p \notin {"append", "reorder"}
      /\ \A d \in Callers : d # c => call'[d] = call[d]
  BY <1>4, ZenonT(30) DEF Writes
<1>7. s \in {"Role", "ClusterRole", "errors"}
      /\ (s \in Roles <=> s \in {"Role", "ClusterRole"})
      /\ {"Role", "ClusterRole", "errors"} \subseteq Slices
  BY <1>1, ZenonT(30) DEF Slices, Roles
<1> HIDE DEF s, M
<1>8. /\ R \subseteq Granted(recorded'["Role"])
      /\ C \subseteq Granted(recorded'["ClusterRole"])
      /\ E \subseteq Granted(recorded'["errors"])
  BY <1>3, <1>6, <1>7, ZenonT(30)
<1>9. made' \subseteq Granted(recorded'["Role"]) \cup Granted(recorded'["ClusterRole"])
  BY <1>3, <1>5, <1>6, <1>7, <1>8, ZenonT(30)
<1>10. Granted(recorded'["ClusterRole"]) \subseteq Granted(recorded'["errors"])
  <2>1. Granted(recorded'["ClusterRole"]) \subseteq E
    BY <1>3, <1>5, <1>6, <1>7, ZenonT(30)
  <2> QED  BY <1>8, <2>1, ZenonT(30)
<1>11. ASSUME NEW d \in Callers, Faulted(d)'
       PROVE  Mine(d)' \subseteq Granted(recorded'["errors"])
  <2>1. CASE d = c
    <3>1. p = "cluster"
      BY <1>1, <1>6, <1>11, <2>1, ZenonT(30) DEF Faulted
    <3>2. Mine(d)' = Mine(d)
      BY <1>6, <2>1, <3>1, MineStays, ZenonT(30)
    <3> QED  BY <1>3, <1>6, <2>1, <3>1, <3>2, ZenonT(30) DEF M
  <2>2. CASE d # c
    <3>1. Faulted(d)
      BY <1>1, <1>11, <2>2, ZenonT(30) DEF Faulted
    <3>2. Mine(d)' = Mine(d)
      BY <1>6, <2>2, MineStays, ZenonT(30)
    <3> QED  BY <1>1, <1>8, <3>1, <3>2, ZenonT(30) DEF KeptInv
  <2> QED  BY <2>1, <2>2, ZenonT(30)
<1>12. \A d \in Callers :
         copy'[d].slice # "none" => copy'[d].rules = recorded'[copy'[d].slice]
  <2> SUFFICES ASSUME NEW d \in Callers, copy'[d].slice # "none"
               PROVE  copy'[d].rules = recorded'[copy'[d].slice]
    BY ZenonT(30)
  <2>1. d # c /\ copy'[d] = copy[d]
    BY <1>1, <1>2, ZenonT(30)
  <2>2. copy[d].slice # s /\ copy[d].slice \in Slices
    BY <1>4, <2>1, ZenonT(30) DEF RecordTypes
  <2>3. copy[d].rules = recorded[copy[d].slice]
    BY <1>1, <2>1, OneCopy, ZenonT(30)
  <2> QED  BY <1>3, <2>1, <2>2, <2>3, ZenonT(30)
<1>13. \A d, e \in Callers :
         copy'[d].slice # "none" /\ copy'[d].slice = copy'[e].slice => d = e
  <2> SUFFICES ASSUME NEW d \in Callers, NEW e \in Callers, copy'[d].slice # "none",
                      copy'[d].slice = copy'[e].slice
               PROVE  d = e
    BY ZenonT(30)
  <2>1. copy'[d] = copy[d] /\ copy'[e] = copy[e]
    BY <1>1, <1>2
  <2>2. copy[d].slice # "none" /\ copy[d].slice = copy[e].slice
    BY <2>1, ZenonT(30)
  <2>3. \A f, g \in Callers :
          copy[f].slice # "none" /\ copy[f].slice = copy[g].slice => f = g
    BY <1>1, OneCopy, ZenonT(30)
  <2> QED  BY <2>2, <2>3, ZenonT(30)
<1> QED  BY <1>9, <1>10, <1>11, <1>12, <1>13, ZenonT(30) DEF KeptInv

\* Unless goroutines race, no step loses a permission.
LEMMA KeptStep ==
    TypeInv /\ RecordTypes /\ KeptInv /\ [Next]_vars => KeptInv'
BY RecorderSteps, WriterSteps, CalmKeeps, ReadKeeps, WriteKeeps, ZenonT(30)

\* Nothing is recorded at the start.
LEMMA RecordStarts == Init => RecordTypes /\ RecordInv /\ KeptInv
<1> SUFFICES ASSUME Init PROVE RecordTypes /\ RecordInv /\ KeptInv
  OBVIOUS
<1>1. /\ recorded = [s \in Slices |-> <<>>] /\ copy = [c \in Callers |-> NoCopy]
      /\ raced = FALSE /\ made = {}
  BY DEF Init, RecorderInit
<1>2. \A c \in Callers : pc[c] \in {"idle", "lookup"}
  BY ZenonT(30) DEF Init
<1>3. NoCopy.slice = "none" /\ NoCopy.rules = <<>> /\ Granted(<<>>) = {}
  BY DEF NoCopy, Granted
<1>4. /\ \A s \in Slices : recorded[s] = <<>>
      /\ \A c \in Callers : copy[c].slice = "none"
      /\ {"Role", "ClusterRole", "errors"} \subseteq Slices /\ Roles \subseteq Slices
      /\ "none" \notin Roles
  BY <1>1, <1>3, ZenonT(30) DEF Slices, Roles
<1>5. RecordTypes
  <2>1. copy \in [Callers -> [slice : Slices \cup {"none"}, rules : Seq(Rules)]]
    BY <1>1 DEF NoCopy
  <2>2. recorded \in [Slices -> Seq(Rules)]
    BY <1>1
  <2> QED  BY <1>1, <1>2, <1>4, <2>1, <2>2, ZenonT(30) DEF RecordTypes
<1>6. RecordInv
  BY <1>1, <1>3, <1>4 DEF RecordInv
<1>7. KeptInv
  BY <1>1, <1>2, <1>3, <1>4 DEF KeptInv, Faulted
<1> QED  BY <1>5, <1>6, <1>7

\* The roles grant what was recorded and no more, until goroutines race; Result
\* keeps that and leaves one rule for a resource.
THEOREM RulesCompleteHolds == Spec => []RulesComplete
<1>1. RecordTypes /\ RecordInv /\ KeptInv => RulesComplete
  <2> SUFFICES ASSUME RecordTypes, RecordInv, KeptInv PROVE RulesComplete
    OBVIOUS
  <2>1. \A s \in Roles : recorded[s] \in Seq(Rules)
    BY DEF RecordTypes, Slices
  <2>2. \A s \in Roles : /\ Granted(recorded[s]) \subseteq made
                         /\ WellOrdered(reorderRules(recorded[s]))
    BY <2>1, ResultKeeps, ZenonT(30) DEF RecordInv
  <2>3. ~raced => made \subseteq UNION {Granted(recorded[s]) : s \in Roles}
    BY ZenonT(30) DEF KeptInv, Roles
  <2>4. ~raced => Granted(recorded["ClusterRole"]) \subseteq Granted(recorded["errors"])
    BY ZenonT(30) DEF KeptInv
  <2> QED  BY <2>2, <2>3, <2>4, ZenonT(30) DEF RulesComplete
<1> QED
  BY <1>1, StackInit, TypeStep, RecordStarts, RecordTypesStep, RecordStep, KeptStep,
     PTL DEF Spec

-----------------------------------------------------------------------------
(* The source and its controller. *)

\* Before the source has registered its handler nothing was reconciled; from
\* then on a name that is not queued was reconciled as the indexer has it.
SourceInv ==
    /\ handler \in BOOLEAN /\ queue \subseteq Names
    /\ reconciled \in [Names -> Objects]
    /\ call[Source].op = "source"
    /\ pc[Source] \in {"idle", "lookup", "add", "wait", "got", "failed", "watching",
                      "ready"}
    /\ handler <=> pc[Source] \in {"watching", "ready"}
    /\ ~handler => queue = {} /\ \A n \in Names : reconciled[n] = Absent
    /\ handler => \A n \in Names \ queue : reconciled[n] = indexer[n]

\* The source's goroutine stays in its operation, and a step of another one, or
\* of itself inside the map, does not bring it to the handler or past it.
LEMMA SourceStays ==
    ASSUME TypeInv, SourceInv, [Next]_vars, ~SourceStart, ~SourceReady
    PROVE  /\ call'[Source].op = "source"
           /\ \/ pc'[Source] = pc[Source]
              \/ /\ pc[Source] \in {"lookup", "add", "wait"}
                 /\ pc'[Source] \in {"add", "wait", "got", "failed"}
<1>0. Source \in Callers /\ Source \notin Handlers
  BY StackAssumption, ZenonT(30) DEF Handlers
<1>1. CASE UNCHANGED vars
  BY <1>1, ZenonT(30) DEF vars, mapVars, SourceInv
<1>2. CASE Starts \/ Informs \/ Breaks \/ Reconcile
  <2>1. UNCHANGED <<pc, call>>
    BY <1>2, ZenonT(30) DEF Starts, Informs, Breaks, Reconcile, Start, ListFunc, WatchFunc,
                Deliver, WatchEnds, mapVars
  <2> QED  BY <2>1, ZenonT(30) DEF SourceInv
<1>3. ASSUME NEW c \in Callers, c # Source,
             Runs(c) \/ MapFails(c) \/ Request(c) \/ Expire(c)
      PROVE  pc'[Source] = pc[Source] /\ call'[Source] = call[Source]
  <2>1. CASE Map(c) \/ MapFails(c) \/ Expire(c)
    <3>1. UNCHANGED call /\ \E p : pc' = [pc EXCEPT ![c] = p]
      BY <2>1 DEF Map, MapFails, Expire, Goto, Lookup, addInformerToMap,
                  addInformerFails, WaitForCacheSync, Proceed
    <3> QED  BY <1>0, <1>3, <3>1, ZenonT(30) DEF TypeInv
  <2>2. CASE Records(c)
    <3>1. \E p : pc' = [pc EXCEPT ![c] = p]
      BY <2>2 DEF Records, RecordReads, RecordCluster, RecordWrites, ResultReads,
                  ResultWrites, Goto, Finish
    <3>2. UNCHANGED call \/ call' = [call EXCEPT ![c] = Idle]
      BY <2>2, ZenonT(30) DEF Records, RecordReads, RecordCluster, RecordWrites, ResultReads,
                  ResultWrites, Finish
    <3> QED  BY <1>0, <1>3, <3>1, <3>2, ZenonT(30) DEF TypeInv
  <2>3. CASE CachedList(c) \/ CachedGet(c) \/ RawGet(c) \/ RawList(c) \/ Persist(c)
             \/ MapFailed(c)
    <3>1. \E p : pc' = [pc EXCEPT ![c] = p]
      BY <2>3, ZenonT(30) DEF CachedList, CachedGet, RawGet, RawList, Persist, MapFailed,
                  Singleton, Answers, Finish, Goto
    <3>2. UNCHANGED call \/ call' = [call EXCEPT ![c] = Idle]
      BY <2>3, ZenonT(30) DEF CachedList, CachedGet, RawGet, RawList, Persist, MapFailed,
                  Singleton, Answers, Finish
    <3> QED  BY <1>0, <1>3, <3>1, <3>2, ZenonT(30) DEF TypeInv
  <2>4. CASE Request(c)
    <3>1. /\ UNCHANGED pc \/ \E p : pc' = [pc EXCEPT ![c] = p]
          /\ UNCHANGED call \/ \E o : call' = [call EXCEPT ![c] = o]
      <4>1. ASSUME NEW op, NEW n, NEW raw, Admit(c, op, n, raw)
            PROVE  /\ UNCHANGED pc \/ \E p : pc' = [pc EXCEPT ![c] = p]
                   /\ UNCHANGED call \/ \E o : call' = [call EXCEPT ![c] = o]
        BY <4>1 DEF Admit, Goto
      <4>2. ASSUME NEW op, NEW n, Call(c, op, n)
            PROVE  /\ \E p : pc' = [pc EXCEPT ![c] = p]
                   /\ \E o : call' = [call EXCEPT ![c] = o]
        BY <4>2, ZenonT(30) DEF Call, Goto
      <4> QED  BY <2>4, <4>1, <4>2, ZenonT(30) DEF Request
    <3> QED  BY <1>0, <1>3, <3>1, ZenonT(30) DEF TypeInv
  <2> QED  BY <1>3, <2>1, <2>2, <2>3, <2>4, ZenonT(30) DEF Runs
<1>4. CASE Runs(Source) \/ MapFails(Source)
  <2>1. Map(Source) \/ MapFails(Source)
    BY <1>0, <1>4, ZenonT(30) DEF Runs, Records, SourceInv, RecordReads, RecordCluster, RecordWrites,
                ResultReads, ResultWrites, CachedList, CachedGet, RawGet, RawList,
                MapFailed, Persist
  <2>2. UNCHANGED call /\ pc[Source] \in {"lookup", "add", "wait"}
        /\ \E p \in {"add", "wait", "got", "failed"} : pc' = [pc EXCEPT ![Source] = p]
    BY <2>1 DEF Map, MapFails, Lookup, addInformerToMap, addInformerFails,
                WaitForCacheSync, Proceed
  <2> QED  BY <1>0, <2>2, ZenonT(30) DEF TypeInv, SourceInv
<1> QED
  <2>1. ASSUME NEW c \in Callers, Runs(c) \/ MapFails(c)
        PROVE  Runs(Source) \/ MapFails(Source) \/ c # Source
    BY <2>1
  <2>2. \A c \in Handlers : c \in Callers /\ c # Source
    BY <1>0 DEF Handlers
  <2> QED  BY <1>1, <1>2, <1>3, <1>4, <2>1, <2>2, ZenonT(30) DEF Next, SourceInv

\* Whatever changes the indexer tells the handler.
LEMMA IndexerTold ==
    ASSUME [Next]_vars, ~SourceStart, ~Reconcile
    PROVE  /\ UNCHANGED <<handler, reconciled>>
           /\ \/ UNCHANGED <<indexer, queue>>
              \/ queue' = IF handler
                          THEN queue \cup {n \in Names : indexer[n] # indexer'[n]}
                          ELSE queue
<1>1. CASE UNCHANGED vars
  BY <1>1 DEF vars, mapVars, objects, controller
<1>2. CASE Informs
  BY <1>2, ZenonT(30) DEF Informs, Events, Enqueued, WatchFunc
<1>3. CASE Starts \/ Breaks \/ SourceReady
  BY <1>3 DEF Starts, Breaks, SourceReady, Start, WatchEnds, objects, controller
<1>4. ASSUME NEW c, Runs(c) \/ MapFails(c) \/ Request(c) \/ Expire(c)
      PROVE  UNCHANGED <<handler, reconciled, indexer, queue>>
  <2>1. UNCHANGED <<handler, reconciled, queue>>
    BY <1>4, ZenonT(30) DEF Runs, Map, MapFails, Records, RecordReads, RecordCluster,
       RecordWrites, ResultReads, ResultWrites, CachedList, CachedGet, RawGet, RawList,
       MapFailed, Persist, Request, Expire, controller
  <2>2. UNCHANGED indexer
    BY <1>4, ZenonT(30) DEF Runs, Map, MapFails, Lookup, addInformerToMap, addInformerFails,
       WaitForCacheSync, Records, RecordReads, RecordCluster, RecordWrites, ResultReads,
       ResultWrites, CachedList, CachedGet, RawGet, RawList, MapFailed, Persist, Change,
       Request, Expire, objects
  <2> QED  BY <2>1, <2>2, ZenonT(30)
<1> QED  BY <1>1, <1>2, <1>3, <1>4, ZenonT(30) DEF Next

\* The controller falls behind the indexer only by what is in its queue.
LEMMA SourceStep ==
    TypeInv /\ MapTypeOK /\ SourceInv /\ [Next]_vars => SourceInv'
<1> SUFFICES ASSUME TypeInv, MapTypeOK, SourceInv, [Next]_vars PROVE SourceInv'
  OBVIOUS
<1>0. Source \in Callers
  BY StackAssumption, ZenonT(30)
<1>1. CASE SourceStart
  <2>1. /\ pc[Source] = "got" /\ pc' = [pc EXCEPT ![Source] = "watching"]
        /\ handler' = TRUE /\ queue' = {n \in Names : indexer[n] # Absent}
        /\ UNCHANGED <<indexer, call, reconciled>>
    BY <1>1 DEF SourceStart, GetInformer, Goto, ReaderList, objects
  <2>2. pc'[Source] = "watching"
    BY <1>0, <2>1, ZenonT(30) DEF TypeInv
  <2>3. \A n \in Names \ queue' : reconciled'[n] = indexer'[n]
    BY <2>1, ZenonT(30) DEF SourceInv
  <2> QED  BY <2>1, <2>2, <2>3, ZenonT(30) DEF SourceInv
<1>2. CASE Reconcile
  <2>1. PICK n \in queue : /\ queue' = queue \ {n}
                           /\ reconciled' = [reconciled EXCEPT ![n] = indexer[n]]
    BY <1>2, ZenonT(30) DEF Reconcile
  <2>2. UNCHANGED <<handler, call, pc, indexer>> /\ pc[Source] = "ready"
    BY <1>2, ZenonT(30) DEF Reconcile, mapVars, objects
  <2>3. reconciled' \in [Names -> Objects] /\ queue' \subseteq Names
    BY <2>1 DEF SourceInv, MapTypeOK
  <2>4. \A m \in Names \ queue' : reconciled'[m] = indexer'[m]
    BY <2>1, <2>2, ZenonT(30) DEF SourceInv
  <2> QED  BY <2>2, <2>3, <2>4 DEF SourceInv
<1>3. CASE ~SourceStart /\ ~Reconcile
  <2>1. /\ call'[Source].op = "source"
        /\ pc'[Source] \in {"idle", "lookup", "add", "wait", "got", "failed", "watching",
                      "ready"}
        /\ pc'[Source] \in {"watching", "ready"} <=> pc[Source] \in {"watching", "ready"}
    <3>1. CASE SourceReady
      <4>1. /\ pc[Source] = "watching" /\ pc' = [pc EXCEPT ![Source] = "ready"]
            /\ UNCHANGED call
        BY <3>1, ZenonT(30) DEF SourceReady, Goto
      <4> QED  BY <1>0, <4>1 DEF TypeInv, SourceInv
    <3>2. CASE ~SourceReady
      BY <1>3, <3>2, SourceStays DEF SourceInv
    <3> QED  BY <3>1, <3>2, ZenonT(30)
  <2>2. /\ UNCHANGED <<handler, reconciled>>
        /\ \/ UNCHANGED <<indexer, queue>>
           \/ queue' = IF handler
                       THEN queue \cup {n \in Names : indexer[n] # indexer'[n]}
                       ELSE queue
    BY <1>3, IndexerTold, ZenonT(30)
  <2>3. queue' \subseteq Names /\ (~handler => queue' = {})
    BY <2>2, ZenonT(30) DEF SourceInv
  <2>4. handler => \A n \in Names \ queue' : reconciled'[n] = indexer'[n]
    BY <2>2, ZenonT(30) DEF SourceInv
  <2> QED  BY <2>1, <2>2, <2>3, <2>4, ZenonT(30) DEF SourceInv
<1> QED  BY <1>1, <1>2, <1>3

\* The source's goroutine is yet to look the informer up, or there is none.
LEMMA SourceStarts == Init => SourceInv
<1> SUFFICES ASSUME Init PROVE SourceInv
  OBVIOUS
<1>1. Source \in Callers /\ Absent \in Objects
  BY StackAssumption DEF Objects
<1>2. pc[Source] \in {"idle", "lookup"} /\ call[Source].op = "source"
  BY <1>1 DEF Init, Operation
<1> QED  BY <1>1, <1>2, ZenonT(30) DEF Init, ControllerInit, SourceInv

\* What the stack holds is what its operations put there, and a goroutine keeps
\* its copy of a slice exactly as long as it is to write it.
THEOREM StackTypeHolds == Spec => []StackTypeOK
<1>1. TypeInv /\ MapTypeOK /\ RecordTypes /\ SourceInv => StackTypeOK
  BY ZenonT(30) DEF StackTypeOK, TypeInv, RecordTypes, SourceInv, Calls, Places, Ops
<1>2. Spec => []MapTypeOK
  BY UsesMap, MapTypes, PTL
<1> QED
  BY <1>1, <1>2, StackInit, TypeStep, RecordStarts, RecordTypesStep, SourceStarts,
     SourceStep, PTL DEF Spec

\* No order of requests, deliveries, broken watches and reconciliations makes
\* the controller miss an object.
THEOREM AtRestReconciledHolds == Spec => []AtRestReconciled
<1>1. SourceInv /\ CacheFollows => AtRestReconciled
  BY DEF SourceInv, CacheFollows, AtRestReconciled
<1>2. Spec => [](MapTypeOK /\ CacheFollows)
  BY UsesMap, MapTypes, CacheFollowsHolds, PTL
<1> QED
  BY <1>1, <1>2, StackInit, TypeStep, SourceStarts, SourceStep, PTL DEF Spec
=============================================================================
