---------------------- MODULE CompositeOperatorProofs ----------------------
(***************************************************************************)
(* Proofs about CompositeOperator, for every set of operands and every set *)
(* of orders with disjoint steps.                                          *)
(***************************************************************************)
EXTENDS CompositeOperator, TLAPS

(* The steps of the call share no operand. *)
Disjoint ==
  \A j, k \in DOMAIN run : j # k => run[j] \cap run[k] = {}

(* Steps before the current one succeeded, later ones have not started. *)
Progress ==
  /\ \A k \in DOMAIN run : k < i => \A o \in run[k] : phase[o] = "ok"
  /\ \A k \in DOMAIN run : k > i => \A o \in run[k] : phase[o] = "idle"

(* A failed operand has left an error, and an error ends the call. *)
Failures ==
  /\ (\E o \in Operands : phase[o] = "failed") => errs # {}
  /\ errs # {} => i <= Len(run)
  /\ pc = "idle" /\ call # "Suspended" /\ errs # {} => result.requeue

(* Which steps a call runs, and what Ensure has done to the world. *)
Calls ==
  /\ call = "Ensure" =>
       /\ run = order
       /\ \A o \in Operands :
            phase[o] \in {"ensured", "ready", "ok"} => o \in world
  /\ call = "Cleanup" => run = Reverse(order)

(* Only a call that ran every step returns an empty result. *)
CleanEnds == Clean => i = Len(run) + 1

(* The inductive invariant. *)
IndInv == TypeOK /\ Disjoint /\ Progress /\ Failures /\ Calls /\ CleanEnds

-----------------------------------------------------------------------------

(* What ASSUME OrdersAssumption says of one order, and of its reverse. *)
LEMMA Steps ==
  ASSUME NEW o \in Orders
  PROVE  /\ o \in Seq(SUBSET Operands)
         /\ \A j, k \in DOMAIN o : j # k => o[j] \cap o[k] = {}
  BY OrdersAssumption

(* Reverse keeps the length and the disjointness of the steps. *)
LEMMA ReverseSteps ==
  ASSUME NEW o \in Orders
  PROVE  /\ Reverse(o) \in Seq(SUBSET Operands)
         /\ Len(Reverse(o)) = Len(o)
         /\ \A j, k \in DOMAIN Reverse(o) :
              j # k => Reverse(o)[j] \cap Reverse(o)[k] = {}
<1>1. o \in Seq(SUBSET Operands) /\ Len(o) \in Nat /\ DOMAIN o = 1..Len(o)
  BY Steps
<1>2. \A k \in 1..Len(o) : Len(o) + 1 - k \in 1..Len(o)
  BY <1>1
<1>3. \A k \in 1..Len(o) : Reverse(o)[k] \in SUBSET Operands
  BY <1>1, <1>2 DEF Reverse
<1>4. Reverse(o) \in Seq(SUBSET Operands) /\ Len(Reverse(o)) = Len(o)
  BY <1>1, <1>3 DEF Reverse
<1>5. ASSUME NEW j \in 1..Len(o), NEW k \in 1..Len(o), j # k
      PROVE  Reverse(o)[j] \cap Reverse(o)[k] = {}
  <2>1. o[Len(o) + 1 - j] \cap o[Len(o) + 1 - k] = {}
    BY <1>1, <1>2, <1>5, Steps
  <2> QED
    BY <2>1 DEF Reverse
<1> QED
  BY <1>4, <1>5, ZenonT(30) DEF Reverse

(* NewCompositeOperator establishes the inductive invariant. *)
LEMMA InitInd == Init => IndInv
<1> SUFFICES ASSUME Init PROVE IndInv
  OBVIOUS
<1>1. run = <<>> /\ run \in Seq(SUBSET Operands) /\ Len(run) = 0 /\ DOMAIN run = {}
  BY DEF Init
<1>2. TypeOK
  <2>1. phase \in [Operands -> Phases]
    BY DEF Init, Phases
  <2>2. result \in Results
    BY DEF Init, NoResult, Results
  <2>3. i \in 1..(Len(run) + 1)
    BY <1>1 DEF Init
  <2> QED
    BY <1>1, <2>1, <2>2, <2>3, ZenonT(30) DEF Init, TypeOK
<1>3. Disjoint /\ Progress /\ Failures /\ Calls /\ CleanEnds
  BY <1>1 DEF Init, Disjoint, Progress, Failures, Calls, CleanEnds, Clean
<1> QED
  BY <1>2, <1>3 DEF IndInv

(* The start of Ensure or Cleanup. *)
LEMMA ExecuteStep ==
  ASSUME IndInv, NEW kind, NEW steps \in Seq(SUBSET Operands),
         \/ kind = "Ensure" /\ steps = order
         \/ kind = "Cleanup" /\ steps = Reverse(order),
         \A j, k \in DOMAIN steps : j # k => steps[j] \cap steps[k] = {},
         Execute(kind, steps)
  PROVE  IndInv'
<1> USE DEF IndInv, Execute, config
<1>1. TypeOK'
  <2>1. phase' \in [Operands -> Phases]
    BY DEF Phases
  <2>2. i' \in 1..(Len(run') + 1)
    BY DEF TypeOK
  <2> QED
    BY <2>1, <2>2, ZenonT(30) DEF TypeOK
<1>2. Disjoint' /\ Progress' /\ Failures' /\ Calls' /\ CleanEnds'
  BY DEF Disjoint, Progress, Failures, Calls, CleanEnds, Clean, TypeOK
<1> QED
  BY <1>1, <1>2

(* A call of a suspended operator. *)
LEMMA SkipStep == IndInv /\ Skip => IndInv'
  BY DEF IndInv, Skip, config, TypeOK, Disjoint, Progress, Failures, Calls,
         CleanEnds, Clean, NoResult, Results

(***************************************************************************)
(* What the four calls of an operand have in common: one operand of the    *)
(* current step moves on, and an error is left behind when it fails.       *)
(***************************************************************************)
Moves(o, to) ==
  /\ Runs(o)
  /\ to \in Phases \ {"idle"}
  /\ phase' = [phase EXCEPT ![o] = to]
  /\ errs \subseteq errs' /\ errs' \subseteq Errors
  /\ to = "failed" => errs' # {}
  /\ changed' \in BOOLEAN
  /\ world' \subseteq Operands
  /\ call = "Ensure" => /\ world \subseteq world'
                        /\ to \in {"ensured", "ready", "ok"} => o \in world'
  /\ UNCHANGED <<config, pc, call, run, i, result>>

(* An operand of the current step is in no other step. *)
LEMMA OnlyHere ==
  ASSUME IndInv, NEW o \in Operands, Runs(o)
  PROVE  /\ pc = "exec" /\ i \in DOMAIN run /\ o \in run[i]
         /\ \A k \in DOMAIN run : k # i => o \notin run[k]
<1>1. run \in Seq(SUBSET Operands) /\ i \in 1..Len(run)
  BY DEF IndInv, TypeOK, Runs
<1> QED
  BY <1>1 DEF IndInv, Disjoint, Runs

(* Such a move keeps the inductive invariant. *)
LEMMA MoveStep ==
  ASSUME IndInv, NEW o \in Operands, NEW to, Moves(o, to)
  PROVE  IndInv'
<1> USE DEF IndInv, Moves, config
<1>1. pc = "exec" /\ i \in DOMAIN run /\ \A k \in DOMAIN run : k # i => o \notin run[k]
  BY OnlyHere
<1>2. TypeOK'
  BY DEF TypeOK
<1>3. Disjoint' /\ CleanEnds'
  BY <1>1 DEF Disjoint, CleanEnds, Clean
<1>4. Progress'
  <2>1. phase \in [Operands -> Phases] /\ run \in Seq(SUBSET Operands)
    BY DEF TypeOK
  <2>2. \A k \in DOMAIN run : k # i => \A p \in run[k] : phase'[p] = phase[p]
    BY <1>1, <2>1
  <2>3. i \in Nat /\ DOMAIN run = 1..Len(run) /\ Len(run) \in Nat
    BY <1>1, <2>1
  <2> QED
    BY <2>2, <2>3 DEF Progress
<1>5. Failures'
  BY <1>1 DEF Failures, TypeOK, Runs
<1>6. Calls'
  BY DEF Calls, TypeOK
<1> QED
  BY <1>2, <1>3, <1>4, <1>5, <1>6

(* CallEnsure and CallCleanup move operands so. *)
LEMMA OperandMoves ==
  ASSUME IndInv, NEW o \in Operands, Operand(o)
  PROVE  \E to : Moves(o, to)
<1> USE DEF IndInv, TypeOK, Moves, Phases, Errors, config
<1>1. CASE OpEnsure(o)
  <2>1. CASE Advance(o, "ensured") /\ world' = world \cup {o}
    <3> Moves(o, "ensured")
      BY <1>1, <2>1 DEF OpEnsure, Advance
    <3> QED BY ZenonT(30)
  <2>2. CASE Fail(o, "other") /\ world' \in {world, world \cup {o}}
    <3> Moves(o, "failed")
      BY <1>1, <2>2 DEF OpEnsure, Fail
    <3> QED BY ZenonT(30)
  <2> QED
    BY <1>1, <2>1, <2>2 DEF OpEnsure
<1>2. CASE OpReadyCheck(o)
  <2>0. o \in world
    BY <1>2 DEF OpReadyCheck, Calls
  <2>1. CASE Advance(o, "ready")
    <3> Moves(o, "ready")
      BY <1>2, <2>0, <2>1 DEF OpReadyCheck, Advance
    <3> QED BY ZenonT(30)
  <2>2. CASE Fail(o, "other") \/ Fail(o, "ErrNotReady")
    <3> Moves(o, "failed")
      BY <1>2, <2>2, ZenonT(30) DEF OpReadyCheck, Fail
    <3> QED BY ZenonT(30)
  <2> QED
    BY <1>2, <2>1, <2>2 DEF OpReadyCheck
<1>3. CASE OpPostReady(o)
  <2>0. o \in world
    BY <1>3 DEF OpPostReady, Calls
  <2>1. ASSUME NEW event \in BOOLEAN, Succeed(o, event) PROVE Moves(o, "ok")
    BY <1>3, <2>0, <2>1 DEF OpPostReady, Succeed
  <2>2. CASE Fail(o, "other")
    <3> Moves(o, "failed")
      BY <1>3, <2>2 DEF OpPostReady, Fail
    <3> QED BY ZenonT(30)
  <2> QED
    BY <1>3, <2>1, <2>2 DEF OpPostReady
<1>4. CASE OpDelete(o)
  <2>1. ASSUME NEW event \in BOOLEAN, Succeed(o, event), world' = world \ {o}
        PROVE  Moves(o, "ok")
    BY <1>4, <2>1 DEF OpDelete, Succeed
  <2>2. CASE phase' = [phase EXCEPT ![o] = "failed"]
    <3> Moves(o, "failed") \/ \E event \in BOOLEAN : Succeed(o, event) /\ world' = world \ {o}
      BY <1>4, <2>2, ZenonT(30) DEF OpDelete
    <3> QED
      BY <2>1
  <2> QED
    BY <1>4, <2>1, <2>2 DEF OpDelete
<1> QED
  BY <1>1, <1>2, <1>3, <1>4 DEF Operand

(* A step that is over without errors has succeeded. *)
LEMMA StepSucceeded ==
  ASSUME IndInv, pc = "exec", i <= Len(run), StepOver, errs = {}
  PROVE  i \in DOMAIN run /\ \A o \in run[i] : phase[o] = "ok"
<1>1. i \in DOMAIN run /\ run[i] \subseteq Operands
  BY DEF IndInv, TypeOK
<1> QED
  BY <1>1 DEF StepOver, Stopped, IndInv, Failures

(* What a call returns has the type of a result. *)
LEMMA ResultTypes ==
  ASSUME IndInv
  PROVE  /\ NoResult \in Results /\ Requeue \in Results /\ Failed \in Results
         /\ Requeue.requeue /\ Failed.requeue
         /\ Requeue # NoResult /\ Failed # NoResult
<1>1. errs \in SUBSET Errors
  BY DEF IndInv, TypeOK
<1> QED
  BY <1>1, ZenonT(30) DEF Failed, Requeue, NoResult, Results

(* The end of a step. *)
LEMMA EndStepStep == IndInv /\ EndStep => IndInv'
<1> SUFFICES ASSUME IndInv, EndStep PROVE IndInv'
  OBVIOUS
<1> USE DEF IndInv, config
<1>0. i \in Nat /\ i \in DOMAIN run /\ i < Len(run) + 1 /\ Len(run) \in Nat
  BY DEF EndStep, TypeOK
<1>1. ASSUME NEW res \in Results, res.requeue, res # NoResult, Return(res)
      PROVE  IndInv'
  <2>1. TypeOK'
    BY <1>1 DEF Return, TypeOK
  <2>2. Disjoint' /\ Progress' /\ Calls'
    BY <1>1 DEF Return, Disjoint, Progress, Calls
  <2>3. Failures' /\ CleanEnds'
    BY <1>1 DEF Return, Failures, CleanEnds, Clean
  <2> QED
    BY <2>1, <2>2, <2>3
<1>2. ASSUME errs = {}, Continue PROVE IndInv'
  <2>1. TypeOK'
    <3>1. i' \in 1..(Len(run') + 1)
      BY <1>0, <1>2 DEF Continue
    <3> QED
      BY <1>2, <3>1, ZenonT(30) DEF Continue, TypeOK
  <2>2. Disjoint' /\ Calls' /\ CleanEnds'
    BY <1>2 DEF Continue, Disjoint, Calls, CleanEnds, Clean, EndStep
  <2>3. Progress'
    <3>1. \A o \in run[i] : phase[o] = "ok"
      BY <1>2, StepSucceeded DEF EndStep
    <3>2. DOMAIN run \subseteq Nat
      BY DEF TypeOK
    <3> QED
      BY <1>0, <1>2, <3>1, <3>2 DEF Continue, Progress
  <2>4. Failures'
    BY <1>2 DEF Continue, Failures
  <2> QED
    BY <2>1, <2>2, <2>3, <2>4
<1> QED
  BY <1>1, <1>2, ResultTypes DEF EndStep

(* The end of the loop. *)
LEMMA EndOrderStep == IndInv /\ EndOrder => IndInv'
<1> SUFFICES ASSUME IndInv, EndOrder PROVE IndInv'
  OBVIOUS
<1> USE DEF IndInv, config, EndOrder, Return
<1>0. i = Len(run) + 1 /\ Len(run) \in Nat
  BY DEF TypeOK
<1>1. TypeOK'
  BY ResultTypes DEF TypeOK
<1>2. Disjoint' /\ Progress' /\ Calls'
  BY DEF Disjoint, Progress, Calls
<1>3. Failures' /\ CleanEnds'
  BY <1>0 DEF Failures, CleanEnds, Clean
<1> QED
  BY <1>1, <1>2, <1>3

(* Every step keeps the inductive invariant. *)
LEMMA IndStep == IndInv /\ [Next]_vars => IndInv'
<1> SUFFICES ASSUME IndInv, [Next]_vars PROVE IndInv'
  OBVIOUS
<1>0. order \in Orders
  BY DEF IndInv, TypeOK
<1>1. ASSUME NEW suspended \in BOOLEAN, Ensure(suspended) PROVE IndInv'
  BY <1>0, <1>1, Steps, ExecuteStep, SkipStep DEF Ensure
<1>2. ASSUME NEW suspended \in BOOLEAN, Cleanup(suspended) PROVE IndInv'
  BY <1>0, <1>2, ReverseSteps, ExecuteStep, SkipStep DEF Cleanup
<1>3. ASSUME NEW o \in Operands, Operand(o) PROVE IndInv'
  BY <1>3, OperandMoves, MoveStep
<1>4. CASE EndStep
  BY <1>4, EndStepStep
<1>5. CASE EndOrder
  BY <1>5, EndOrderStep
<1>6. CASE UNCHANGED vars
  BY <1>6 DEF vars, IndInv, TypeOK, Disjoint, Progress, Failures, Calls,
             CleanEnds, Clean
<1> QED
  BY <1>1, <1>2, <1>3, <1>4, <1>5, <1>6 DEF Next, Operand

(* The invariant holds in every behaviour. *)
LEMMA Inductive == Spec => []IndInv
  BY InitInd, IndStep, PTL DEF Spec

-----------------------------------------------------------------------------

(* The executor's variables keep their types. *)
THEOREM TypeCorrect == Spec => []TypeOK
<1>1. IndInv => TypeOK
  BY DEF IndInv
<1> QED
  BY <1>1, Inductive, PTL

(***************************************************************************)
(* A clean Ensure ran every operand of the operator to the end, in this    *)
(* call, and their objects exist.                                          *)
(***************************************************************************)
THEOREM EnsureCompleteHolds == Spec => []EnsureComplete
<1>1. IndInv => EnsureComplete
  <2> SUFFICES ASSUME IndInv, Clean, call = "Ensure", NEW o \in All(order)
               PROVE  phase[o] = "ok" /\ o \in world
    BY DEF EnsureComplete
  <2>1. run = order /\ i = Len(run) + 1 /\ run \in Seq(SUBSET Operands)
    BY DEF IndInv, Calls, CleanEnds, TypeOK
  <2>2. PICK k \in DOMAIN run : o \in run[k]
    BY <2>1 DEF All
  <2>3. k < i /\ o \in Operands
    BY <2>1, <2>2
  <2>4. phase[o] = "ok"
    BY <2>2, <2>3 DEF IndInv, Progress
  <2> QED
    BY <2>3, <2>4 DEF IndInv, Calls
<1> QED
  BY <1>1, Inductive, PTL

(***************************************************************************)
(* No failure of an operand is dropped: the call asks for a requeue.       *)
(***************************************************************************)
THEOREM FailureRequeuesHolds == Spec => []FailureRequeues
<1>1. IndInv => FailureRequeues
  BY DEF IndInv, Failures, FailureRequeues
<1> QED
  BY <1>1, Inductive, PTL

(* An even number, which no position of the steps is the middle of. *)
LEMMA Even ==
  ASSUME NEW n \in Nat, n % 2 = 0
  PROVE  \E h \in Int : n = 2 * h
  BY Z3

(***************************************************************************)
(* With an even number of steps, Cleanup deletes an operand only after all *)
(* operands of later steps.                                                *)
(***************************************************************************)
THEOREM CleanupReversedHolds == Spec => []CleanupReversed
<1>1. ASSUME IndInv PROVE CleanupReversed
  <2>1. order \in Orders /\ i \in Int
    BY <1>1 DEF IndInv, TypeOK
  <2>2. PICK n \in Nat : n = Len(order) /\ DOMAIN order = 1..n
    <3>1. order \in Seq(SUBSET Operands)
      BY <2>1, OrdersAssumption
    <3> QED
      BY <3>1
  <2>3. n % 2 = 0 => \E h \in Int : n = 2 * h
    BY Even, Zenon
  <2>4. SUFFICES ASSUME n % 2 = 0, call = "Cleanup",
                        NEW j \in 1..n, NEW k \in 1..n, j < k,
                        NEW o \in order[j], NEW p \in order[k], phase[o] # "idle"
                 PROVE  phase[p] = "ok"
    BY <2>2 DEF CleanupReversed
  <2>5. run = Reverse(order)
    BY <1>1, <2>4 DEF IndInv, Calls
  <2>6. PICK h \in Int : n = 2 * h
    BY <2>3, <2>4
  <2> DEFINE J == n + 1 - j
             K == n + 1 - k
  <2>7. /\ J \in 1..n /\ K \in 1..n /\ K < J /\ J # j /\ K # k
        /\ n + 1 - J = j /\ n + 1 - K = k
    <3>1. j < k
      BY <2>4
    <3> QED
      BY <2>6, <3>1
  <2> HIDE DEF J, K
  <2>8. run[J] = order[j] /\ run[K] = order[k] /\ DOMAIN run = 1..n
    BY <2>2, <2>5, <2>7, ZenonT(30) DEF Reverse
  <2>9. ~(J > i)
    BY <1>1, <2>4, <2>7, <2>8 DEF IndInv, Progress
  <2>10. K < i
    BY <2>1, <2>7, <2>9
  <2> QED
    BY <1>1, <2>7, <2>8, <2>10 DEF IndInv, Progress
<1> QED
  BY <1>1, Inductive, PTL

(***************************************************************************)
(* With an even number of steps, a clean Cleanup has deleted every operand *)
(* of the operator, as operate.go says. With an odd number Reverse leaves  *)
(* the middle step empty, and CleanupComplete fails.                       *)
(***************************************************************************)
THEOREM EvenCleanupComplete == Spec => [](Len(order) % 2 = 0 => CleanupComplete)
<1>1. ASSUME IndInv, Len(order) % 2 = 0 PROVE CleanupComplete
  <2> SUFFICES ASSUME Clean, call = "Cleanup", NEW o \in All(order)
               PROVE  phase[o] = "ok"
    BY DEF CleanupComplete
  <2>1. run = Reverse(order) /\ i = Len(run) + 1 /\ order \in Orders
    BY <1>1 DEF IndInv, Calls, CleanEnds, TypeOK
  <2>2. PICK n \in Nat : n = Len(order) /\ DOMAIN order = 1..n
    <3>1. order \in Seq(SUBSET Operands)
      BY <2>1, OrdersAssumption
    <3> QED
      BY <3>1
  <2>3. PICK j \in 1..n : o \in order[j]
    BY <2>2 DEF All
  <2>4. PICK h \in Int : n = 2 * h
    BY <1>1, <2>2, Even, Zenon
  <2> DEFINE J == n + 1 - j
  <2>5. J \in 1..n /\ J # j /\ n + 1 - J = j
    BY <2>4
  <2> HIDE DEF J
  <2>6. run[J] = order[j] /\ DOMAIN run = 1..n /\ Len(run) = n
    BY <2>1, <2>2, <2>5, ReverseSteps DEF Reverse
  <2>7. J < i
    BY <2>1, <2>5, <2>6
  <2> QED
    BY <1>1, <2>3, <2>5, <2>6, <2>7 DEF IndInv, Progress
<1> QED
  BY <1>1, Inductive, PTL

-----------------------------------------------------------------------------
(* The refinement of StepwiseExecution. *)

Completed == {o \in Operands : phase[o] = "ok"}

(* The operands of the steps before the current one are completed. *)
LEMMA BeforeCompleted == IndInv => Abstract!Before(i) \subseteq Completed
<1> SUFFICES ASSUME IndInv, NEW o \in Abstract!Before(i) PROVE o \in Completed
  OBVIOUS
<1>1. PICK k \in 1..(i - 1) : o \in run[k]
  BY DEF Abstract!Before
<1>2. k \in DOMAIN run /\ k < i /\ run[k] \subseteq Operands
  BY <1>1 DEF IndInv, TypeOK
<1> QED
  BY <1>1, <1>2 DEF IndInv, Progress, Completed

(* The call of an operand completes it, or changes nothing abstract. *)
LEMMA OperandRefines ==
  ASSUME IndInv, NEW o \in Operands, Operand(o)
  PROVE  Abstract!Next \/ UNCHANGED Abstract!vars
<1>1. PICK to : Moves(o, to)
  BY OperandMoves
<1>2. phase[o] # "ok"
  BY DEF Operand, OpEnsure, OpReadyCheck, OpPostReady, OpDelete
<1>3. pc = "exec" /\ i \in DOMAIN run /\ o \in run[i]
  BY <1>1, OnlyHere DEF Moves
<1>4. pc' = pc /\ run' = run /\ Clean = FALSE /\ Clean' = FALSE
  BY <1>1, <1>3 DEF Moves, Clean
<1>5. phase \in [Operands -> Phases] /\ phase' = [phase EXCEPT ![o] = to]
  BY <1>1 DEF IndInv, TypeOK, Moves
<1>6. CASE to = "ok"
  <2>1. Completed' = Completed \cup {o}
    BY <1>5, <1>6 DEF Completed
  <2>2. PICK k \in DOMAIN run : k = i
    BY <1>3
  <2>3. Abstract!Before(k) \subseteq Completed
    BY <2>2, BeforeCompleted DEF Abstract!Before
  <2>4. Abstract!Complete(k)
    BY <1>2, <1>3, <1>4, <2>1, <2>2, <2>3, ZenonT(30) DEF Abstract!Complete, Completed
  <2> QED
    BY <2>4 DEF Abstract!Next
<1>7. CASE to # "ok"
  <2>1. Completed' = Completed
    BY <1>2, <1>5, <1>7 DEF Completed
  <2> QED
    BY <1>4, <2>1, ZenonT(30) DEF Abstract!vars, Completed
<1> QED
  BY <1>6, <1>7

(* So does the end of a step: the call returns, or goes on. *)
LEMMA EndStepRefines ==
  ASSUME IndInv, EndStep
  PROVE  Abstract!Next \/ UNCHANGED Abstract!vars
<1>1. pc = "exec" /\ Clean = FALSE
  BY DEF EndStep, Clean
<1>2. ASSUME NEW res, res # NoResult, Return(res) PROVE Abstract!Next
  <2>1. Clean' = FALSE /\ pc' = "idle" /\ run' = run /\ phase' = phase
    BY <1>2 DEF Return, Clean
  <2> QED
    BY <1>1, <2>1, ZenonT(30) DEF Abstract!Return, Abstract!Next
<1>3. CASE Continue
  BY <1>1, <1>3 DEF Continue, Clean, Abstract!vars
<1> QED
  BY <1>2, <1>3, ResultTypes DEF EndStep

(* The end of the loop returns a clean result, all operands completed. *)
LEMMA EndOrderRefines ==
  ASSUME IndInv, EndOrder
  PROVE  Abstract!Next
<1>1. pc = "exec" /\ pc' = "idle" /\ run' = run /\ phase' = phase
  BY DEF EndOrder, Return
<1>2. run \in Seq(SUBSET Operands) /\ i = Len(run) + 1
  BY DEF IndInv, TypeOK, EndOrder
<1>3. Abstract!All \subseteq Completed
  <2> SUFFICES ASSUME NEW k \in DOMAIN run, NEW o \in run[k] PROVE o \in Completed
    BY DEF Abstract!All
  <2>1. k < i /\ o \in Operands
    BY <1>2
  <2> QED
    BY <2>1 DEF IndInv, Progress, Completed
<1>4. (Abstract!All \subseteq Completed) = TRUE
  BY <1>3
<1>5. Clean' \in {FALSE, Abstract!All \subseteq Completed}
  BY <1>4, ZenonT(30) DEF Clean
<1> QED
  BY <1>1, <1>5, ZenonT(30) DEF Abstract!Return, Abstract!Next, Completed

(***************************************************************************)
(* The executor implements StepwiseExecution, for both strategies, every   *)
(* interleaving of the goroutines of a step and every failure of operands. *)
(***************************************************************************)
THEOREM StepwiseHolds == Spec => Stepwise
<1>1. Init => Abstract!Init
  <2> SUFFICES ASSUME Init PROVE Abstract!Init
    OBVIOUS
  <2>1. run \in Seq(SUBSET Operands) /\ Completed = {} /\ Clean = FALSE
    BY DEF Init, Clean, Completed
  <2> QED
    BY <2>1 DEF Init, Abstract!Init, Completed
<1>2. IndInv /\ [Next]_vars => [Abstract!Next]_(Abstract!vars)
  <2> SUFFICES ASSUME IndInv, [Next]_vars
               PROVE  Abstract!Next \/ UNCHANGED Abstract!vars
    OBVIOUS
  <2>0. order \in Orders
    BY DEF IndInv, TypeOK
  <2>1. ASSUME NEW kind, NEW steps \in Seq(SUBSET Operands), pc = "idle",
               Execute(kind, steps)
        PROVE  Abstract!Next
    <3>1. Completed' = {} /\ Clean' = FALSE /\ pc' = "exec" /\ run' = steps
      BY <2>1 DEF Execute, Completed, Clean
    <3> QED
      BY <2>1, <3>1 DEF Abstract!Begin, Abstract!Next, Completed
  <2>2. ASSUME pc = "idle", Skip PROVE Abstract!Next
    <3>1. Clean' = FALSE /\ pc' = pc /\ run' = run /\ phase' = phase
      BY <2>2 DEF Skip, Clean
    <3> QED
      BY <2>2, <3>1 DEF Abstract!Skip, Abstract!Next
  <2>3. ASSUME NEW suspended \in BOOLEAN, Ensure(suspended) PROVE Abstract!Next
    BY <2>0, <2>1, <2>2, <2>3, Steps DEF Ensure
  <2>4. ASSUME NEW suspended \in BOOLEAN, Cleanup(suspended) PROVE Abstract!Next
    BY <2>0, <2>1, <2>2, <2>4, ReverseSteps DEF Cleanup
  <2>5. CASE UNCHANGED vars
    BY <2>5 DEF vars, Abstract!vars, Clean
  <2> QED
    BY <2>3, <2>4, <2>5, OperandRefines, EndStepRefines, EndOrderRefines
       DEF Next, Operand
<1> QED
  BY <1>1, <1>2, Inductive, PTL DEF Spec, Stepwise, Abstract!Spec
=============================================================================
