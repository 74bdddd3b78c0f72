-------------------------- MODULE OperandDAGProofs --------------------------
(***************************************************************************)
(* Proofs about OperandDAG, for every set of operand names and every       *)
(* requirement between them.                                               *)
(***************************************************************************)
EXTENDS OperandDAG, Sequences, TLAPS

(***************************************************************************)
(* The walk keeps a frontier: an operand that has no step yet although all *)
(* it requires has one is waiting to be visited, in this pass or the next. *)
(* When no root is left, an operand without a step therefore requires one  *)
(* without a step, which in an acyclic graph cannot be.                    *)
(***************************************************************************)
Walking == pc \in {"visit", "done"}

Frontier ==
  Walking => \A o \in listed :
    ~Ordered(o) /\ satisfied(o) => o \in currentRoots \cup newRoots

Bounded ==
  /\ pc \in {"new", "error"} => /\ \A o \in listed : ~Ordered(o)
                               /\ newRoots = {}
  /\ pc = "visit" => \A o \in listed : order[o] <= step
  /\ pc = "done" => /\ \A o \in listed : order[o] < step \/ ~Ordered(o)
                    /\ currentRoots = {}
                    /\ newRoots = {}

Closed == Walking => Acyclic /\ \A o \in listed : requires[o] \subseteq listed

IndInv == TypeOK /\ RequiredNotLater /\ Frontier /\ Bounded /\ Closed

-----------------------------------------------------------------------------

(* Init establishes the inductive invariant. *)
LEMMA InitInd == Init => IndInv
  BY DEF Init, IndInv, TypeOK, RequiredNotLater, Frontier, Bounded, Closed,
         Walking, Ordered, Unordered

(* The types are preserved by every action of the walk. *)
LEMMA TypeStep == IndInv /\ [Next]_vars => TypeOK'
<1> SUFFICES ASSUME IndInv, [Next]_vars PROVE TypeOK'
  OBVIOUS
<1> USE DEF IndInv, TypeOK
<1>1. ASSUME NEW r \in BOOLEAN, NewOperandDAG(r) PROVE TypeOK'
  BY <1>1 DEF NewOperandDAG, SourceVertices, graph
<1>2. ASSUME NEW c \in currentRoots, solveStep(c) PROVE TypeOK'
  BY <1>2 DEF solveStep, Successors, graph
<1>3. CASE solve
  BY <1>3 DEF solve, graph
<1>4. CASE UNCHANGED vars
  BY <1>4 DEF vars
<1> QED
  BY <1>1, <1>2, <1>3, <1>4 DEF Next, Terminated

(* One visit of solveStep: the frontier and the order stay right. *)
LEMMA VisitStep ==
  ASSUME IndInv, NEW c \in currentRoots, solveStep(c)
  PROVE  RequiredNotLater' /\ Frontier' /\ Bounded' /\ Closed'
<1> USE DEF IndInv, TypeOK, solveStep, graph
<1>0. c \in listed /\ c \in Operands /\ step \in Nat /\ Unordered \notin Nat
  BY DEF Unordered
<1>1. \A o \in Operands : Ordered(o) => order'[o] = order[o]
  BY <1>0 DEF Ordered
<1>2. \A o \in Operands : o # c => order'[o] = order[o]
  OBVIOUS
<1>3. ~Ordered(c) /\ satisfied(c) => order'[c] = step
  OBVIOUS
<1>4. ~(~Ordered(c) /\ satisfied(c)) => order' = order
  OBVIOUS
<1>5. RequiredNotLater'
  <2> SUFFICES ASSUME NEW o \in listed, Ordered(o)', NEW p \in requires[o]
               PROVE  Ordered(p)' /\ order'[p] <= order'[o]
    BY DEF RequiredNotLater
  <2>0. o \in Operands /\ p \in Operands
    OBVIOUS
  <2>1. CASE Ordered(o)
    <3>1. Ordered(p) /\ order[p] <= order[o]
      BY <2>1 DEF RequiredNotLater
    <3> QED
      BY <3>1, <2>1, <2>0, <1>1 DEF Ordered
  <2>2. CASE ~Ordered(o)
    <3>1. o = c /\ satisfied(c)
      BY <2>2, <2>0, <1>2, <1>4 DEF Ordered
    <3>2. Ordered(p)
      BY <3>1 DEF satisfied, Predecessors
    <3>3. order'[p] = order[p] /\ order'[o] = step
      BY <3>1, <3>2, <2>2, <2>0, <1>1, <1>3
    <3>4. p \in listed
      BY DEF Closed, Walking
    <3>5. order[p] <= step
      BY <3>4 DEF Bounded
    <3> QED
      BY <3>2, <3>3, <3>5 DEF Ordered
  <2> QED
    BY <2>1, <2>2
<1>6. Frontier'
  <2> SUFFICES ASSUME NEW o \in listed, ~Ordered(o)', satisfied(o)'
               PROVE  o \in currentRoots' \cup newRoots'
    BY DEF Frontier
  <2>0. o \in Operands
    OBVIOUS
  <2>1. ~Ordered(o)
    BY <2>0, <1>1 DEF Ordered
  <2>2. CASE satisfied(o)
    <3>1. o # c
      BY <2>1, <2>2, <1>3, <1>0 DEF Ordered
    <3> QED
      BY <3>1, <2>1, <2>2 DEF Frontier, Walking
  <2>3. CASE ~satisfied(o)
    <3>1. PICK p \in requires[o] : ~Ordered(p)
      BY <2>3 DEF satisfied, Predecessors
    <3>2. order'[p] # Unordered
      BY <3>1 DEF satisfied, Predecessors, Ordered
    <3>3. p = c
      BY <3>1, <3>2, <1>2, <2>0 DEF Ordered
    <3> QED
      BY <3>1, <3>3 DEF Successors
  <2> QED
    BY <2>2, <2>3
<1>7. Bounded'
  <2> SUFFICES ASSUME NEW o \in listed PROVE order'[o] <= step
    BY DEF Bounded
  <2>1. o \in Operands /\ order[o] <= step
    BY DEF Bounded
  <2> QED
    BY <2>1, <1>0, <1>2, <1>3, <1>4
<1>8. Closed'
  BY DEF Closed, Walking, Acyclic
<1> QED
  BY <1>5, <1>6, <1>7, <1>8

(* The start of the walk and the ends of its passes. *)
LEMMA OtherSteps ==
  ASSUME IndInv,
         (\E r \in BOOLEAN : NewOperandDAG(r)) \/ solve \/ UNCHANGED vars
  PROVE  RequiredNotLater' /\ Frontier' /\ Bounded' /\ Closed'
<1> USE DEF IndInv, TypeOK
<1>1. ASSUME NEW r \in BOOLEAN, NewOperandDAG(r)
      PROVE  RequiredNotLater' /\ Frontier' /\ Bounded' /\ Closed'
  <2> USE <1>1 DEF NewOperandDAG, graph
  <2>1. \A o \in listed : ~Ordered(o) /\ ~Ordered(o)'
    BY DEF Bounded, Ordered
  <2>2. RequiredNotLater'
    BY <2>1 DEF RequiredNotLater
  <2>3. Closed'
    BY DEF Closed, Walking, Acyclic
  <2>4. Bounded'
    <3>1. \A o \in listed : order[o] = Unordered
      BY <2>1 DEF Ordered
    <3>2. newRoots = {}
      <4>1. pc = "new"
        OBVIOUS
      <4> QED
        BY <4>1 DEF Bounded
    <3> QED
      BY <2>1, <3>1, <3>2 DEF Bounded, Unordered, Ordered, SourceVertices
  <2>5. Frontier'
    <3> SUFFICES ASSUME Walking', NEW o \in listed, satisfied(o)'
                 PROVE  o \in currentRoots' \cup newRoots'
      BY DEF Frontier
    <3>1. requires[o] \subseteq listed
      BY <2>3 DEF Closed
    <3>2. requires[o] = {}
      BY <3>1, <2>1 DEF satisfied, Predecessors, Ordered
    <3> QED
      BY <3>2 DEF SourceVertices, Walking
  <2> QED
    BY <2>2, <2>3, <2>4, <2>5
<1>2. CASE solve
  <2> USE <1>2 DEF solve, graph
  <2>1. RequiredNotLater'
    BY DEF RequiredNotLater, Ordered
  <2>2. Closed'
    BY DEF Closed, Walking, Acyclic
  <2>3. Bounded'
    BY DEF Bounded, Ordered, Unordered
  <2>4. Frontier'
    BY DEF Frontier, Walking, Ordered, satisfied, Predecessors
  <2> QED
    BY <2>1, <2>2, <2>3, <2>4
<1>3. CASE UNCHANGED vars
  BY <1>3 DEF vars, RequiredNotLater, Frontier, Bounded, Closed, Walking,
              Ordered, satisfied, Predecessors, Acyclic
<1> QED
  BY <1>1, <1>2, <1>3

(* The invariant is inductive. *)
LEMMA IndStep == IndInv /\ [Next]_vars => IndInv'
<1> SUFFICES ASSUME IndInv, [Next]_vars PROVE IndInv'
  OBVIOUS
<1>1. RequiredNotLater' /\ Frontier' /\ Bounded' /\ Closed'
  BY VisitStep, OtherSteps DEF Next, Terminated
<1> QED
  BY <1>1, TypeStep DEF IndInv

-----------------------------------------------------------------------------

(* The types of the walk's variables hold for every set of operands. *)
THEOREM TypeCorrect == Spec => []TypeOK
  BY InitInd, IndStep, PTL DEF Spec, IndInv

(* solve never gives an operand an earlier step than one it requires. *)
THEOREM RequiredNotLaterHolds == Spec => []RequiredNotLater
  BY InitInd, IndStep, PTL DEF Spec, IndInv

(* With no roots left, an acyclic graph has no operand without a step. *)
LEMMA DoneTotal == IndInv => OrderTotal
<1> SUFFICES ASSUME IndInv, pc = "done"
             PROVE  \A o \in listed : order[o] \in 0..(step - 1)
  BY DEF OrderTotal
<1> DEFINE left == {o \in listed : ~Ordered(o)}
<1>1. left = {}
  <2> SUFFICES ASSUME left # {} PROVE FALSE
    OBVIOUS
  <2>1. PICK o \in left : requires[o] \cap left = {}
    BY ZenonT(30) DEF IndInv, Closed, Walking, Acyclic
  <2>2. satisfied(o)
    BY <2>1 DEF IndInv, Closed, Walking, satisfied, Predecessors
  <2> QED
    BY <2>1, <2>2 DEF IndInv, Frontier, Bounded, Walking
<1> SUFFICES ASSUME NEW o \in listed PROVE order[o] \in 0..(step - 1)
  OBVIOUS
<1>2. Ordered(o) /\ order[o] < step
  BY <1>1 DEF IndInv, Bounded
<1>3. order[o] \in Nat /\ step \in Nat
  BY <1>2 DEF IndInv, TypeOK, Ordered
<1> QED
  BY <1>2, <1>3

(***************************************************************************)
(* When solve returns, every operand of the graph has a step inside the    *)
(* slice that Order allocates.                                             *)
(***************************************************************************)
THEOREM OrderTotalHolds == Spec => []OrderTotal
  BY DoneTotal, InitInd, IndStep, PTL DEF Spec

(***************************************************************************)
(* What Order returns after solve is what the executor counts on: a        *)
(* sequence of steps, no two of which share an operand, with all operands  *)
(* of the graph in them and no others.                                     *)
(***************************************************************************)
Partition ==
  pc = "done" =>
    /\ Order \in Seq(SUBSET listed)
    /\ \A j, k \in DOMAIN Order : j # k => Order[j] \cap Order[k] = {}
    /\ \A o \in listed : \E k \in DOMAIN Order : o \in Order[k]

(***************************************************************************)
(* The order of every acyclic graph partitions its operands, as            *)
(* OrdersAssumption asks of the orders that CompositeOperator runs.        *)
(***************************************************************************)
THEOREM PartitionHolds == Spec => []Partition
<1>1. IndInv => Partition
  <2> SUFFICES ASSUME IndInv, pc = "done"
               PROVE  /\ Order \in Seq(SUBSET listed)
                      /\ \A j, k \in DOMAIN Order : j # k => Order[j] \cap Order[k] = {}
                      /\ \A o \in listed : \E k \in DOMAIN Order : o \in Order[k]
    BY DEF Partition
  <2>1. step \in Nat /\ DOMAIN Order = 1..step
    BY DEF IndInv, TypeOK, Order
  <2>2. \A k \in 1..step : Order[k] = {o \in listed : order[o] = k - 1}
    BY DEF Order
  <2>3. Order \in [1..step -> SUBSET listed]
    BY DEF Order
  <2>4. Order \in Seq(SUBSET listed)
    BY <2>1, <2>3
  <2>5. \A j, k \in DOMAIN Order : j # k => Order[j] \cap Order[k] = {}
    BY <2>1, <2>2
  <2>6. ASSUME NEW o \in listed PROVE \E k \in DOMAIN Order : o \in Order[k]
    <3>1. order[o] \in 0..(step - 1)
      BY DoneTotal DEF OrderTotal
    <3>2. PICK k \in 1..step : order[o] = k - 1
      BY <2>1, <3>1
    <3> QED
      BY <2>1, <2>2, <3>2, ZenonT(30)
  <2> QED
    BY <2>4, <2>5, <2>6
<1> QED
  BY <1>1, InitInd, IndStep, PTL DEF Spec

(***************************************************************************)
(* solve never moves an operand: a step once in the map stays, though the  *)
(* operand may be a root of many later passes.                             *)
(***************************************************************************)
StepsFixed == [][\A o \in listed : Ordered(o) => order'[o] = order[o]]_vars

(* No visit of a root gives an operand another step than its first. *)
THEOREM StepsFixedHolds == Spec => StepsFixed
<1>1. IndInv /\ [Next]_vars => [\A o \in listed : Ordered(o) => order'[o] = order[o]]_vars
  <2> SUFFICES ASSUME IndInv, Next, NEW o \in listed, Ordered(o)
               PROVE  order'[o] = order[o]
    OBVIOUS
  <2>1. ASSUME NEW c \in currentRoots, solveStep(c) PROVE order'[o] = order[o]
    BY <2>1 DEF solveStep, IndInv, TypeOK
  <2> QED
    BY <2>1 DEF Next, NewOperandDAG, solve, Terminated, vars
<1> QED
  BY <1>1, InitInd, IndStep, PTL DEF Spec, StepsFixed
=============================================================================
