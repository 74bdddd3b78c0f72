----------------------------- MODULE OperandDAG -----------------------------
(***************************************************************************)
(* The relationship model of a composite operator, operator/v1/dag.        *)
(*                                                                         *)
(* NewOperandDAG turns the operands passed to NewCompositeOperator into a  *)
(* graph with an edge from each required operand to the operand requiring  *)
(* it; solve walks the graph breadth first and gives each operand the step *)
(* of the execution order in which it runs; Order turns that map into the  *)
(* list of steps the executor iterates over.                               *)
(*                                                                         *)
(* The graph itself is github.com/goombaio/dag, which is not part of the   *)
(* repository: the order in which it lists source vertices and successors  *)
(* is not relied on here, a pass of solveStep visits its roots in any      *)
(* order.                                                                  *)
(***************************************************************************)
EXTENDS Integers

CONSTANT Operands       \* names an operand can have or require

VARIABLES
  listed,               \* names of the operands given to NewOperandDAG
  requires,             \* requires[o]: what op.Requires() returns
  pc,                   \* "new", "visit" (in solve), "done" or "error"
  order,                \* solve's map from names to steps
  step,                 \* solve's step counter
  currentRoots,         \* roots of this pass that are still to be visited
  newRoots              \* roots collected for the next pass

graph == <<listed, requires>>
vars == <<listed, requires, pc, order, step, currentRoots, newRoots>>

Unordered == -1         \* order has no entry for the name

Predecessors(o) == requires[o]
Successors(o) == {s \in listed : o \in requires[s]}

SourceVertices == {o \in listed : requires[o] = {}}

(* Every non-empty set of operands has one that requires none of the set. *)
Acyclic ==
  \A S \in SUBSET listed :
    S # {} => \E o \in S : requires[o] \cap S = {}

Ordered(o) == order[o] # Unordered

-----------------------------------------------------------------------------

TypeOK ==
  /\ listed \subseteq Operands
  /\ requires \in [Operands -> SUBSET Operands]
  /\ pc \in {"new", "visit", "done", "error"}
  /\ order \in [Operands -> Nat \cup {Unordered}]
  /\ step \in Nat
  /\ currentRoots \subseteq listed
  /\ newRoots \subseteq listed

Init ==
  /\ listed \in SUBSET Operands
  /\ requires \in [Operands -> SUBSET Operands]
  /\ \A o \in Operands \ listed : requires[o] = {}
  /\ pc = "new"
  /\ order = [o \in Operands |-> Unordered]
  /\ step = 0
  /\ currentRoots = {}
  /\ newRoots = {}

(***************************************************************************)
(* NewOperandDAG, and the start of solve. AddVertex refuses a name that is *)
(* listed twice (repeated), GetVertex a requirement that is not listed;    *)
(* NewCompositeOperator counts on AddEdge for "not a proper DAG".          *)
(***************************************************************************)
NewOperandDAG(repeated) ==
  /\ pc = "new"
  /\ IF repeated \/ ~Acyclic \/ \E o \in listed : ~(requires[o] \subseteq listed)
     THEN /\ pc' = "error"
          /\ UNCHANGED currentRoots
     ELSE /\ pc' = IF SourceVertices = {} THEN "done" ELSE "visit"
          /\ currentRoots' = SourceVertices
  /\ UNCHANGED <<graph, order, step, newRoots>>

(* Mutant of satisfied: one ordered predecessor is enough. *)
SatisfiedByAny(c) == Predecessors(c) = {} \/ \E p \in Predecessors(c) : Ordered(p)

satisfied(c) == \A p \in Predecessors(c) : Ordered(p)

(* Mutant of solveStep: an operand that is not a source adds no successors. *)
solveStepSourcesOnly(c) ==
  /\ pc = "visit"
  /\ c \in currentRoots
  /\ order' = IF ~Ordered(c) /\ satisfied(c)
              THEN [order EXCEPT ![c] = step]
              ELSE order
  /\ newRoots' = newRoots \cup (IF Predecessors(c) = {} THEN Successors(c) ELSE {})
  /\ currentRoots' = currentRoots \ {c}
  /\ UNCHANGED <<graph, pc, step>>

(* Mutant of solveStep: a root that is not satisfied stays in this pass. *)
solveStepWaits(c) ==
  /\ pc = "visit"
  /\ c \in currentRoots
  /\ order' = IF ~Ordered(c) /\ satisfied(c)
              THEN [order EXCEPT ![c] = step]
              ELSE order
  /\ newRoots' = newRoots \cup Successors(c)
  /\ currentRoots' = IF satisfied(c) THEN currentRoots \ {c} ELSE currentRoots
  /\ UNCHANGED <<graph, pc, step>>

(***************************************************************************)
(* One iteration of solveStep's loop. order is the map being built: a      *)
(* predecessor that this same pass has just ordered already satisfies c.   *)
(***************************************************************************)
solveStep(c) ==
  /\ pc = "visit"
  /\ c \in currentRoots
  /\ order' = IF ~Ordered(c) /\ satisfied(c)
              THEN [order EXCEPT ![c] = step]
              ELSE order
  /\ newRoots' = newRoots \cup Successors(c)
  /\ currentRoots' = currentRoots \ {c}
  /\ UNCHANGED <<graph, pc, step>>

(* The end of a pass, in solve: go on while there are new roots. *)
solve ==
  /\ pc = "visit"
  /\ currentRoots = {}
  /\ step' = step + 1
  /\ currentRoots' = newRoots
  /\ newRoots' = {}
  /\ pc' = IF newRoots = {} THEN "done" ELSE "visit"
  /\ UNCHANGED <<graph, order>>

Terminated == pc \in {"done", "error"} /\ UNCHANGED vars

Next ==
  \/ \E repeated \in BOOLEAN : NewOperandDAG(repeated)
  \/ \E c \in currentRoots : solveStep(c)
  \/ solve
  \/ Terminated

Spec == Init /\ [][Next]_vars

(* The walk is a sequential computation: it goes on until it is over. *)
FairSpec == Spec /\ WF_vars(Next)

(* Order: the operands of each step; step 0 of the code is Order[1]. *)
Order == [s \in 1..step |-> {o \in listed : order[o] = s - 1}]

-----------------------------------------------------------------------------

(***************************************************************************)
(* No operand gets an earlier step than one it requires, at any moment of  *)
(* the walk: what solveStep puts in the map is closed under Requires.      *)
(***************************************************************************)
RequiredNotLater ==
  \A o \in listed : Ordered(o) =>
    \A p \in requires[o] : Ordered(p) /\ order[p] <= order[o]

(***************************************************************************)
(* When solve returns, every listed operand has a step, and the step is an *)
(* index of the slice Order allocates: no operand of an acyclic graph is   *)
(* forgotten however solveStep's passes visit it.                          *)
(***************************************************************************)
OrderTotal ==
  pc = "done" => \A o \in listed : order[o] \in 0..(step - 1)

(* The walk of solve ends, with an order or with an error. *)
OrderTerminates == <>(pc \in {"done", "error"})

(***************************************************************************)
(* An operand runs in a later step than every operand it requires: "Ensure *)
(* ... runs all the operands, in the order of their dependencies"          *)
(* (composite_operator.go), the operands of one step "can be run in        *)
(* parallel" (order.go).                                                   *)
(***************************************************************************)
RequiredEarlier ==
  pc = "done" => \A o \in listed : \A p \in requires[o] : order[p] < order[o]
=============================================================================
