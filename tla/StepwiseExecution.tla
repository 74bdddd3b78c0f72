------------------------- MODULE StepwiseExecution -------------------------
(***************************************************************************)
(* What running operands step by step promises, whatever the execution     *)
(* strategy, the requeue strategies and the failures of operands: operands *)
(* complete step after step, and a call that asks for no requeue and       *)
(* returns no error has completed every operand of every step.             *)
(***************************************************************************)
EXTENDS Naturals, Sequences

CONSTANT Operands

VARIABLES
  run,                  \* the steps of the call: a sequence of sets
  active,               \* a call is in progress
  completed,            \* operands the call has completed
  clean                 \* the last call returned no error and no requeue

vars == <<run, active, completed, clean>>

Before(k) == UNION {run[j] : j \in 1..(k - 1)}
All == UNION {run[j] : j \in DOMAIN run}

Init ==
  /\ run \in Seq(SUBSET Operands)
  /\ active = FALSE
  /\ completed = {}
  /\ clean = FALSE

Begin ==
  /\ ~active
  /\ active' = TRUE
  /\ run' \in Seq(SUBSET Operands)
  /\ completed' = {}
  /\ clean' = FALSE

(* An operand completes when every operand of every earlier step has. *)
Complete(k) ==
  /\ active
  /\ Before(k) \subseteq completed
  /\ \E o \in run[k] \ completed : completed' = completed \cup {o}
  /\ UNCHANGED <<run, active, clean>>

Return ==
  /\ active
  /\ active' = FALSE
  /\ clean' \in {FALSE, All \subseteq completed}
  /\ UNCHANGED <<run, completed>>

(* A call of a suspended operator runs nothing and promises nothing. *)
Skip ==
  /\ ~active
  /\ clean' = FALSE
  /\ UNCHANGED <<run, active, completed>>

Next ==
  \/ Begin
  \/ Skip
  \/ \E k \in DOMAIN run : Complete(k)
  \/ Return

Spec == Init /\ [][Next]_vars
=============================================================================
