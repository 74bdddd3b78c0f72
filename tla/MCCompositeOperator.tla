------------------------ MODULE MCCompositeOperator ------------------------
(***************************************************************************)
(* CompositeOperator for TLC. MCOrders has an order of every shape that    *)
(* OperandDAG computes for up to three operands: no, one, two and three    *)
(* steps, steps of several operands, an empty last step (which a walk      *)
(* leaves behind that ordered an operand and its successor in one pass).   *)
(***************************************************************************)
EXTENDS CompositeOperator

CONSTANTS a, b, c

MCOrders ==
  { <<>>,
    <<{a}>>, <<{a, b}>>,
    <<{a}, {b}>>, <<{a}, {b, c}>>, <<{a, b}, {c}>>,
    <<{a}, {b}, {c}>>, <<{a}, {b, c}, {}>> }
=============================================================================
