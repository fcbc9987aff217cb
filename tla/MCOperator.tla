----------------------------- MODULE MCOperator -----------------------------
(***************************************************************************)
(* A small instance of Operator.                                           *)
(***************************************************************************)
EXTENDS Operator

From(gen, mode, battery, told, kinds) ==
  [gen |-> gen, mode |-> mode, battery |-> battery, told |-> told, faults |-> kinds]

\* A rollout in either mode; a battery that fell below the low threshold; one that
\* recovered just when the thresholds changed.
MCStarts ==
  {From(1, Local, High, TRUE, {"source", "answer", "publish", "operator", "loss", "report"}),
   From(1, Edge, Low, TRUE, {"answer", "publish", "host", "report"}),
   From(2, Local, Low, TRUE, {"source", "publish", "conflict", "report"}),
   From(2, Edge, High, FALSE, {"operator", "loss", "conflict", "report"})}

\* A rollout to a device whose battery is low: it is paused until it can move.
LowStart == {From(1, Local, Low, TRUE, {"loss"})}
=============================================================================
