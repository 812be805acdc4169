---------------------------- MODULE MCReverseSync ----------------------------
(***************************************************************************)
(* Instances of ReverseSync for TLC.  Status 1 is the one pushes write; a  *)
(* Sales Order may also carry "odd", a name Core.statuses does not know.   *)
(***************************************************************************)
EXTENDS ReverseSync, TLC

MCStatusOf == [n \in Names \cap {"new", "paid"} |-> IF n = "new" THEN 1 ELSE 2]

None == [k \in Disturbances |-> 0]

SerialBudget   == [None EXCEPT !["fault"] = 1, !["crash"] = 1, !["again"] = 1, !["move"] = 1]
ParallelBudget == [k \in Disturbances |-> 1]
=============================================================================
