--------------------------- MODULE MCOrderVersions ---------------------------
(***************************************************************************)
(* An instance of OrderVersions for TLC: three savers and the cleanup.     *)
(***************************************************************************)
EXTENDS OrderVersions, TLC

SaverSymmetry == Permutations(Savers)

FullBudget == [k \in Disturbances |-> 1]
=============================================================================
