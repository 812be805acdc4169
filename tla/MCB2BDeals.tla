------------------------------ MODULE MCB2BDeals ------------------------------
(***************************************************************************)
(* An instance of B2BDeals for TLC: an order of two chunks, the second not *)
(* full, and a small one that shares a product with it.                    *)
(***************************************************************************)
EXTENDS B2BDeals, TLC

MCItems == <<<<"p1", "p2", "p1">>, <<"p2">>>>

Each == [k \in Disturbances |-> 1]
=============================================================================
