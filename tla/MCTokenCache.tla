------------------------------ MODULE MCTokenCache ------------------------------
(***************************************************************************)
(* An instance of TokenCache for TLC: the poller and a handler, a token    *)
(* that lives three ticks, and every disturbance once, two in all.         *)
(***************************************************************************)
EXTENDS TokenCache, TLC

Each == [k \in Disturbances |-> IF k = "failed" THEN 2 ELSE 1]
=============================================================================
