------------------------------ MODULE MCLifecycle ------------------------------
(***************************************************************************)
(* An instance of Lifecycle for TLC: two requests and one loop.  Requests  *)
(* and one abandoned transaction can hold three connections; the pool has  *)
(* one more.                                                               *)
(***************************************************************************)
EXTENDS Lifecycle
=============================================================================
