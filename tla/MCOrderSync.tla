---------------------------- MODULE MCOrderSync ----------------------------
(***************************************************************************)
(* Instances of OrderSync for TLC.  Order 1 can never be synced (a product *)
(* without UID), and in OrderSync_race order 2 is refused every time; the  *)
(* other ordinary orders are healthy, order 3 belongs to a wholesale group.*)
(* p1 is the product whose Zoho id must first be fetched.  Status 7        *)
(* (canceled) is polled by nobody.                                         *)
(***************************************************************************)
EXTENDS OrderSync, TLC

MCLines == [o \in Orders |-> IF o = 1 THEN {"p0"} ELSE {"p1"}]

None == [k \in Disturbances |-> 0]

RestartBudget == [None EXCEPT !["crash"] = 2, !["wf"] = 2, !["age"] = 2]
RaceBudget    == [None EXCEPT !["fault"] = 2, !["crash"] = 1, !["push"] = 2,
                              !["move"] = 1, !["wf"] = 1, !["delete"] = 1, !["age"] = 1]
=============================================================================
