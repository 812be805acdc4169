--------------------------- MODULE MCCustomerSync ---------------------------
(***************************************************************************)
(* Instances of CustomerSync for TLC.  Customer 1 has no address at all;   *)
(* 3 shares an email with 2 and a phone with 4, so that it can match two   *)
(* contacts; 2 has a name to lose to the others, who have none.            *)
(***************************************************************************)
EXTENDS CustomerSync

MCEmail == [c \in Customers |-> CASE c \in {2, 3} -> "a@x" [] OTHER -> ""]
MCPhone == [c \in Customers |-> CASE c = 2 -> "111" [] c \in {3, 4} -> "222" [] OTHER -> ""]
MCName  == [c \in Customers |-> IF c = 2 THEN "Anna" ELSE ""]

AllKinds == [k \in Disturbances |-> 2]
=============================================================================
