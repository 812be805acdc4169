---------------------------- MODULE MCBackfill ----------------------------
(***************************************************************************)
(* Instances of Backfill for TLC.  Product a was sold at 1.3549 while its  *)
(* list price is 1.50, and in one order a second time, as row a2, at 1.20; *)
(* b is cheap enough for the cents of its VAT to matter.                   *)
(***************************************************************************)
EXTENDS Backfill

MCMaster == [p \in Products |-> IF p = "a" THEN 15000 ELSE 1000]

ProductAt(k) == IF k = "a2" THEN "a" ELSE k
PaidAt(k) == CASE k = "a" -> 13549 [] k = "a2" -> 12000 [] k = "b" -> 1000

LineAt(k, q) ==
  [product |-> ProductAt(k), qty |-> q, price |-> PaidAt(k), tax |-> (PaidAt(k) * Vat) \div 100]

(* A stored order of q pieces in each row of K, with the totals of an         *)
(* OpenCart that applies coupon c and discount d before tax.                  *)
Order(K, q, c, d, ship) ==
  LET sub == Cents(MapThenSumSet(LAMBDA k : q * PaidAt(k), K))
      vat == Rounded((sub - c - d) * Vat, 100)
      all == [sub_total |-> sub, tax |-> vat, discount |-> -d, shipping |-> ship,
              coupon |-> -c, total |-> sub + vat - c - d + ship, voucher |-> 0]
  IN  [lines |-> [k \in K |-> LineAt(k, q)], rows |-> [code \in Present |-> all[code]]]

MCStored == {Order({"a", "b"}, 1, 0, 0, 0), Order({"a", "b"}, 1, 20, 0, 0),
             Order({"a"}, 1, 20, 0, 399), Order({"a"}, 2, 20, 15, 0),
             Order({"a", "b"}, 1, 0, 15, 399), Order({"a", "a2"}, 1, 20, 0, 0)}

None == [k \in Kinds |-> 0]
EditBudget == [None EXCEPT !["edit"] = 2, !["push"] = 1, !["run"] = 1, !["fault"] = 1]
OnePush == [None EXCEPT !["push"] = 1]
=============================================================================
