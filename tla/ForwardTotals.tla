--------------------------- MODULE ForwardTotals ---------------------------
(***************************************************************************)
(* The figures of a Sales Order: what buildZohoOrder works out of the rows *)
(* of an OpenCart order, what Zoho makes of them, and the payload in which *)
(* they come back to ReverseTotals.                                        *)
(*                                                                         *)
(* Prices are in mils, totals in cents.  A line discount has 2 decimals of *)
(* a percent (10000 = 100 %), the discount of the order 4.                 *)
(***************************************************************************)
EXTENDS ReverseTotals, SequencesExt

CONSTANTS
  MasterPrice,  \* catalogue prices by product
  Carriage,     \* the product that stands for shipping in Zoho, never taxed
  ChunkSize     \* rows sent with an order; those beyond are never sent

ASSUME ForwardAssumption ==
  /\ MasterPrice \in [Products -> Nat] /\ Carriage \notin Products
  /\ ChunkSize \in Nat \ {0}

-----------------------------------------------------------------------------
(* n / d to 6 decimals, half up; digit by digit, to stay within 32 bits. *)
Quotient(n, d) ==
  LET digit[i \in 0..6] ==
        LET r == IF i = 0 THEN n ELSE 10 * digit[i-1].rest
        IN  [quot |-> (IF i = 0 THEN 0 ELSE 10 * digit[i-1].quot) + r \div d, rest |-> r % d]
  IN  digit[6].quot + (IF 2 * digit[6].rest >= d THEN 1 ELSE 0)

(* Mutant: the products are taken to have paid for the carriage too. *)
ChargedWithCarriage(r) == RowValue("total") * r.den

(* The net worth of the products as the charge gives it, and undiscounted,    *)
(* both times 1 + rate.                                                       *)
Charged(r) == (RowValue("total") - RowValue("shipping")) * r.den
Undiscounted(r) == RowValue("sub_total") * (r.num + r.den)

(* The discount before the fix: the lines gave up the VAT on the carriage too. *)
DiscountWithCarriage(r) ==
  LET charged == RowValue("total") * r.den - RowValue("shipping") * (r.num + r.den)
  IN  IF RowValue("sub_total") <= 0 \/ charged >= Undiscounted(r) THEN 0
      ELSE Quotient(Undiscounted(r) - charged, Undiscounted(r))

(* discountP: the share of the sub total that was not charged. *)
OrderDiscount(r) ==
  IF RowValue("sub_total") <= 0 \/ Charged(r) >= Undiscounted(r) THEN 0
  ELSE Quotient(Undiscounted(r) - Charged(r), Undiscounted(r))

(* price less discount, in hundredths of a mil *)
NetUnit(price, discount) ==
  LET kept == 1000000 - discount
  IN  price * (kept \div 10000) + Rounded(price * (kept % 10000), 10000)

(* buildOrderedItem: one discount from the list price, which is adjusted to   *)
(* make good what the 2 decimals of the discount cannot say.                  *)
OrderedItem(product, qty, price, master, discount) ==
  LET net == NetUnit(price, discount)
      list == IF master > price THEN master ELSE price
      disc == IF list > 0 THEN Rounded(100 * (100 * list - net), list) ELSE 0
  IN  [product |-> product, qty |-> qty, disc |-> disc,
       list |-> IF disc < 10000 THEN Rounded(100 * net, 10000 - disc) ELSE list]

(* The whole subform for a discount of the order: lines, then the carriage.   *)
ItemsAt(discount) ==
  LET line(k) == OrderedItem(lines[k].product, lines[k].qty, lines[k].price,
                             MasterPrice[lines[k].product], discount)
      order == SetToSeq(DOMAIN lines)
      ship == RowValue("shipping")
  IN  [i \in DOMAIN order |-> line(order[i])]
        \o IF ship > 0 THEN <<OrderedItem(Carriage, 1, 100 * ship, 0, 0)>> ELSE <<>>

AllItems(r) == ItemsAt(OrderDiscount(r))

FirstChunk(items) == SubSeq(items, 1, IF Len(items) < ChunkSize THEN Len(items) ELSE ChunkSize)

(* The VAT field: a whole percent. *)
VatPercent(r) == Rounded(100 * r.num, r.den)

-----------------------------------------------------------------------------
(* Zoho *)

(* The total of a subform row in mils, which Zoho works out itself. *)
RowTotal(row) == (row.list * row.qty * (10000 - row.disc) + 5000) \div 10000

(* Grand_Total: taxed products, and the carriage at face value. *)
GrandTotal(subform, vat) ==
  Rounded(SumOf(RowTotal, subform, RowsOf(Products, subform)) * (100 + vat)
            + 100 * SumOf(RowTotal, subform, RowsOf({Carriage}, subform)), 10000)

(* Rows of one product merged, as mergeItemsByZohoID does. *)
Merged(p, subform) ==
  LET own == RowsOf({p}, subform)
      qty == SumOf(Qty, subform, own)
      total == SumOf(RowTotal, subform, own)
      only == CHOOSE i \in own : TRUE
  IN  [qty |-> qty, total |-> Cents(total),
       price |-> IF own = {only} THEN subform[only].list ELSE Rounded(total, qty)]

ItemsOf(subform) ==
  [p \in {subform[i].product : i \in DOMAIN subform} \ {Carriage} |-> Merged(p, subform)]

(* What the validator of the webhook lets through: amounts above nothing.      *)
Valid(subform, vat) ==
  /\ GrandTotal(subform, vat) > 0
  /\ \A i \in DOMAIN subform : subform[i].list > 0 /\ RowTotal(subform[i]) > 0

Payload(subform, vat, time) ==
  [items |-> ItemsOf(subform), grand |-> GrandTotal(subform, vat), time |-> time,
   valid |-> Valid(subform, vat),
   ship |-> Cents(SumOf(RowTotal, subform, RowsOf({Carriage}, subform)))]

=============================================================================
