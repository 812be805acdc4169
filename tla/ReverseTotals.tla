--------------------------- MODULE ReverseTotals ---------------------------
(***************************************************************************)
(* What webhooks do to the money of one OpenCart order.  Each rebuilds the *)
(* order_product and order_total rows from the subform Zoho sends and from *)
(* the rows the previous webhook left (computeReverseTotals): so an error  *)
(* is fed back into every later update.                                    *)
(*                                                                         *)
(* Payload amounts and order_total rows are in cents; OpenCart's unit      *)
(* prices and taxes, kept to 4 decimals, are in mils (100 mils = 1 cent).  *)
(***************************************************************************)
EXTENDS Integers, FiniteSetsExt

CONSTANTS
  Products,     \* Zoho ids of products
  Present,      \* codes this order has an order_total row for
  Stored,       \* orders as the shop wrote them: [lines, rows]
  Payloads,     \* webhooks, merged by product: [items, ship, grand]
  Vat           \* VAT rate of the catalogue, percent

Codes == {"sub_total", "tax", "discount", "shipping", "coupon", "total"}

Line == [product : Products, qty : Nat \ {0}, price : Nat, tax : Nat]
Item == [qty : Nat \ {0}, price : Nat, total : Nat]

ASSUME PresentAssumption == Present \subseteq STRING /\ Vat \in Nat

ASSUME StoredAssumption ==
  \A s \in Stored : /\ IsFiniteSet(DOMAIN s.lines) /\ \A k \in DOMAIN s.lines : s.lines[k] \in Line
                    /\ DOMAIN s.rows = Present
                    /\ \A c \in Present : s.rows[c] \in Int

ASSUME PayloadsAssumption ==
  \A h \in Payloads : /\ DOMAIN h.items \subseteq Products
                      /\ \A p \in DOMAIN h.items : h.items[p] \in Item
                      /\ h.ship \in Nat /\ h.grand \in Nat \ {0}

VARIABLES
  lines,        \* order_product rows by key; a product may have several
  rows,         \* order_total values by code
  pc,           \* "idle", or "lines" while computeReverseTotals runs
  hook,         \* the webhook being applied
  rate,         \* VAT rate taken from the stored order, num / den
  acc,          \* running sums: paid prices (mils), Zoho line totals (cents)
  built,        \* order_product rows built so far, one to a product
  left          \* subform lines still to be looked at

vars == <<lines, rows, pc, hook, rate, acc, built, left>>

-----------------------------------------------------------------------------
(* num / den rounded half up, as math.Round does on amounts that are not negative *)
Rounded(num, den) == (2 * num + den) \div (2 * den)

Cents(mils) == Rounded(mils, 100)

RowValue(c) == IF c \in Present THEN rows[c] ELSE 0

(* VatRate: a line that carries price and tax, else the rows, else no VAT.    *)
LineRates == {[num |-> lines[p].tax, den |-> lines[p].price] :
                p \in {q \in DOMAIN lines : lines[q].price > 0 /\ lines[q].tax > 0}}

VatRates ==
  IF LineRates # {} THEN LineRates
  ELSE IF RowValue("tax") > 0 /\ RowValue("sub_total") > 0
    THEN {[num |-> RowValue("tax"), den |-> RowValue("sub_total")]}
    ELSE {[num |-> 0, den |-> 1]}

(* The rows of some products in a table, and what a figure of rows comes to.  *)
RowsOf(P, table) == {i \in DOMAIN table : table[i].product \in P}

SumOf(Value(_), table, places) == MapThenSumSet(LAMBDA i : Value(table[i]), places)

Qty(row) == row.qty

(* The subform holds the products of the order in the same quantities, those  *)
(* of the rows of one product taken together.                                 *)
ItemsUnchanged(items) ==
  /\ DOMAIN items = {lines[k].product : k \in DOMAIN lines}
  /\ \A p \in DOMAIN items : items[p].qty = SumOf(Qty, lines, RowsOf({p}, lines))

(* Mutant: the list price Zoho sends. *)
ListUnits(p) == {hook.items[p].price}

(* The price actually paid, where the order knows the product: of several     *)
(* rows the last one read, and the query states no order (statements.go:208). *)
PaidUnits(p) ==
  LET prices == {lines[k].price : k \in RowsOf({p}, lines)} \ {0}
  IN  IF prices = {} THEN {hook.items[p].price} ELSE prices

(* Mutant: the convention of the sign forgotten. *)
SplitUnsigned(reduction) == [coupon |-> reduction, discount |-> 0]

(* The reduction, divided as the stored rows were: [coupon, discount].        *)
SplitReductions(reduction) ==
  LET Abs(n) == IF n < 0 THEN -n ELSE n
      coupon == Abs(RowValue("coupon"))
      discount == Abs(RowValue("discount"))
      part == Rounded(reduction * coupon, coupon + discount)
  IN  IF reduction <= 0 \/ coupon + discount = 0 THEN [coupon |-> 0, discount |-> 0]
      ELSE IF discount = 0 THEN [coupon |-> -reduction, discount |-> 0]
      ELSE IF coupon = 0 THEN [coupon |-> 0, discount |-> -reduction]
      ELSE [coupon |-> -part, discount |-> -(reduction - part)]

(* Mutant: the cents of a small gap are nobody's. *)
TotalsWithoutResidue ==
  LET items == Cents(acc.paid)
      lineTax == Rounded(acc.net * rate.num, rate.den)
      gap == items + hook.ship + lineTax - hook.grand
      split == SplitReductions(IF gap <= 1 THEN 0 ELSE gap)
  IN  [sub_total |-> items, tax |-> lineTax, discount |-> split.discount,
       shipping |-> hook.ship, coupon |-> split.coupon, total |-> hook.grand]

(* The order_total values computed from the sums. *)
Totals ==
  LET items == Cents(acc.paid)
      lineTax == Rounded(acc.net * rate.num, rate.den)
      gap == items + hook.ship + lineTax - hook.grand
      reduction == IF gap <= 1 THEN 0 ELSE gap
      tax == IF gap <= 1 THEN hook.grand - items - hook.ship ELSE lineTax
      split == SplitReductions(reduction)
  IN  [sub_total |-> items, tax |-> tax, discount |-> split.discount,
       shipping |-> hook.ship, coupon |-> split.coupon, total |-> hook.grand]

-----------------------------------------------------------------------------
NoHook == [items |-> <<>>, ship |-> 0, grand |-> 1]
NoRate == [num |-> 0, den |-> 1]
NoSums == [paid |-> 0, net |-> 0]
NoLines == [p \in {} |-> 0]

Init ==
  /\ \E s \in Stored : lines = s.lines /\ rows = s.rows
  /\ pc = "idle" /\ hook = NoHook /\ rate = NoRate /\ acc = NoSums
  /\ built = NoLines /\ left = {}

(* A webhook whose subform is unchanged leaves items and totals alone. *)
Receive(h) ==
  /\ pc = "idle" /\ ~ItemsUnchanged(h.items)
  /\ hook' = h /\ left' = DOMAIN h.items
  /\ \E r \in VatRates : rate' = r
  /\ pc' = "lines"
  /\ UNCHANGED <<lines, rows, acc, built>>

(* One turn of the loop over the subform lines. *)
AddLine(p) ==
  LET it == hook.items[p] IN
  /\ p \in left
  /\ left' = left \ {p}
  /\ \E paid \in PaidUnits(p) :
       /\ acc' = [paid |-> acc.paid + paid * it.qty, net |-> acc.net + it.total]
       /\ built' = [q \in DOMAIN built \cup {p} |->
                      IF q # p THEN built[q]
                      ELSE [product |-> p, qty |-> it.qty, price |-> 100 * Cents(paid),
                            tax |-> 100 * Rounded(paid * rate.num, 100 * rate.den)]]
  /\ UNCHANGED <<lines, rows, pc, hook, rate>>

Done == /\ pc = "lines" /\ left = {}
        /\ pc' = "idle" /\ hook' = NoHook /\ rate' = NoRate
        /\ acc' = NoSums /\ built' = NoLines /\ UNCHANGED left

(* UpdateOrderWithTransaction: every row is reset, then those there are are set. *)
Commit ==
  /\ Done
  /\ lines' = built
  /\ rows' = [c \in Present |-> IF c \in Codes THEN Totals[c] ELSE 0]

(* The transaction fails: nothing happened. *)
Rollback == Done /\ UNCHANGED <<lines, rows>>

Next == (\E h \in Payloads : Receive(h)) \/ (\E p \in left : AddLine(p)) \/ Commit \/ Rollback

Spec == Init /\ [][Next]_vars

-----------------------------------------------------------------------------
(* The amounts stay amounts: unit prices and quantities natural, rows whole   *)
(* cents, and what is built so far is a part of the webhook.                  *)
TypeOK ==
  /\ \A k \in DOMAIN lines : lines[k] \in Line
  /\ DOMAIN rows = Present /\ \A c \in Present : rows[c] \in Int
  /\ pc \in {"idle", "lines"}
  /\ DOMAIN hook.items \subseteq Products /\ \A p \in DOMAIN hook.items : hook.items[p] \in Item
  /\ hook.ship \in Nat /\ hook.grand \in Nat \ {0}
  /\ rate.num \in Nat /\ rate.den \in Nat \ {0}
  /\ acc.paid \in Nat /\ acc.net \in Nat
  /\ DOMAIN built \subseteq Products /\ \A p \in DOMAIN built : built[p] \in Line
  /\ left \subseteq DOMAIN hook.items
  /\ pc = "lines" => DOMAIN built = DOMAIN hook.items \ left

(* What the rows of the order add up to. *)
RowSum == RowValue("sub_total") + RowValue("tax") + RowValue("discount")
            + RowValue("shipping") + RowValue("coupon")

RowsSum == RowSum = RowValue("total")

(* "The rows always sum to the grand total", says computeReverseTotals.  They *)
(* do as long as the order still has a coupon or discount to book a reduction *)
(* on; without one they exceed it, and never fall short of it.                *)
RowsReconcile ==
  [][rows' # rows => \/ RowsSum'
                     \/ /\ RowValue("coupon") = 0 /\ RowValue("discount") = 0
                        /\ RowSum' > RowValue("total")']_rows

(* No row has the wrong sign by more than the cent a rounding leaves: a       *)
(* reduction never raises the price, VAT and carriage never lower it.         *)
SignsKept ==
  /\ RowValue("coupon") <= 0 /\ RowValue("discount") <= 0
  /\ RowValue("tax") >= -1 /\ RowValue("shipping") >= 0

(* The price the customer paid survives every edit of the subform, whatever   *)
(* list price Zoho sends: a row of a product sold at a price has, but for its *)
(* rounding to cents, a price that product was sold at.  Rows of one product  *)
(* at several prices become one row, at whichever of them was read last.      *)
PaidPriceKept ==
  [][\A k \in DOMAIN lines' :
       LET sold == {q \in RowsOf({lines'[k].product}, lines) : lines[q].price > 0}
       IN  sold # {} => \E q \in sold : /\ lines'[k].price <= lines[q].price + 50
                                        /\ lines'[k].price >= lines[q].price - 50]_lines

=============================================================================
