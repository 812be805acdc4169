--------------------------- MODULE Backfill_proofs ---------------------------
(***************************************************************************)
(* Proofs about the money of an order, for every set of products, stored   *)
(* orders and webhooks, and everything a manager may set: what webhooks do *)
(* to its rows (ReverseTotals); that order and Sales Order hold the same   *)
(* products in the same quantities, through edits, webhooks and runs of    *)
(* the backfill, for orders that fit a chunk; and that the Sales Order     *)
(* asks for what the customer was charged (WorthCharged).                  *)
(***************************************************************************)
EXTENDS Backfill, FiniteSetTheorems, SequenceTheorems, WellFoundedInduction, TLAPS

-----------------------------------------------------------------------------
(* Rounding. *)

(* What a natural quotient is: the products and the remainder. *)
LEMMA QuotientBounds ==
  ASSUME NEW n \in Nat, NEW d \in Nat \ {0}
  PROVE  /\ n \div d \in Nat
         /\ d * (n \div d) <= n
         /\ n < d * (n \div d) + d
BY Z3

(* A rounded ratio of naturals is a natural. *)
LEMMA RoundedNat ==
  ASSUME NEW num \in Nat, NEW den \in Nat \ {0}
  PROVE  Rounded(num, den) \in Nat
<1>1. 2 * num + den \in Nat /\ 2 * den \in Nat \ {0}
  OBVIOUS
<1> QED BY <1>1, QuotientBounds DEF Rounded

(* A part of an amount, rounded, is at most the amount. *)
LEMMA PartIsPart ==
  ASSUME NEW r \in Nat, NEW c \in Nat, NEW d \in Nat, c + d > 0
  PROVE  Rounded(r * c, c + d) \in 0..r
<1> DEFINE n == 2 * (r * c) + (c + d)
           m == 2 * (c + d)
           q == n \div m
<1>1. r * c \in Nat /\ r * d \in Nat
  OBVIOUS
<1>2. n \in Nat /\ m \in Nat \ {0}
  BY <1>1
<1>3. q \in Nat /\ m * q <= n
  BY <1>2, QuotientBounds
<1>4. m * (r + 1) = 2 * (r * c) + 2 * (r * d) + 2 * (c + d)
  BY <1>1
<1>5. n < m * (r + 1)
  BY <1>1, <1>4
<1>6. q <= r
  <2>1. SUFFICES ASSUME q >= r + 1 PROVE FALSE
    BY <1>3
  <2>2. m * q >= m * (r + 1)
    BY <1>2, <1>3, <2>1
  <2> QED BY <1>2, <1>3, <1>5, <2>2
<1> QED BY <1>3, <1>6 DEF Rounded

(* A price in cents is at most half a cent off. *)
LEMMA CentsClose ==
  ASSUME NEW m \in Nat
  PROVE  /\ Cents(m) \in Nat
         /\ 100 * Cents(m) <= m + 50
         /\ m <= 100 * Cents(m) + 50
<1> DEFINE q == (2 * m + 100) \div 200
<1>1. q \in Nat /\ 200 * q <= 2 * m + 100 /\ 2 * m + 100 < 200 * q + 200
  <2>1. 2 * m + 100 \in Nat /\ 200 \in Nat \ {0}
    OBVIOUS
  <2> QED BY <2>1, QuotientBounds
<1>2. Cents(m) = q
  BY DEF Cents, Rounded
<1> QED BY <1>1, <1>2

-----------------------------------------------------------------------------
(* Types. *)

(* Between webhooks nothing is half built. *)
Rested == pc = "idle" => DOMAIN built = {} /\ left = {}

LEMMA NoLinesType == DOMAIN NoLines = {} /\ DOMAIN NoHook.items = {}
BY DEF NoLines, NoHook

LEMMA RowValueInt ==
  ASSUME TypeOK, NEW c PROVE RowValue(c) \in Int
BY DEF TypeOK, RowValue

(* Whichever line or row the rate is taken from, it is a ratio of amounts.    *)
LEMMA RateType ==
  ASSUME TypeOK, NEW r \in VatRates
  PROVE  r.num \in Nat /\ r.den \in Nat \ {0}
<1>1. CASE r \in LineRates
  <2>1. PICK p \in DOMAIN lines : /\ lines[p].price > 0
                                  /\ r = [num |-> lines[p].tax, den |-> lines[p].price]
    BY <1>1 DEF LineRates
  <2>2. lines[p] \in Line
    BY <2>1 DEF TypeOK
  <2> QED BY <2>1, <2>2 DEF Line
<1>2. CASE r \notin LineRates
  <2>1. RowValue("tax") \in Int /\ RowValue("sub_total") \in Int
    BY RowValueInt
  <2>2. \/ /\ RowValue("tax") > 0 /\ RowValue("sub_total") > 0
           /\ r = [num |-> RowValue("tax"), den |-> RowValue("sub_total")]
        \/ r = [num |-> 0, den |-> 1]
    BY <1>2 DEF VatRates
  <2> QED BY <2>1, <2>2
<1> QED BY <1>1, <1>2

(* The price a product goes at is an amount: one it was sold at, or its list  *)
(* price.                                                                     *)
LEMMA PaidUnitsType ==
  ASSUME TypeOK, NEW p \in left, NEW paid \in PaidUnits(p)
  PROVE  paid \in Nat /\ hook.items[p] \in Item /\ p \in Products
<1>1. p \in DOMAIN hook.items /\ hook.items[p] \in Item /\ p \in Products
  BY DEF TypeOK
<1>2. \A k \in DOMAIN lines : lines[k].price \in Nat
  BY DEF TypeOK, Line
<1>3. paid = hook.items[p].price \/ \E k \in DOMAIN lines : paid = lines[k].price
  BY DEF PaidUnits, RowsOf
<1> QED BY <1>1, <1>2, <1>3 DEF Item

(* The sums the totals are computed from, once for all the theorems.          *)
Items   == Cents(acc.paid)
LineTax == Rounded(acc.net * rate.num, rate.den)
Gap     == Items + hook.ship + LineTax - hook.grand

LEMMA SumsType ==
  ASSUME TypeOK
  PROVE  /\ Items \in Nat /\ LineTax \in Nat /\ Gap \in Int
         /\ hook.ship \in Nat /\ hook.grand \in Nat
<1>1. acc.paid \in Nat /\ hook.ship \in Nat /\ hook.grand \in Nat
  BY DEF TypeOK
<1>2. acc.net * rate.num \in Nat /\ rate.den \in Nat \ {0}
  BY DEF TypeOK
<1>3. Items \in Nat
  BY <1>1, CentsClose DEF Items
<1>4. LineTax \in Nat
  BY <1>2, RoundedNat DEF LineTax
<1> QED BY <1>1, <1>3, <1>4 DEF Gap

(* A reduction is split into two parts of its own sign that add up to it, or  *)
(* dropped where there is neither a coupon nor a discount.                    *)
LEMMA SplitSum ==
  ASSUME TypeOK, NEW r \in Int
  PROVE  LET s == SplitReductions(r) IN
         /\ s.coupon \in Int /\ s.coupon <= 0
         /\ s.discount \in Int /\ s.discount <= 0
         /\ \/ s.coupon + s.discount = -r
            \/ s.coupon = 0 /\ s.discount = 0 /\ r <= 0
            \/ /\ s.coupon = 0 /\ s.discount = 0
               /\ RowValue("coupon") = 0 /\ RowValue("discount") = 0
<1> DEFINE Abs(n) == IF n < 0 THEN -n ELSE n
           c == Abs(RowValue("coupon"))
           d == Abs(RowValue("discount"))
           part == Rounded(r * c, c + d)
<1>1. RowValue("coupon") \in Int /\ RowValue("discount") \in Int
  BY RowValueInt
<1>2. c \in Nat /\ d \in Nat
  BY <1>1
<1>3. c + d = 0 => RowValue("coupon") = 0 /\ RowValue("discount") = 0
  BY <1>1
<1>4. SplitReductions(r) =
        IF r <= 0 \/ c + d = 0 THEN [coupon |-> 0, discount |-> 0]
        ELSE IF d = 0 THEN [coupon |-> -r, discount |-> 0]
        ELSE IF c = 0 THEN [coupon |-> 0, discount |-> -r]
        ELSE [coupon |-> -part, discount |-> -(r - part)]
  BY DEF SplitReductions
<1>5. r > 0 /\ c + d # 0 => part \in 0..r
  BY <1>2, PartIsPart
<1> HIDE DEF c, d, part
<1>6. CASE r <= 0 \/ c + d = 0
  BY <1>2, <1>3, <1>4, <1>6
<1>7. CASE r > 0 /\ c + d # 0 /\ d = 0
  BY <1>2, <1>4, <1>7
<1>8. CASE r > 0 /\ c + d # 0 /\ d # 0 /\ c = 0
  BY <1>2, <1>4, <1>8
<1>9. CASE r > 0 /\ c + d # 0 /\ d # 0 /\ c # 0
  <2>1. part \in Int /\ 0 <= part /\ part <= r
    BY <1>5, <1>9
  <2>2. SplitReductions(r) = [coupon |-> -part, discount |-> -(r - part)]
    BY <1>4, <1>9
  <2> QED BY <2>1, <2>2
<1> QED BY <1>2, <1>6, <1>7, <1>8, <1>9

(* What the totals add up to, in terms of the sums.                           *)
LEMMA TotalsSum ==
  ASSUME TypeOK
  PROVE  LET t == Totals IN
         /\ \A c \in Codes : t[c] \in Int
         /\ t.coupon <= 0 /\ t.discount <= 0
         /\ t.tax >= -1 /\ t.shipping >= 0
         /\ \/ t.sub_total + t.tax + t.discount + t.shipping + t.coupon = t.total
            \/ /\ RowValue("coupon") = 0 /\ RowValue("discount") = 0
               /\ t.sub_total + t.tax + t.discount + t.shipping + t.coupon > t.total
<1> DEFINE reduction == IF Gap <= 1 THEN 0 ELSE Gap
           tax == IF Gap <= 1 THEN hook.grand - Items - hook.ship ELSE LineTax
           split == SplitReductions(reduction)
<1>1. Totals = [sub_total |-> Items, tax |-> tax, discount |-> split.discount,
                shipping |-> hook.ship, coupon |-> split.coupon, total |-> hook.grand]
  BY DEF Totals, Items, LineTax, Gap
<1>2. /\ Items \in Nat /\ LineTax \in Nat /\ Gap \in Int
      /\ hook.ship \in Nat /\ hook.grand \in Nat
  BY SumsType
<1>3. Gap = Items + hook.ship + LineTax - hook.grand
  BY DEF Gap
<1>4. reduction \in Int
  BY <1>2
<1>5. /\ split.coupon \in Int /\ split.coupon <= 0
      /\ split.discount \in Int /\ split.discount <= 0
      /\ \/ split.coupon + split.discount = -reduction
         \/ split.coupon = 0 /\ split.discount = 0 /\ reduction <= 0
         \/ /\ split.coupon = 0 /\ split.discount = 0
            /\ RowValue("coupon") = 0 /\ RowValue("discount") = 0
  BY <1>4, SplitSum
<1>6. tax \in Int /\ tax >= -1
  BY <1>2, <1>3
<1> HIDE DEF split
<1>7. \/ Items + tax + split.discount + hook.ship + split.coupon = hook.grand
      \/ /\ RowValue("coupon") = 0 /\ RowValue("discount") = 0
         /\ Items + tax + split.discount + hook.ship + split.coupon > hook.grand
  BY <1>2, <1>3, <1>5
<1> HIDE DEF tax, reduction
<1>8. \A c \in Codes : Totals[c] \in Int
  BY <1>1, <1>2, <1>5, <1>6 DEF Codes
<1> QED BY <1>1, <1>2, <1>5, <1>6, <1>7, <1>8

LEMMA InitType == Init => TypeOK /\ Rested
<1> SUFFICES ASSUME Init PROVE TypeOK /\ Rested
  OBVIOUS
<1>1. PICK s \in Stored : lines = s.lines /\ rows = s.rows
  BY DEF Init
<1>2. /\ \A k \in DOMAIN s.lines : s.lines[k] \in Line
      /\ DOMAIN s.rows = Present /\ \A c \in Present : s.rows[c] \in Int
  BY StoredAssumption
<1>3. hook.ship = 0 /\ hook.grand = 1 /\ rate.num = 0 /\ rate.den = 1
      /\ acc.paid = 0 /\ acc.net = 0
  BY DEF Init, NoHook, NoRate, NoSums
<1>4. DOMAIN hook.items = {} /\ DOMAIN built = {} /\ left = {} /\ pc = "idle"
  BY NoLinesType DEF Init
<1> QED BY <1>1, <1>2, <1>3, <1>4 DEF TypeOK, Rested

(* A webhook of amounts. *)
Payable(h) ==
  /\ DOMAIN h.items \subseteq Products /\ \A p \in DOMAIN h.items : h.items[p] \in Item
  /\ h.ship \in Nat /\ h.grand \in Nat \ {0}

LEMMA ReceiveType ==
  ASSUME TypeOK, Rested, NEW h, Payable(h), Receive(h)
  PROVE  TypeOK' /\ Rested'
<1>1. hook' = h /\ left' = DOMAIN h.items
  BY DEF Receive
<1>2. /\ DOMAIN h.items \subseteq Products /\ \A p \in DOMAIN h.items : h.items[p] \in Item
      /\ h.ship \in Nat /\ h.grand \in Nat \ {0}
  BY DEF Payable
<1>3. PICK r \in VatRates : rate' = r
  BY DEF Receive
<1>4. rate'.num \in Nat /\ rate'.den \in Nat \ {0}
  BY <1>3, RateType
<1>5. pc' = "lines" /\ DOMAIN built = {} /\ UNCHANGED <<lines, rows, acc, built>>
  BY DEF Receive, Rested
<1> QED BY <1>1, <1>2, <1>4, <1>5 DEF TypeOK, Rested

LEMMA AddLineType ==
  ASSUME TypeOK, Rested, NEW p \in left, AddLine(p)
  PROVE  TypeOK' /\ Rested'
<1> DEFINE it == hook.items[p]
           item(paid) == [product |-> p, qty |-> it.qty, price |-> 100 * Cents(paid),
                          tax |-> 100 * Rounded(paid * rate.num, 100 * rate.den)]
<1>0. PICK paid \in PaidUnits(p) :
        /\ acc' = [paid |-> acc.paid + paid * it.qty, net |-> acc.net + it.total]
        /\ built' = [q \in DOMAIN built \cup {p} |-> IF q # p THEN built[q] ELSE item(paid)]
  BY DEF AddLine
<1> DEFINE line == item(paid)
<1>1. paid \in Nat /\ it \in Item /\ p \in Products
  BY PaidUnitsType
<1>2. rate.num \in Nat /\ rate.den \in Nat \ {0} /\ acc.paid \in Nat /\ acc.net \in Nat
  BY DEF TypeOK
<1>3. line \in Line
  <2>1. Cents(paid) \in Nat
    BY <1>1, CentsClose
  <2>2. paid * rate.num \in Nat /\ 100 * rate.den \in Nat \ {0}
    BY <1>1, <1>2
  <2>3. Rounded(paid * rate.num, 100 * rate.den) \in Nat
    BY <2>2, RoundedNat
  <2> QED BY <1>1, <2>1, <2>3 DEF Item, Line
<1>4. acc' = [paid |-> acc.paid + paid * it.qty, net |-> acc.net + it.total]
  BY <1>0
<1>5. acc'.paid \in Nat /\ acc'.net \in Nat
  <2>1. it.qty \in Nat /\ it.total \in Nat
    BY <1>1 DEF Item
  <2>2. paid * it.qty \in Nat
    BY <1>1, <2>1
  <2> QED BY <1>2, <1>4, <2>1, <2>2
<1>6. built' = [q \in DOMAIN built \cup {p} |-> IF q # p THEN built[q] ELSE line]
  BY <1>0
<1> HIDE DEF line, it, item
<1>7. DOMAIN built' \subseteq Products /\ \A q \in DOMAIN built' : built'[q] \in Line
  BY <1>1, <1>3, <1>6 DEF TypeOK
<1>8. left' = left \ {p} /\ UNCHANGED <<lines, rows, pc, hook, rate>>
  BY DEF AddLine
<1>9. pc = "lines"
  BY DEF TypeOK, Rested
<1>10. DOMAIN built' = DOMAIN hook'.items \ left'
  BY <1>6, <1>8, <1>9 DEF TypeOK
<1> QED BY <1>5, <1>7, <1>8, <1>9, <1>10 DEF TypeOK, Rested

(* The end of a webhook, whether it is committed or not. *)
LEMMA DoneType ==
  ASSUME TypeOK, Done,
         \A k \in DOMAIN lines' : lines'[k] \in Line,
         DOMAIN rows' = Present /\ \A c \in Present : rows'[c] \in Int
  PROVE  TypeOK' /\ Rested'
<1>1. pc' = "idle" /\ left' = {} /\ hook' = NoHook /\ rate' = NoRate
      /\ acc' = NoSums /\ built' = NoLines
  BY DEF Done
<1>2. hook'.ship = 0 /\ hook'.grand = 1 /\ rate'.num = 0 /\ rate'.den = 1
      /\ acc'.paid = 0 /\ acc'.net = 0
  BY <1>1 DEF NoHook, NoRate, NoSums
<1>3. DOMAIN hook'.items = {} /\ DOMAIN built' = {}
  BY <1>1, NoLinesType
<1> QED BY <1>1, <1>2, <1>3 DEF TypeOK, Rested

LEMMA CommitType ==
  ASSUME TypeOK, Commit
  PROVE  TypeOK' /\ Rested'
<1>1. \A c \in Codes : Totals[c] \in Int
  BY TotalsSum
<1>2. DOMAIN rows' = Present /\ \A c \in Present : rows'[c] \in Int
  BY <1>1 DEF Commit
<1>3. \A k \in DOMAIN lines' : lines'[k] \in Line
  BY DEF Commit, TypeOK
<1> QED BY <1>2, <1>3, DoneType DEF Commit

(* A step of any webhook of amounts, whoever sends it. *)
Turn ==
  (\E h : Payable(h) /\ Receive(h)) \/ (\E p \in left : AddLine(p)) \/ Commit \/ Rollback

LEMMA NextIsTurn == [Next]_vars => [Turn]_vars
BY PayloadsAssumption DEF Next, Turn, Payable

LEMMA TypeStep == TypeOK /\ Rested /\ [Turn]_vars => TypeOK' /\ Rested'
<1> SUFFICES ASSUME TypeOK, Rested, [Turn]_vars PROVE TypeOK' /\ Rested'
  OBVIOUS
<1>1. ASSUME NEW h, Payable(h), Receive(h) PROVE TypeOK' /\ Rested'
  BY <1>1, ReceiveType
<1>2. ASSUME NEW p \in left, AddLine(p) PROVE TypeOK' /\ Rested'
  BY <1>2, AddLineType
<1>3. CASE Commit
  BY <1>3, CommitType
<1>4. CASE Rollback
  <2>1. Done /\ lines' = lines /\ rows' = rows
    BY <1>4 DEF Rollback
  <2> QED BY <2>1, DoneType DEF TypeOK
<1>5. CASE UNCHANGED vars
  BY <1>5 DEF vars, TypeOK, Rested
<1> QED BY <1>1, <1>2, <1>3, <1>4, <1>5 DEF Turn

(* Amounts stay amounts: unit prices, taxes and quantities natural, rows      *)
(* whole cents, whatever Zoho sends and however many webhooks follow.         *)
THEOREM TypeCorrect == Spec => []TypeOK
<1>1. Spec => [](TypeOK /\ Rested)
  BY InitType, TypeStep, NextIsTurn, PTL DEF Spec
<1> QED BY <1>1, PTL

-----------------------------------------------------------------------------
(* The rows. *)

(* The values of the rows once a webhook is committed. *)
LEMMA CommittedRows ==
  ASSUME Commit, NEW c \in Codes
  PROVE  RowValue(c)' = IF c \in Present THEN Totals[c] ELSE 0
BY DEF Commit, RowValue

(* The rows are those of the shop, or those of a commit.                      *)
LEMMA OtherSteps ==
  ASSUME [Turn]_vars, ~Commit PROVE UNCHANGED rows
BY DEF Turn, vars, Receive, AddLine, Rollback

(* The order has a row for every code computeReverseTotals computes.          *)
EveryRow == Codes \subseteq Present

(* Rows that sum to the grand total, or exceed it where no coupon or discount  *)
(* is left to book a reduction on.                                             *)
Reconciled ==
  rows' # rows => \/ RowsSum'
                  \/ /\ RowValue("coupon") = 0 /\ RowValue("discount") = 0
                     /\ RowSum' > RowValue("total")'

LEMMA RowsStep == EveryRow /\ TypeOK /\ [Turn]_vars => [Reconciled]_rows
<1>1. ASSUME EveryRow, TypeOK, Commit PROVE Reconciled
  <2>1. \A c \in Codes : RowValue(c)' = Totals[c]
    BY <1>1, CommittedRows DEF EveryRow
  <2>2. /\ RowValue("sub_total")' = Totals.sub_total /\ RowValue("tax")' = Totals.tax
        /\ RowValue("discount")' = Totals.discount /\ RowValue("shipping")' = Totals.shipping
        /\ RowValue("coupon")' = Totals.coupon /\ RowValue("total")' = Totals.total
    BY <2>1 DEF Codes
  <2>3. RowSum' = Totals.sub_total + Totals.tax + Totals.discount
                    + Totals.shipping + Totals.coupon
    BY <2>2 DEF RowSum
  <2> QED BY <1>1, <2>2, <2>3, TotalsSum DEF RowsSum, Reconciled
<1> QED BY <1>1, OtherSteps

(* UpdateOrderWithTransaction leaves rows that sum to the grand total, or     *)
(* exceed it where no coupon or discount is left to book a reduction on.      *)
THEOREM RowsAlwaysReconcile == EveryRow => (Spec => RowsReconcile)
<1> SUFFICES ASSUME EveryRow PROVE Spec => RowsReconcile
  OBVIOUS
<1>1. TypeOK /\ [Next]_vars => [Reconciled]_rows
  BY NextIsTurn, RowsStep
<1>2. Spec => [][Next]_vars
  BY DEF Spec
<1> QED BY <1>1, <1>2, TypeCorrect, PTL DEF RowsReconcile, Reconciled

(* The shop writes reductions as negative rows, tax and carriage not.         *)
StoredSigns ==
  \A s \in Stored : \A c \in Present :
    /\ c \in {"coupon", "discount"} => s.rows[c] <= 0
    /\ c = "tax" => s.rows[c] >= -1
    /\ c = "shipping" => s.rows[c] >= 0

LEMMA SignsInit == StoredSigns /\ Init => SignsKept
<1> SUFFICES ASSUME StoredSigns, Init PROVE SignsKept
  OBVIOUS
<1>1. PICK s \in Stored : rows = s.rows
  BY DEF Init
<1>2. /\ "coupon" \in Present => rows["coupon"] <= 0
      /\ "discount" \in Present => rows["discount"] <= 0
      /\ "tax" \in Present => rows["tax"] >= -1
      /\ "shipping" \in Present => rows["shipping"] >= 0
  BY <1>1 DEF StoredSigns
<1> QED BY <1>2 DEF SignsKept, RowValue

LEMMA SignsStep == SignsKept /\ TypeOK /\ [Turn]_vars => SignsKept'
<1>1. ASSUME TypeOK, Commit PROVE SignsKept'
  <2>1. Totals.coupon <= 0 /\ Totals.discount <= 0 /\ Totals.tax >= -1 /\ Totals.shipping >= 0
    BY <1>1, TotalsSum
  <2>2. /\ RowValue("coupon")' \in {0, Totals.coupon}
        /\ RowValue("discount")' \in {0, Totals.discount}
        /\ RowValue("tax")' \in {0, Totals.tax}
        /\ RowValue("shipping")' \in {0, Totals.shipping}
    BY <1>1, CommittedRows DEF Codes
  <2> QED BY <2>1, <2>2 DEF SignsKept
<1>2. ASSUME SignsKept, UNCHANGED rows PROVE SignsKept'
  BY <1>2 DEF SignsKept, RowValue
<1> QED BY <1>1, <1>2, OtherSteps

(* No webhook gives a row the wrong sign, however its amounts are related.    *)
THEOREM SignsAlwaysKept == StoredSigns => (Spec => []SignsKept)
<1> SUFFICES ASSUME StoredSigns PROVE Spec => []SignsKept
  OBVIOUS
<1> QED BY SignsInit, SignsStep, NextIsTurn, TypeCorrect, PTL DEF Spec

-----------------------------------------------------------------------------
(* The price paid. *)

(* The rows in which a product was sold at a price.                           *)
SoldAt(p) == {k \in RowsOf({p}, lines) : lines[k].price > 0}

(* What is built of a product the order sold has the price of one of its rows, *)
(* rounded.                                                                    *)
BuiltPaid ==
  \A p \in DOMAIN built :
    /\ built[p].product = p
    /\ SoldAt(p) # {} => \E k \in SoldAt(p) : built[p].price = 100 * Cents(lines[k].price)

(* Such a product goes at a price it was sold at.                             *)
LEMMA PaidIsSold ==
  ASSUME TypeOK, NEW p, SoldAt(p) # {}, NEW paid \in PaidUnits(p)
  PROVE  \E k \in SoldAt(p) : paid = lines[k].price
<1> DEFINE prices == {lines[k].price : k \in RowsOf({p}, lines)} \ {0}
<1>1. \A k \in RowsOf({p}, lines) : lines[k].price \in Nat
  BY DEF TypeOK, Line, RowsOf
<1>2. \A k \in SoldAt(p) : lines[k].price \in prices
  <2> SUFFICES ASSUME NEW k \in SoldAt(p) PROVE lines[k].price \in prices
    OBVIOUS
  <2>1. k \in RowsOf({p}, lines) /\ lines[k].price > 0
    BY DEF SoldAt
  <2>2. lines[k].price # 0
    BY <1>1, <2>1
  <2> QED BY <2>1, <2>2
<1>3. paid \in prices
  BY <1>2 DEF PaidUnits
<1>4. PICK k \in RowsOf({p}, lines) : paid = lines[k].price /\ lines[k].price # 0
  BY <1>3
<1>5. k \in SoldAt(p)
  BY <1>1, <1>4 DEF SoldAt
<1> QED BY <1>4, <1>5

LEMMA BuiltStep == TypeOK /\ Rested /\ BuiltPaid /\ [Turn]_vars => BuiltPaid'
<1> SUFFICES ASSUME TypeOK, Rested, BuiltPaid, [Turn]_vars PROVE BuiltPaid'
  OBVIOUS
<1>1. CASE (\E h : Payable(h) /\ Receive(h)) \/ UNCHANGED vars
  BY <1>1 DEF Receive, vars, BuiltPaid, SoldAt, RowsOf
<1>2. ASSUME NEW p \in left, AddLine(p) PROVE BuiltPaid'
  <2>1. UNCHANGED lines
    BY <1>2 DEF AddLine
  <2>2. PICK paid \in PaidUnits(p) :
          built' = [q \in DOMAIN built \cup {p} |->
                      IF q # p THEN built[q]
                      ELSE [product |-> p, qty |-> hook.items[p].qty, price |-> 100 * Cents(paid),
                            tax |-> 100 * Rounded(paid * rate.num, 100 * rate.den)]]
    BY <1>2 DEF AddLine
  <2>3. /\ \A q \in DOMAIN built' : q # p => q \in DOMAIN built /\ built'[q] = built[q]
        /\ built'[p].product = p /\ built'[p].price = 100 * Cents(paid)
    BY <2>2
  <2>4. SoldAt(p) # {} => \E k \in SoldAt(p) : built'[p].price = 100 * Cents(lines[k].price)
    BY <2>3, PaidIsSold
  <2>5. \A q \in DOMAIN built' :
          /\ built'[q].product = q
          /\ SoldAt(q) # {} => \E k \in SoldAt(q) : built'[q].price = 100 * Cents(lines[k].price)
    BY <2>3, <2>4 DEF BuiltPaid
  <2>6. \A q : SoldAt(q)' = SoldAt(q)
    BY <2>1 DEF SoldAt, RowsOf
  <2> QED BY <2>1, <2>5, <2>6 DEF BuiltPaid
<1>3. CASE Commit \/ Rollback
  <2>1. DOMAIN built' = {}
    BY <1>3, NoLinesType DEF Commit, Rollback, Done
  <2> QED BY <2>1 DEF BuiltPaid
<1> QED BY <1>1, <1>2, <1>3 DEF Turn

(* A row of a product sold has a price it was sold at, but for the rounding.  *)
Close ==
  \A k \in DOMAIN lines' :
    LET sold == {q \in RowsOf({lines'[k].product}, lines) : lines[q].price > 0}
    IN  sold # {} => \E q \in sold : /\ lines'[k].price <= lines[q].price + 50
                                     /\ lines'[k].price >= lines[q].price - 50

LEMMA PaidStep == TypeOK /\ BuiltPaid /\ [Turn]_vars => [Close]_lines
<1>1. ASSUME TypeOK, BuiltPaid, Commit PROVE Close
  <2>1. lines' = built
    BY <1>1 DEF Commit
  <2>2. ASSUME NEW p \in DOMAIN built, SoldAt(p) # {}
        PROVE  \E q \in SoldAt(p) : /\ built[p].price <= lines[q].price + 50
                                     /\ built[p].price >= lines[q].price - 50
    <3>1. PICK q \in SoldAt(p) : built[p].price = 100 * Cents(lines[q].price)
      BY <1>1, <2>2 DEF BuiltPaid
    <3>2. lines[q].price \in Nat
      BY <1>1 DEF SoldAt, RowsOf, TypeOK, Line
    <3>3. PICK c \in Nat : /\ c = Cents(lines[q].price)
                           /\ 100 * c <= lines[q].price + 50 /\ lines[q].price <= 100 * c + 50
      BY <3>2, CentsClose
    <3>4. built[p].price <= lines[q].price + 50 /\ built[p].price >= lines[q].price - 50
      BY <3>1, <3>2, <3>3
    <3> QED BY <3>4
  <2>3. \A p \in DOMAIN built : built[p].product = p
    BY <1>1 DEF BuiltPaid
  <2> QED BY <2>1, <2>2, <2>3 DEF Close, SoldAt
<1>2. ASSUME [Turn]_vars, ~Commit PROVE UNCHANGED lines
  BY <1>2 DEF Turn, vars, Receive, AddLine, Rollback
<1> QED BY <1>1, <1>2

LEMMA BuiltInit == Init => BuiltPaid
BY NoLinesType DEF Init, BuiltPaid

(* Whatever list prices Zoho sends, a row of a product the customer bought    *)
(* has, after any webhook, a unit price that was paid for the product, but    *)
(* for its rounding to cents.                                                 *)
THEOREM PaidPriceAlwaysKept == Spec => PaidPriceKept
<1>1. Spec => [](TypeOK /\ Rested /\ BuiltPaid)
  BY BuiltInit, InitType, TypeStep, BuiltStep, NextIsTurn, PTL DEF Spec
<1>2. TypeOK /\ BuiltPaid /\ [Next]_vars => [Close]_lines
  BY NextIsTurn, PaidStep
<1>3. Spec => [][Next]_vars
  BY DEF Spec
<1> QED BY <1>1, <1>2, <1>3, PTL DEF PaidPriceKept, Close

-----------------------------------------------------------------------------
(* Sums over finite sets.  A set of naturals has a least member.               *)
LEMMA LeastNat ==
  ASSUME NEW X \in SUBSET Nat, X # {}
  PROVE  \E n \in X : \A m \in X : n <= m
<1>1. \E n \in X : \A m \in X : ~(<<m, n>> \in OpToRel(<, Nat))
  BY NatLessThanWellFounded, WFMin
<1>2. \A m, n \in Nat : m < n => <<m, n>> \in OpToRel(<, Nat)
  BY DEF OpToRel
<1>3. PICK n \in X : \A m \in X : ~(<<m, n>> \in OpToRel(<, Nat))
  BY <1>1
<1>4. \A m \in X : ~(m < n)
  BY <1>2, <1>3
<1>5. \A m \in X : n <= m
  BY <1>4
<1> QED BY <1>5

(* The equation of a sum over a set, element by element. *)
Chosen(s) == CHOOSE x \in s : TRUE

Summed(g, F, s) == IF s = {} THEN 0 ELSE F[Chosen(s)] + g[s \ {Chosen(s)}]

Sums(g, F, X) == g = [s \in SUBSET X |-> Summed(g, F, s)]

LEMMA FewerLeft ==
  ASSUME NEW X, IsFiniteSet(X), NEW s \in SUBSET X, s # {}
  PROVE  /\ Chosen(s) \in s /\ s \ {Chosen(s)} \in SUBSET X
         /\ Cardinality(s) \in Nat \ {0}
         /\ Cardinality(s \ {Chosen(s)}) = Cardinality(s) - 1
<1>1. Chosen(s) \in s
  BY DEF Chosen
<1>2. IsFiniteSet(s)
  BY FS_Subset
<1> QED BY <1>1, <1>2, FS_CardinalityType, FS_EmptySet, FS_RemoveElement

(* It has a solution over a finite set, found size by size. *)
LEMMA SumsExist ==
  ASSUME NEW X, IsFiniteSet(X), NEW F
  PROVE  \E g : Sums(g, F, X)
<1> DEFINE UpTo(g, n) == \A s \in SUBSET X : Cardinality(s) <= n => g[s] = Summed(g, F, s)
           Bad == {n \in Nat : ~ \E g : UpTo(g, n)}
<1>1. \E g : UpTo(g, 0)
  <2> DEFINE g == [s \in SUBSET X |-> 0]
  <2>1. \A s \in SUBSET X : Cardinality(s) <= 0 => s = {}
    BY FS_Subset, FS_CardinalityType, FS_EmptySet
  <2>2. \A s \in SUBSET X : s = {} => g[s] = Summed(g, F, s)
    BY DEF Summed
  <2>3. UpTo(g, 0)
    BY <2>1, <2>2
  <2> QED BY <2>3
<1>2. ASSUME NEW n \in Nat, NEW g, UpTo(g, n) PROVE \E h : UpTo(h, n + 1)
  <2> DEFINE h == [s \in SUBSET X |-> Summed(g, F, s)]
  <2>1. ASSUME NEW s \in SUBSET X, Cardinality(s) <= n + 1 PROVE h[s] = Summed(h, F, s)
    <3>1. CASE s = {}
      BY <3>1 DEF Summed
    <3>2. CASE s # {}
      <4> DEFINE t == s \ {Chosen(s)}
      <4>1. t \in SUBSET X /\ Cardinality(t) <= n
        BY <2>1, <3>2, FewerLeft
      <4>2. g[t] = Summed(g, F, t) /\ h[t] = Summed(g, F, t)
        BY <4>1, <1>2
      <4>3. h[s] = Summed(g, F, s)
        OBVIOUS
      <4> HIDE DEF h
      <4> QED BY <3>2, <4>2, <4>3 DEF Summed
    <3> QED BY <3>1, <3>2
  <2> HIDE DEF h
  <2> QED BY <2>1
<1>3. Bad = {}
  <2> SUFFICES ASSUME Bad # {} PROVE FALSE
    OBVIOUS
  <2>1. PICK n \in Bad : \A m \in Bad : n <= m
    <3>1. Bad \in SUBSET Nat
      OBVIOUS
    <3> HIDE DEF Bad
    <3> QED BY <3>1, LeastNat
  <2>2. n \in Nat /\ n # 0
    BY <1>1
  <2>3. n - 1 \in Nat /\ n - 1 \notin Bad
    BY <2>1, <2>2
  <2>4. PICK g : UpTo(g, n - 1)
    BY <2>3
  <2> HIDE DEF UpTo
  <2>5. \E h : UpTo(h, (n - 1) + 1)
    BY <1>2, <2>3, <2>4
  <2>6. (n - 1) + 1 = n
    BY <2>2
  <2> QED BY <2>1, <2>5, <2>6
<1>4. PICK g : UpTo(g, Cardinality(X))
  BY <1>3, FS_CardinalityType
<1>5. \A s \in SUBSET X : Cardinality(s) <= Cardinality(X)
  BY FS_Subset
<1> DEFINE h == [s \in SUBSET X |-> Summed(g, F, s)]
<1>6. \A s \in SUBSET X : g[s] = Summed(g, F, s) /\ h[s] = g[s]
  BY <1>4, <1>5
<1>7. \A s \in SUBSET X : h[s] = Summed(h, F, s)
  <2> SUFFICES ASSUME NEW s \in SUBSET X, s # {} PROVE h[s] = Summed(h, F, s)
    BY DEF Summed
  <2>1. s \ {Chosen(s)} \in SUBSET X
    OBVIOUS
  <2>2. h[s \ {Chosen(s)}] = g[s \ {Chosen(s)}]
    BY <2>1, <1>6
  <2>3. h[s] = Summed(g, F, s)
    OBVIOUS
  <2> HIDE DEF h
  <2> QED BY <2>2, <2>3 DEF Summed
<1>8. h = [s \in SUBSET X |-> h[s]]
  OBVIOUS
<1> HIDE DEF h
<1>9. Sums(h, F, X)
  BY <1>7, <1>8 DEF Sums
<1> QED BY <1>9

(* Of some subsets of a finite set one has no other of them within it.         *)
LEMMA LeastSet ==
  ASSUME NEW X, IsFiniteSet(X), NEW Bad \in SUBSET SUBSET X, Bad # {}
  PROVE  \E s \in Bad : \A t \in SUBSET s : t # s => t \notin Bad
<1> DEFINE Sizes == {Cardinality(s) : s \in Bad}
<1>1. \A s \in SUBSET X : IsFiniteSet(s) /\ Cardinality(s) \in Nat
  BY FS_Subset, FS_CardinalityType
<1>2. PICK n \in Sizes : \A m \in Sizes : n <= m
  <2>1. Sizes \in SUBSET Nat /\ Sizes # {}
    BY <1>1
  <2> HIDE DEF Sizes
  <2> QED BY <2>1, LeastNat
<1>3. PICK s \in Bad : Cardinality(s) = n
  OBVIOUS
<1>4. ASSUME NEW t \in SUBSET s, t # s PROVE t \notin Bad
  <2>1. Cardinality(t) < Cardinality(s)
    <3>1. IsFiniteSet(s) /\ IsFiniteSet(t) /\ Cardinality(s) \in Nat /\ Cardinality(t) \in Nat
      BY <1>1
    <3>2. Cardinality(t) <= Cardinality(s) /\ (Cardinality(s) = Cardinality(t) => s = t)
      BY <3>1, FS_Subset
    <3> QED BY <1>4, <3>1, <3>2
  <2>2. Cardinality(t) \in Nat /\ Cardinality(s) \in Nat
    BY <1>1
  <2> SUFFICES ASSUME t \in Bad PROVE FALSE
    OBVIOUS
  <2>3. n <= Cardinality(t)
    BY <1>2
  <2> QED BY <1>3, <2>1, <2>2, <2>3
<1> QED BY <1>4

(* Facts about sums over a finite set that hold of the empty set and of one    *)
(* element more hold of the set.                                               *)
LEMMA SmallestSet ==
  ASSUME NEW X, IsFiniteSet(X), NEW Bad \in SUBSET SUBSET X, Bad # {}
  PROVE  \E s \in Bad : s = {} \/ s \ {Chosen(s)} \notin Bad
<1>1. PICK s \in Bad : \A t \in SUBSET s : t # s => t \notin Bad
  BY LeastSet
<1>2. s # {} => Chosen(s) \in s
  BY DEF Chosen
<1>3. s # {} => s \ {Chosen(s)} \in SUBSET s /\ s \ {Chosen(s)} # s
  BY <1>2
<1> QED BY <1>1, <1>3

Bounded(X, a, F, b, G, c, H) ==
  /\ F \in [X -> Int] /\ G \in [X -> Int] /\ H \in [X -> Int]
  /\ a \in Int /\ b \in Int /\ c \in Int
  /\ \A x \in X : a * F[x] <= b * G[x] + c * H[x]

LEMMA SumsCompare ==
  ASSUME NEW X, IsFiniteSet(X), NEW F, NEW G, NEW H, NEW a, NEW b, NEW c,
         Bounded(X, a, F, b, G, c, H),
         NEW f, NEW g, NEW h, Sums(f, F, X), Sums(g, G, X), Sums(h, H, X)
  PROVE  \A s \in SUBSET X : /\ f[s] \in Int /\ g[s] \in Int /\ h[s] \in Int
                              /\ a * f[s] <= b * g[s] + c * h[s]
<1> DEFINE Good(s) == /\ f[s] \in Int /\ g[s] \in Int /\ h[s] \in Int
                      /\ a * f[s] <= b * g[s] + c * h[s]
           Bad == {s \in SUBSET X : ~Good(s)}
<1>0. /\ F \in [X -> Int] /\ G \in [X -> Int] /\ H \in [X -> Int]
      /\ a \in Int /\ b \in Int /\ c \in Int
      /\ \A x \in X : a * F[x] <= b * G[x] + c * H[x]
  BY DEF Bounded
<1>1. \A s \in SUBSET X : /\ f[s] = Summed(f, F, s) /\ g[s] = Summed(g, G, s)
                          /\ h[s] = Summed(h, H, s)
  BY DEF Sums
<1>2. Good({})
  <2>1. f[{}] = 0 /\ g[{}] = 0 /\ h[{}] = 0
    BY <1>1 DEF Summed
  <2> QED BY <1>0, <2>1
<1>3. ASSUME NEW s \in SUBSET X, s # {}, Good(s \ {Chosen(s)}) PROVE Good(s)
  <2> DEFINE x == Chosen(s)
             t == s \ {x}
  <2>1. x \in X
    BY <1>3, FewerLeft
  <2>2. f[s] = F[x] + f[t] /\ g[s] = G[x] + g[t] /\ h[s] = H[x] + h[t]
    BY <1>1, <1>3 DEF Summed
  <2>3. /\ F[x] \in Int /\ G[x] \in Int /\ H[x] \in Int
        /\ a * F[x] <= b * G[x] + c * H[x]
    BY <1>0, <2>1
  <2>4. /\ f[t] \in Int /\ g[t] \in Int /\ h[t] \in Int
        /\ a * f[t] <= b * g[t] + c * h[t]
    BY <1>3
  <2> HIDE DEF x, t
  <2>5. f[s] \in Int /\ g[s] \in Int /\ h[s] \in Int
    BY <2>2, <2>3, <2>4
  <2>6. \A i, j, k \in Int : i * (j + k) = i * j + i * k
    OBVIOUS
  <2>7. /\ a * f[s] = a * F[x] + a * f[t] /\ b * g[s] = b * G[x] + b * g[t]
        /\ c * h[s] = c * H[x] + c * h[t]
    BY <1>0, <2>2, <2>3, <2>4, <2>6
  <2>8. \A i, j \in Int : i * j \in Int
    OBVIOUS
  <2>9. /\ a * F[x] \in Int /\ a * f[t] \in Int /\ b * G[x] \in Int /\ b * g[t] \in Int
        /\ c * H[x] \in Int /\ c * h[t] \in Int
    BY <1>0, <2>3, <2>4, <2>8
  <2>10. a * f[s] <= b * g[s] + c * h[s]
    BY <2>3, <2>4, <2>7, <2>9
  <2> QED BY <2>5, <2>10
<1>4. Bad = {}
  <2> SUFFICES ASSUME Bad # {} PROVE FALSE
    OBVIOUS
  <2>1. Bad \in SUBSET SUBSET X
    OBVIOUS
  <2>2. PICK s \in Bad : s = {} \/ s \ {Chosen(s)} \notin Bad
    <3> HIDE DEF Bad
    <3> QED BY <2>1, SmallestSet
  <2> HIDE DEF Good
  <2>3. s # {} /\ ~Good(s)
    BY <1>2
  <2>4. Good(s \ {Chosen(s)})
    BY <2>2, <2>3
  <2> QED BY <1>3, <2>3, <2>4
<1> QED BY <1>4

LEMMA SumsNat ==
  ASSUME NEW X, IsFiniteSet(X), NEW F \in [X -> Nat], NEW g, Sums(g, F, X)
  PROVE  /\ g[X] \in Nat
         /\ X # {} /\ (\A x \in X : F[x] > 0) => g[X] > 0
<1>1. Bounded(X, -1, F, 0, F, 0, F)
  BY DEF Bounded
<1>2. \A s \in SUBSET X : g[s] \in Int /\ (-1) * g[s] <= 0 * g[s] + 0 * g[s]
  BY <1>1, SumsCompare
<1>3. \A s \in SUBSET X : g[s] \in Nat
  BY <1>2
<1>4. X # {} => g[X] = F[Chosen(X)] + g[X \ {Chosen(X)}]
  BY DEF Sums, Summed
<1>5. X # {} => Chosen(X) \in X /\ X \ {Chosen(X)} \in SUBSET X
  BY FewerLeft
<1> QED BY <1>3, <1>4, <1>5

LEMMA SumsOfOne ==
  ASSUME NEW k, NEW F, F[k] \in Int, NEW g, Sums(g, F, {k})
  PROVE  g[{k}] = F[k]
<1>1. Chosen({k}) = k /\ {k} \ {k} = {}
  BY DEF Chosen
<1>2. g[{k}] = F[k] + g[{}] /\ g[{}] = 0
  BY <1>1 DEF Sums, Summed
<1> QED BY <1>2

(* The equation has one solution. *)
LEMMA SumsUnique ==
  ASSUME NEW X, IsFiniteSet(X), NEW F, NEW g, NEW h, Sums(g, F, X), Sums(h, F, X)
  PROVE  g[X] = h[X]
<1> DEFINE Bad == {s \in SUBSET X : g[s] # h[s]}
<1>1. \A s \in SUBSET X : g[s] = Summed(g, F, s) /\ h[s] = Summed(h, F, s)
  BY DEF Sums
<1>2. Bad = {}
  <2> SUFFICES ASSUME Bad # {} PROVE FALSE
    OBVIOUS
  <2>1. Bad \in SUBSET SUBSET X
    OBVIOUS
  <2>2. PICK s \in Bad : s = {} \/ s \ {Chosen(s)} \notin Bad
    <3> HIDE DEF Bad
    <3> QED BY <2>1, SmallestSet
  <2>3. s \in SUBSET X /\ g[s] # h[s]
    OBVIOUS
  <2>4. s # {}
    BY <1>1, <2>3 DEF Summed
  <2>5. g[s \ {Chosen(s)}] = h[s \ {Chosen(s)}]
    BY <2>2, <2>3, <2>4
  <2> HIDE DEF Bad
  <2> QED BY <1>1, <2>3, <2>4, <2>5 DEF Summed
<1> QED BY <1>2

(* Any element may be taken out first. *)
LEMMA SumsOut ==
  ASSUME NEW X, IsFiniteSet(X), NEW F \in [X -> Int], NEW g, Sums(g, F, X)
  PROVE  \A s \in SUBSET X : g[s] \in Int /\ \A y \in s : g[s] = F[y] + g[s \ {y}]
<1> DEFINE Good(s) == \A y \in s : g[s] = F[y] + g[s \ {y}]
           Bad == {s \in SUBSET X : ~Good(s)}
<1>1. Bounded(X, 0, F, 0, F, 0, F)
  BY DEF Bounded
<1>2. \A s \in SUBSET X : g[s] \in Int
  BY <1>1, SumsCompare
<1>3. \A s \in SUBSET X : s # {} => Chosen(s) \in s /\ g[s] = F[Chosen(s)] + g[s \ {Chosen(s)}]
  <2>1. \A s \in SUBSET X : g[s] = Summed(g, F, s)
    BY DEF Sums
  <2> QED BY <2>1, FewerLeft DEF Summed
<1>4. Bad = {}
  <2> SUFFICES ASSUME Bad # {} PROVE FALSE
    OBVIOUS
  <2>1. Bad \in SUBSET SUBSET X
    OBVIOUS
  <2>2. PICK s \in Bad : \A t \in SUBSET s : t # s => t \notin Bad
    <3> HIDE DEF Bad
    <3> QED BY <2>1, LeastSet
  <2>3. PICK y \in s : g[s] # F[y] + g[s \ {y}]
    OBVIOUS
  <2>4. s \in SUBSET X
    OBVIOUS
  <2>5. PICK z \in s : g[s] = F[z] + g[s \ {z}]
    BY <1>3, <2>3, <2>4
  <2>6. y # z
    BY <2>3, <2>5
  <2>7. Good(s \ {y}) /\ Good(s \ {z})
    <3>1. s \ {y} \in SUBSET s /\ s \ {y} # s /\ s \ {z} \in SUBSET s /\ s \ {z} # s
      BY <2>3, <2>5
    <3> QED BY <2>2, <2>4, <3>1
  <2>8. /\ g[s \ {z}] = F[y] + g[(s \ {z}) \ {y}]
        /\ g[s \ {y}] = F[z] + g[(s \ {y}) \ {z}]
    BY <2>3, <2>5, <2>6, <2>7
  <2>9. (s \ {z}) \ {y} = (s \ {y}) \ {z} /\ (s \ {y}) \ {z} \in SUBSET X
    BY <2>4
  <2>10. PICK a \in Int, b \in Int, c \in Int : a = F[y] /\ b = F[z] /\ c = g[(s \ {y}) \ {z}]
    BY <1>2, <2>4, <2>9
  <2>11. g[s] = b + (a + c) /\ F[y] + g[s \ {y}] = a + (b + c)
    BY <2>5, <2>8, <2>9, <2>10
  <2>12. b + (a + c) = a + (b + c)
    BY <2>10
  <2> QED BY <2>3, <2>11, <2>12
<1> QED BY <1>2, <1>4

(* The same fact, its hypotheses and its conclusion each in one.              *)
AddsUp(g, F, X) == IsFiniteSet(X) /\ F \in [X -> Int] /\ Sums(g, F, X)
OneOut(g, F, X) ==
  \A s \in SUBSET X : g[s] \in Int /\ \A y \in s : g[s] = F[y] + g[s \ {y}]

LEMMA AddedUp ==
  ASSUME NEW g, NEW F, NEW X, AddsUp(g, F, X)
  PROVE  OneOut(g, F, X)
<1>1. IsFiniteSet(X) /\ F \in [X -> Int] /\ Sums(g, F, X)
  BY DEF AddsUp
<1> QED BY <1>1, SumsOut DEF OneOut

(* Counted in another order, or under other names, a sum is the same.         *)
LEMMA SumsRenamed ==
  ASSUME NEW X, IsFiniteSet(X), NEW Y, IsFiniteSet(Y),
         NEW f \in [X -> Y], \A i, j \in X : f[i] = f[j] => i = j,
         \A y \in Y : \E i \in X : f[i] = y,
         NEW G \in [Y -> Int], NEW F, \A i \in X : F[i] = G[f[i]],
         NEW g, NEW h, Sums(g, G, Y), Sums(h, F, X)
  PROVE  h[X] = g[Y]
<1> DEFINE At(s) == {f[i] : i \in s}
           Bad == {s \in SUBSET X : h[s] # g[At(s)]}
<1>1. \A s \in SUBSET Y : g[s] \in Int /\ \A y \in s : g[s] = G[y] + g[s \ {y}]
  <2>1. AddsUp(g, G, Y)
    BY DEF AddsUp
  <2>2. OneOut(g, G, Y)
    BY <2>1, AddedUp
  <2> QED BY <2>2 DEF OneOut
<1>2. \A s \in SUBSET X : h[s] = Summed(h, F, s)
  BY DEF Sums
<1>3. g[{}] = 0
  BY DEF Sums, Summed
<1>4. Bad = {}
  <2> SUFFICES ASSUME Bad # {} PROVE FALSE
    OBVIOUS
  <2>1. Bad \in SUBSET SUBSET X
    OBVIOUS
  <2>2. PICK s \in Bad : s = {} \/ s \ {Chosen(s)} \notin Bad
    <3> HIDE DEF Bad
    <3> QED BY <2>1, SmallestSet
  <2>3. s \in SUBSET X /\ h[s] # g[At(s)]
    OBVIOUS
  <2>4. s # {}
    <3>1. s = {} => At(s) = {}
      OBVIOUS
    <3> QED BY <1>2, <1>3, <2>3, <3>1 DEF Summed
  <2>5. PICK x \in s : h[s] = F[x] + h[s \ {x}] /\ h[s \ {x}] = g[At(s \ {x})]
    <3>1. Chosen(s) \in s
      BY <2>4 DEF Chosen
    <3>2. h[s \ {Chosen(s)}] = g[At(s \ {Chosen(s)})]
      BY <2>2, <2>3, <2>4
    <3> HIDE DEF Bad, At
    <3> QED BY <1>2, <2>3, <2>4, <3>1, <3>2 DEF Summed
  <2>6. At(s) \in SUBSET Y /\ f[x] \in At(s) /\ At(s \ {x}) = At(s) \ {f[x]}
    BY <2>3, <2>5
  <2>7. F[x] = G[f[x]]
    BY <2>3, <2>5
  <2> HIDE DEF At, Bad
  <2>8. g[At(s)] = G[f[x]] + g[At(s) \ {f[x]}]
    BY <1>1, <2>6
  <2> QED BY <2>3, <2>5, <2>6, <2>7, <2>8
<1>5. h[X] = g[At(X)]
  BY <1>4
<1>6. At(X) = Y
  OBVIOUS
<1> QED BY <1>5, <1>6

(* The sums of the model are such solutions: of quantities, of row totals and  *)
(* of a function.                                                              *)
LEMMA SumOfQuantities ==
  ASSUME NEW s, NEW X, IsFiniteSet(X), NEW F, \A i \in X : F[i] = Qty(s[i])
  PROVE  \E g : Sums(g, F, X) /\ SumOf(Qty, s, X) = g[X]
<1> DEFINE It(g, S) == IF S = {} THEN 0
                       ELSE LET x == CHOOSE i \in S : TRUE IN Qty(s[x]) + g[S \ {x}]
           f == CHOOSE g : g = [S \in SUBSET X |-> It(g, S)]
<1>1. \A g : \A S \in SUBSET X : It(g, S) = Summed(g, F, S)
  BY DEF Summed, Chosen
<1>2. SumOf(Qty, s, X) = f[X]
  BY DEF SumOf, MapThenSumSet, MapThenFoldSet
<1> HIDE DEF It
<1>3. \A g : g = [S \in SUBSET X |-> It(g, S)] <=> Sums(g, F, X)
  BY <1>1 DEF Sums
<1>4. Sums(f, F, X)
  BY <1>3, SumsExist
<1> QED BY <1>2, <1>4

(* F holds the quantities of the rows of table s at X.                        *)
Counts(F, s, X) == IsFiniteSet(X) /\ \A i \in X : F[i] = Qty(s[i])

LEMMA Counted ==
  ASSUME NEW F, NEW s, NEW X, Counts(F, s, X)
  PROVE  \E g : Sums(g, F, X) /\ SumOf(Qty, s, X) = g[X]
<1>1. IsFiniteSet(X) /\ \A i \in X : F[i] = Qty(s[i])
  BY DEF Counts
<1> QED BY <1>1, SumOfQuantities

LEMMA SumOfRowTotals ==
  ASSUME NEW s, NEW X, IsFiniteSet(X), NEW F, \A i \in X : F[i] = RowTotal(s[i])
  PROVE  \E g : Sums(g, F, X) /\ SumOf(RowTotal, s, X) = g[X]
<1> DEFINE It(g, S) == IF S = {} THEN 0
                       ELSE LET x == CHOOSE i \in S : TRUE IN RowTotal(s[x]) + g[S \ {x}]
           f == CHOOSE g : g = [S \in SUBSET X |-> It(g, S)]
<1>1. \A g : \A S \in SUBSET X : It(g, S) = Summed(g, F, S)
  BY DEF Summed, Chosen
<1>2. SumOf(RowTotal, s, X) = f[X]
  BY DEF SumOf, MapThenSumSet, MapThenFoldSet
<1> HIDE DEF It
<1>3. \A g : g = [S \in SUBSET X |-> It(g, S)] <=> Sums(g, F, X)
  BY <1>1 DEF Sums
<1>4. Sums(f, F, X)
  BY <1>3, SumsExist
<1> QED BY <1>2, <1>4

LEMMA SumOfFunction ==
  ASSUME NEW X, IsFiniteSet(X), NEW F, X = DOMAIN F
  PROVE  \E g : Sums(g, F, X) /\ SumFunction(F) = g[X]
<1> DEFINE It(g, S) == IF S = {} THEN 0
                       ELSE LET x == CHOOSE i \in S : TRUE IN F[x] + g[S \ {x}]
           f == CHOOSE g : g = [S \in SUBSET X |-> It(g, S)]
<1>1. \A g : \A S \in SUBSET X : It(g, S) = Summed(g, F, S)
  BY DEF Summed, Chosen
<1>2. SumFunction(F) = f[X]
  BY DEF SumFunction, SumFunctionOnSet, FoldFunctionOnSet, MapThenFoldSet
<1> HIDE DEF It
<1>3. \A g : g = [S \in SUBSET X |-> It(g, S)] <=> Sums(g, F, X)
  BY <1>1 DEF Sums
<1>4. \E g : Sums(g, F, X)
  BY SumsExist
<1>5. Sums(f, F, X)
  BY <1>3, <1>4
<1> QED BY <1>2, <1>5

(* Tables with the same quantities in the same places hold as many pieces     *)
(* there.                                                                     *)
LEMMA SamePieces ==
  ASSUME NEW s, NEW t, NEW X, IsFiniteSet(X), \A i \in X : s[i].qty = t[i].qty
  PROVE  SumOf(Qty, s, X) = SumOf(Qty, t, X)
<1>1. PICK F : F = [i \in X |-> s[i].qty]
  OBVIOUS
<1>2. (\A i \in X : F[i] = Qty(s[i])) /\ (\A i \in X : F[i] = Qty(t[i]))
  BY <1>1 DEF Qty
<1>3. PICK g : Sums(g, F, X) /\ SumOf(Qty, s, X) = g[X]
  BY <1>2, SumOfQuantities
<1>4. PICK h : Sums(h, F, X) /\ SumOf(Qty, t, X) = h[X]
  BY <1>2, SumOfQuantities
<1> QED BY <1>3, <1>4, SumsUnique

(* One row has its own. *)
LEMMA PiecesOfOne ==
  ASSUME NEW s, NEW k, s[k].qty \in Nat
  PROVE  SumOf(Qty, s, {k}) = s[k].qty
<1>1. PICK X : X = {k}
  OBVIOUS
<1>2. PICK F : F = [i \in X |-> s[i].qty]
  OBVIOUS
<1>3. F[k] = s[k].qty /\ (\A i \in X : F[i] = Qty(s[i])) /\ IsFiniteSet(X)
  BY <1>1, <1>2, FS_Singleton DEF Qty
<1>4. PICK g : Sums(g, F, X) /\ SumOf(Qty, s, X) = g[X]
  BY <1>3, SumOfQuantities
<1>5. Sums(g, F, {k}) /\ F[k] \in Int
  BY <1>1, <1>3, <1>4
<1>6. g[{k}] = F[k]
  BY <1>5, SumsOfOne
<1> QED BY <1>1, <1>3, <1>4, <1>6

(* Two tables whose rows correspond hold as many pieces. *)
LEMMA MatchedPieces ==
  ASSUME NEW s, NEW t, NEW X, IsFiniteSet(X), NEW Y, IsFiniteSet(Y),
         NEW f \in [X -> Y], \A i, j \in X : f[i] = f[j] => i = j,
         \A y \in Y : \E i \in X : f[i] = y,
         \A i \in X : s[i].qty = t[f[i]].qty, \A y \in Y : t[y].qty \in Nat
  PROVE  SumOf(Qty, s, X) = SumOf(Qty, t, Y)
<1>1. PICK F : F = [i \in X |-> s[i].qty]
  OBVIOUS
<1>2. PICK G : G = [y \in Y |-> t[y].qty]
  OBVIOUS
<1>3. Counts(F, s, X)
  BY <1>1 DEF Counts, Qty
<1>7. Counts(G, t, Y)
  BY <1>2 DEF Counts, Qty
<1>8. G \in [Y -> Int] /\ \A i \in X : F[i] = G[f[i]]
  BY <1>1, <1>2
<1>4. PICK h : Sums(h, F, X) /\ SumOf(Qty, s, X) = h[X]
  BY <1>3, Counted
<1>5. PICK g : Sums(g, G, Y) /\ SumOf(Qty, t, Y) = g[Y]
  BY <1>7, Counted
<1>6. h[X] = g[Y]
  BY <1>8, <1>4, <1>5, SumsRenamed
<1> QED BY <1>4, <1>5, <1>6

(* Natural quantities come to a natural number of pieces. *)
LEMMA PiecesNat ==
  ASSUME NEW s, NEW X, IsFiniteSet(X), \A i \in X : s[i].qty \in Nat
  PROVE  SumOf(Qty, s, X) \in Nat
<1>1. PICK F : F = [i \in X |-> s[i].qty]
  OBVIOUS
<1>2. (\A i \in X : F[i] = Qty(s[i])) /\ F \in [X -> Nat]
  BY <1>1 DEF Qty
<1>3. PICK g : Sums(g, F, X) /\ SumOf(Qty, s, X) = g[X]
  BY <1>2, SumOfQuantities
<1>4. g[X] \in Nat
  BY <1>2, <1>3, SumsNat
<1> QED BY <1>3, <1>4

-----------------------------------------------------------------------------
(* Sequences of rows, whatever the rows hold. *)
IsSeq(s) == s \in Seq(Range(s))

LEMMA SeqFacts ==
  ASSUME NEW s, IsSeq(s)
  PROVE  /\ Len(s) \in Nat /\ DOMAIN s = 1..Len(s)
         /\ s = [i \in 1..Len(s) |-> s[i]]
<1>1. Len(s) \in Nat /\ DOMAIN s = 1..Len(s) /\ s \in [1..Len(s) -> Range(s)]
  BY LenProperties DEF IsSeq
<1> QED BY <1>1

LEMMA SeqMade ==
  ASSUME NEW s, NEW n \in Nat, DOMAIN s = 1..n, s = [i \in DOMAIN s |-> s[i]]
  PROVE  IsSeq(s) /\ Len(s) = n
<1>1. s \in [1..n -> Range(s)]
  BY DEF Range
<1>2. s \in Seq(Range(s))
  BY <1>1, SeqDef
<1> QED BY <1>2, LenProperties DEF IsSeq

LEMMA SeqAny ==
  ASSUME NEW S, NEW s \in Seq(S)
  PROVE  IsSeq(s)
<1>1. Len(s) \in Nat /\ DOMAIN s = 1..Len(s) /\ s \in [1..Len(s) -> S]
  BY LenProperties
<1> QED BY <1>1, SeqMade

LEMMA ConcatFacts ==
  ASSUME NEW s, NEW t, IsSeq(s), IsSeq(t)
  PROVE  /\ IsSeq(s \o t) /\ Len(s \o t) = Len(s) + Len(t)
         /\ DOMAIN (s \o t) = 1..(Len(s) + Len(t))
         /\ \A i \in 1..Len(s) : (s \o t)[i] = s[i]
         /\ \A i \in (Len(s) + 1)..(Len(s) + Len(t)) : (s \o t)[i] = t[i - Len(s)]
<1> DEFINE S == Range(s) \cup Range(t)
<1>1. s \in Seq(S) /\ t \in Seq(S)
  BY SeqMonotonic DEF IsSeq
<1>2. Len(s) \in Nat /\ Len(t) \in Nat
  BY SeqFacts
<1>3. /\ s \o t \in Seq(S) /\ Len(s \o t) = Len(s) + Len(t)
      /\ \A i \in 1..(Len(s) + Len(t)) : (s \o t)[i] = IF i <= Len(s) THEN s[i] ELSE t[i - Len(s)]
  <2> HIDE DEF S
  <2> QED BY <1>1, ConcatProperties
<1>4. IsSeq(s \o t)
  BY <1>3, SeqAny
<1> HIDE DEF S
<1> QED BY <1>2, <1>3, <1>4, SeqFacts

LEMMA RemoveFacts ==
  ASSUME NEW s, IsSeq(s), NEW k \in DOMAIN s
  PROVE  /\ IsSeq(RemoveAt(s, k)) /\ DOMAIN RemoveAt(s, k) = 1..(Len(s) - 1)
         /\ \A i \in 1..(Len(s) - 1) : RemoveAt(s, k)[i] = IF i < k THEN s[i] ELSE s[i + 1]
<1>1. Len(s) \in Nat /\ k \in 1..Len(s) /\ DOMAIN s = 1..Len(s)
  BY SeqFacts
<1> DEFINE a == SubSeq(s, 1, k - 1)
           b == SubSeq(s, k + 1, Len(s))
<1>2. \A i \in 1..Len(s) : s[i] \in Range(s)
  BY <1>1 DEF Range
<1>3. /\ a \in Seq(Range(s)) /\ Len(a) = k - 1
      /\ \A i \in 1..(k - 1) : a[i] = s[i]
  <2>1. \A i \in 1..(k - 1) : s[i] \in Range(s)
    BY <1>1, <1>2
  <2>2. 1 \in Int /\ k - 1 \in Int
    BY <1>1
  <2>3. /\ a \in Seq(Range(s)) /\ Len(a) = IF 1 <= k - 1 THEN k - 1 - 1 + 1 ELSE 0
        /\ \A i \in 1..(k - 1 - 1 + 1) : a[i] = s[1 + i - 1]
    BY <2>1, <2>2, SubSeqProperties
  <2> HIDE DEF a
  <2> QED BY <1>1, <2>3
<1>4. /\ b \in Seq(Range(s)) /\ Len(b) = Len(s) - k
      /\ \A i \in 1..(Len(s) - k) : b[i] = s[k + i]
  <2>1. \A i \in (k + 1)..Len(s) : s[i] \in Range(s)
    BY <1>1, <1>2
  <2>2. k + 1 \in Int /\ Len(s) \in Int
    BY <1>1
  <2>3. /\ b \in Seq(Range(s)) /\ Len(b) = IF k + 1 <= Len(s) THEN Len(s) - (k + 1) + 1 ELSE 0
        /\ \A i \in 1..(Len(s) - (k + 1) + 1) : b[i] = s[(k + 1) + i - 1]
    BY <2>1, <2>2, SubSeqProperties
  <2> HIDE DEF b
  <2>4. \A i \in 1..(Len(s) - k) : i \in 1..(Len(s) - (k + 1) + 1) /\ (k + 1) + i - 1 = k + i
    BY <1>1
  <2> QED BY <1>1, <2>3, <2>4
<1>5. RemoveAt(s, k) = a \o b
  BY DEF RemoveAt
<1> HIDE DEF a, b
<1>6. IsSeq(a) /\ IsSeq(b)
  BY <1>3, <1>4, SeqAny
<1>7. /\ IsSeq(a \o b) /\ DOMAIN (a \o b) = 1..(Len(a) + Len(b))
      /\ \A i \in 1..Len(a) : (a \o b)[i] = a[i]
      /\ \A i \in (Len(a) + 1)..(Len(a) + Len(b)) : (a \o b)[i] = b[i - Len(a)]
  BY <1>6, ConcatFacts
<1>8. ASSUME NEW i \in 1..(Len(s) - 1)
      PROVE  (a \o b)[i] = IF i < k THEN s[i] ELSE s[i + 1]
  <2>1. CASE i < k
    BY <1>1, <1>3, <1>7, <2>1
  <2>2. CASE ~(i < k)
    <3>1. i \in (Len(a) + 1)..(Len(a) + Len(b)) /\ i - Len(a) = i - k + 1
          /\ i - k + 1 \in 1..(Len(s) - k)
      BY <1>1, <1>3, <1>4, <2>2
    <3>2. (a \o b)[i] = b[i - k + 1] /\ b[i - k + 1] = s[k + (i - k + 1)]
      BY <3>1, <1>7, <1>4
    <3>3. k + (i - k + 1) = i + 1
      BY <1>1, <1>8
    <3> QED BY <2>2, <3>2, <3>3
  <2> QED BY <2>1, <2>2
<1> QED BY <1>1, <1>3, <1>4, <1>5, <1>7, <1>8
-----------------------------------------------------------------------------
(* Items by product, as many as there are. *)
ByProduct(f) ==
  /\ DOMAIN f \subseteq Products /\ IsFiniteSet(DOMAIN f)
  /\ \A p \in DOMAIN f : f[p].qty \in Nat

(* Rows of an order, in which a product may come several times.               *)
OrderRows(f) ==
  /\ IsFiniteSet(DOMAIN f)
  /\ \A k \in DOMAIN f : f[k].product \in Products /\ f[k].qty \in Nat

(* A subform has finitely many products. *)
LEMMA SeqRange ==
  ASSUME NEW s, IsSeq(s)
  PROVE  IsFiniteSet({s[i].product : i \in DOMAIN s})
<1> DEFINE T == {s[i].product : i \in DOMAIN s}
           f == [i \in DOMAIN s |-> s[i].product]
<1>1. IsFiniteSet(DOMAIN s)
  BY SeqFacts, FS_Interval
<1>2. f \in Surjection(DOMAIN s, T)
  BY DEF Surjection
<1>3. IsFiniteSet(T)
  <2> HIDE DEF T, f
  <2> QED BY <1>1, <1>2, FS_Surjection
<1> QED BY <1>3

(* A subform of known products comes back as items by product. *)
KnownRows(s) ==
  \A i \in DOMAIN s : s[i].product \in Products \cup {Carriage} /\ s[i].qty \in Nat

LEMMA ItemsType ==
  ASSUME NEW s, IsSeq(s), KnownRows(s)
  PROVE  ByProduct(ItemsOf(s))
<1>1. DOMAIN ItemsOf(s) = {s[i].product : i \in DOMAIN s} \ {Carriage}
  BY DEF ItemsOf
<1>2. DOMAIN ItemsOf(s) \subseteq Products
  BY <1>1 DEF KnownRows
<1>3. IsFiniteSet(DOMAIN ItemsOf(s))
  <2> DEFINE T == {s[i].product : i \in DOMAIN s}
  <2>1. IsFiniteSet(T) /\ T \ {Carriage} \in SUBSET T
    BY SeqRange
  <2> HIDE DEF T
  <2>2. IsFiniteSet(T \ {Carriage})
    BY <2>1, FS_Subset
  <2> QED BY <1>1, <2>2 DEF T
<1>4. ASSUME NEW p \in DOMAIN ItemsOf(s) PROVE ItemsOf(s)[p].qty \in Nat
  <2>1. ItemsOf(s)[p].qty = SumOf(Qty, s, RowsOf({p}, s))
    BY <1>1, <1>4 DEF ItemsOf, Merged
  <2>2. IsFiniteSet(DOMAIN s)
    <3>1. DOMAIN s = 1..Len(s) /\ Len(s) \in Nat
      BY SeqFacts
    <3> QED BY <3>1, FS_Interval
  <2>3. RowsOf({p}, s) \in SUBSET DOMAIN s
    BY DEF RowsOf
  <2>4. IsFiniteSet(RowsOf({p}, s))
    BY <2>2, <2>3, FS_Subset
  <2>5. \A i \in RowsOf({p}, s) : s[i].qty \in Nat
    BY <2>3 DEF KnownRows
  <2> QED BY <2>1, <2>4, <2>5, PiecesNat
<1> QED BY <1>2, <1>3, <1>4 DEF ByProduct

(* What is read back from a subform is the order: the same products, and of   *)
(* each as many pieces.                                                       *)
OfOrder(s) == ItemsUnchanged(ItemsOf(s))

LEMMA OfOrderKept ==
  ASSUME UNCHANGED lines, NEW w, OfOrder(w)
  PROVE  run'.want = w => OfOrder(run.want)'
<1>1. ItemsUnchanged(ItemsOf(w))'
  BY DEF OfOrder, ItemsUnchanged
<1> QED BY <1>1 DEF OfOrder

(* The same rows, but for the carriage. *)
SameGoods(s, t) ==
  /\ \A i : i \in DOMAIN s /\ s[i].product # Carriage <=> i \in DOMAIN t /\ t[i].product # Carriage
  /\ \A i \in DOMAIN s : s[i].product # Carriage =>
       s[i].product = t[i].product /\ s[i].qty = t[i].qty

LEMMA SameItems ==
  ASSUME NEW s, NEW t, IsSeq(s), SameGoods(s, t), OfOrder(s)
  PROVE  OfOrder(t)
<1>1. DOMAIN ItemsOf(s) = DOMAIN ItemsOf(t)
  <2>1. {s[i].product : i \in DOMAIN s} \ {Carriage} = {t[i].product : i \in DOMAIN t} \ {Carriage}
    BY DEF SameGoods
  <2> QED BY <2>1 DEF ItemsOf
<1>2. ASSUME NEW p \in DOMAIN ItemsOf(s) PROVE ItemsOf(s)[p].qty = ItemsOf(t)[p].qty
  <2>1. p # Carriage
    BY DEF ItemsOf
  <2>2. RowsOf({p}, s) = RowsOf({p}, t) /\ \A i \in RowsOf({p}, s) : s[i].qty = t[i].qty
    BY <2>1 DEF RowsOf, SameGoods
  <2>3. IsFiniteSet(DOMAIN s) /\ RowsOf({p}, s) \in SUBSET DOMAIN s
    BY SeqFacts, FS_Interval DEF RowsOf
  <2>4. IsFiniteSet(RowsOf({p}, s))
    BY <2>3, FS_Subset
  <2>5. SumOf(Qty, s, RowsOf({p}, s)) = SumOf(Qty, t, RowsOf({p}, s))
    BY <2>2, <2>4, SamePieces
  <2>6. /\ ItemsOf(s)[p].qty = SumOf(Qty, s, RowsOf({p}, s))
        /\ ItemsOf(t)[p].qty = SumOf(Qty, t, RowsOf({p}, t))
    BY <1>1, <1>2 DEF ItemsOf, Merged
  <2> QED BY <2>2, <2>5, <2>6
<1> QED BY <1>1, <1>2 DEF OfOrder, ItemsUnchanged

(* The same products in the same quantities. *)
LikeRows(s, t) ==
  /\ DOMAIN s = DOMAIN t
  /\ \A i \in DOMAIN s : s[i].product = t[i].product /\ s[i].qty = t[i].qty
(* What the backfill compares: row by row, product and quantity. *)
LEMMA LinedUp ==
  ASSUME NEW s, NEW t, IsSeq(s), IsSeq(t), LinesUp(s, t)
  PROVE  LikeRows(s, t)
BY SeqFacts DEF LinesUp, LikeRows

LEMMA LikeOrder ==
  ASSUME NEW s, NEW t, IsSeq(s), LikeRows(s, t), OfOrder(s)
  PROVE  OfOrder(t)
<1>1. SameGoods(s, t)
  BY DEF LikeRows, SameGoods
<1> QED BY <1>1, SameItems

(* Of rows that are one to a product each holds the pieces of its own.        *)
LEMMA PiecesByProduct ==
  ASSUME NEW t, ByProduct(t), \A p \in DOMAIN t : t[p].product = p
  PROVE  \A p \in DOMAIN t : SumOf(Qty, t, RowsOf({p}, t)) = t[p].qty
<1> SUFFICES ASSUME NEW p \in DOMAIN t PROVE SumOf(Qty, t, RowsOf({p}, t)) = t[p].qty
  OBVIOUS
<1>1. RowsOf({p}, t) = {p}
  BY DEF RowsOf
<1>2. t[p].qty \in Nat
  BY DEF ByProduct
<1> QED BY <1>1, <1>2, PiecesOfOne

(* The lines of the order as a sequence. *)
LEMMA OrderOfLines ==
  ASSUME NEW S, IsFiniteSet(S)
  PROVE  LET q == SetToSeq(S) IN
         /\ DOMAIN q = 1..Cardinality(S) /\ Cardinality(S) \in Nat
         /\ \A i \in DOMAIN q : q[i] \in S
         /\ \A p \in S : \E i \in DOMAIN q : q[i] = p
         /\ \A i, j \in DOMAIN q : q[i] = q[j] => i = j
<1> DEFINE n == Cardinality(S)
           q == SetToSeq(S)
<1>1. n \in Nat /\ ExistsBijection(1..n, S)
  BY FS_CardinalityType
<1>2. q \in [1..n -> S] /\ IsInjective(q)
  <2>1. PICK f \in Bijection(1..n, S) : TRUE
    BY <1>1 DEF ExistsBijection
  <2>2. f \in [1..n -> S] /\ IsInjective(f)
    BY <2>1 DEF Bijection, Injection
  <2> QED BY <2>2 DEF SetToSeq
<1> HIDE DEF q
<1>3. Range(q) = S
  <2>1. Range(q) \subseteq S
    BY <1>2 DEF Range
  <2>2. q \in Bijection(1..n, Range(q))
    <3>1. q \in [1..n -> Range(q)]
      BY <1>2 DEF Range
    <3>2. \A y \in Range(q) : \E x \in 1..n : q[x] = y
      BY <1>2 DEF Range
    <3> QED BY <1>2, <3>1, <3>2 DEF Bijection, Injection, Surjection
  <2>3. IsFiniteSet(1..n) /\ Cardinality(1..n) = n
    BY <1>1, FS_Interval
  <2>4. Cardinality(Range(q)) = n
    BY <2>2, <2>3, FS_Bijection DEF ExistsBijection
  <2> QED BY <2>1, <2>4, FS_Subset
<1>4. \A p \in S : \E i \in DOMAIN q : q[i] = p
  BY <1>3 DEF Range
<1> QED BY <1>1, <1>2, <1>4 DEF IsInjective, q

(* What the service sends of an order: an item for each row. *)
KeyAt(i) == SetToSeq(DOMAIN lines)[i]

LineItem(k, d) ==
  OrderedItem(lines[k].product, lines[k].qty, lines[k].price, MasterPrice[lines[k].product], d)

ShipItem == OrderedItem(Carriage, 1, 100 * RowValue("shipping"), 0, 0)

LEMMA ItemsFacts ==
  ASSUME IsFiniteSet(DOMAIN lines), NEW d
  PROVE  LET n == Cardinality(DOMAIN lines) IN
         /\ n \in Nat /\ IsSeq(ItemsAt(d)) /\ Len(ItemsAt(d)) \in {n, n + 1}
         /\ \A i \in 1..n : KeyAt(i) \in DOMAIN lines /\ ItemsAt(d)[i] = LineItem(KeyAt(i), d)
         /\ \A k \in DOMAIN lines : \E i \in 1..n : KeyAt(i) = k
         /\ \A i, j \in 1..n : KeyAt(i) = KeyAt(j) => i = j
         /\ \A i \in DOMAIN ItemsAt(d) :
              i \notin 1..n => i = n + 1 /\ ItemsAt(d)[i] = ShipItem
         /\ Len(ItemsAt(d)) = n + 1 <=> RowValue("shipping") > 0
<1> DEFINE n == Cardinality(DOMAIN lines)
           line(p) == LineItem(p, d)
           q == SetToSeq(DOMAIN lines)
           a == [i \in DOMAIN q |-> line(q[i])]
           c == ShipItem
           b == IF RowValue("shipping") > 0 THEN <<c>> ELSE << >>
           s == ItemsAt(d)
<1>1. /\ DOMAIN q = 1..n /\ n \in Nat
      /\ \A i \in DOMAIN q : q[i] \in DOMAIN lines
      /\ \A p \in DOMAIN lines : \E i \in DOMAIN q : q[i] = p
      /\ \A i, j \in DOMAIN q : q[i] = q[j] => i = j
  BY OrderOfLines
<1>2. s = a \o b
  BY DEF ItemsAt, LineItem, ShipItem
<1>3. \A i : KeyAt(i) = q[i]
  BY DEF KeyAt
<1> HIDE DEF q, line, c, s
<1>5. DOMAIN a = 1..n /\ \A i \in 1..n : a[i] = line(q[i])
  BY <1>1
<1>6. IsSeq(a) /\ Len(a) = n
  <2>1. a = [i \in DOMAIN a |-> a[i]]
    OBVIOUS
  <2> HIDE DEF a
  <2> QED BY <1>1, <1>5, <2>1, SeqMade
<1>7. /\ IsSeq(b) /\ Len(b) \in {0, 1} /\ \A i \in DOMAIN b : i = 1 /\ b[i] = c
      /\ Len(b) = 1 <=> RowValue("shipping") > 0
  <2>1. IsSeq(<<c>>) /\ Len(<<c>>) = 1 /\ <<c>>[1] = c /\ DOMAIN <<c>> = 1..1
    <3>1. <<c>> \in Seq({c}) /\ Len(<<c>>) = 1 /\ <<c>>[1] = c /\ DOMAIN <<c>> = 1..1
      OBVIOUS
    <3>2. IsSeq(<<c>>)
      BY <3>1, SeqAny
    <3> QED BY <3>1, <3>2
  <2>2. IsSeq(<< >>) /\ Len(<< >>) = 0 /\ DOMAIN << >> = {}
    <3>1. << >> \in Seq({c}) /\ Len(<< >>) = 0 /\ DOMAIN << >> = {}
      OBVIOUS
    <3>2. IsSeq(<< >>)
      BY <3>1, SeqAny
    <3> QED BY <3>1, <3>2
  <2> QED BY <2>1, <2>2
<1> HIDE DEF a, b
<1>8. /\ IsSeq(s) /\ Len(s) = n + Len(b) /\ DOMAIN s = 1..(n + Len(b))
      /\ \A i \in 1..n : s[i] = a[i]
      /\ \A i \in (n + 1)..(n + Len(b)) : s[i] = b[i - n]
  <2>1. IsSeq(a \o b) /\ Len(a \o b) = Len(a) + Len(b) /\ DOMAIN (a \o b) = 1..(Len(a) + Len(b))
    BY <1>6, <1>7, ConcatFacts
  <2>2. /\ \A i \in 1..Len(a) : (a \o b)[i] = a[i]
        /\ \A i \in (Len(a) + 1)..(Len(a) + Len(b)) : (a \o b)[i] = b[i - Len(a)]
    BY <1>6, <1>7, ConcatFacts
  <2>3. Len(a) = n
    BY <1>6
  <2> HIDE DEF n
  <2> QED BY <1>2, <2>1, <2>2, <2>3
<1>10. ASSUME NEW i \in DOMAIN s, i \notin 1..n
       PROVE  i = n + 1 /\ s[i] = c
  <2>1. i \in (n + 1)..(n + Len(b)) /\ Len(b) = 1 /\ i = n + 1
    BY <1>1, <1>7, <1>8, <1>10
  <2>2. s[i] = b[1] /\ 1 \in DOMAIN b
    BY <1>1, <1>7, <1>8, <2>1, SeqFacts
  <2> QED BY <1>7, <2>1, <2>2
<1>11. \A i \in 1..n : s[i] = line(q[i])
  BY <1>5, <1>8
<1>12. Len(s) = n + 1 <=> RowValue("shipping") > 0
  <2>1. Len(s) = n + Len(b) /\ n \in Nat /\ Len(b) \in {0, 1}
    BY <1>1, <1>7, <1>8
  <2>2. Len(s) = n + 1 <=> Len(b) = 1
    <3>1. \A m \in Nat : m + 0 # m + 1
      OBVIOUS
    <3> HIDE DEF n
    <3>2. CASE Len(b) = 0
      BY <2>1, <3>1, <3>2
    <3>3. CASE Len(b) = 1
      BY <2>1, <3>3
    <3> QED BY <2>1, <3>2, <3>3
  <2> QED BY <1>7, <2>2
<1>13. Len(s) \in {n, n + 1}
  BY <1>1, <1>7, <1>8
<1>14. /\ \A i \in 1..n : q[i] \in DOMAIN lines
       /\ \A k \in DOMAIN lines : \E i \in 1..n : q[i] = k
       /\ \A i, j \in 1..n : q[i] = q[j] => i = j
  BY <1>1
<1> HIDE DEF n
<1>15. \A i \in DOMAIN s : i \notin 1..n => i = n + 1 /\ s[i] = c
  BY <1>10
<1> QED BY <1>1, <1>3, <1>8, <1>11, <1>12, <1>13, <1>14, <1>15 DEF s, line, c, n

(* All of it is the order, and so is the first chunk if the lines fit. *)
LEMMA AllOfOrder ==
  ASSUME OrderRows(lines), NEW d
  PROVE  IsSeq(ItemsAt(d)) /\ OfOrder(ItemsAt(d)) /\ KnownRows(ItemsAt(d))
<1> DEFINE s == ItemsAt(d)
           n == Cardinality(DOMAIN lines)
<1>0. IsFiniteSet(DOMAIN lines) /\ \A k \in DOMAIN lines : lines[k].product \in Products /\ lines[k].qty \in Nat
  BY DEF OrderRows
<1>1. /\ n \in Nat /\ IsSeq(s)
      /\ Len(s) \in {n, n + 1}
      /\ \A i \in 1..n : KeyAt(i) \in DOMAIN lines /\ s[i] = LineItem(KeyAt(i), d)
      /\ \A k \in DOMAIN lines : \E i \in 1..n : KeyAt(i) = k
      /\ \A i, j \in 1..n : KeyAt(i) = KeyAt(j) => i = j
      /\ \A i \in DOMAIN s : i \notin 1..n => i = n + 1 /\ s[i] = ShipItem
  BY <1>0, ItemsFacts
<1>2. /\ \A k : LineItem(k, d).product = lines[k].product /\ LineItem(k, d).qty = lines[k].qty
      /\ ShipItem.product = Carriage /\ ShipItem.qty = 1
  BY DEF OrderedItem, LineItem, ShipItem
<1>3. Carriage \notin Products
  BY ForwardAssumption
<1> HIDE DEF s, n
<1>4. DOMAIN s = 1..Len(s) /\ 1..n \subseteq DOMAIN s
  BY <1>1, SeqFacts
<1>5. /\ \A i \in 1..n : s[i].product = lines[KeyAt(i)].product /\ s[i].qty = lines[KeyAt(i)].qty
      /\ \A i \in DOMAIN s : i \notin 1..n => s[i].product = Carriage /\ s[i].qty = 1
  BY <1>1, <1>2
<1>6. KnownRows(s)
  BY <1>0, <1>1, <1>5 DEF KnownRows
<1>7. DOMAIN ItemsOf(s) = {lines[k].product : k \in DOMAIN lines}
  <2>1. \A i \in DOMAIN s : s[i].product # Carriage => i \in 1..n
    BY <1>5
  <2>2. ASSUME NEW p \in {s[i].product : i \in DOMAIN s} \ {Carriage}
        PROVE  p \in {lines[k].product : k \in DOMAIN lines}
    BY <1>1, <1>5, <2>1
  <2>3. ASSUME NEW k \in DOMAIN lines
        PROVE  lines[k].product \in {s[i].product : i \in DOMAIN s} \ {Carriage}
    <3>1. PICK i \in 1..n : KeyAt(i) = k
      BY <1>1
    <3>2. i \in DOMAIN s /\ s[i].product = lines[k].product /\ lines[k].product # Carriage
      BY <1>0, <1>3, <1>4, <1>5, <3>1
    <3> QED BY <3>2
  <2>4. {s[i].product : i \in DOMAIN s} \ {Carriage} = {lines[k].product : k \in DOMAIN lines}
    BY <2>2, <2>3
  <2> QED BY <2>4 DEF ItemsOf
<1>8. ASSUME NEW p \in DOMAIN ItemsOf(s)
      PROVE  ItemsOf(s)[p].qty = SumOf(Qty, lines, RowsOf({p}, lines))
  <2> DEFINE X == RowsOf({p}, s)
             Y == RowsOf({p}, lines)
             f == [i \in X |-> KeyAt(i)]
  <2>1. p # Carriage
    BY <1>8 DEF ItemsOf
  <2>2. X = {i \in 1..n : lines[KeyAt(i)].product = p}
    BY <1>4, <1>5, <2>1 DEF RowsOf
  <2>3. Y = {k \in DOMAIN lines : lines[k].product = p}
    BY DEF RowsOf
  <2>4. IsFiniteSet(X) /\ IsFiniteSet(Y)
    <3>1. X \in SUBSET 1..n /\ Y \in SUBSET DOMAIN lines
      BY <2>2, <2>3
    <3>2. IsFiniteSet(1..n)
      BY <1>1, FS_Interval
    <3> HIDE DEF X, Y
    <3> QED BY <1>0, <3>1, <3>2, FS_Subset
  <2>5. ItemsOf(s)[p].qty = SumOf(Qty, s, X)
    BY <1>8 DEF ItemsOf, Merged
  <2> HIDE DEF X, Y
  <2>6. f \in [X -> Y] /\ \A i \in X : f[i] = KeyAt(i)
    BY <1>1, <2>2, <2>3
  <2> HIDE DEF f
  <2>7. (\A i, j \in X : f[i] = f[j] => i = j) /\ (\A y \in Y : \E i \in X : f[i] = y)
    BY <1>1, <2>2, <2>3, <2>6
  <2>8. (\A i \in X : s[i].qty = lines[f[i]].qty) /\ (\A y \in Y : lines[y].qty \in Nat)
    BY <1>0, <1>5, <2>2, <2>3, <2>6
  <2>9. SumOf(Qty, s, X) = SumOf(Qty, lines, Y)
    BY <2>4, <2>6, <2>7, <2>8, MatchedPieces
  <2> QED BY <2>5, <2>9 DEF Y
<1>9. OfOrder(s)
  BY <1>7, <1>8 DEF OfOrder, ItemsUnchanged
<1> QED BY <1>1, <1>6, <1>9 DEF s

LEMMA ChunkOfOrder ==
  ASSUME OrderRows(lines), NEW d
  PROVE  LET s == FirstChunk(ItemsAt(d)) IN
         /\ IsSeq(s) /\ KnownRows(s)
         /\ \A i \in DOMAIN s : i \in DOMAIN ItemsAt(d) /\ s[i] = ItemsAt(d)[i]
         /\ Cardinality(DOMAIN lines) <= ChunkSize => OfOrder(s)
<1> DEFINE t == ItemsAt(d)
           n == Cardinality(DOMAIN lines)
           m == IF Len(t) < ChunkSize THEN Len(t) ELSE ChunkSize
           s == SubSeq(t, 1, m)
<1>0. IsFiniteSet(DOMAIN lines)
  BY DEF OrderRows
<1>1. /\ n \in Nat /\ IsSeq(t)
      /\ Len(t) \in {n, n + 1}
      /\ \A i \in DOMAIN t : i \notin 1..n => t[i].product = Carriage
  <2>1. ShipItem.product = Carriage
    BY DEF ShipItem, OrderedItem
  <2> QED BY <1>0, <2>1, ItemsFacts
<1>2. OfOrder(t) /\ KnownRows(t)
  BY AllOfOrder
<1> HIDE DEF t
<1>3. Len(t) \in Nat /\ DOMAIN t = 1..Len(t) /\ ChunkSize \in Nat
  BY <1>1, SeqFacts, ForwardAssumption
<1>4. m \in Nat /\ m <= Len(t) /\ (n <= ChunkSize => n <= m)
  BY <1>1, <1>3
<1> HIDE DEF m
<1>5. s \in Seq(Range(t)) /\ Len(s) = m /\ \A i \in 1..m : s[i] = t[i]
  <2>1. \A i \in 1..m : t[i] \in Range(t)
    BY <1>3, <1>4 DEF Range
  <2>2. /\ s \in Seq(Range(t)) /\ Len(s) = IF 1 <= m THEN m - 1 + 1 ELSE 0
        /\ \A i \in 1..(m - 1 + 1) : s[i] = t[1 + i - 1]
    BY <1>4, <2>1, SubSeqProperties
  <2> HIDE DEF s
  <2> QED BY <1>4, <2>2
<1>6. IsSeq(s) /\ DOMAIN s = 1..m
  <2> HIDE DEF s
  <2> QED BY <1>5, SeqAny, SeqFacts
<1>7. /\ \A i \in 1..m : i \in DOMAIN t
      /\ n <= ChunkSize => \A i \in 1..n : i \in 1..m
  <2> HIDE DEF n
  <2>1. \A i \in 1..m : i \in 1..Len(t)
    BY <1>3, <1>4
  <2>2. n <= ChunkSize => \A i \in 1..n : i \in 1..m
    BY <1>1, <1>4
  <2> QED BY <1>3, <2>1, <2>2
<1>8. s = FirstChunk(ItemsAt(d))
  BY DEF FirstChunk, m, t
<1> HIDE DEF s
<1>11. \A i \in DOMAIN s : i \in DOMAIN ItemsAt(d) /\ s[i] = ItemsAt(d)[i]
  BY <1>5, <1>6, <1>7 DEF t
<1>9. n <= ChunkSize => OfOrder(s)
  <2> SUFFICES ASSUME n <= ChunkSize PROVE OfOrder(s)
    OBVIOUS
  <2> HIDE DEF n, s
  <2>1. \A i \in DOMAIN t : t[i].product # Carriage => i \in DOMAIN s
    BY <1>1, <1>6, <1>7
  <2>2. \A i \in DOMAIN s : i \in DOMAIN t /\ s[i] = t[i]
    BY <1>5, <1>6, <1>7
  <2>3. SameGoods(t, s)
    BY <2>1, <2>2 DEF SameGoods
  <2> QED BY <1>1, <1>2, <2>3, SameItems
<1>10. KnownRows(s)
  BY <1>2, <1>5, <1>6, <1>7 DEF KnownRows
<1> QED BY <1>6, <1>8, <1>9, <1>10, <1>11
-----------------------------------------------------------------------------
(* The rows in Zoho *)

RowFields == {"id", "product", "qty", "list", "disc"}

Subform(s) == IsSeq(s) /\ KnownRows(s) /\ \A i \in DOMAIN s : DOMAIN s[i] = RowFields

(* Each id once; the next id is n. *)
Distinct(s, n) ==
  /\ \A i \in DOMAIN s : s[i].id \in Nat /\ s[i].id < n
  /\ \A i, j \in DOMAIN s : s[i].id = s[j].id => i = j
(* The fields of a row. *)
LEMMA RowType ==
  ASSUME NEW n, NEW it
  PROVE  /\ Row(n, it).id = n /\ Row(n, it).product = it.product /\ Row(n, it).qty = it.qty
         /\ Row(n, it).list = it.list /\ Row(n, it).disc = it.disc
         /\ DOMAIN Row(n, it) = RowFields
BY DEF Row, RowFields
(* Rows without an id come after those there are, under ids of their own. *)
LEMMA AppendedRows ==
  ASSUME Subform(zoho.rows), zoho.next \in Nat, NEW items, IsSeq(items), KnownRows(items)
  PROVE  LET s == Appended(items) l == Len(zoho.rows) IN
         /\ Subform(s) /\ Len(s) = l + Len(items) /\ DOMAIN s = 1..(l + Len(items))
         /\ \A i \in 1..l : s[i] = zoho.rows[i]
         /\ \A i \in (l + 1)..(l + Len(items)) :
              s[i].id = zoho.next + (i - l) - 1 /\ s[i].product = items[i - l].product
                /\ s[i].qty = items[i - l].qty
                /\ s[i].list = items[i - l].list /\ s[i].disc = items[i - l].disc
<1> DEFINE r == zoho.rows
           l == Len(r)
           t == [i \in DOMAIN items |-> Row(zoho.next + i - 1, items[i])]
           s == r \o t
<1>1. /\ l \in Nat /\ DOMAIN r = 1..l /\ IsSeq(r)
      /\ Len(items) \in Nat /\ DOMAIN items = 1..Len(items)
  BY SeqFacts DEF Subform
<1>2. IsSeq(t) /\ Len(t) = Len(items) /\ DOMAIN t = 1..Len(items)
  <2>1. t = [i \in DOMAIN t |-> t[i]] /\ DOMAIN t = 1..Len(items)
    BY <1>1
  <2> HIDE DEF t
  <2> QED BY <1>1, <2>1, SeqMade
<1>3. \A i \in 1..Len(items) : t[i] = Row(zoho.next + i - 1, items[i])
  BY <1>1
<1>4. Appended(items) = s
  BY DEF Appended
<1>5. /\ IsSeq(s) /\ Len(s) = l + Len(items) /\ DOMAIN s = 1..(l + Len(items))
      /\ \A i \in 1..l : s[i] = r[i]
      /\ \A i \in (l + 1)..(l + Len(items)) : s[i] = t[i - l]
  <2> HIDE DEF t, r
  <2> QED BY <1>1, <1>2, ConcatFacts
<1> HIDE DEF s, t, r, l
<1>6. ASSUME NEW i \in (l + 1)..(l + Len(items))
      PROVE  i - l \in 1..Len(items) /\ s[i] = Row(zoho.next + (i - l) - 1, items[i - l])
  BY <1>1, <1>3, <1>5
<1>7. ASSUME NEW i \in DOMAIN s
      PROVE  /\ s[i].product \in Products \cup {Carriage} /\ s[i].qty \in Nat
             /\ DOMAIN s[i] = RowFields
  <2>1. CASE i \in 1..l
    BY <1>1, <1>5, <2>1 DEF Subform, KnownRows, r
  <2>2. CASE i \in (l + 1)..(l + Len(items))
    <3>1. /\ s[i].product = items[i - l].product /\ s[i].qty = items[i - l].qty
          /\ DOMAIN s[i] = RowFields /\ i - l \in DOMAIN items
      BY <1>1, <1>6, <2>2, RowType
    <3> QED BY <3>1 DEF KnownRows
  <2> QED BY <1>1, <1>5, <2>1, <2>2
<1>8. Subform(s)
  BY <1>5, <1>7 DEF Subform, KnownRows
<1>9. \A i \in (l + 1)..(l + Len(items)) :
        /\ s[i].id = zoho.next + (i - l) - 1 /\ s[i].product = items[i - l].product
        /\ s[i].qty = items[i - l].qty
        /\ s[i].list = items[i - l].list /\ s[i].disc = items[i - l].disc
  BY <1>6, RowType
<1> QED BY <1>4, <1>5, <1>8, <1>9 DEF r, l
(* A row changed in place. *)
LEMMA ChangedRow ==
  ASSUME Subform(zoho.rows), NEW i \in DOMAIN zoho.rows, NEW r, NEW w,
         r = [zoho.rows EXCEPT ![i] = w], DOMAIN w = RowFields,
         w.product = zoho.rows[i].product, w.id = zoho.rows[i].id,
         w.qty = zoho.rows[i].qty \/ w.qty \in Nat
  PROVE  /\ Subform(r) /\ Len(r) = Len(zoho.rows)
         /\ Distinct(zoho.rows, zoho.next) => Distinct(r, zoho.next)
<1>1. /\ DOMAIN r = DOMAIN zoho.rows /\ r[i] = w
      /\ \A j \in DOMAIN r : j # i => r[j] = zoho.rows[j]
      /\ r = [j \in DOMAIN r |-> r[j]]
  OBVIOUS
<1>2. IsSeq(r) /\ Len(r) = Len(zoho.rows)
  <2>1. Len(zoho.rows) \in Nat /\ DOMAIN r = 1..Len(zoho.rows)
    BY <1>1, SeqFacts DEF Subform
  <2> QED BY <1>1, <2>1, SeqMade
<1>3. \A j \in DOMAIN r : r[j].product = zoho.rows[j].product /\ r[j].id = zoho.rows[j].id
                          /\ DOMAIN r[j] = RowFields
                          /\ (r[j].qty = zoho.rows[j].qty \/ r[j].qty \in Nat)
  BY <1>1 DEF Subform
<1>4. Subform(r)
  BY <1>1, <1>2, <1>3 DEF Subform, KnownRows
<1>5. Distinct(zoho.rows, zoho.next) => Distinct(r, zoho.next)
  BY <1>1, <1>3 DEF Distinct
<1> QED BY <1>2, <1>4, <1>5
(* Whatever a manager saves, ids stay unique. *)
LEMMA EditedRows ==
  ASSUME Subform(zoho.rows), zoho.next \in Nat, NEW r \in Edited
  PROVE  Subform(r) /\ (Distinct(zoho.rows, zoho.next) => Distinct(r, zoho.next + Len(r)))
<1> DEFINE s == zoho.rows
<1>0. IsSeq(s) /\ Len(s) \in Nat /\ DOMAIN s = 1..Len(s)
  BY SeqFacts DEF Subform
<1>1. \A t : Distinct(t, zoho.next) /\ Len(t) \in Nat => Distinct(t, zoho.next + Len(t))
  BY DEF Distinct
<1>2. ASSUME NEW i \in DOMAIN s, NEW w, r = [s EXCEPT ![i] = w], DOMAIN w = RowFields,
             w.product = s[i].product, w.id = s[i].id, w.qty = s[i].qty \/ w.qty \in Nat
      PROVE  Subform(r) /\ (Distinct(s, zoho.next) => Distinct(r, zoho.next + Len(r)))
  <2>1. Subform(r) /\ Len(r) = Len(s) /\ (Distinct(s, zoho.next) => Distinct(r, zoho.next))
    BY <1>2, ChangedRow
  <2> QED BY <1>0, <1>1, <2>1
<1>3. CASE \E i \in DOMAIN s, d \in Discounts : r = [s EXCEPT ![i].disc = d]
  <2>1. PICK i \in DOMAIN s, d \in Discounts : r = [s EXCEPT ![i].disc = d]
    BY <1>3
  <2> DEFINE w == [s[i] EXCEPT !.disc = d]
  <2>2. r = [s EXCEPT ![i] = w]
    BY <2>1
  <2>3. DOMAIN s[i] = RowFields
    BY DEF Subform
  <2>4. DOMAIN w = RowFields /\ w.product = s[i].product /\ w.id = s[i].id /\ w.qty = s[i].qty
    BY <2>3 DEF RowFields
  <2> HIDE DEF w
  <2> QED BY <1>2, <2>2, <2>4
<1>4. CASE \E i \in DOMAIN s, n \in Prices : r = [s EXCEPT ![i].list = n]
  <2>1. PICK i \in DOMAIN s, n \in Prices : r = [s EXCEPT ![i].list = n]
    BY <1>4
  <2> DEFINE w == [s[i] EXCEPT !.list = n]
  <2>2. r = [s EXCEPT ![i] = w]
    BY <2>1
  <2>3. DOMAIN s[i] = RowFields
    BY DEF Subform
  <2>4. DOMAIN w = RowFields /\ w.product = s[i].product /\ w.id = s[i].id /\ w.qty = s[i].qty
    BY <2>3 DEF RowFields
  <2> HIDE DEF w
  <2> QED BY <1>2, <2>2, <2>4
<1>5. CASE \E i \in DOMAIN s, q \in Quantities : r = [s EXCEPT ![i].qty = q]
  <2>1. PICK i \in DOMAIN s, q \in Quantities : r = [s EXCEPT ![i].qty = q]
    BY <1>5
  <2> DEFINE w == [s[i] EXCEPT !.qty = q]
  <2>2. r = [s EXCEPT ![i] = w]
    BY <2>1
  <2>3. DOMAIN s[i] = RowFields /\ q \in Nat
    BY BackfillAssumption DEF Subform
  <2>4. DOMAIN w = RowFields /\ w.product = s[i].product /\ w.id = s[i].id /\ w.qty \in Nat
    BY <2>3 DEF RowFields
  <2> HIDE DEF w
  <2> QED BY <1>2, <2>2, <2>4
<1>6. CASE \E i \in DOMAIN s : r = RemoveAt(s, i)
  <2>1. PICK k \in DOMAIN s : r = RemoveAt(s, k)
    BY <1>6
  <2>2. /\ IsSeq(r) /\ DOMAIN r = 1..(Len(s) - 1)
        /\ \A i \in 1..(Len(s) - 1) : r[i] = IF i < k THEN s[i] ELSE s[i + 1]
    BY <1>0, <2>1, RemoveFacts
  <2> DEFINE at(i) == IF i < k THEN i ELSE i + 1
  <2>3. \A i \in DOMAIN r : at(i) \in DOMAIN s /\ r[i] = s[at(i)]
    BY <1>0, <2>2
  <2>4. \A i, j \in DOMAIN r : at(i) = at(j) => i = j
    BY <1>0, <2>2
  <2>5. Len(r) \in Nat
    BY <2>2, SeqFacts
  <2> HIDE DEF at
  <2>6. Subform(r)
    BY <2>2, <2>3 DEF Subform, KnownRows
  <2>7. Distinct(s, zoho.next) => Distinct(r, zoho.next)
    BY <2>3, <2>4 DEF Distinct
  <2> QED BY <1>1, <2>5, <2>6, <2>7
<1>7. CASE \E p \in Products \ {s[i].product : i \in DOMAIN s} :
             r = Appended(<<[product |-> p, qty |-> 1, list |-> MasterPrice[p], disc |-> 0]>>)
  <2>1. PICK p \in Products \ {s[i].product : i \in DOMAIN s} :
             r = Appended(<<[product |-> p, qty |-> 1, list |-> MasterPrice[p], disc |-> 0]>>)
    BY <1>7
  <2> DEFINE it == [product |-> p, qty |-> 1, list |-> MasterPrice[p], disc |-> 0]
             t == <<it>>
             l == Len(s)
  <2>2. IsSeq(t) /\ Len(t) = 1 /\ DOMAIN t = 1..1 /\ t[1] = it
    <3>1. <<it>> \in Seq({it}) /\ Len(<<it>>) = 1 /\ DOMAIN <<it>> = 1..1 /\ <<it>>[1] = it
      OBVIOUS
    <3>2. IsSeq(<<it>>)
      BY <3>1, SeqAny
    <3> QED BY <3>1, <3>2
  <2>3. it.product = p /\ it.qty = 1
    OBVIOUS
  <2>4. r = Appended(t)
    BY <2>1
  <2> HIDE DEF t, it
  <2>5. KnownRows(t)
    BY <2>2, <2>3 DEF KnownRows
  <2>6. /\ Subform(r) /\ Len(r) = l + 1 /\ DOMAIN r = 1..(l + 1)
        /\ \A i \in 1..l : r[i] = s[i]
        /\ \A i \in (l + 1)..(l + 1) :
              r[i].id = zoho.next + (i - l) - 1 /\ r[i].product = t[i - l].product
                /\ r[i].qty = t[i - l].qty
    BY <2>2, <2>4, <2>5, AppendedRows
  <2>7. r[l + 1].id = zoho.next /\ r[l + 1].product = p /\ r[l + 1].qty = 1
    <3>1. l + 1 \in (l + 1)..(l + 1) /\ l + 1 - l = 1 /\ zoho.next + 1 - 1 = zoho.next
      BY <1>0
    <3> QED BY <2>2, <2>3, <2>6, <3>1
  <2>9. \A i \in DOMAIN r : (i \in DOMAIN s /\ r[i] = s[i]) \/ i = l + 1
    BY <1>0, <2>6
  <2>10. ASSUME Distinct(s, zoho.next) PROVE Distinct(r, zoho.next + Len(r))
    <3>1. ASSUME NEW i \in DOMAIN r
          PROVE  r[i].id \in Nat /\ r[i].id < zoho.next + Len(r)
      BY <1>0, <2>6, <2>7, <2>9, <2>10 DEF Distinct
    <3>2. ASSUME NEW i \in DOMAIN r, NEW j \in DOMAIN r, r[i].id = r[j].id
          PROVE  i = j
      <4>1. \A k \in DOMAIN s : s[k].id # zoho.next
        BY <2>10 DEF Distinct
      <4> QED BY <2>7, <2>9, <2>10, <3>2, <4>1 DEF Distinct
    <3> QED BY <3>1, <3>2 DEF Distinct
  <2> QED BY <2>6, <2>10
<1> QED BY <1>3, <1>4, <1>5, <1>6, <1>7 DEF Edited

(* UpdateOrderItemRows writes rows in place; of a subform that has not changed *)
(* since it was read it leaves products, ids and quantities alone.            *)
LEMMA PatchedRows ==
  ASSUME Subform(zoho.rows), NEW want, IsSeq(want), KnownRows(want), NEW seen
  PROVE  LET r == Patched(Patches(want, seen)) IN
         /\ Subform(r) /\ Len(r) = Len(zoho.rows)
         /\ Distinct(zoho.rows, zoho.next) /\ seen = zoho.rows /\ LinesUp(want, seen)
              => Distinct(r, zoho.next) /\ LikeRows(zoho.rows, r)
<1> DEFINE s == zoho.rows
           P == Patches(want, seen)
           r == Patched(P)
<1>1. IsSeq(s) /\ Len(s) \in Nat /\ DOMAIN s = 1..Len(s)
  BY SeqFacts DEF Subform
<1>2. \A q \in P : \E i \in DOMAIN want : q = Row(seen[i].id, want[i])
  BY DEF Patches
<1>3. DOMAIN r = DOMAIN s /\ r = [i \in DOMAIN r |-> r[i]]
  BY DEF Patched
<1>4. ASSUME NEW i \in DOMAIN s
      PROVE  r[i] = s[i] \/ \E q \in P : q.id = s[i].id /\ r[i] = q
  BY DEF Patched
<1> HIDE DEF r, P
<1>5. IsSeq(r) /\ Len(r) = Len(s)
  BY <1>1, <1>3, SeqMade
<1>6. ASSUME NEW i \in DOMAIN r
      PROVE  /\ r[i].product \in Products \cup {Carriage} /\ r[i].qty \in Nat
             /\ DOMAIN r[i] = RowFields
  <2>1. CASE r[i] = s[i]
    BY <1>3, <2>1 DEF Subform, KnownRows
  <2>2. CASE r[i] # s[i]
    <3>1. PICK j \in DOMAIN want : r[i] = Row(seen[j].id, want[j])
      BY <1>2, <1>3, <1>4, <2>2
    <3> QED BY <3>1, RowType DEF KnownRows
  <2> QED BY <2>1, <2>2
<1>7. Subform(r)
  BY <1>5, <1>6 DEF Subform, KnownRows
<1>8. ASSUME Distinct(s, zoho.next), seen = s, LinesUp(want, seen)
      PROVE  Distinct(r, zoho.next) /\ LikeRows(s, r)
  <2>1. LikeRows(want, s)
    BY <1>1, <1>8, LinedUp
  <2>2. ASSUME NEW i \in DOMAIN s
        PROVE  r[i].id = s[i].id /\ r[i].product = s[i].product /\ r[i].qty = s[i].qty
    <3>1. CASE r[i] = s[i]
      BY <3>1
    <3>2. CASE r[i] # s[i]
      <4>1. PICK j \in DOMAIN want : r[i] = Row(s[j].id, want[j]) /\ r[i].id = s[i].id
        BY <1>2, <1>4, <1>8, <3>2
      <4>2. j \in DOMAIN s /\ want[j].product = s[j].product /\ want[j].qty = s[j].qty
        BY <2>1 DEF LikeRows
      <4>3. s[j].id = s[i].id
        BY <4>1, RowType
      <4>4. i = j
        BY <1>8, <4>2, <4>3 DEF Distinct
      <4> QED BY <4>1, <4>2, <4>4, RowType
    <3> QED BY <3>1, <3>2
  <2> QED BY <1>3, <1>8, <2>2 DEF Distinct, LikeRows
<1> QED BY <1>5, <1>7, <1>8 DEF r, P

-----------------------------------------------------------------------------
(* What holds whatever happens *)

RunFields == {"pc", "want", "seen", "time"}

DataOK ==
  /\ overlap \in BOOLEAN /\ used \in [Kinds -> Nat] /\ stamp \in Nat
  /\ zoho.time \in Nat /\ zoho.next \in Nat /\ Subform(zoho.rows)
  /\ OrderRows(lines)
  /\ \A h \in outbox : h.time \in Nat /\ ByProduct(h.items)
  /\ IsSeq(run.want) /\ KnownRows(run.want) /\ run.time \in Nat
  /\ DOMAIN run = RunFields

(* The rows built so far are those of the webhook in hand. *)
InHand ==
  /\ pc \in {"idle", "lines"}
  /\ pc = "idle" => DOMAIN built = {} /\ left = {}
  /\ pc = "lines" =>
       /\ hook \in outbox
       /\ left \subseteq DOMAIN hook.items /\ DOMAIN built = DOMAIN hook.items \ left
       /\ \A p \in DOMAIN built : built[p].product = p /\ built[p].qty = hook.items[p].qty

(* Nothing was sent yet. *)
Unsent ==
  ~Created => /\ zoho = NoRecord /\ stamp = 0 /\ outbox = {} /\ pc = "idle" /\ run.pc = "off"
              /\ Cardinality(DOMAIN lines) <= ChunkSize

(* The newest version is on its way until it is dealt with. *)
Current ==
  /\ stamp <= zoho.time
  /\ \A h \in outbox : /\ h.time <= zoho.time
                       /\ h.time = zoho.time => h.items = ItemsOf(zoho.rows)
  /\ stamp < zoho.time \/ pc = "lines" => \E h \in outbox : h.time = zoho.time
  /\ stamp = zoho.time => ItemsUnchanged(ItemsOf(zoho.rows))

(* What the backfill has in hand is the order as it is. *)
RunOK ==
  /\ run.pc \in {"get", "put", "stamp"} => OfOrder(run.want)
  /\ run.pc = "put" => run.seen = zoho.rows /\ LinesUp(run.want, run.seen)
  /\ run.pc = "stamp" => run.time = zoho.time /\ ItemsUnchanged(ItemsOf(zoho.rows))

Undisturbed == ~overlap /\ used["push"] = 0

(* What holds of an order in Zoho as long as nothing came between.            *)
Steady == Distinct(zoho.rows, zoho.next) /\ Current /\ RunOK

SidesInv ==
  /\ DataOK /\ InHand /\ Unsent
  /\ Created /\ Undisturbed => Steady

(* Every order the shop stored fits the first chunk. *)
WholeOrders ==
  \A s \in Stored : Cardinality(DOMAIN s.lines) <= ChunkSize

LEMMA SpendFacts ==
  ASSUME used \in [Kinds -> Nat], NEW k \in Kinds, Spend(k)
  PROVE  /\ used' \in [Kinds -> Nat]
         /\ used'["push"] = 0 => used["push"] = 0 /\ k # "push"
BY DEF Spend, Kinds

LEMMA RunRead ==
  ASSUME DOMAIN run = RunFields, NEW s, run' = [run EXCEPT !.pc = "put", !.seen = s]
  PROVE  /\ run'.pc = "put" /\ run'.seen = s /\ run'.want = run.want /\ run'.time = run.time
         /\ DOMAIN run' = RunFields
BY DEF RunFields

LEMMA RunWrote ==
  ASSUME DOMAIN run = RunFields, NEW t, run' = [run EXCEPT !.pc = "stamp", !.time = t]
  PROVE  /\ run'.pc = "stamp" /\ run'.want = run.want /\ run'.time = t
         /\ DOMAIN run' = RunFields
BY DEF RunFields
(* The command before and after a run. *)
LEMMA RunOver ==
  /\ NoRun.pc = "off" /\ NoRun.want = << >> /\ NoRun.time = 0 /\ DOMAIN NoRun = RunFields
  /\ IsSeq(<< >>) /\ KnownRows(<< >>)
<1>1. << >> \in Seq({0}) /\ DOMAIN << >> = {}
  OBVIOUS
<1> QED BY <1>1, SeqAny DEF NoRun, RunFields, KnownRows

(* A version more: what Zoho has, and the webhook about it. *)
LEMMA StoreFacts ==
  ASSUME DataOK, NEW r, Subform(r), NEW v, Store(r, v)
  PROVE  /\ zoho'.rows = r /\ zoho'.time = zoho.time + 1 /\ zoho'.next = zoho.next + Len(r)
         /\ zoho'.time \in Nat \ {0} /\ zoho'.next \in Nat /\ Len(r) \in Nat
         /\ \E h : /\ outbox' = outbox \cup {h}
                   /\ h.time = zoho.time + 1 /\ h.items = ItemsOf(r) /\ ByProduct(h.items)
<1>1. Len(r) \in Nat
  BY SeqFacts DEF Subform
<1>2. zoho'.rows = r /\ zoho'.time = zoho.time + 1 /\ zoho'.next = zoho.next + Len(r)
  BY DEF Store
<1>3. ByProduct(ItemsOf(r))
  BY ItemsType DEF Subform
<1>4. \E h : /\ outbox' = outbox \cup {h}
             /\ h.time = zoho.time + 1 /\ h.items = ItemsOf(r) /\ ByProduct(h.items)
  <2> DEFINE h == Payload(r, v, zoho.time + 1)
  <2>1. h.time = zoho.time + 1 /\ h.items = ItemsOf(r)
    BY DEF Payload
  <2>2. outbox' = outbox \cup {h}
    BY DEF Store
  <2> HIDE DEF h
  <2> QED BY <1>3, <2>1, <2>2
<1> QED BY <1>1, <1>2, <1>4 DEF DataOK
(* Storing a version keeps types and the webhook in hand. *)
LEMMA StoreData ==
  ASSUME DataOK, InHand, NEW r, Subform(r), NEW v, Store(r, v), UNCHANGED vars,
         overlap' \in BOOLEAN, used' \in [Kinds -> Nat], stamp' \in Nat,
         run'.want = run.want \/ run'.want = << >>, run'.time \in Nat,
         DOMAIN run' = RunFields
  PROVE  DataOK' /\ InHand'
<1>1. /\ zoho'.rows = r /\ zoho'.time \in Nat /\ zoho'.next \in Nat
      /\ zoho.time + 1 \in Nat
  BY StoreFacts DEF DataOK
<1>2. PICK h : /\ outbox' = outbox \cup {h}
               /\ h.time = zoho.time + 1 /\ h.items = ItemsOf(r) /\ ByProduct(h.items)
  BY StoreFacts
<1>3. \A g \in outbox' : g.time \in Nat /\ ByProduct(g.items)
  BY <1>1, <1>2 DEF DataOK
<1>4. Subform(zoho'.rows) /\ OrderRows(lines')
  BY <1>1 DEF vars, DataOK
<1>5. IsSeq(run'.want) /\ KnownRows(run'.want)
  BY RunOver DEF DataOK
<1>6. DataOK'
  BY <1>1, <1>3, <1>4, <1>5 DEF DataOK
<1>7. InHand'
  BY <1>2 DEF InHand, vars
<1> QED BY <1>6, <1>7
(* Types, and the rows a webhook has built, through every step. *)
LEMMA DataStep == DataOK /\ InHand /\ [NextAll]_allVars => DataOK' /\ InHand'
<1> SUFFICES ASSUME DataOK, InHand, [NextAll]_allVars PROVE DataOK' /\ InHand'
  OBVIOUS
<1> USE DEF Kinds
<1>0. \A k \in Kinds : Spend(k) => used' \in [Kinds -> Nat]
  BY SpendFacts DEF DataOK
<1>1. CASE Push
  <2>1. PICK r \in VatRates : Store(Appended(FirstChunk(AllItems(r))), VatPercent(r))
    BY <1>1 DEF Push
  <2>2. IsSeq(FirstChunk(AllItems(r))) /\ KnownRows(FirstChunk(AllItems(r)))
    BY ChunkOfOrder DEF AllItems, DataOK
  <2>3. Subform(Appended(FirstChunk(AllItems(r))))
    BY <2>2, AppendedRows DEF DataOK
  <2>4. /\ overlap' \in BOOLEAN /\ used' \in [Kinds -> Nat] /\ stamp' \in Nat
        /\ UNCHANGED <<vars, run>> /\ run.time \in Nat /\ DOMAIN run = RunFields
    BY <1>0, <1>1 DEF Push, Disturb, DataOK
  <2> QED BY <2>1, <2>3, <2>4, StoreData
<1>2. CASE ManagerEdits
  <2>1. PICK r \in Edited : Store(r, zoho.vat)
    BY <1>2 DEF ManagerEdits
  <2>2. Subform(r)
    BY <2>1, EditedRows DEF DataOK
  <2>3. /\ overlap' \in BOOLEAN /\ used' \in [Kinds -> Nat] /\ stamp' \in Nat
        /\ UNCHANGED <<vars, run>> /\ run.time \in Nat /\ DOMAIN run = RunFields
    BY <1>0, <1>2 DEF ManagerEdits, Disturb, DataOK
  <2> QED BY <2>1, <2>2, <2>3, StoreData
<1>3. CASE RunBackfill
  <2>1. CASE LoadSynced
    <3>1. PICK r \in VatRates : run' = [NoRun EXCEPT !.pc = "get", !.want = AllItems(r)]
      BY <2>1 DEF LoadSynced
    <3>2. run'.want = AllItems(r) /\ run'.time = 0 /\ DOMAIN run' = RunFields
      BY <3>1 DEF NoRun, RunFields
    <3>3. IsSeq(run'.want) /\ KnownRows(run'.want) /\ run'.time \in Nat
      BY <3>2, AllOfOrder DEF AllItems, DataOK
    <3> QED BY <1>0, <2>1, <3>2, <3>3 DEF LoadSynced, DataOK, InHand, vars
  <2>2. CASE BackfillGet
    <3>0. run' = NoRun \/ run' = [run EXCEPT !.pc = "put", !.seen = zoho.rows]
      BY <2>2 DEF BackfillGet, Over
    <3>1. /\ IsSeq(run'.want) /\ KnownRows(run'.want) /\ run'.time \in Nat
          /\ DOMAIN run' = RunFields
      <4>1. DOMAIN run = RunFields /\ IsSeq(run.want) /\ KnownRows(run.want) /\ run.time \in Nat
        BY DEF DataOK
      <4>2. run' = NoRun \/ (run'.want = run.want /\ run'.time = run.time /\ DOMAIN run' = RunFields)
        BY <3>0, <4>1, RunRead
      <4> QED BY <4>1, <4>2, RunOver
    <3> QED BY <2>2, <3>1 DEF BackfillGet, DataOK, InHand, vars
  <2>3. CASE BackfillPut
    <3> DEFINE P == Patches(run.want, run.seen)
    <3>1. Subform(Patched(P))
      BY PatchedRows DEF DataOK
    <3>2. UNCHANGED <<vars, stamp, overlap>> /\ used' \in [Kinds -> Nat]
      BY <1>0, <2>3 DEF BackfillPut, DataOK
    <3>3. /\ (run'.want = run.want \/ run'.want = << >>) /\ run'.time \in Nat
          /\ DOMAIN run' = RunFields
      <4>1. run' = NoRun \/ run' = [run EXCEPT !.pc = "stamp", !.time = zoho.time + 1]
        BY <2>3 DEF BackfillPut, Over
      <4>2. DOMAIN run = RunFields /\ zoho.time + 1 \in Nat
        BY DEF DataOK
      <4>3. run' = NoRun \/ (run'.want = run.want /\ run'.time = zoho.time + 1 /\ DOMAIN run' = RunFields)
        BY <4>1, <4>2, RunWrote
      <4> QED BY <4>2, <4>3, RunOver
    <3>4. CASE Store(Patched(P), zoho.vat)
      <4> HIDE DEF P
      <4> QED BY <3>1, <3>2, <3>3, <3>4, StoreData DEF DataOK
    <3>5. CASE UNCHANGED <<zoho, outbox>>
      BY RunOver, <3>2, <3>3, <3>5 DEF DataOK, InHand, vars
    <3> QED BY <2>3, <3>4, <3>5 DEF BackfillPut
  <2>4. CASE BackfillStamp
    <3>1. /\ IsSeq(run'.want) /\ KnownRows(run'.want) /\ run'.time \in Nat
          /\ DOMAIN run' = RunFields
      BY <2>4, RunOver DEF BackfillStamp, Over, DataOK
    <3> QED BY <1>0, <2>4, <3>1 DEF BackfillStamp, DataOK, InHand, vars
  <2> QED BY <1>3, <2>1, <2>2, <2>3, <2>4 DEF RunBackfill
<1>4. CASE Webhook
  <2>1. ASSUME NEW h \in outbox, SkipEcho(h) PROVE DataOK' /\ InHand'
    BY <2>1 DEF SkipEcho, DataOK, InHand, vars
  <2>2. ASSUME NEW h \in outbox, StatusOnly(h) PROVE DataOK' /\ InHand'
    BY <2>2 DEF StatusOnly, Disturb, DataOK, InHand, vars
  <2>3. ASSUME NEW h \in outbox, Apply(h) PROVE DataOK' /\ InHand'
    BY <2>3 DEF Apply, Receive, DataOK, InHand, sideVars
  <2>4. CASE ApplyLine
    <3>1. PICK p \in left : AddLine(p) /\ UNCHANGED sideVars
      BY <2>4 DEF ApplyLine
    <3>2. DataOK'
      BY <3>1 DEF AddLine, DataOK, sideVars
    <3>3. pc = "lines" /\ pc' = "lines"
      BY <3>1 DEF AddLine, InHand
    <3> QED BY <3>1, <3>2, <3>3 DEF AddLine, InHand, sideVars
  <2>5. CASE Applied
    <3>0. /\ pc = "lines" /\ hook \in outbox /\ DOMAIN built = DOMAIN hook.items
          /\ \A p \in DOMAIN built : built[p].product = p /\ built[p].qty = hook.items[p].qty
      BY <2>5 DEF Applied, Commit, Done, InHand
    <3>1. OrderRows(built)
      BY <3>0 DEF DataOK, ByProduct, OrderRows
    <3>2. DataOK'
      BY <2>5, <3>1 DEF Applied, Commit, Done, InHand, DataOK, Disturb
    <3>3. InHand'
      BY <2>5, NoLinesType DEF Applied, Commit, Done, InHand
    <3> QED BY <3>2, <3>3
  <2>6. CASE Refused
    <3>1. DataOK'
      BY <1>0, <2>6 DEF Refused, Rollback, DataOK
    <3>2. InHand'
      BY <2>6, NoLinesType DEF Refused, Rollback, Done, InHand
    <3> QED BY <3>1, <3>2
  <2> QED BY <1>4, <2>1, <2>2, <2>3, <2>4, <2>5, <2>6 DEF Webhook, Accepted
<1>5. CASE UNCHANGED allVars
  BY <1>5 DEF allVars, sideVars, vars, DataOK, InHand
<1> QED BY <1>1, <1>2, <1>3, <1>4, <1>5 DEF NextAll
-----------------------------------------------------------------------------
(* What holds while nobody changes the order under a run, or pushes it again *)

LEMMA UndisturbedBefore ==
  ASSUME DataOK, [NextAll]_allVars, Undisturbed'
  PROVE  Undisturbed /\ (Disturb => run.pc = "off") /\ ~Spend("push")
<1>1. used \in [Kinds -> Nat] /\ overlap \in BOOLEAN
  BY DEF DataOK
<1>2. \A k \in Kinds : Spend(k) => (used'["push"] = 0 => used["push"] = 0 /\ k # "push")
  BY <1>1, SpendFacts
<1>3. used'["push"] = 0 => used["push"] = 0
  <2>1. used' = used \/ \E k \in Kinds : Spend(k)
    BY DEF Kinds, NextAll, Push, ManagerEdits, Webhook, SkipEcho, StatusOnly, Apply, ApplyLine, Applied,
           Refused, RunBackfill, LoadSynced, BackfillGet, BackfillPut, BackfillStamp, sideVars, allVars
  <2> QED BY <1>2, <2>1
<1>4. overlap => overlap'
  BY DEF NextAll, Push, ManagerEdits, Webhook, SkipEcho, StatusOnly, Apply, ApplyLine, Applied, Disturb,
         Refused, RunBackfill, LoadSynced, BackfillGet, BackfillPut, BackfillStamp, sideVars, allVars
<1>5. "push" \in Kinds
  BY DEF Kinds
<1> QED BY <1>1, <1>2, <1>3, <1>4, <1>5 DEF Undisturbed, Disturb

(* Before the first push there is nothing to do but to push. *)
LEMMA FirstIsPush ==
  ASSUME DataOK, InHand, Unsent, ~Created, [NextAll]_allVars
  PROVE  Push \/ UNCHANGED allVars
<1>1. outbox = {} /\ pc = "idle" /\ run.pc = "off" /\ left = {}
  BY DEF Unsent, InHand
<1>2. ~RunBackfill
  BY <1>1 DEF RunBackfill, LoadSynced, BackfillGet, BackfillPut, BackfillStamp
<1>3. ~Webhook
  BY <1>1 DEF Webhook, Accepted, ApplyLine, Applied, Commit, Done, Refused, Rollback
<1>4. ~ManagerEdits
  BY DEF ManagerEdits
<1> QED BY <1>2, <1>3, <1>4 DEF NextAll
(* Once it is in Zoho, the order stays there. *)
LEMMA UnsentStep ==
  ASSUME DataOK, InHand, Unsent, [NextAll]_allVars
  PROVE  Unsent'
<1>1. ASSUME NEW r, NEW v, Store(r, v) PROVE Created'
  BY <1>1 DEF Store, Created, DataOK
<1>2. CASE ~Created
  <2>1. CASE Push
    BY <1>1, <2>1 DEF Push, Unsent
  <2>2. CASE UNCHANGED allVars
    BY <2>2 DEF allVars, sideVars, vars, Unsent, Created
  <2> QED BY <1>2, <2>1, <2>2, FirstIsPush
<1>3. CASE Created
  <2>1. zoho' = zoho \/ \E r, v : Store(r, v)
    BY DEF NextAll, Push, ManagerEdits, Webhook, SkipEcho, StatusOnly, Apply, ApplyLine, Applied,
           Refused, RunBackfill, LoadSynced, BackfillGet, BackfillPut, BackfillStamp, sideVars, allVars
  <2> QED BY <1>1, <1>3, <2>1 DEF Unsent, Created
<1> QED BY <1>2, <1>3

(* A version that a manager or the backfill writes is the newest, and on its way. *)
LEMMA StoreCurrent ==
  ASSUME DataOK, Current, NEW r, Subform(r), NEW v, Store(r, v), UNCHANGED stamp
  PROVE  Current'
<1>1. zoho'.rows = r /\ zoho'.time = zoho.time + 1
  BY StoreFacts
<1>2. PICK h : outbox' = outbox \cup {h} /\ h.time = zoho.time + 1 /\ h.items = ItemsOf(r)
  BY StoreFacts
<1>3. stamp \in Nat /\ zoho.time \in Nat /\ \A g \in outbox : g.time \in Nat
  BY DEF DataOK
<1>4. stamp < zoho.time + 1 /\ \A g \in outbox : g.time < zoho.time + 1
  BY <1>3 DEF Current
<1> QED BY <1>1, <1>2, <1>3, <1>4 DEF Current
(* What processOrder sends of a new order is the order. *)
LEMMA FirstPush ==
  ASSUME DataOK, Unsent, ~Created, Push
  PROVE  Steady'
<1>1. /\ zoho = NoRecord /\ stamp = 0 /\ outbox = {} /\ pc = "idle" /\ run.pc = "off"
      /\ Cardinality(DOMAIN lines) <= ChunkSize
  BY DEF Unsent
<1>2. PICK r \in VatRates : Store(Appended(FirstChunk(AllItems(r))), VatPercent(r))
  BY DEF Push
<1> DEFINE t == FirstChunk(AllItems(r))
           s == Appended(t)
<1>3. IsSeq(t) /\ KnownRows(t) /\ OfOrder(t)
  BY <1>1, ChunkOfOrder DEF AllItems, DataOK
<1>4. zoho.rows = << >> /\ Len(zoho.rows) = 0 /\ zoho.next = 1 /\ zoho.time = 0
  BY <1>1 DEF NoRecord
<1> HIDE DEF t
<1>5. /\ Subform(s) /\ Len(s) = Len(t) /\ DOMAIN s = 1..Len(t)
      /\ \A i \in 1..Len(t) : s[i].id = i /\ s[i].product = t[i].product /\ s[i].qty = t[i].qty
  <2>1. /\ Subform(s) /\ Len(s) = 0 + Len(t) /\ DOMAIN s = 1..(0 + Len(t))
        /\ \A i \in (0 + 1)..(0 + Len(t)) :
              s[i].id = 1 + (i - 0) - 1 /\ s[i].product = t[i - 0].product
                /\ s[i].qty = t[i - 0].qty
    BY <1>3, <1>4, AppendedRows DEF DataOK
  <2>2. Len(t) \in Nat
    BY <1>3, SeqFacts
  <2> HIDE DEF s
  <2> QED BY <2>1, <2>2
<1>6. zoho'.rows = s /\ zoho'.time = 1 /\ zoho'.next = 1 + Len(s)
  BY <1>2, <1>4, <1>5, StoreFacts DEF t
<1>7. PICK h : outbox' = {h} /\ h.time = 1 /\ h.items = ItemsOf(s)
  BY <1>1, <1>2, <1>4, <1>5, StoreFacts DEF t
<1> HIDE DEF s
<1>8. DOMAIN t = 1..Len(t) /\ Len(t) \in Nat /\ LikeRows(t, s)
  BY <1>3, <1>5, SeqFacts DEF LikeRows
<1>9. OfOrder(s)
  BY <1>3, <1>8, LikeOrder
<1>10. ItemsUnchanged(ItemsOf(s))
  BY <1>9 DEF OfOrder
<1>11. Distinct(s, 1 + Len(s))
  BY <1>5, <1>8 DEF Distinct
<1>12. stamp' = 1 /\ pc' = "idle" /\ run'.pc = "off" /\ lines' = lines
  BY <1>1, <1>4 DEF Push, vars
<1>13. Distinct(zoho.rows, zoho.next)'
  BY <1>6, <1>11
<1>14. ItemsUnchanged(ItemsOf(zoho.rows))'
  BY <1>6, <1>10, <1>12 DEF ItemsUnchanged
<1>15. Current'
  BY <1>6, <1>7, <1>12, <1>14 DEF Current
<1>16. RunOK'
  BY <1>12 DEF RunOK
<1> QED BY <1>13, <1>15, <1>16 DEF Steady
(* A save of a manager. *)
LEMMA EditStep ==
  ASSUME DataOK, Steady, ManagerEdits, run.pc = "off"
  PROVE  Steady'
<1>1. PICK r \in Edited : Store(r, zoho.vat)
  BY DEF ManagerEdits
<1>2. Subform(r) /\ Distinct(r, zoho.next + Len(r))
  BY EditedRows DEF Steady, DataOK
<1>3. zoho'.rows = r /\ zoho'.next = zoho.next + Len(r)
  BY <1>1, <1>2, StoreFacts
<1>4. Current'
  BY <1>1, <1>2, StoreCurrent DEF Steady, ManagerEdits
<1>5. Distinct(zoho.rows, zoho.next)'
  BY <1>2, <1>3
<1>6. RunOK'
  BY DEF ManagerEdits, RunOK
<1> QED BY <1>4, <1>5, <1>6 DEF Steady
(* A step of BackfillOrderDiscounts, with nobody changing the order under it. *)
LEMMA RunStep ==
  ASSUME DataOK, InHand, Created, Steady, RunBackfill
  PROVE  Steady'
<1>0. /\ Distinct(zoho.rows, zoho.next) /\ Current /\ RunOK
      /\ Subform(zoho.rows) /\ OrderRows(lines) /\ IsSeq(run.want) /\ KnownRows(run.want)
      /\ zoho.next \in Nat /\ DOMAIN run = RunFields
  BY DEF Steady, DataOK
<1>1. CASE LoadSynced
  <2>1. PICK r \in VatRates : run' = [NoRun EXCEPT !.pc = "get", !.want = AllItems(r)]
    BY <1>1 DEF LoadSynced
  <2>2. run'.pc = "get" /\ run'.want = AllItems(r)
    BY <2>1 DEF NoRun
  <2>3. OfOrder(AllItems(r))
    BY <1>0, AllOfOrder DEF AllItems
  <2>4. UNCHANGED <<lines, pc, hook, zoho, outbox, stamp>>
    BY <1>1 DEF LoadSynced, vars
  <2>5. OfOrder(run.want)'
    <3>1. PICK w : w = AllItems(r)
      OBVIOUS
    <3>2. OfOrder(w)
      BY <2>3, <3>1
    <3> QED BY <2>2, <2>4, <3>1, <3>2, OfOrderKept
  <2>6. RunOK'
    BY <2>2, <2>5 DEF RunOK
  <2>7. Current'
    BY <1>0, <2>4 DEF Current, ItemsUnchanged
  <2> QED BY <1>0, <2>4, <2>6, <2>7 DEF Steady
<1>2. CASE BackfillGet
  <2>1. UNCHANGED <<lines, pc, hook, zoho, outbox, stamp>>
    BY <1>2 DEF BackfillGet, vars
  <2>2. Current' /\ Distinct(zoho.rows, zoho.next)'
    BY <1>0, <2>1 DEF Current, ItemsUnchanged
  <2>3. CASE run' = NoRun
    BY <2>2, <2>3, RunOver DEF Steady, RunOK
  <2>4. CASE run' # NoRun
    <3>1. /\ run.pc = "get" /\ LinesUp(run.want, zoho.rows)
          /\ run' = [run EXCEPT !.pc = "put", !.seen = zoho.rows]
      BY <1>2, <2>4 DEF BackfillGet, Over
    <3>2. run'.pc = "put" /\ run'.seen = zoho.rows /\ run'.want = run.want
      BY <1>0, <3>1, RunRead
    <3>3. OfOrder(run.want)
      BY <1>0, <3>1 DEF RunOK
    <3>4. OfOrder(run.want)'
      BY <2>1, <3>2, <3>3, OfOrderKept
    <3>5. RunOK'
      BY <2>1, <3>1, <3>2, <3>4 DEF RunOK, LinesUp
    <3> QED BY <2>2, <3>5 DEF Steady
  <2> QED BY <2>3, <2>4
<1>3. CASE BackfillPut
  <2> DEFINE P == Patches(run.want, run.seen)
             r == Patched(P)
  <2>1. run.pc = "put" /\ run.seen = zoho.rows /\ LinesUp(run.want, run.seen) /\ OfOrder(run.want)
    BY <1>0, <1>3 DEF BackfillPut, RunOK
  <2>2. Subform(r) /\ Len(r) = Len(zoho.rows) /\ Distinct(r, zoho.next) /\ LikeRows(zoho.rows, r)
    BY <1>0, <2>1, PatchedRows
  <2>3. LikeRows(run.want, zoho.rows)
    BY <1>0, <2>1, LinedUp DEF Subform
  <2>4. UNCHANGED <<lines, pc, hook, stamp>>
    BY <1>3 DEF BackfillPut, vars
  <2>5. OfOrder(r)
    <3>1. IsSeq(zoho.rows)
      BY <1>0 DEF Subform
    <3>2. OfOrder(zoho.rows)
      BY <1>0, <2>1, <2>3, LikeOrder
    <3> QED BY <2>2, <3>1, <3>2, LikeOrder
  <2>6. ItemsUnchanged(ItemsOf(r))
    BY <2>5 DEF OfOrder
  <2>7. CASE UNCHANGED <<zoho, outbox>> /\ run' = NoRun
    <3>1. Current' /\ Distinct(zoho.rows, zoho.next)'
      BY <1>0, <2>4, <2>7 DEF Current, ItemsUnchanged
    <3> QED BY <2>7, <3>1, RunOver DEF Steady, RunOK
  <2>8. CASE Store(r, zoho.vat)
    <3> HIDE DEF r
    <3>1. /\ zoho'.rows = r /\ zoho'.next = zoho.next + Len(r) /\ Len(r) \in Nat
          /\ zoho'.time = zoho.time + 1
      BY <2>2, <2>8, StoreFacts
    <3>2. Current'
      BY <1>0, <2>2, <2>4, <2>8, StoreCurrent
    <3>3. Distinct(zoho.rows, zoho.next)'
      BY <1>0, <2>2, <3>1 DEF Distinct
    <3>4. ItemsUnchanged(ItemsOf(zoho.rows))'
      BY <2>4, <2>6, <3>1 DEF ItemsUnchanged
    <3>5. run' = NoRun \/ run' = [run EXCEPT !.pc = "stamp", !.time = zoho.time + 1]
      BY <1>3 DEF BackfillPut, Over
    <3>6. \/ run'.pc = "off"
          \/ run'.pc = "stamp" /\ run'.time = zoho'.time /\ run'.want = run.want
      BY <1>0, <3>1, <3>5, RunOver, RunWrote
    <3>7. OfOrder(run.want) /\ run'.want = run.want => OfOrder(run.want)'
      BY <2>4, OfOrderKept
    <3>8. RunOK'
      BY <2>1, <3>4, <3>6, <3>7 DEF RunOK
    <3> QED BY <3>2, <3>3, <3>8 DEF Steady
  <2> QED BY <1>3, <2>7, <2>8 DEF BackfillPut, Over
<1>4. CASE BackfillStamp
  <2>1. UNCHANGED <<lines, pc, hook, zoho, outbox>> /\ run' = NoRun /\ run.pc = "stamp"
    BY <1>4 DEF BackfillStamp, vars, Over
  <2>2. run.time = zoho.time /\ ItemsUnchanged(ItemsOf(zoho.rows))
    BY <1>0, <2>1 DEF RunOK
  <2>3. stamp' = zoho.time \/ stamp' = stamp
    BY <1>4, <2>2 DEF BackfillStamp
  <2>4. ItemsUnchanged(ItemsOf(zoho.rows))'
    BY <2>1, <2>2 DEF ItemsUnchanged
  <2>5. zoho.time \in Nat
    BY DEF DataOK
  <2>6. Current'
    BY <1>0, <2>1, <2>3, <2>4, <2>5 DEF Current
  <2> QED BY <1>0, <2>1, <2>6, RunOver DEF Steady, RunOK
<1> QED BY <1>1, <1>2, <1>3, <1>4 DEF RunBackfill
(* A webhook skipped, acknowledged, applied or refused. *)
LEMMA WebhookStep ==
  ASSUME DataOK, InHand, Created, Steady, Webhook, Disturb => run.pc = "off"
  PROVE  Steady'
<1>0. /\ Distinct(zoho.rows, zoho.next) /\ Current /\ RunOK
      /\ stamp \in Nat /\ zoho.time \in Nat /\ \A h \in outbox : h.time \in Nat
  BY DEF Steady, DataOK
<1>1. UNCHANGED <<zoho, run>>
  BY DEF Webhook, SkipEcho, StatusOnly, Apply, ApplyLine, Applied, Refused, sideVars
<1>2. Distinct(zoho.rows, zoho.next)'
  BY <1>0, <1>1

(* A run goes on only while the lines stay. *)
<1>3. ASSUME lines' = lines \/ run.pc = "off" PROVE RunOK'
  <2>1. CASE lines' = lines
    BY <1>0, <1>1, <2>1 DEF RunOK, OfOrder, LinesUp, ItemsUnchanged
  <2>2. CASE run.pc = "off"
    BY <1>1, <2>2 DEF RunOK
  <2> QED BY <1>3, <2>1, <2>2
<1>5. ASSUME NEW h \in outbox, SkipEcho(h) PROVE Steady'
  <2>1. UNCHANGED <<lines, pc, stamp>> /\ outbox' = outbox \ {h} /\ pc = "idle" /\ h.time <= stamp
    BY <1>5 DEF SkipEcho, vars
  <2>2. ItemsUnchanged(ItemsOf(zoho.rows))' <=> ItemsUnchanged(ItemsOf(zoho.rows))
    BY <1>1, <2>1 DEF ItemsUnchanged
  <2>3. Current'
    BY <1>0, <1>1, <2>1, <2>2 DEF Current
  <2> QED BY <1>2, <1>3, <2>1, <2>3 DEF Steady
<1>6. ASSUME NEW h \in outbox, StatusOnly(h) PROVE Steady'
  <2>1. /\ UNCHANGED <<lines, pc>> /\ outbox' = outbox \ {h} /\ pc = "idle" /\ stamp' = h.time
        /\ stamp < h.time /\ ItemsUnchanged(h.items)
    BY <1>0, <1>6 DEF StatusOnly, vars
  <2>2. \A t : ItemsUnchanged(t) => ItemsUnchanged(t)'
    BY <2>1 DEF ItemsUnchanged
  <2>3. CASE h.time = zoho.time
    <3>1. ItemsUnchanged(ItemsOf(zoho.rows))'
      BY <1>0, <1>1, <2>1, <2>3 DEF Current, ItemsUnchanged
    <3>2. Current'
      BY <1>0, <1>1, <2>1, <2>3, <3>1 DEF Current
    <3> QED BY <1>2, <1>3, <2>1, <3>2 DEF Steady
  <2>4. CASE h.time # zoho.time
    <3>1. h.time < zoho.time
      BY <1>0, <2>4 DEF Current
    <3>2. Current'
      BY <1>0, <1>1, <2>1, <3>1 DEF Current
    <3> QED BY <1>2, <1>3, <2>1, <3>2 DEF Steady
  <2> QED BY <2>3, <2>4
<1>7. ASSUME NEW h \in outbox, Apply(h) PROVE Steady'
  <2>1. UNCHANGED <<lines, stamp, outbox>> /\ pc' = "lines" /\ stamp < h.time
    BY <1>0, <1>7 DEF Apply, Receive, sideVars
  <2>2. ItemsUnchanged(ItemsOf(zoho.rows))' <=> ItemsUnchanged(ItemsOf(zoho.rows))
    BY <1>1, <2>1 DEF ItemsUnchanged
  <2>3. stamp < zoho.time
    BY <1>0, <2>1 DEF Current
  <2>4. Current'
    BY <1>0, <1>1, <2>1, <2>2, <2>3 DEF Current
  <2> QED BY <1>2, <1>3, <2>1, <2>4 DEF Steady
<1>8. CASE ApplyLine
  <2>1. UNCHANGED <<lines, pc, stamp, outbox>>
    BY <1>8 DEF ApplyLine, AddLine, sideVars
  <2>2. ItemsUnchanged(ItemsOf(zoho.rows))' <=> ItemsUnchanged(ItemsOf(zoho.rows))
    BY <1>1, <2>1 DEF ItemsUnchanged
  <2>3. Current'
    BY <1>0, <1>1, <2>1, <2>2 DEF Current
  <2> QED BY <1>2, <1>3, <2>1, <2>3 DEF Steady
<1>9. CASE Applied
  <2>1. /\ pc = "lines" /\ pc' = "idle" /\ left = {} /\ lines' = built
        /\ outbox' = outbox \ {hook} /\ stamp' = hook.time /\ run.pc = "off"
    BY <1>9 DEF Applied, Commit, Done
  <2>2. hook \in outbox /\ DOMAIN built = DOMAIN hook.items
        /\ \A p \in DOMAIN built : built[p].product = p /\ built[p].qty = hook.items[p].qty
    BY <2>1 DEF InHand
  <2>3. CASE hook.time = zoho.time
    <3>1. hook.items = ItemsOf(zoho.rows)
      BY <1>0, <2>2, <2>3 DEF Current
    <3>2. ItemsUnchanged(ItemsOf(zoho.rows))'
      <4>1. ByProduct(hook.items)
        BY <2>2 DEF DataOK
      <4>2. ByProduct(built)
        BY <2>2, <4>1 DEF ByProduct
      <4>3. DOMAIN built = {built[p].product : p \in DOMAIN built}
        BY <2>2
      <4>4. \A p \in DOMAIN built : hook.items[p].qty = SumOf(Qty, built, RowsOf({p}, built))
        BY <2>2, <4>2, PiecesByProduct
      <4> QED BY <1>1, <2>1, <2>2, <3>1, <4>3, <4>4 DEF ItemsUnchanged
    <3>3. Current'
      BY <1>0, <1>1, <2>1, <2>2, <2>3, <3>2 DEF Current
    <3> QED BY <1>2, <1>3, <2>1, <3>3 DEF Steady
  <2>4. CASE hook.time # zoho.time
    <3>1. hook.time < zoho.time
      BY <1>0, <2>2, <2>4 DEF Current
    <3>2. Current'
      BY <1>0, <1>1, <2>1, <2>2, <3>1 DEF Current
    <3> QED BY <1>2, <1>3, <2>1, <3>2 DEF Steady
  <2> QED BY <2>3, <2>4
<1>10. CASE Refused
  <2>1. UNCHANGED <<lines, stamp, outbox>> /\ pc' = "idle"
    BY <1>10 DEF Refused, Rollback, Done
  <2>2. ItemsUnchanged(ItemsOf(zoho.rows))' <=> ItemsUnchanged(ItemsOf(zoho.rows))
    BY <1>1, <2>1 DEF ItemsUnchanged
  <2>3. Current'
    BY <1>0, <1>1, <2>1, <2>2 DEF Current
  <2> QED BY <1>2, <1>3, <2>1, <2>3 DEF Steady
<1> QED BY <1>5, <1>6, <1>7, <1>8, <1>9, <1>10 DEF Webhook, Accepted
(* The rows of an order sent before the fix. *)
LEMMA SentRows ==
  ASSUME OrderRows(lines), NEW r, zoho = SentBefore(r)
  PROVE  LET t == FirstChunk(ItemsAt(DiscountWithCarriage(r)))
             s == zoho.rows
         IN  /\ zoho.time = 1 /\ zoho.next = 1 + Len(t) /\ Len(t) \in Nat /\ zoho.vat = VatPercent(r)
             /\ Subform(s) /\ LikeRows(t, s)
             /\ \A i \in DOMAIN s : /\ s[i].id = i /\ i \in 1..Len(t)
                                    /\ s[i].list = t[i].list /\ s[i].disc = t[i].disc
<1> DEFINE t == FirstChunk(ItemsAt(DiscountWithCarriage(r)))
           s == zoho.rows
<1>1. /\ s = [i \in DOMAIN t |-> Row(i, t[i])]
      /\ zoho.time = 1 /\ zoho.next = 1 + Len(t) /\ zoho.vat = VatPercent(r)
  BY DEF SentBefore
<1>2. IsSeq(t) /\ KnownRows(t)
  BY ChunkOfOrder
<1> HIDE DEF t, s
<1>3. Len(t) \in Nat /\ DOMAIN t = 1..Len(t)
  BY <1>2, SeqFacts
<1>4. /\ DOMAIN s = 1..Len(t)
      /\ \A i \in DOMAIN s : /\ s[i].id = i /\ s[i].product = t[i].product
                             /\ s[i].qty = t[i].qty /\ DOMAIN s[i] = RowFields
                             /\ s[i].list = t[i].list /\ s[i].disc = t[i].disc
  BY <1>1, <1>3, RowType
<1>5. IsSeq(s)
  <2>1. s = [i \in DOMAIN s |-> s[i]]
    BY <1>1
  <2> QED BY <1>3, <1>4, <2>1, SeqMade
<1>6. Subform(s)
  BY <1>2, <1>3, <1>4, <1>5 DEF Subform, KnownRows
<1>7. LikeRows(t, s)
  BY <1>3, <1>4 DEF LikeRows
<1> QED BY <1>1, <1>3, <1>4, <1>6, <1>7 DEF t, s

LEMMA DataInit == InitAll => DataOK /\ InHand
<1> SUFFICES ASSUME InitAll PROVE DataOK /\ InHand
  OBVIOUS
<1>1. OrderRows(lines)
  BY StoredAssumption DEF InitAll, Init, OrderRows, Line
<1>2. /\ pc = "idle" /\ DOMAIN built = {} /\ left = {} /\ outbox = {} /\ run = NoRun
      /\ used = [k \in Kinds |-> 0] /\ overlap = FALSE
  BY NoLinesType DEF InitAll, Init
<1>3. used \in [Kinds -> Nat] /\ InHand
  BY <1>2 DEF InHand
<1>4. /\ overlap \in BOOLEAN
      /\ \A h \in outbox : h.time \in Nat /\ ByProduct(h.items)
      /\ IsSeq(run.want) /\ KnownRows(run.want) /\ run.time \in Nat
      /\ DOMAIN run = RunFields
  <2>1. overlap \in BOOLEAN
    BY <1>2
  <2>2. \A h \in outbox : h.time \in Nat /\ ByProduct(h.items)
    BY <1>2
  <2>3. /\ run.want = << >> /\ run.time = 0 /\ DOMAIN run = RunFields
    BY <1>2, RunOver
  <2> QED BY <2>1, <2>2, <2>3, RunOver
<1>5. stamp \in Nat /\ zoho.time \in Nat /\ zoho.next \in Nat /\ Subform(zoho.rows)
  <2>1. CASE zoho = NoRecord /\ stamp = 0
    <3>1. zoho.rows = << >> /\ zoho.time = 0 /\ zoho.next = 1
      BY <2>1 DEF NoRecord
    <3> QED BY <2>1, <3>1, RunOver DEF Subform
  <2>2. CASE zoho \in {SentBefore(r) : r \in VatRates} /\ stamp = 1
    <3>1. PICK r \in VatRates : zoho = SentBefore(r)
      BY <2>2
    <3> QED BY <1>1, <2>2, <3>1, SentRows
  <2> QED BY <2>1, <2>2 DEF InitAll
<1> QED BY <1>1, <1>3, <1>4, <1>5 DEF DataOK

(* An order not sent yet, or sent before the fix. *)
LEMMA SidesInit == WholeOrders /\ InitAll => SidesInv
<1> SUFFICES ASSUME WholeOrders, InitAll PROVE SidesInv
  OBVIOUS
<1>0. DataOK /\ InHand
  BY DataInit
<1>1. OrderRows(lines) /\ Cardinality(DOMAIN lines) <= ChunkSize
  BY <1>0 DEF InitAll, Init, WholeOrders, DataOK
<1>2. pc = "idle" /\ outbox = {} /\ run = NoRun
  BY DEF InitAll, Init
<1>3. CASE zoho = NoRecord /\ stamp = 0
  <2>1. zoho.rows = << >> /\ zoho.time = 0 /\ zoho.next = 1
    BY <1>3 DEF NoRecord
  <2>2. Unsent /\ ~Created
    BY <1>1, <1>2, <1>3, <2>1, RunOver DEF Unsent, Created
  <2> QED BY <1>0, <2>2 DEF SidesInv
<1>4. CASE zoho \in {SentBefore(r) : r \in VatRates} /\ stamp = 1
  <2>1. PICK r \in VatRates : zoho = SentBefore(r)
    BY <1>4
  <2> DEFINE t == FirstChunk(ItemsAt(DiscountWithCarriage(r)))
             s == zoho.rows
  <2>2. /\ zoho.time = 1 /\ zoho.next = 1 + Len(t) /\ Len(t) \in Nat /\ LikeRows(t, s)
        /\ \A i \in DOMAIN s : s[i].id = i /\ i \in 1..Len(t)
    BY <1>1, <2>1, SentRows
  <2>3. OfOrder(t)
    BY <1>1, ChunkOfOrder
  <2>5. IsSeq(t)
    BY <1>1, ChunkOfOrder
  <2> HIDE DEF t, s
  <2>4. OfOrder(s)
    BY <2>2, <2>3, <2>5, LikeOrder
  <2>6. ItemsUnchanged(ItemsOf(s))
    BY <2>4 DEF OfOrder
  <2>7. Distinct(s, zoho.next)
    BY <2>2 DEF Distinct
  <2>8. Unsent
    BY <2>2 DEF Unsent, Created
  <2>9. Current
    BY <1>2, <1>4, <2>2, <2>6 DEF Current, s
  <2>10. RunOK
    BY <1>2, RunOver DEF RunOK
  <2> QED BY <1>0, <2>7, <2>8, <2>9, <2>10 DEF SidesInv, Steady, s
<1> QED BY <1>3, <1>4 DEF InitAll
(* Every step keeps it: the first push sends the order, an edit makes a newer *)
(* version whose webhook is on its way, a run changes amounts only.           *)
LEMMA SidesStep == SidesInv /\ [NextAll]_allVars => SidesInv'
<1> SUFFICES ASSUME SidesInv, [NextAll]_allVars PROVE SidesInv'
  OBVIOUS
<1>1. DataOK /\ InHand /\ Unsent /\ (Created /\ Undisturbed => Steady)
  BY DEF SidesInv
<1>2. DataOK' /\ InHand' /\ Unsent'
  BY <1>1, DataStep, UnsentStep
<1>3. ASSUME Created', Undisturbed' PROVE Steady'
  <2>1. Undisturbed /\ (Disturb => run.pc = "off") /\ ~Spend("push")
    BY <1>1, <1>3, UndisturbedBefore
  <2>2. CASE ~Created
    <3>1. CASE Push
      BY <1>1, <2>2, <3>1, FirstPush
    <3>2. CASE UNCHANGED allVars
      BY <1>3, <2>2, <3>2 DEF Created, allVars, sideVars
    <3> QED BY <1>1, <2>2, <3>1, <3>2, FirstIsPush
  <2>3. CASE Created
    <3>1. Steady
      BY <1>1, <2>1, <2>3
    <3>2. ~Push
      BY <2>1, <2>3 DEF Push
    <3>3. CASE ManagerEdits
      <4>1. Disturb
        BY <3>3 DEF ManagerEdits
      <4> QED BY <1>1, <2>1, <3>1, <3>3, <4>1, EditStep
    <3>4. CASE Webhook
      BY <1>1, <2>1, <2>3, <3>1, <3>4, WebhookStep
    <3>5. CASE RunBackfill
      BY <1>1, <2>3, <3>1, <3>5, RunStep
    <3>6. CASE UNCHANGED allVars
      <4>1. UNCHANGED <<lines, pc, zoho, outbox, stamp, run>>
        BY <3>6 DEF allVars, sideVars, vars
      <4> QED BY <3>1, <4>1 DEF Steady, Current, RunOK, OfOrder, ItemsUnchanged
    <3> QED BY <3>2, <3>3, <3>4, <3>5, <3>6 DEF NextAll
  <2> QED BY <2>2, <2>3
<1> QED BY <1>2, <1>3 DEF SidesInv
(* The backfill and the webhooks may come in any order between the edits of   *)
(* the managers: once all webhooks are answered, OpenCart and Zoho hold the   *)
(* same products in the same quantities, unless the order was changed under a *)
(* run or pushed again.  Lines beyond the first chunk are never sent          *)
(* (orders.go:149), so the orders must fit it.                                *)
THEOREM SidesAlwaysAgree == WholeOrders => (SpecAll => []SidesAgree)
<1> SUFFICES ASSUME WholeOrders PROVE SpecAll => []SidesAgree
  OBVIOUS
<1>1. InitAll => SidesInv
  BY SidesInit
<1>2. SidesInv /\ [NextAll]_allVars => SidesInv'
  BY SidesStep
<1>3. SidesInv => SidesAgree
  <2> SUFFICES ASSUME SidesInv, Created, outbox = {}, ~overlap, used["push"] = 0
      PROVE  ItemsUnchanged(ItemsOf(zoho.rows))
    BY DEF SidesAgree
  <2>1. Current /\ stamp \in Nat /\ zoho.time \in Nat
    BY DEF SidesInv, Steady, Undisturbed, DataOK
  <2>2. stamp = zoho.time
    BY <2>1 DEF Current
  <2> QED BY <2>1, <2>2 DEF Current
<1> QED BY <1>1, <1>2, <1>3, PTL DEF SpecAll

-----------------------------------------------------------------------------
(* Division and rounding, of any sign. *)

(* A quotient of integers and its remainder. *)
LEMMA DivInt ==
  ASSUME NEW a \in Int, NEW d \in Nat \ {0}
  PROVE  /\ a \div d \in Int /\ a % d \in Int
         /\ a = d * (a \div d) + (a % d) /\ 0 <= a % d /\ a % d < d
BY Z3

(* Rounding moves a quotient by half of one at most, of any sign. *)
LEMMA RoundedBounds ==
  ASSUME NEW a \in Int, NEW d \in Nat \ {0}
  PROVE  /\ Rounded(a, d) \in Int
         /\ 2 * d * Rounded(a, d) <= 2 * a + d
         /\ 2 * a + d < 2 * d * Rounded(a, d) + 2 * d
<1>1. 2 * a + d \in Int /\ 2 * d \in Nat \ {0}
  OBVIOUS
<1> DEFINE q == (2 * a + d) \div (2 * d)
           r == (2 * a + d) % (2 * d)
<1>2. /\ q \in Int /\ r \in Int /\ 2 * a + d = (2 * d) * q + r
      /\ 0 <= r /\ r < 2 * d
  BY <1>1, DivInt
<1>3. Rounded(a, d) = q
  BY DEF Rounded
<1> HIDE DEF q, r
<1>4. 2 * d * q = (2 * d) * q /\ 2 * d * q \in Int
  BY <1>2
<1> QED BY <1>1, <1>2, <1>3, <1>4

(* q is a / d, half up. *)
Near(a, d, q) == q \in Int /\ 2 * d * q <= 2 * a + d /\ 2 * a + d < 2 * d * q + 2 * d

LEMMA RoundedNear ==
  ASSUME NEW a \in Int, NEW d \in Nat \ {0}
  PROVE  Near(a, d, Rounded(a, d))
BY RoundedBounds DEF Near

(* Only one number is that close. *)
LEMMA RoundedUnique ==
  ASSUME NEW a \in Int, NEW d \in Nat \ {0}, NEW q \in Int,
         2 * d * q <= 2 * a + d, 2 * a + d < 2 * d * q + 2 * d
  PROVE  Rounded(a, d) = q
<1> DEFINE p == Rounded(a, d)
<1>1. p \in Int /\ 2 * d * p <= 2 * a + d /\ 2 * a + d < 2 * d * p + 2 * d
  BY RoundedBounds
<1> HIDE DEF p
<1>2. 2 * d * p < 2 * d * q + 2 * d /\ 2 * d * q < 2 * d * p + 2 * d
  <2>1. 2 * d * p \in Int /\ 2 * d * q \in Int
    BY <1>1
  <2> QED BY <1>1, <2>1
<1>3. \A x \in Int : 2 * d * x + 2 * d = 2 * d * (x + 1)
  OBVIOUS
<1>4. \A x, y \in Int : 2 * d * x < 2 * d * y => x < y
  BY Z3
<1>5. p < q + 1 /\ q < p + 1
  BY <1>1, <1>2, <1>3, <1>4
<1> QED BY <1>1, <1>5 DEF p

(* One more digit of a quotient, from the remainder the digits before it left. *)
LEMMA Digit ==
  ASSUME NEW N \in Int, NEW d \in Nat \ {0}, NEW q \in Int, NEW r \in Int,
         N = d * q + r, 0 <= r, r < d
  PROVE  /\ 10 * q + (10 * r) \div d \in Int /\ (10 * r) % d \in Int
         /\ 10 * N = d * (10 * q + (10 * r) \div d) + ((10 * r) % d)
         /\ 0 <= (10 * r) % d /\ (10 * r) % d < d
<1> DEFINE u == (10 * r) \div d
           v == (10 * r) % d
<1>1. u \in Int /\ v \in Int /\ 10 * r = d * u + v /\ 0 <= v /\ v < d
  BY DivInt
<1> HIDE DEF u, v
<1>2. d * (10 * q + u) = 10 * (d * q) + d * u
  BY <1>1
<1>3. d * q \in Int /\ d * u \in Int
  BY <1>1
<1>4. 10 * N = d * (10 * q + u) + v
  BY <1>1, <1>2, <1>3
<1> QED BY <1>1, <1>4 DEF u, v

(* Digit by digit or at once: 6 decimals, half up. *)
LEMMA QuotientRounds ==
  ASSUME NEW n \in Int, NEW d \in Nat \ {0}
  PROVE  Quotient(n, d) = Rounded(1000000 * n, d)
<1> DEFINE It(g, i) == LET r == IF i = 0 THEN n ELSE 10 * g[i-1].rest
                       IN  [quot |-> (IF i = 0 THEN 0 ELSE 10 * g[i-1].quot) + r \div d, rest |-> r % d]
           First == [quot |-> 0 + n \div d, rest |-> n % d]
           After(x) == [quot |-> 10 * x.quot + (10 * x.rest) \div d, rest |-> (10 * x.rest) % d]
           digit == CHOOSE g : g = [i \in 0..6 |-> It(g, i)]
           Right(x, N) == /\ x.quot \in Int /\ x.rest \in Int /\ N = d * x.quot + x.rest
                          /\ 0 <= x.rest /\ x.rest < d
<1>1. Quotient(n, d) = digit[6].quot + (IF 2 * digit[6].rest >= d THEN 1 ELSE 0)
  BY DEF Quotient
<1>2. \A g : It(g, 0) = First /\ \A i \in 1..6 : It(g, i) = After(g[i-1])
  OBVIOUS
<1>3. Right(First, n)
  <2>1. First.quot = n \div d /\ First.rest = n % d
    BY DivInt
  <2> HIDE DEF First
  <2> QED BY <2>1, DivInt
<1>4. \A x, N : N \in Int /\ Right(x, N) => Right(After(x), 10 * N)
  <2> SUFFICES ASSUME NEW x, NEW N \in Int, Right(x, N) PROVE Right(After(x), 10 * N)
    OBVIOUS
  <2>1. PICK q, r : q = x.quot /\ r = x.rest
    OBVIOUS
  <2>2. /\ 10 * q + (10 * r) \div d \in Int /\ (10 * r) % d \in Int
        /\ 10 * N = d * (10 * q + (10 * r) \div d) + ((10 * r) % d)
        /\ 0 <= (10 * r) % d /\ (10 * r) % d < d
    <3>1. /\ q \in Int /\ r \in Int /\ N = d * q + r /\ 0 <= r /\ r < d
      BY <2>1
    <3> HIDE DEF Right
    <3> QED BY <3>1, Digit
  <2>3. After(x).quot = 10 * q + (10 * r) \div d /\ After(x).rest = (10 * r) % d
    BY <2>1
  <2> HIDE DEF After
  <2> QED BY <2>2, <2>3
<1> HIDE DEF It, First, After, Right
<1>5. \E g : g = [i \in 0..6 |-> It(g, i)]
  <2> DEFINE a == After(First)
             b == After(a)
             c == After(b)
             e == After(c)
             f == After(e)
             h == After(f)
             g == [i \in 0..6 |-> IF i = 0 THEN First ELSE IF i = 1 THEN a ELSE IF i = 2 THEN b
                                  ELSE IF i = 3 THEN c ELSE IF i = 4 THEN e ELSE IF i = 5 THEN f ELSE h]
  <2>1. /\ g[0] = First /\ g[1] = After(g[0]) /\ g[2] = After(g[1]) /\ g[3] = After(g[2])
        /\ g[4] = After(g[3]) /\ g[5] = After(g[4]) /\ g[6] = After(g[5])
    OBVIOUS
  <2>2. g = [i \in 0..6 |-> g[i]]
    OBVIOUS
  <2> HIDE DEF g
  <2>3. \A i \in 0..6 : g[i] = It(g, i)
    <3>1. \A i \in 1..6 : It(g, i) = After(g[i-1])
      BY <1>2
    <3>2. It(g, 1) = After(g[0]) /\ It(g, 2) = After(g[1]) /\ It(g, 3) = After(g[2])
      BY <3>1
    <3>3. It(g, 4) = After(g[3]) /\ It(g, 5) = After(g[4]) /\ It(g, 6) = After(g[5])
      BY <3>1
    <3>4. It(g, 0) = First
      BY <1>2
    <3>5. 0..6 = {0, 1, 2, 3, 4, 5, 6}
      OBVIOUS
    <3> QED BY <2>1, <3>2, <3>3, <3>4, <3>5
  <2> QED BY <2>2, <2>3
<1>6. digit = [i \in 0..6 |-> It(digit, i)]
  BY <1>5
<1> HIDE DEF digit
<1>7. \A i \in 0..6 : digit[i] = It(digit, i)
  BY <1>6
<1>8. /\ digit[0] = First
      /\ \A i \in 1..6 : digit[i] = After(digit[i-1])
  BY <1>2, <1>7
<1>9. Right(digit[1], 10 * n) /\ Right(digit[2], 100 * n)
  <2>1. digit[1] = After(digit[0]) /\ digit[2] = After(digit[1])
    BY <1>8
  <2>2. 10 * (10 * n) = 100 * n /\ 10 * n \in Int
    OBVIOUS
  <2> QED BY <1>3, <1>4, <1>8, <2>1, <2>2
<1>10. Right(digit[3], 1000 * n) /\ Right(digit[4], 10000 * n)
  <2>1. digit[3] = After(digit[2]) /\ digit[4] = After(digit[3])
    BY <1>8
  <2>2. 10 * (100 * n) = 1000 * n /\ 10 * (1000 * n) = 10000 * n
    OBVIOUS
  <2>3. 100 * n \in Int /\ 1000 * n \in Int
    OBVIOUS
  <2>4. Right(After(digit[2]), 10 * (100 * n))
    BY <1>4, <1>9, <2>3
  <2>5. Right(digit[3], 1000 * n)
    BY <2>1, <2>2, <2>4
  <2>6. Right(After(digit[3]), 10 * (1000 * n))
    BY <1>4, <2>3, <2>5
  <2> QED BY <2>1, <2>2, <2>5, <2>6
<1>11. Right(digit[5], 100000 * n) /\ Right(digit[6], 1000000 * n)
  <2>1. digit[5] = After(digit[4]) /\ digit[6] = After(digit[5])
    BY <1>8
  <2>2. 10 * (10000 * n) = 100000 * n /\ 10 * (100000 * n) = 1000000 * n
    OBVIOUS
  <2>3. 10000 * n \in Int /\ 100000 * n \in Int
    OBVIOUS
  <2>4. Right(After(digit[4]), 10 * (10000 * n))
    BY <1>4, <1>10, <2>3
  <2>5. Right(digit[5], 100000 * n)
    BY <2>1, <2>2, <2>4
  <2>6. Right(After(digit[5]), 10 * (100000 * n))
    BY <1>4, <2>3, <2>5
  <2> QED BY <2>1, <2>2, <2>5, <2>6
<1>12. PICK q, r : q = digit[6].quot /\ r = digit[6].rest
  OBVIOUS
<1>13. /\ q \in Int /\ r \in Int /\ 1000000 * n = d * q + r
       /\ 0 <= r /\ r < d
  BY <1>11, <1>12 DEF Right
<1>14. CASE 2 * r >= d
  <2>1. Quotient(n, d) = q + 1
    BY <1>1, <1>12, <1>13, <1>14
  <2>2. d * q \in Int /\ 2 * d * (q + 1) = 2 * (d * q) + 2 * d
    BY <1>13
  <2>3. 2 * d * (q + 1) <= 2 * (1000000 * n) + d /\ 2 * (1000000 * n) + d < 2 * d * (q + 1) + 2 * d
    BY <1>13, <1>14, <2>2
  <2> QED BY <1>13, <2>1, <2>3, RoundedUnique
<1>15. CASE 2 * r < d
  <2>1. Quotient(n, d) = q
    BY <1>1, <1>12, <1>13, <1>15
  <2>2. d * q \in Int /\ 2 * d * q = 2 * (d * q)
    BY <1>13
  <2>3. 2 * d * q <= 2 * (1000000 * n) + d /\ 2 * (1000000 * n) + d < 2 * d * q + 2 * d
    BY <1>13, <1>15, <2>2
  <2> QED BY <1>13, <2>1, <2>3, RoundedUnique
<1> QED BY <1>13, <1>14, <1>15

-----------------------------------------------------------------------------
(* The discount of the order. *)

(* Both worths are whole, and that of an order with a sub total is not nothing. *)
LEMMA WorthSigns ==
  ASSUME TypeOK, NEW r \in VatRates
  PROVE  /\ Charged(r) \in Int /\ Undiscounted(r) \in Int
         /\ RowValue("sub_total") > 0 => Undiscounted(r) > 0
<1>1. r.num \in Nat /\ r.den \in Nat \ {0}
  BY RateType
<1>2. RowValue("sub_total") \in Int /\ RowValue("total") \in Int /\ RowValue("shipping") \in Int
  BY RowValueInt
<1>3. \A a, b \in Int : a * b \in Int /\ (a > 0 /\ b > 0 => a * b > 0)
  BY Z3
<1>4. /\ r.num + r.den \in Int /\ r.num + r.den > 0 /\ r.den \in Int
      /\ RowValue("total") - RowValue("shipping") \in Int
  BY <1>1, <1>2
<1> QED BY <1>1, <1>2, <1>3, <1>4 DEF Charged, Undiscounted

(* The discount of an order is a whole number of its 4 decimals. *)
LEMMA DiscountType ==
  ASSUME TypeOK, NEW r \in VatRates
  PROVE  OrderDiscount(r) \in Int /\ DiscountWithCarriage(r) \in Int
<1>1. \A n \in Int, d \in Nat \ {0} : Quotient(n, d) \in Int
  BY QuotientRounds, RoundedBounds
<1>2. /\ Charged(r) \in Int /\ Undiscounted(r) \in Int
      /\ RowValue("sub_total") > 0 => Undiscounted(r) > 0
  BY WorthSigns
<1>3. OrderDiscount(r) \in Int
  <2>1. CASE RowValue("sub_total") <= 0 \/ Charged(r) >= Undiscounted(r)
    BY <2>1 DEF OrderDiscount
  <2>2. CASE ~(RowValue("sub_total") <= 0 \/ Charged(r) >= Undiscounted(r))
    <3>1. Undiscounted(r) \in Nat \ {0} /\ Undiscounted(r) - Charged(r) \in Int
      BY <1>2, <2>2, RowValueInt
    <3>2. OrderDiscount(r) = Quotient(Undiscounted(r) - Charged(r), Undiscounted(r))
      BY <2>2 DEF OrderDiscount
    <3> QED BY <1>1, <3>1, <3>2
  <2> QED BY <2>1, <2>2
<1>4. DiscountWithCarriage(r) \in Int
  <2> DEFINE c == RowValue("total") * r.den - RowValue("shipping") * (r.num + r.den)
  <2>1. c \in Int
    <3>1. r.num \in Nat /\ r.den \in Nat \ {0}
      BY RateType
    <3>2. RowValue("total") \in Int /\ RowValue("shipping") \in Int
      BY RowValueInt
    <3>3. \A a, b \in Int : a * b \in Int
      OBVIOUS
    <3>4. r.num + r.den \in Int
      BY <3>1
    <3>5. RowValue("total") * r.den \in Int /\ RowValue("shipping") * (r.num + r.den) \in Int
      BY <3>1, <3>2, <3>3, <3>4
    <3> QED BY <3>5
  <2>2. DiscountWithCarriage(r) = IF RowValue("sub_total") <= 0 \/ c >= Undiscounted(r) THEN 0
                                  ELSE Quotient(Undiscounted(r) - c, Undiscounted(r))
    BY DEF DiscountWithCarriage
  <2> HIDE DEF c
  <2>3. CASE RowValue("sub_total") <= 0 \/ c >= Undiscounted(r)
    BY <2>2, <2>3
  <2>4. CASE ~(RowValue("sub_total") <= 0 \/ c >= Undiscounted(r))
    <3>1. Undiscounted(r) \in Nat \ {0} /\ Undiscounted(r) - c \in Int
      BY <1>2, <2>1, <2>4, RowValueInt
    <3>2. DiscountWithCarriage(r) = Quotient(Undiscounted(r) - c, Undiscounted(r))
      BY <2>2, <2>4
    <3> QED BY <1>1, <3>1, <3>2
  <2> QED BY <2>3, <2>4
<1> QED BY <1>3, <1>4

(* What the discount leaves of the sub total is what was charged, but for half *)
(* a millionth of it; where more was charged it leaves all.                    *)
LEMMA DiscountClose ==
  ASSUME TypeOK, NEW r \in VatRates,
         RowValue("sub_total") >= 0, RowValue("shipping") <= RowValue("total")
  PROVE  LET kept == 1000000 - OrderDiscount(r)
             u == Undiscounted(r)
             c == Charged(r)
         IN  /\ kept \in Nat /\ kept <= 1000000 /\ u \in Nat /\ c \in Nat
             /\ 2 * (kept * u) <= 2000000 * c + u
             /\ c <= u => 2 * (kept * u) >= 2000000 * c - u
<1> DEFINE u == Undiscounted(r)
           c == Charged(r)
           D == OrderDiscount(r)
<1>1. c \in Int /\ u \in Int /\ (RowValue("sub_total") > 0 => u > 0) /\ D \in Int
  BY WorthSigns, DiscountType
<1>2. c \in Nat /\ u \in Nat /\ (RowValue("sub_total") = 0 => u = 0)
  <2>1. r.num + r.den \in Nat /\ r.den \in Nat
    BY RateType
  <2>2. RowValue("sub_total") \in Nat /\ RowValue("total") - RowValue("shipping") \in Nat
    BY RowValueInt
  <2>3. \A a, b \in Nat : a * b \in Nat /\ 0 * b = 0
    OBVIOUS
  <2> QED BY <2>1, <2>2, <2>3 DEF Charged, Undiscounted
<1>3. D = IF RowValue("sub_total") <= 0 \/ c >= u THEN 0 ELSE Quotient(u - c, u)
  BY DEF OrderDiscount
<1>4. RowValue("sub_total") \in Nat
  BY RowValueInt
<1> HIDE DEF u, c, D
<1>5. CASE RowValue("sub_total") <= 0 \/ c >= u
  <2>1. D = 0 /\ c >= u
    BY <1>2, <1>3, <1>4, <1>5, SMT
  <2>2. 1000000 - D = 1000000
    BY <1>1, <2>1, SMT
  <2>3. 2 * ((1000000 - D) * u) <= 2000000 * c + u
    BY <1>2, <2>1, <2>2, SMT
  <2>4. c <= u => 2 * ((1000000 - D) * u) >= 2000000 * c - u
    BY <1>2, <2>1, <2>2, SMT
  <2> QED BY <1>2, <2>2, <2>3, <2>4, SMT DEF u, c, D
<1>6. CASE ~(RowValue("sub_total") <= 0 \/ c >= u)
  <2>1. u \in Nat \ {0} /\ c < u /\ u - c \in Nat
    BY <1>1, <1>2, <1>4, <1>6, SMT
  <2>2. D = Rounded(1000000 * (u - c), u)
    BY <1>3, <1>6, <2>1, QuotientRounds, SMT
  <2>3. 1000000 * (u - c) \in Int
    BY <2>1, SMT
  <2>4. /\ 2 * u * D <= 2 * (1000000 * (u - c)) + u
        /\ 2 * (1000000 * (u - c)) + u < 2 * u * D + 2 * u
    <3>1. PICK a \in Int : a = 1000000 * (u - c)
      BY <2>3, SMT
    <3>2. D = Rounded(a, u)
      BY <2>2, <3>1, SMT
    <3>3. Near(a, u, D)
      BY <2>1, <3>2, RoundedNear, SMT
    <3>4. 2 * u * D <= 2 * a + u /\ 2 * a + u < 2 * u * D + 2 * u
      BY <3>3, SMT DEF Near
    <3> QED BY <3>1, <3>4, SMT
  <2>5. u * D \in Int /\ 2 * u * D = 2 * (u * D) /\ (1000000 - D) * u = 1000000 * u - u * D
    BY <1>1, <2>1, SMT
  <2>6. D >= 0 /\ D <= 1000000
    <3>1. \A x \in Int : (2 * (u * x) < 2000002 * u => x < 1000001) /\ (2 * (u * x) + 2 * u > 0 => x + 1 > 0)
      BY <2>1, Z3
    <3>2. 2 * (u * D) < 2000002 * u /\ 2 * (u * D) + 2 * u > 0
      BY <1>2, <2>1, <2>4, <2>5, SMT
    <3>3. D < 1000001 /\ D + 1 > 0
      BY <1>1, <3>1, <3>2, SMT
    <3> QED BY <1>1, <3>3, SMT
  <2>7. 1000000 - D \in Nat /\ 1000000 - D <= 1000000
    BY <1>1, <2>6, SMT
  <2>8. 2 * ((1000000 - D) * u) <= 2000000 * c + u /\ 2 * ((1000000 - D) * u) >= 2000000 * c - u
    BY <1>2, <2>4, <2>5, SMT
  <2> QED BY <1>2, <2>7, <2>8, SMT DEF u, c, D
<1> QED BY <1>5, <1>6, SMT

(* A line of the subform *)

-----------------------------------------------------------------------------
(* A row as sent: the price less the discount, but for the roundings. *)

(* The net price keeps its share of the price, to half a unit. *)
LEMMA NetClose ==
  ASSUME NEW price \in Nat, NEW D \in Int, 1000000 - D \in Nat, 1000000 - D <= 1000000
  PROVE  /\ NetUnit(price, D) \in Nat /\ NetUnit(price, D) <= 100 * price
         /\ 10000 * NetUnit(price, D) <= price * (1000000 - D) + 5000
         /\ 10000 * NetUnit(price, D) >= price * (1000000 - D) - 5000
<1>1. PICK K \in Nat : K = 1000000 - D /\ K <= 1000000
  BY SMT
<1> DEFINE q == K \div 10000
           m == K % 10000
           R == Rounded(price * m, 10000)
<1>2. /\ q \in Int /\ m \in Nat /\ K = 10000 * q + m /\ m < 10000
  <2>1. 10000 \in Nat \ {0} /\ K \in Int
    BY SMT
  <2>2. /\ K \div 10000 \in Int /\ K % 10000 \in Int
        /\ K = 10000 * (K \div 10000) + (K % 10000) /\ 0 <= K % 10000 /\ K % 10000 < 10000
    BY <2>1, DivInt, SMT
  <2> QED BY <2>2, SMT
<1>3. NetUnit(price, D) = price * q + R
  BY <1>1, SMT DEF NetUnit
<1> HIDE DEF q, m
<1>4. price * m \in Nat /\ price * q \in Int /\ price * K = 10000 * (price * q) + price * m
  <2>1. \A a \in Nat, b \in Int, c \in Nat : /\ a * c \in Nat /\ a * b \in Int
                                            /\ a * (10000 * b + c) = 10000 * (a * b) + a * c
    BY Z3
  <2> QED BY <1>2, <2>1, SMT
<1>5. /\ R \in Nat /\ 20000 * R <= 2 * (price * m) + 10000
      /\ 2 * (price * m) + 10000 < 20000 * R + 20000
  <2>1. PICK a \in Nat : a = price * m
    BY <1>4, SMT
  <2>2. R = Rounded(a, 10000) /\ a \in Int /\ 10000 \in Nat \ {0}
    BY <2>1, SMT
  <2> HIDE DEF R
  <2>3. /\ Rounded(a, 10000) \in Int
        /\ 2 * 10000 * Rounded(a, 10000) <= 2 * a + 10000
        /\ 2 * a + 10000 < 2 * 10000 * Rounded(a, 10000) + 2 * 10000
    BY <2>2, RoundedBounds, SMT
  <2>4. Rounded(a, 10000) \in Nat
    BY <2>1, <2>2, RoundedNat, SMT
  <2> QED BY <2>1, <2>2, <2>3, <2>4, SMT
<1> HIDE DEF R
<1>6. PICK N \in Int : N = NetUnit(price, D) /\ N = price * q + R
  BY <1>3, <1>4, <1>5, SMT
<1>7. 10000 * N <= price * K + 5000 /\ 10000 * N >= price * K - 5000
  BY <1>4, <1>5, <1>6, SMT
<1>8. price * K \in Nat /\ price * K <= 1000000 * price
  <2>1. \A a, b \in Nat : a * b \in Nat /\ (b <= 1000000 => a * b <= 1000000 * a)
    BY Z3
  <2> QED BY <1>1, <2>1, SMT
<1>9. N \in Nat /\ N <= 100 * price
  BY <1>6, <1>7, <1>8, SMT
<1> QED BY <1>1, <1>6, <1>7, <1>9, SMT

(* What Zoho makes of a row is what the discount left of the price, but for    *)
(* the rounding of list price and row.                                         *)
LEMMA RowTotalClose ==
  ASSUME NEW row, row.list \in Int, row.qty \in Int, row.disc \in Int
  PROVE  /\ RowTotal(row) \in Int
         /\ 10000 * RowTotal(row) <= row.list * row.qty * (10000 - row.disc) + 5000
         /\ row.list * row.qty * (10000 - row.disc) - 5000 < 10000 * RowTotal(row)
<1>1. PICK a \in Int : a = row.list * row.qty * (10000 - row.disc)
  BY SMT
<1>2. RowTotal(row) = (a + 5000) \div 10000
  BY <1>1, SMT DEF RowTotal
<1>3. a + 5000 \in Int /\ 10000 \in Nat \ {0}
  BY <1>1, SMT
<1>4. PICK b \in Int : b = a + 5000
  BY <1>3, SMT
<1>5. /\ b \div 10000 \in Int /\ b % 10000 \in Int
      /\ b = 10000 * (b \div 10000) + (b % 10000) /\ 0 <= b % 10000 /\ b % 10000 < 10000
  BY <1>3, <1>4, DivInt, SMT
<1>6. RowTotal(row) = b \div 10000
  BY <1>2, <1>4, SMT
<1> QED BY <1>1, <1>4, <1>5, <1>6, SMT

(* The fields of a row as sent. *)
LEMMA ItemFields ==
  ASSUME NEW product, NEW qty, NEW price, NEW master, NEW D
  PROVE  LET it == OrderedItem(product, qty, price, master, D)
             net == NetUnit(price, D)
             list == IF master > price THEN master ELSE price
         IN  /\ it.product = product /\ it.qty = qty
             /\ it.disc = IF list > 0 THEN Rounded(100 * (100 * list - net), list) ELSE 0
             /\ it.list = IF it.disc < 10000 THEN Rounded(100 * net, 10000 - it.disc) ELSE list
BY SMT DEF OrderedItem

(* The discount of a line has the range of a percentage. *)
LEMMA LineDiscount ==
  ASSUME NEW product, NEW qty, NEW price \in Nat, NEW master \in Nat,
         NEW D \in Int, 1000000 - D \in Nat, 1000000 - D <= 1000000
  PROVE  LET it == OrderedItem(product, qty, price, master, D)
         IN  /\ it.disc \in Nat /\ it.disc <= 10000 /\ it.list \in Nat
             /\ it.disc < 10000 => it.list = Rounded(100 * NetUnit(price, D), 10000 - it.disc)
<1> DEFINE it == OrderedItem(product, qty, price, master, D)
           net == NetUnit(price, D)
           list == IF master > price THEN master ELSE price
<1>1. net \in Nat /\ net <= 100 * price
  BY NetClose, SMT
<1>2. list \in Nat /\ price <= list
  BY SMT
<1>3. /\ it.disc = IF list > 0 THEN Rounded(100 * (100 * list - net), list) ELSE 0
      /\ it.list = IF it.disc < 10000 THEN Rounded(100 * net, 10000 - it.disc) ELSE list
  BY ItemFields, SMT
<1> HIDE DEF it, net, list
<1>4. it.disc \in Nat /\ it.disc <= 10000
  <2>1. CASE ~(list > 0)
    BY <1>3, <2>1, SMT
  <2>2. CASE list > 0
    <3>1. PICK x \in Nat : x = 100 * (100 * list - net) /\ x <= 10000 * list
      <4>1. 100 * (100 * list - net) \in Nat /\ 100 * (100 * list - net) <= 10000 * list
        BY <1>1, <1>2, SMT
      <4> QED BY <4>1, SMT
    <3>2. it.disc = Rounded(x, list) /\ list \in Nat \ {0}
      BY <1>2, <1>3, <2>2, <3>1, SMT
    <3>3. Rounded(x, list) \in Nat /\ 2 * list * Rounded(x, list) <= 2 * x + list
      <4>1. Rounded(x, list) \in Nat
        BY <3>2, RoundedNat, SMT
      <4>2. x \in Int
        BY SMT
      <4>3. 2 * list * Rounded(x, list) <= 2 * x + list
        BY <3>2, <4>2, RoundedBounds, SMT
      <4> QED BY <4>1, <4>3, SMT
    <3>4. PICK q \in Nat : q = it.disc /\ 2 * list * q <= 20000 * list + list
      BY <3>1, <3>2, <3>3, SMT
    <3>5. \A a \in Nat \ {0}, b \in Nat : 2 * a * b <= 20000 * a + a => b <= 10000
      BY Z3
    <3> QED BY <3>2, <3>4, <3>5, SMT
  <2> QED BY <2>1, <2>2, SMT
<1>5. it.list \in Nat
  <2>1. CASE it.disc < 10000
    <3>1. 100 * net \in Nat /\ 10000 - it.disc \in Nat \ {0}
      BY <1>1, <1>4, <2>1, SMT
    <3> QED BY <1>3, <2>1, <3>1, RoundedNat, SMT
  <2>2. CASE ~(it.disc < 10000)
    BY <1>2, <1>3, <2>2, SMT
  <2> QED BY <2>1, <2>2, SMT
<1> QED BY <1>3, <1>4, <1>5, SMT DEF it, net

(* The list price makes good what the 2 decimals of the discount cannot say.   *)
LEMMA ListClose ==
  ASSUME NEW net \in Nat, NEW kept \in Nat \ {0}, NEW list \in Nat,
         list = Rounded(100 * net, kept)
  PROVE  2 * (list * kept) <= 200 * net + kept /\ 2 * (list * kept) >= 200 * net - kept
<1>1. PICK a \in Int : a = 100 * net
  OBVIOUS
<1>2. list = Rounded(a, kept)
  BY <1>1
<1>3. 2 * kept * Rounded(a, kept) <= 2 * a + kept /\ 2 * a + kept < 2 * kept * Rounded(a, kept) + 2 * kept
  BY RoundedBounds
<1>4. 2 * kept * list <= 2 * a + kept /\ 2 * a + kept < 2 * kept * list + 2 * kept
  BY <1>2, <1>3
<1>5. 2 * kept * list = 2 * (list * kept) /\ list * kept \in Int
  OBVIOUS
<1> QED BY <1>1, <1>4, <1>5

(* A row with the figures of a line of an order with discount D, where a       *)
(* discount of 100 % hides no net price.                                       *)
AsOrdered(product, qty, price, master, D, row) ==
  /\ qty \in Nat /\ price \in Nat /\ master \in Nat
  /\ D \in Int /\ 1000000 - D \in Nat /\ 1000000 - D <= 1000000
  /\ row.qty = OrderedItem(product, qty, price, master, D).qty
  /\ row.list = OrderedItem(product, qty, price, master, D).list
  /\ row.disc = OrderedItem(product, qty, price, master, D).disc
  /\ OrderedItem(product, qty, price, master, D).disc = 10000 => NetUnit(price, D) = 0

(* Its total is what the discount leaves of the price, but for the roundings.  *)
RowClose(qty, price, D, row) ==
  /\ RowTotal(row) \in Int
  /\ 1000000 * RowTotal(row)
       <= (1000000 - D) * (qty * price) + 5000 * (101 * qty + 100)
  /\ (-1000000) * RowTotal(row)
       <= (-(1000000 - D)) * (qty * price) + 5000 * (101 * qty + 100)

(* A line comes to its share of what its units cost, but for the roundings.    *)
LEMMA LineClose ==
  ASSUME NEW product, NEW qty, NEW price, NEW master, NEW D, NEW row,
         AsOrdered(product, qty, price, master, D, row)
  PROVE  RowClose(qty, price, D, row)
<1>0. /\ qty \in Nat /\ price \in Nat /\ master \in Nat
      /\ D \in Int /\ 1000000 - D \in Nat /\ 1000000 - D <= 1000000
      /\ row.qty = OrderedItem(product, qty, price, master, D).qty
      /\ row.list = OrderedItem(product, qty, price, master, D).list
      /\ row.disc = OrderedItem(product, qty, price, master, D).disc
      /\ OrderedItem(product, qty, price, master, D).disc = 10000 => NetUnit(price, D) = 0
  BY SMT DEF AsOrdered
<1> USE <1>0
<1> DEFINE it == OrderedItem(product, qty, price, master, D)
<1>1. /\ row.qty = qty /\ row.list = it.list /\ row.disc = it.disc
      /\ it.disc = 10000 => NetUnit(price, D) = 0
  BY ItemFields, SMT
<1>2. /\ it.disc \in Nat /\ it.disc <= 10000 /\ it.list \in Nat
      /\ it.disc < 10000 => it.list = Rounded(100 * NetUnit(price, D), 10000 - it.disc)
  BY LineDiscount, SMT
<1> HIDE DEF it
<1>3. PICK K \in Nat, net \in Nat, list \in Nat, kept \in Nat :
        /\ K = 1000000 - D /\ net = NetUnit(price, D) /\ list = row.list
        /\ kept = 10000 - row.disc /\ kept <= 10000
        /\ 10000 * net <= price * K + 5000 /\ 10000 * net >= price * K - 5000
  <2>1. /\ NetUnit(price, D) \in Nat
        /\ 10000 * NetUnit(price, D) <= price * (1000000 - D) + 5000
        /\ 10000 * NetUnit(price, D) >= price * (1000000 - D) - 5000
    BY NetClose, SMT
  <2>2. 10000 - row.disc \in Nat /\ 10000 - row.disc <= 10000 /\ row.list \in Nat
    BY <1>1, <1>2, SMT
  <2> QED BY <2>1, <2>2, SMT
<1>4. 2 * (list * kept) <= 200 * net + kept /\ 2 * (list * kept) >= 200 * net - kept
  <2>1. CASE kept = 0
    <3>1. row.disc = 10000 /\ net = 0
      BY <1>1, <1>2, <1>3, <2>1, SMT
    <3> QED BY <1>3, <2>1, <3>1, SMT
  <2>2. CASE kept # 0
    <3>1. list = Rounded(100 * net, kept) /\ kept \in Nat \ {0}
      BY <1>1, <1>2, <1>3, <2>2, SMT
    <3> QED BY <3>1, ListClose, SMT
  <2> QED BY <2>1, <2>2, SMT
<1>5. PICK RT \in Int : /\ RT = RowTotal(row)
                        /\ 10000 * RT <= list * qty * kept + 5000
                        /\ list * qty * kept - 5000 < 10000 * RT
  <2>1. row.list \in Int /\ row.qty \in Int /\ row.disc \in Int
    BY <1>1, <1>2, SMT
  <2>2. /\ RowTotal(row) \in Int
        /\ 10000 * RowTotal(row) <= row.list * row.qty * (10000 - row.disc) + 5000
        /\ row.list * row.qty * (10000 - row.disc) - 5000 < 10000 * RowTotal(row)
    BY <2>1, RowTotalClose, SMT
  <2> QED BY <1>1, <1>3, <2>2, SMT
<1>6. PICK x \in Nat, y \in Nat, z \in Nat :
        x = list * kept * qty /\ y = net * qty /\ z = K * (qty * price)
  <2>1. list * kept \in Nat /\ list * kept * qty \in Nat /\ net * qty \in Nat /\ qty * price \in Nat
        /\ K * (qty * price) \in Nat
    BY SMT
  <2> QED BY <2>1, SMT
<1>7. list * qty * kept = x
  BY <1>6, SMT
<1>8. 2 * x <= 200 * y + 10000 * qty /\ 2 * x >= 200 * y - 10000 * qty
  <2>1. \A a, b, q \in Nat : /\ 2 * a <= 200 * b + 10000 => 2 * (a * q) <= 200 * (b * q) + 10000 * q
                             /\ 2 * a >= 200 * b - 10000 => 2 * (a * q) >= 200 * (b * q) - 10000 * q
    BY Z3
  <2>2. PICK v \in Nat : /\ v = list * kept
                         /\ 2 * v <= 200 * net + 10000 /\ 2 * v >= 200 * net - 10000
    <3>1. list * kept \in Nat /\ 2 * (list * kept) <= 200 * net + 10000
          /\ 2 * (list * kept) >= 200 * net - 10000
      BY <1>3, <1>4, SMT
    <3> QED BY <3>1, SMT
  <2>3. x = v * qty
    BY <1>6, <2>2, SMT
  <2>4. /\ 2 * (v * qty) <= 200 * (net * qty) + 10000 * qty
        /\ 2 * (v * qty) >= 200 * (net * qty) - 10000 * qty
    BY <2>1, <2>2, SMT
  <2> QED BY <1>6, <2>3, <2>4, SMT
<1>9. 10000 * y <= z + 5000 * qty /\ 10000 * y >= z - 5000 * qty
  <2>1. \A a, b, q \in Nat : /\ 10000 * a <= b + 5000 => 10000 * (a * q) <= b * q + 5000 * q
                             /\ 10000 * a >= b - 5000 => 10000 * (a * q) >= b * q - 5000 * q
    BY Z3
  <2>2. price * K \in Nat /\ price * K * qty = K * (qty * price)
    BY <1>3, SMT
  <2> QED BY <1>3, <1>6, <2>1, <2>2, SMT
<1>10. 10000 * RT <= x + 5000 /\ x - 5000 < 10000 * RT
  BY <1>5, <1>7, SMT
<1>11. /\ 1000000 * RT <= z + 5000 * (101 * qty + 100)
       /\ (-1000000) * RT <= (-z) + 5000 * (101 * qty + 100)
  BY <1>8, <1>9, <1>10, SMT
<1>12. (-(1000000 - D)) * (qty * price) = -z
  <2>1. \A a, b \in Nat : (-a) * b = -(a * b)
    BY SMT
  <2>2. qty * price \in Nat
    BY SMT
  <2> QED BY <1>3, <1>6, <2>1, <2>2, SMT
<1> QED BY <1>3, <1>5, <1>6, <1>11, <1>12, SMT DEF RowClose

-----------------------------------------------------------------------------
(* The rows of a subform. *)

(* The rows whose total Zoho taxes.                                           *)
Taxed == RowsOf(Products, zoho.rows)

(* How much the rounding of their figures weighs, in 200ths of a mil: half a   *)
(* mil a piece for its list price, a little for its net price, and half a mil  *)
(* for the total of the row.                                                   *)
Weight == SumFunction([i \in Taxed |-> 101 * zoho.rows[i].qty + 100])

(* What was paid for them, in mils. *)
Paid == SumFunction([i \in Taxed |-> zoho.rows[i].qty * lines[KeyAt(i)].price])

(* A discount of 100 % hides no net price. *)
FreeIsFree(r) ==
  \A k \in DOMAIN lines :
    LineItem(k, OrderDiscount(r)).disc = 10000 => NetUnit(lines[k].price, OrderDiscount(r)) = 0

(* A subform that is what the order asks for, row by row. *)
LEMMA AsAsked ==
  ASSUME OrderRows(lines), NEW d, Figures(zoho.rows) = ItemsAt(d)
  PROVE  LET s == zoho.rows n == Cardinality(DOMAIN lines) IN
         /\ IsFiniteSet(DOMAIN s) /\ n \in Nat
         /\ \A i \in Taxed : /\ KeyAt(i) \in DOMAIN lines
                             /\ s[i].qty = LineItem(KeyAt(i), d).qty
                             /\ s[i].list = LineItem(KeyAt(i), d).list
                             /\ s[i].disc = LineItem(KeyAt(i), d).disc
         /\ RowsOf({Carriage}, s) = IF RowValue("shipping") > 0 THEN {n + 1} ELSE {}
         /\ RowValue("shipping") > 0 => /\ s[n + 1].qty = ShipItem.qty
                                        /\ s[n + 1].list = ShipItem.list
                                        /\ s[n + 1].disc = ShipItem.disc
<1> DEFINE s == zoho.rows
           n == Cardinality(DOMAIN lines)
           t == ItemsAt(d)
<1>0. /\ n \in Nat /\ IsSeq(t) /\ Len(t) \in {n, n + 1}
      /\ \A i \in 1..n : KeyAt(i) \in DOMAIN lines /\ t[i] = LineItem(KeyAt(i), d)
      /\ \A i \in DOMAIN t : i \notin 1..n => i = n + 1 /\ t[i] = ShipItem
      /\ Len(t) = n + 1 <=> RowValue("shipping") > 0
  BY ItemsFacts DEF OrderRows
<1>1. /\ n \in Nat /\ IsSeq(t) /\ Len(t) \in {n, n + 1}
      /\ \A i \in 1..n : KeyAt(i) \in DOMAIN lines /\ t[i].product \in Products
      /\ \A i \in DOMAIN t : i \notin 1..n => i = n + 1 /\ t[i].product = Carriage
      /\ \A i \in 1..n : t[i] = LineItem(KeyAt(i), d)
      /\ \A i \in DOMAIN t : i \notin 1..n => t[i] = ShipItem
      /\ Len(t) = n + 1 <=> RowValue("shipping") > 0
  <2>1. (\A k : LineItem(k, d).product = lines[k].product) /\ ShipItem.product = Carriage
    BY DEF OrderedItem, LineItem, ShipItem
  <2> HIDE DEF t, n
  <2> QED BY <1>0, <2>1 DEF OrderRows
<1>2. /\ DOMAIN s = DOMAIN t
      /\ \A i \in DOMAIN s : /\ s[i].product = t[i].product /\ s[i].qty = t[i].qty
                             /\ s[i].list = t[i].list /\ s[i].disc = t[i].disc
  <2>1. t = [i \in DOMAIN s |-> [product |-> s[i].product, qty |-> s[i].qty,
                                 list |-> s[i].list, disc |-> s[i].disc]]
    BY DEF Figures
  <2> HIDE DEF t
  <2> QED BY <2>1
<1>3. Carriage \notin Products
  BY ForwardAssumption
<1> HIDE DEF s, t, n
<1>4. DOMAIN t = 1..Len(t) /\ Len(t) \in Nat
  BY <1>1, SeqFacts
<1>5. IsFiniteSet(DOMAIN s)
  BY <1>2, <1>4, FS_Interval
<1>6. \A i \in 1..n : i \in DOMAIN t /\ t[i].product # Carriage
  <2>1. \A i \in 1..n : t[i].product \in Products
    BY <1>1
  <2>2. n \in Nat /\ Len(t) \in {n, n + 1}
    BY <1>1
  <2>3. 1..n \subseteq DOMAIN t
    <3>1. PICK m \in Nat : m = Len(t) /\ DOMAIN t = 1..m /\ m \in {n, n + 1}
      BY <1>4, <2>2
    <3> QED BY <2>2, <3>1
  <2> QED BY <1>3, <2>1, <2>3
<1>7. ASSUME NEW i \in DOMAIN s, s[i].product \in Products
      PROVE  /\ KeyAt(i) \in DOMAIN lines
             /\ s[i].qty = LineItem(KeyAt(i), d).qty
             /\ s[i].list = LineItem(KeyAt(i), d).list
             /\ s[i].disc = LineItem(KeyAt(i), d).disc
  <2>1. i \in 1..n
    BY <1>1, <1>2, <1>3, <1>7
  <2> QED BY <1>1, <1>2, <2>1
<1>8. CASE RowValue("shipping") > 0
  <2>1. n + 1 \in DOMAIN t /\ n + 1 \notin 1..n
    <3>1. n \in Nat /\ Len(t) = n + 1
      BY <1>1, <1>8
    <3> QED BY <1>4, <3>1
  <2>2. t[n + 1] = ShipItem /\ t[n + 1].product = Carriage
    BY <1>1, <2>1
  <2>3. \A i \in DOMAIN s : s[i].product = Carriage => i = n + 1
    BY <1>1, <1>2, <1>6
  <2>4. {i \in DOMAIN s : s[i].product \in {Carriage}} = {n + 1}
    BY <1>2, <2>1, <2>2, <2>3
  <2> QED BY <1>1, <1>2, <1>5, <1>7, <1>8, <2>1, <2>2, <2>4 DEF RowsOf, Taxed, s, n
<1>9. CASE ~(RowValue("shipping") > 0)
  <2>1. DOMAIN t = 1..n
    BY <1>1, <1>4, <1>9
  <2>2. {i \in DOMAIN s : s[i].product \in {Carriage}} = {}
    BY <1>2, <1>6, <2>1
  <2> QED BY <1>1, <1>5, <1>7, <1>9, <2>2 DEF RowsOf, Taxed, s, n
<1> QED BY <1>8, <1>9

(* The carriage comes to what it is, to the mil. *)
LEMMA CarriageExact ==
  ASSUME OrderRows(lines), NEW d, Figures(zoho.rows) = ItemsAt(d), RowValue("shipping") \in Nat
  PROVE  SumOf(RowTotal, zoho.rows, RowsOf({Carriage}, zoho.rows)) = 100 * RowValue("shipping")
<1> DEFINE s == zoho.rows
           ship == RowValue("shipping")
           n == Cardinality(DOMAIN lines)
<1>1. /\ n \in Nat
      /\ RowsOf({Carriage}, s) = IF ship > 0 THEN {n + 1} ELSE {}
      /\ ship > 0 => /\ s[n + 1].qty = ShipItem.qty
                     /\ s[n + 1].list = ShipItem.list
                     /\ s[n + 1].disc = ShipItem.disc
  BY AsAsked
<1> HIDE DEF s, ship, n
<1>2. CASE ~(ship > 0)
  <2>1. RowsOf({Carriage}, s) = {} /\ ship = 0
    BY <1>1, <1>2 DEF ship
  <2>2. IsFiniteSet({})
    BY FS_EmptySet
  <2>3. PICK F : F = [i \in {} |-> 0]
    OBVIOUS
  <2>4. \A i \in {} : F[i] = RowTotal(s[i])
    OBVIOUS
  <2>5. PICK g : Sums(g, F, {}) /\ SumOf(RowTotal, s, {}) = g[{}]
    BY <2>2, <2>4, SumOfRowTotals
  <2>6. g[{}] = 0
    BY <2>5 DEF Sums, Summed
  <2>7. SumOf(RowTotal, s, RowsOf({Carriage}, s)) = 0
    BY <2>1, <2>5, <2>6
  <2>8. 100 * ship = 0
    BY <2>1
  <2> QED BY <2>7, <2>8 DEF s, ship
<1>3. CASE ship > 0
  <2>1. RowsOf({Carriage}, s) = {n + 1}
    BY <1>1, <1>3
  <2> DEFINE p == 100 * ship
             net == NetUnit(p, 0)
  <2>2. p \in Nat \ {0} /\ ship \in Nat
    BY <1>3 DEF ship
  <2>3. net = 100 * p
    <3>1. 1000000 - 0 = 1000000 /\ 1000000 \div 10000 = 100 /\ 1000000 % 10000 = 0
      BY SMT
    <3>2. net = p * 100 + Rounded(p * 0, 10000)
      BY <3>1, SMT DEF NetUnit
    <3>3. p * 0 = 0 /\ Rounded(0, 10000) = 0
      BY <2>2, SMT DEF Rounded
    <3> QED BY <2>2, <3>2, <3>3, SMT
  <2>4. /\ ShipItem.qty = 1
        /\ ShipItem.disc = Rounded(100 * (100 * p - net), p)
        /\ ShipItem.list = IF ShipItem.disc < 10000 THEN Rounded(100 * net, 10000 - ShipItem.disc) ELSE p
    <3> DEFINE list == IF 0 > p THEN 0 ELSE p
    <3>1. list = p /\ p > 0
      BY <2>2, SMT
    <3>2. /\ ShipItem.qty = 1
          /\ ShipItem.disc = IF list > 0 THEN Rounded(100 * (100 * list - net), list) ELSE 0
          /\ ShipItem.list = IF ShipItem.disc < 10000 THEN Rounded(100 * net, 10000 - ShipItem.disc) ELSE list
      BY ItemFields, SMT DEF ShipItem, ship
    <3> HIDE DEF list, p, net
    <3> QED BY <3>1, <3>2, SMT
  <2> HIDE DEF p, net
  <2>5. ShipItem.disc = 0
    <3>1. 100 * (100 * p - net) = 0
      BY <2>2, <2>3, SMT
    <3>2. Rounded(0, p) = 0
      BY <2>2, RoundedUnique, SMT
    <3> QED BY <2>4, <3>1, <3>2, SMT
  <2>6. ShipItem.list = p
    <3>1. ShipItem.list = Rounded(100 * net, 10000)
      BY <2>4, <2>5, SMT
    <3>2. 100 * net = 10000 * p
      BY <2>2, <2>3, SMT
    <3>3. Rounded(10000 * p, 10000) = p
      BY <2>2, SMT DEF Rounded
    <3> QED BY <3>1, <3>2, <3>3, SMT
  <2>7. s[n + 1].qty = 1 /\ s[n + 1].list = p /\ s[n + 1].disc = 0
    BY <1>1, <1>3, <2>4, <2>5, <2>6, SMT
  <2>8. RowTotal(s[n + 1]) = p
    <3>1. RowTotal(s[n + 1]) = (p * 1 * (10000 - 0) + 5000) \div 10000
      BY <2>7, SMT DEF RowTotal
    <3>2. (p * 1 * (10000 - 0) + 5000) \div 10000 = p
      BY <2>2, SMT
    <3> QED BY <3>1, <3>2, SMT
  <2>9. PICK k : k = n + 1
    BY SMT
  <2>10. IsFiniteSet({k})
    BY FS_Singleton
  <2>11. PICK F : F = [i \in {k} |-> RowTotal(s[i])]
    BY Zenon
  <2>12. F[k] = p /\ F[k] \in Int /\ \A i \in {k} : F[i] = RowTotal(s[i])
    BY <2>2, <2>8, <2>9, <2>11, SMT
  <2>13. PICK g : Sums(g, F, {k}) /\ SumOf(RowTotal, s, {k}) = g[{k}]
    BY <2>10, <2>12, SumOfRowTotals
  <2>14. g[{k}] = F[k]
    BY <2>12, <2>13, SumsOfOne
  <2>15. SumOf(RowTotal, s, RowsOf({Carriage}, s)) = p
    BY <2>1, <2>9, <2>12, <2>13, <2>14
  <2> QED BY <2>15 DEF s, p, ship
<1> QED BY <1>2, <1>3

(* A discount leaves a share of the price. *)
Share(D) == D \in Int /\ 1000000 - D \in Nat /\ 1000000 - D <= 1000000

(* The rows together come to the share of what was paid for them that the      *)
(* discount leaves.                                                            *)
LEMMA RowsClose ==
  ASSUME TypeOK, OrderRows(lines), NEW r, FreeIsFree(r),
         Figures(zoho.rows) = AllItems(r),
         Share(OrderDiscount(r))
  PROVE  LET N == SumOf(RowTotal, zoho.rows, Taxed)
             K == 1000000 - OrderDiscount(r)
         IN  /\ N \in Int /\ Weight \in Nat /\ Paid \in Nat
             /\ 1000000 * N <= K * Paid + 5000 * Weight
             /\ (-1000000) * N <= (-K) * Paid + 5000 * Weight
<1> DEFINE s == zoho.rows
           D == OrderDiscount(r)
<1>1. PICK X : X = Taxed
  OBVIOUS
<1>2. /\ IsFiniteSet(X)
      /\ \A i \in X : /\ KeyAt(i) \in DOMAIN lines
                      /\ s[i].qty = LineItem(KeyAt(i), D).qty
                      /\ s[i].list = LineItem(KeyAt(i), D).list
                      /\ s[i].disc = LineItem(KeyAt(i), D).disc
  <2>1. Figures(zoho.rows) = ItemsAt(D)
    BY DEF AllItems
  <2> HIDE DEF D
  <2>2. /\ IsFiniteSet(DOMAIN s)
        /\ \A i \in Taxed : /\ KeyAt(i) \in DOMAIN lines
                            /\ s[i].qty = LineItem(KeyAt(i), D).qty
                            /\ s[i].list = LineItem(KeyAt(i), D).list
                            /\ s[i].disc = LineItem(KeyAt(i), D).disc
    BY <2>1, AsAsked
  <2>3. X \in SUBSET DOMAIN s
    BY <1>1 DEF Taxed, RowsOf
  <2> HIDE DEF s
  <2>4. IsFiniteSet(X)
    BY <2>2, <2>3, FS_Subset
  <2> QED BY <1>1, <2>2, <2>4
<1>3. PICK K : K = 1000000 - D
  BY SMT
<1>4. K \in Nat /\ K <= 1000000 /\ D \in Int
  BY <1>3, SMT DEF Share
<1> DEFINE paid(i) == s[i].qty * lines[KeyAt(i)].price
           weight(i) == 101 * s[i].qty + 100
<1>5. ASSUME NEW i \in X
      PROVE  /\ RowTotal(s[i]) \in Int /\ paid(i) \in Nat /\ weight(i) \in Nat
             /\ 1000000 * RowTotal(s[i]) <= K * paid(i) + 5000 * weight(i)
             /\ (-1000000) * RowTotal(s[i]) <= (-K) * paid(i) + 5000 * weight(i)
  <2>1. PICK k \in DOMAIN lines : k = KeyAt(i)
    BY <1>2, <1>5, SMT
  <2>2. PICK row : row = s[i]
    OBVIOUS
  <2>3. PICK p, qty, price, master :
          p = lines[k].product /\ qty = lines[k].qty /\ price = lines[k].price /\ master = MasterPrice[p]
    BY SMT
  <2>4. qty \in Nat /\ price \in Nat /\ master \in Nat
    <3>1. lines[k] \in Line /\ p \in Products
      BY <2>3, SMT DEF TypeOK, Line
    <3>2. MasterPrice[p] \in Nat
      BY <3>1, ForwardAssumption, SMT
    <3> QED BY <2>3, <3>1, <3>2, SMT DEF Line
  <2>5. LineItem(k, D) = OrderedItem(p, qty, price, master, D)
    BY <2>3, SMT DEF LineItem
  <2> DEFINE it == OrderedItem(p, qty, price, master, D)
  <2>6. row.qty = it.qty /\ row.list = it.list /\ row.disc = it.disc
    BY <1>2, <1>5, <2>2, <2>1, <2>5, SMT
  <2>7. it.disc = 10000 => NetUnit(price, D) = 0
    <3>1. LineItem(k, D).disc = 10000 => NetUnit(lines[k].price, D) = 0
      BY SMT DEF FreeIsFree
    <3> QED BY <2>3, <2>5, <3>1, SMT
  <2>8. it.qty = qty
    BY ItemFields
  <2> HIDE DEF it
  <2>9. 1000000 - D \in Nat /\ 1000000 - D <= 1000000 /\ D \in Int
    BY <1>3, <1>4, SMT
  <2> HIDE DEF D, s
  <2>10. AsOrdered(p, qty, price, master, D, row)
    BY <2>4, <2>6, <2>7, <2>9, SMT DEF AsOrdered, it
  <2>11. /\ RowTotal(row) \in Int
        /\ 1000000 * RowTotal(row) <= (1000000 - D) * (qty * price) + 5000 * (101 * qty + 100)
        /\ (-1000000) * RowTotal(row) <= (-(1000000 - D)) * (qty * price) + 5000 * (101 * qty + 100)
    <3>1. RowClose(qty, price, D, row)
      BY <2>10, LineClose
    <3> QED BY <3>1, SMT DEF RowClose
  <2>12. paid(i) = qty * price /\ weight(i) = 101 * qty + 100
    BY <2>2, <2>1, <2>3, <2>6, <2>8, SMT
  <2>13. qty * price \in Nat /\ 101 * qty + 100 \in Nat
    BY <2>4, SMT
  <2> HIDE DEF paid, weight
  <2> QED BY <1>3, <2>2, <2>11, <2>12, <2>13, SMT
<1> HIDE DEF D, s
<1>6. PICK F, G, H : /\ F = [i \in X |-> RowTotal(s[i])] /\ G = [i \in X |-> paid(i)]
                     /\ H = [i \in X |-> weight(i)]
  BY Zenon
<1>7. /\ F \in [X -> Int] /\ G \in [X -> Nat] /\ H \in [X -> Nat]
      /\ G \in [X -> Int] /\ H \in [X -> Int]
  <2> HIDE DEF paid, weight
  <2> QED BY <1>5, <1>6, SMT
<1>8. PICK f : Sums(f, F, X) /\ SumOf(RowTotal, s, X) = f[X]
  <2>1. \A i \in X : F[i] = RowTotal(s[i])
    BY <1>6, SMT
  <2> QED BY <1>2, <2>1, SumOfRowTotals
<1>9. PICK g : Sums(g, G, X) /\ SumFunction(G) = g[X]
  <2>1. X = DOMAIN G
    BY <1>6, SMT
  <2> QED BY <1>2, <2>1, SumOfFunction
<1>10. PICK h : Sums(h, H, X) /\ SumFunction(H) = h[X]
  <2>1. X = DOMAIN H
    BY <1>6, SMT
  <2> QED BY <1>2, <2>1, SumOfFunction
<1>11. g[X] \in Nat /\ h[X] \in Nat
  BY <1>2, <1>7, <1>9, <1>10, SumsNat
<1>12. Bounded(X, 1000000, F, K, G, 5000, H) /\ Bounded(X, -1000000, F, -K, G, 5000, H)
  <2>1. 1000000 \in Int /\ -1000000 \in Int /\ 5000 \in Int /\ K \in Int /\ -K \in Int
    BY <1>4, SMT
  <2> HIDE DEF paid, weight
  <2>2. /\ \A i \in X : 1000000 * F[i] <= K * G[i] + 5000 * H[i]
        /\ \A i \in X : (-1000000) * F[i] <= (-K) * G[i] + 5000 * H[i]
    BY <1>5, <1>6, SMT
  <2> QED BY <1>7, <2>1, <2>2, SMT DEF Bounded
<1>13. /\ f[X] \in Int /\ 1000000 * f[X] <= K * g[X] + 5000 * h[X]
       /\ (-1000000) * f[X] <= (-K) * g[X] + 5000 * h[X]
  <2>1. X \in SUBSET X
    OBVIOUS
  <2>2. \A t \in SUBSET X : f[t] \in Int /\ 1000000 * f[t] <= K * g[t] + 5000 * h[t]
    BY <1>2, <1>8, <1>9, <1>10, <1>12, SumsCompare, SMT
  <2>3. \A t \in SUBSET X : (-1000000) * f[t] <= (-K) * g[t] + 5000 * h[t]
    BY <1>2, <1>8, <1>9, <1>10, <1>12, SumsCompare, SMT
  <2> QED BY <2>1, <2>2, <2>3, SMT
<1>14. Paid = SumFunction(G) /\ Weight = SumFunction(H)
  BY <1>1, <1>6 DEF Paid, Weight, s
<1> QED BY <1>1, <1>3, <1>8, <1>9, <1>10, <1>11, <1>13, <1>14, SMT DEF s, D

(* Products with the same factor compare as what it multiplies. *)
LEMMA Cancel ==
  ASSUME NEW a \in Int, NEW b \in Int, NEW m \in Nat \ {0}, a * m <= b * m
  PROVE  a <= b
BY Z3

LEMMA Times ==
  ASSUME NEW a \in Int, NEW b \in Int, NEW m \in Nat, a <= b
  PROVE  a * m \in Int /\ b * m \in Int /\ a * m <= b * m
BY Z3

(* N mils of rows, of a share K of what was paid, which is P mils or 100 * S.  *)
AtMost(n, d, V, w, S, K, P, W, e, N) ==
  /\ n \in Nat /\ d \in Nat \ {0} /\ V \in Nat /\ w \in Nat /\ S \in Nat
  /\ K \in Nat /\ K <= 1000000 /\ P \in Nat /\ W \in Nat /\ e \in Nat /\ N \in Int
  /\ 1000000 * N <= K * P + 5000 * W
  /\ P <= 100 * S + e
  /\ 2 * (K * (S * (n + d))) <= 2000000 * (w * d) + S * (n + d)
  /\ (V * d - 100 * n) * w <= 50 * (n + d)

(* Then the rows and their VAT come to no more than was charged, but for the  *)
(* roundings.                                                                 *)
LEMMA NotMore ==
  ASSUME NEW n, NEW d, NEW V, NEW w, NEW S, NEW K, NEW P, NEW W, NEW e, NEW N,
         AtMost(n, d, V, w, S, K, P, W, e, N)
  PROVE  20000 * (N * (100 + V)) <= 200000000 * w + 100000000 + (100 * W + 20000 * e + S) * (100 + V)
<1>0. /\ n \in Nat /\ d \in Nat \ {0} /\ V \in Nat /\ w \in Nat /\ S \in Nat
      /\ K \in Nat /\ K <= 1000000 /\ P \in Nat /\ W \in Nat /\ e \in Nat /\ N \in Int
      /\ 1000000 * N <= K * P + 5000 * W
      /\ P <= 100 * S + e
      /\ 2 * (K * (S * (n + d))) <= 2000000 * (w * d) + S * (n + d)
      /\ (V * d - 100 * n) * w <= 50 * (n + d)
  BY SMT DEF AtMost
<1> USE <1>0
<1> DEFINE m == n + d
           h == 100 + V
           Sp == 100 * W + 20000 * e + S
<1>1. m \in Nat \ {0} /\ h \in Nat /\ Sp \in Nat
  BY SMT
<1>2. K * P \in Int /\ K * S \in Int /\ K * P <= 100 * (K * S) + 1000000 * e
  <2>1. K * P \in Int /\ K * S \in Int /\ K * e \in Int
    BY SMT
  <2>2. P * K <= (100 * S + e) * K
    <3>1. P \in Int /\ 100 * S + e \in Int
      BY SMT
    <3> QED BY <3>1, Times, SMT
  <2>3. P * K = K * P /\ (100 * S + e) * K = 100 * (K * S) + K * e
    BY SMT
  <2>4. K * e <= 1000000 * e
    <3>1. K * e <= 1000000 * e
      BY Times, SMT
    <3> QED BY <3>1
  <2> QED BY <2>1, <2>2, <2>3, <2>4, SMT
<1>3. 20000 * N <= 2 * (K * S) + (20000 * e + 100 * W)
  BY <1>2, SMT
<1> HIDE DEF m, h, Sp
<1>4. 20000 * (N * m) <= 2000000 * (w * d) + Sp * m
  <2>1. N * m \in Int /\ (K * S) * m \in Int /\ w * d \in Int /\ S * m \in Int
    BY <1>1, <1>2, SMT
  <2>2. (20000 * N) * m <= (2 * (K * S) + (20000 * e + 100 * W)) * m
    <3>1. 20000 * N \in Int /\ 2 * (K * S) + (20000 * e + 100 * W) \in Int
      BY <1>2, SMT
    <3> QED BY <1>1, <1>3, <3>1, Times, SMT
  <2>3. /\ (20000 * N) * m = 20000 * (N * m)
        /\ (2 * (K * S) + (20000 * e + 100 * W)) * m = 2 * ((K * S) * m) + (20000 * e + 100 * W) * m
    BY <1>1, <1>2, SMT
  <2>4. 2 * ((K * S) * m) <= 2000000 * (w * d) + S * m
    <3>1. (K * S) * m = K * (S * m)
      BY <1>1, SMT
    <3>2. 2 * (K * (S * m)) <= 2000000 * (w * d) + S * m
      BY SMT DEF m
    <3> QED BY <3>1, <3>2, SMT
  <2>5. Sp * m = (20000 * e + 100 * W) * m + S * m /\ (20000 * e + 100 * W) * m \in Int
    BY <1>1, SMT DEF Sp
  <2> QED BY <2>1, <2>2, <2>3, <2>4, <2>5, SMT
<1>5. (w * d) * h <= 100 * (w * m) + 50 * m
  <2>1. (w * d) * h = 100 * (w * m) + (V * d - 100 * n) * w
    BY SMT DEF m, h
  <2>2. (V * d - 100 * n) * w <= 50 * m
    BY SMT DEF m
  <2>3. w * m \in Int /\ (V * d - 100 * n) * w \in Int
    BY <1>1, SMT
  <2> QED BY <1>1, <2>1, <2>2, <2>3, SMT
<1>6. 20000 * ((N * h) * m) <= (200000000 * w + 100000000 + Sp * h) * m
  <2>1. /\ N * m \in Int /\ w * d \in Int /\ Sp * m \in Int /\ w * m \in Int /\ (N * h) * m \in Int
        /\ (w * d) * h \in Int /\ (Sp * h) * m \in Int
    BY <1>1, SMT
  <2>2. (20000 * (N * m)) * h <= (2000000 * (w * d) + Sp * m) * h
    <3>1. 20000 * (N * m) \in Int /\ 2000000 * (w * d) + Sp * m \in Int
      BY <2>1, SMT
    <3> QED BY <1>1, <1>4, <3>1, Times, SMT
  <2>3. (20000 * (N * m)) * h = 20000 * ((N * h) * m)
    BY <1>1, SMT
  <2>4. (2000000 * (w * d) + Sp * m) * h = 2000000 * ((w * d) * h) + (Sp * h) * m
    BY <1>1, <2>1, SMT
  <2>5. (200000000 * w + 100000000 + Sp * h) * m = 200000000 * (w * m) + 100000000 * m + (Sp * h) * m
    BY <1>1, SMT
  <2> QED BY <1>1, <1>5, <2>1, <2>2, <2>3, <2>4, <2>5, SMT
<1>7. 20000 * (N * h) <= 200000000 * w + 100000000 + Sp * h
  <2>1. N * h \in Int /\ Sp * h \in Int
    BY <1>1, SMT
  <2>2. 20000 * (N * h) \in Int /\ 200000000 * w + 100000000 + Sp * h \in Int
    BY <2>1, SMT
  <2>3. (20000 * (N * h)) * m <= (200000000 * w + 100000000 + Sp * h) * m
    BY <1>1, <1>6, <2>1, SMT
  <2> QED BY <1>1, <2>2, <2>3, Cancel, SMT
<1> QED BY <1>7, SMT DEF h, Sp

(* The same from below. *)
AtLeast(n, d, V, w, S, K, P, W, e, N) ==
  /\ n \in Nat /\ d \in Nat \ {0} /\ V \in Nat /\ w \in Nat /\ S \in Nat
  /\ K \in Nat /\ K <= 1000000 /\ P \in Nat /\ W \in Nat /\ e \in Nat /\ N \in Int
  /\ (-1000000) * N <= (-K) * P + 5000 * W
  /\ P >= 100 * S - e
  /\ 2 * (K * (S * (n + d))) >= 2000000 * (w * d) - S * (n + d)
  /\ (V * d - 100 * n) * w >= -(50 * (n + d))

(* Then the rows and their VAT come to no less than was charged, but for the  *)
(* roundings.                                                                 *)
LEMMA NotLess ==
  ASSUME NEW n, NEW d, NEW V, NEW w, NEW S, NEW K, NEW P, NEW W, NEW e, NEW N,
         AtLeast(n, d, V, w, S, K, P, W, e, N)
  PROVE  20000 * (N * (100 + V)) >= 200000000 * w - 100000000 - (100 * W + 20000 * e + S) * (100 + V)
<1>0. /\ n \in Nat /\ d \in Nat \ {0} /\ V \in Nat /\ w \in Nat /\ S \in Nat
      /\ K \in Nat /\ K <= 1000000 /\ P \in Nat /\ W \in Nat /\ e \in Nat /\ N \in Int
      /\ (-1000000) * N <= (-K) * P + 5000 * W
      /\ P >= 100 * S - e
      /\ 2 * (K * (S * (n + d))) >= 2000000 * (w * d) - S * (n + d)
      /\ (V * d - 100 * n) * w >= -(50 * (n + d))
  BY SMT DEF AtLeast
<1> USE <1>0
<1> DEFINE m == n + d
           h == 100 + V
           Sp == 100 * W + 20000 * e + S
<1>1. m \in Nat \ {0} /\ h \in Nat /\ Sp \in Nat
  BY SMT
<1>2. K * P \in Int /\ K * S \in Int /\ K * P >= 100 * (K * S) - 1000000 * e
  <2>1. K * P \in Int /\ K * S \in Int /\ K * e \in Int
    BY SMT
  <2>2. (100 * S - e) * K <= P * K
    <3>1. P \in Int /\ 100 * S - e \in Int
      BY SMT
    <3> QED BY <3>1, Times, SMT
  <2>3. P * K = K * P /\ (100 * S - e) * K = 100 * (K * S) - K * e
    BY SMT
  <2>4. K * e <= 1000000 * e
    <3>1. K * e <= 1000000 * e
      BY Times, SMT
    <3> QED BY <3>1
  <2> QED BY <2>1, <2>2, <2>3, <2>4, SMT
<1>3. 20000 * N >= 2 * (K * S) - (20000 * e + 100 * W)
  <2>1. (-K) * P = -(K * P)
    BY SMT
  <2> QED BY <1>2, <2>1, SMT
<1> HIDE DEF m, h, Sp
<1>4. 20000 * (N * m) >= 2000000 * (w * d) - Sp * m
  <2>1. N * m \in Int /\ (K * S) * m \in Int /\ w * d \in Int /\ S * m \in Int
    BY <1>1, <1>2, SMT
  <2>2. (2 * (K * S) - (20000 * e + 100 * W)) * m <= (20000 * N) * m
    <3>1. 20000 * N \in Int /\ 2 * (K * S) - (20000 * e + 100 * W) \in Int
      BY <1>2, SMT
    <3> QED BY <1>1, <1>3, <3>1, Times, SMT
  <2>3. /\ (20000 * N) * m = 20000 * (N * m)
        /\ (2 * (K * S) - (20000 * e + 100 * W)) * m = 2 * ((K * S) * m) - (20000 * e + 100 * W) * m
    BY <1>1, <1>2, SMT
  <2>4. 2 * ((K * S) * m) >= 2000000 * (w * d) - S * m
    <3>1. (K * S) * m = K * (S * m)
      BY <1>1, SMT
    <3>2. 2 * (K * (S * m)) >= 2000000 * (w * d) - S * m
      BY SMT DEF m
    <3> QED BY <3>1, <3>2, SMT
  <2>5. Sp * m = (20000 * e + 100 * W) * m + S * m /\ (20000 * e + 100 * W) * m \in Int
    BY <1>1, SMT DEF Sp
  <2> QED BY <2>1, <2>2, <2>3, <2>4, <2>5, SMT
<1>5. (w * d) * h >= 100 * (w * m) - 50 * m
  <2>1. (w * d) * h = 100 * (w * m) + (V * d - 100 * n) * w
    BY SMT DEF m, h
  <2>2. (V * d - 100 * n) * w >= -(50 * m)
    BY SMT DEF m
  <2>3. w * m \in Int /\ (V * d - 100 * n) * w \in Int
    BY <1>1, SMT
  <2> QED BY <1>1, <2>1, <2>2, <2>3, SMT
<1>6. 20000 * ((N * h) * m) >= (200000000 * w - 100000000 - Sp * h) * m
  <2>1. /\ N * m \in Int /\ w * d \in Int /\ Sp * m \in Int /\ w * m \in Int /\ (N * h) * m \in Int
        /\ (w * d) * h \in Int /\ (Sp * h) * m \in Int
    BY <1>1, SMT
  <2>2. (2000000 * (w * d) - Sp * m) * h <= (20000 * (N * m)) * h
    <3>1. 20000 * (N * m) \in Int /\ 2000000 * (w * d) - Sp * m \in Int
      BY <2>1, SMT
    <3> QED BY <1>1, <1>4, <3>1, Times, SMT
  <2>3. (20000 * (N * m)) * h = 20000 * ((N * h) * m)
    BY <1>1, SMT
  <2>4. (2000000 * (w * d) - Sp * m) * h = 2000000 * ((w * d) * h) - (Sp * h) * m
    BY <1>1, <2>1, SMT
  <2>5. (200000000 * w - 100000000 - Sp * h) * m = 200000000 * (w * m) - 100000000 * m - (Sp * h) * m
    BY <1>1, SMT
  <2> QED BY <1>1, <1>5, <2>1, <2>2, <2>3, <2>4, <2>5, SMT
<1>7. 20000 * (N * h) >= 200000000 * w - 100000000 - Sp * h
  <2>1. N * h \in Int /\ Sp * h \in Int
    BY <1>1, SMT
  <2>2. 20000 * (N * h) \in Int /\ 200000000 * w - 100000000 - Sp * h \in Int
    BY <2>1, SMT
  <2>3. (200000000 * w - 100000000 - Sp * h) * m <= (20000 * (N * h)) * m
    BY <1>1, <1>6, <2>1, SMT
  <2> QED BY <1>1, <2>2, <2>3, Cancel, SMT
<1> QED BY <1>7, SMT DEF h, Sp

-----------------------------------------------------------------------------
(* The sub total kept in cents is off what was paid, in mils.                 *)
Off == IF Paid < 100 * RowValue("sub_total") THEN 100 * RowValue("sub_total") - Paid
       ELSE Paid - 100 * RowValue("sub_total")

(* What all the roundings of the order may come to.                           *)
Spread == 100 * Weight + 20000 * Off + RowValue("sub_total")

(* That, with its VAT, is less than the cent which is allowed.                *)
Precise ==
  /\ (100 + zoho.vat) * Spread < 200000000
  /\ \A r \in VatRates : FreeIsFree(r)

(* The rows of an order are amounts, and its total covers the carriage. *)
Worth ==
  RowValue("sub_total") >= 0 /\ RowValue("shipping") >= 0 /\ RowValue("shipping") <= RowValue("total")

(* Ten thousandths rounded. *)
Whole(a, G) ==
  G \in Int /\ 20000 * G <= 2 * a + 10000 /\ 2 * a + 10000 < 20000 * G + 20000

LEMMA ToWhole ==
  ASSUME NEW a \in Int
  PROVE  Whole(a, Rounded(a, 10000))
BY Z3 DEF Rounded, Whole

(* The grand total of taxed rows of N mils. *)
LEMMA GrandClose ==
  ASSUME OrderRows(lines), NEW d, Figures(zoho.rows) = ItemsAt(d), RowValue("shipping") \in Nat,
         zoho.vat \in Nat, SumOf(RowTotal, zoho.rows, Taxed) \in Int
  PROVE  LET N == SumOf(RowTotal, zoho.rows, Taxed)
             G == GrandTotal(zoho.rows, zoho.vat)
             ship == RowValue("shipping")
         IN  /\ G \in Int
             /\ 20000 * G <= 2 * (N * (100 + zoho.vat)) + 20000 * ship + 10000
             /\ 20000 * G > 2 * (N * (100 + zoho.vat)) + 20000 * ship - 10000
<1> DEFINE N == SumOf(RowTotal, zoho.rows, Taxed)
           ship == RowValue("shipping")
<1>1. SumOf(RowTotal, zoho.rows, RowsOf({Carriage}, zoho.rows)) = 100 * ship
  BY CarriageExact
<1>2. GrandTotal(zoho.rows, zoho.vat)
        = Rounded(N * (100 + zoho.vat) + 100 * SumOf(RowTotal, zoho.rows, RowsOf({Carriage}, zoho.rows)), 10000)
  BY DEF GrandTotal, Taxed
<1>3. N \in Int /\ ship \in Nat
  OBVIOUS
<1> HIDE DEF N, ship
<1>4. PICK a \in Int : a = N * (100 + zoho.vat) + 10000 * ship
  <2>1. N * (100 + zoho.vat) + 10000 * ship \in Int
    BY <1>3, SMT
  <2> QED BY <2>1, SMT
<1>5. GrandTotal(zoho.rows, zoho.vat) = Rounded(a, 10000)
  <2>1. 100 * (100 * ship) = 10000 * ship
    BY <1>3, SMT
  <2> QED BY <1>1, <1>2, <1>4, <2>1, SMT
<1>6. Whole(a, Rounded(a, 10000))
  BY ToWhole, SMT
<1>7. PICK G \in Int : G = GrandTotal(zoho.rows, zoho.vat) /\ 20000 * G <= 2 * a + 10000
                       /\ 2 * a + 10000 < 20000 * G + 20000
  BY <1>5, <1>6, SMT DEF Whole
<1>8. N * (100 + zoho.vat) \in Int
  BY <1>3, SMT
<1> QED BY <1>3, <1>4, <1>7, <1>8, SMT DEF N, ship

(* A subform that is what the order asks for is worth what was charged. *)
LEMMA PreciseCharge ==
  ASSUME TypeOK, OrderRows(lines), zoho.vat \in Nat, Worth, Precise
  PROVE  WorthCharged
<1> DEFINE S == RowValue("sub_total")
           T == RowValue("total")
           ship == RowValue("shipping")
           G == GrandTotal(zoho.rows, zoho.vat)
<1>1. S \in Nat /\ ship \in Nat /\ T \in Nat /\ ship <= T
  BY RowValueInt, SMT DEF Worth
<1>2. SUFFICES ASSUME NEW r \in VatRates, Figures(zoho.rows) = AllItems(r), WholeVat(r)
               PROVE  G - T <= 1 /\ (Charged(r) <= Undiscounted(r) => G - T >= -1)
  BY SMT DEF WorthCharged
<1>3. PICK n \in Nat, d \in Nat \ {0} : n = r.num /\ d = r.den
  BY RateType
<1>4. PICK w \in Nat : w = T - ship
  BY <1>1, SMT
<1>5. Charged(r) = w * d /\ Undiscounted(r) = S * (n + d)
  BY <1>3, <1>4, SMT DEF Charged, Undiscounted
<1>6. PICK K \in Nat : K = 1000000 - OrderDiscount(r) /\ K <= 1000000
                       /\ 2 * (K * (S * (n + d))) <= 2000000 * (w * d) + S * (n + d)
                       /\ (w * d <= S * (n + d) =>
                             2 * (K * (S * (n + d))) >= 2000000 * (w * d) - S * (n + d))
  <2>1. S >= 0 /\ ship <= T
    BY <1>1, SMT
  <2>2. /\ 1000000 - OrderDiscount(r) \in Nat /\ 1000000 - OrderDiscount(r) <= 1000000
        /\ 2 * ((1000000 - OrderDiscount(r)) * Undiscounted(r)) <= 2000000 * Charged(r) + Undiscounted(r)
        /\ Charged(r) <= Undiscounted(r) =>
             2 * ((1000000 - OrderDiscount(r)) * Undiscounted(r)) >= 2000000 * Charged(r) - Undiscounted(r)
    BY <2>1, DiscountClose, SMT
  <2> HIDE DEF S, T, ship
  <2> QED BY <1>5, <2>2, SMT
<1>7. Share(OrderDiscount(r))
  BY <1>6, DiscountType, SMT DEF Share
<1>8. PICK N \in Int, P \in Nat, W \in Nat :
        /\ N = SumOf(RowTotal, zoho.rows, Taxed) /\ P = Paid /\ W = Weight
        /\ 1000000 * N <= K * P + 5000 * W
        /\ (-1000000) * N <= (-K) * P + 5000 * W
  <2>1. FreeIsFree(r)
    BY SMT DEF Precise
  <2>2. /\ SumOf(RowTotal, zoho.rows, Taxed) \in Int /\ Weight \in Nat /\ Paid \in Nat
        /\ 1000000 * SumOf(RowTotal, zoho.rows, Taxed)
             <= (1000000 - OrderDiscount(r)) * Paid + 5000 * Weight
        /\ (-1000000) * SumOf(RowTotal, zoho.rows, Taxed)
             <= (-(1000000 - OrderDiscount(r))) * Paid + 5000 * Weight
    BY <1>2, <1>7, <2>1, RowsClose, SMT
  <2> QED BY <1>6, <2>2, SMT
<1>9. PICK e \in Nat : e = Off /\ P <= 100 * S + e /\ P >= 100 * S - e
  BY <1>1, <1>8, SMT DEF Off
<1>10. PICK V \in Nat : V = zoho.vat
  BY SMT
<1>11. (V * d - 100 * n) * w <= 50 * (n + d) /\ (V * d - 100 * n) * w >= -(50 * (n + d))
  <2>1. PICK off \in Int : off = V * d - 100 * n
    BY SMT
  <2>2. (IF off < 0 THEN -off ELSE off) * w <= 50 * (n + d)
    BY <1>2, <1>3, <1>4, <1>10, <2>1, SMT DEF WholeVat
  <2>3. (-off) * w = -(off * w) /\ off * w \in Int
    BY SMT
  <2>4. off < 0 => off * w <= 0
    BY Z3
  <2>5. off >= 0 => off * w >= 0
    BY Z3
  <2>6. 50 * (n + d) \in Nat
    BY SMT
  <2>7. off * w <= 50 * (n + d) /\ off * w >= -(50 * (n + d))
    BY <2>2, <2>3, <2>4, <2>5, <2>6, SMT
  <2> QED BY <2>1, <2>7, SMT
<1>12. /\ G \in Int
       /\ 20000 * G <= 2 * (N * (100 + V)) + 20000 * ship + 10000
       /\ 20000 * G > 2 * (N * (100 + V)) + 20000 * ship - 10000
  <2>1. Figures(zoho.rows) = ItemsAt(OrderDiscount(r))
    BY <1>2, SMT DEF AllItems
  <2>2. SumOf(RowTotal, zoho.rows, Taxed) \in Int
    BY <1>8, SMT
  <2> QED BY <1>1, <1>8, <1>10, <2>1, <2>2, GrandClose, SMT
<1>13. PICK Z \in Int : Z = (100 * W + 20000 * e + S) * (100 + V) /\ Z < 200000000
  <2>1. (100 * W + 20000 * e + S) * (100 + V) = (100 + V) * (100 * W + 20000 * e + S)
    BY <1>1, SMT
  <2>2. (100 + V) * (100 * W + 20000 * e + S) \in Int
    BY <1>1, SMT
  <2>3. (100 + V) * (100 * W + 20000 * e + S) < 200000000
    BY <1>8, <1>9, <1>10, SMT DEF Precise, Spread
  <2> QED BY <2>1, <2>2, <2>3, SMT
<1> HIDE DEF S, T, ship, G
<1>14. PICK y \in Int : y = N * (100 + V)
  BY SMT
<1>15. 20000 * y <= 200000000 * w + 100000000 + Z
  <2>1. 20000 * (N * (100 + V)) <= 200000000 * w + 100000000 + (100 * W + 20000 * e + S) * (100 + V)
    <3>1. AtMost(n, d, V, w, S, K, P, W, e, N)
      BY <1>1, <1>6, <1>8, <1>9, <1>11, SMT DEF AtMost
    <3> QED BY <3>1, NotMore, SMT
  <2> QED BY <1>13, <1>14, <2>1, SMT
<1>16. Charged(r) <= Undiscounted(r) => 20000 * y >= 200000000 * w - 100000000 - Z
  <2>1. SUFFICES ASSUME Charged(r) <= Undiscounted(r)
                 PROVE  20000 * y >= 200000000 * w - 100000000 - Z
    BY SMT
  <2>2. 2 * (K * (S * (n + d))) >= 2000000 * (w * d) - S * (n + d)
    BY <1>5, <1>6, <2>1, SMT
  <2>3. 20000 * (N * (100 + V)) >= 200000000 * w - 100000000 - (100 * W + 20000 * e + S) * (100 + V)
    <3>1. AtLeast(n, d, V, w, S, K, P, W, e, N)
      BY <1>1, <1>6, <1>8, <1>9, <1>11, <2>2, SMT DEF AtLeast
    <3> QED BY <3>1, NotLess, SMT
  <2> QED BY <1>13, <1>14, <2>3, SMT
<1>17. 20000 * G <= 2 * y + 20000 * ship + 10000 /\ 20000 * G > 2 * y + 20000 * ship - 10000
  BY <1>12, <1>14, SMT
<1>18. G - T <= 1
  BY <1>1, <1>4, <1>12, <1>13, <1>15, <1>17, SMT
<1>19. Charged(r) <= Undiscounted(r) => G - T >= -1
  BY <1>1, <1>4, <1>12, <1>13, <1>16, <1>17, SMT
<1> QED BY <1>18, <1>19, SMT

-----------------------------------------------------------------------------
(* The amounts of a subform. *)
Amounts(s) == \A i \in DOMAIN s : s[i].qty \in Nat \ {0} /\ s[i].list \in Int /\ s[i].disc \in Int

(* Roundings are whole numbers, of any sign. *)
LEMMA RoundedInt ==
  ASSUME NEW a \in Int, NEW d \in Int, d > 0
  PROVE  Rounded(a, d) \in Int
BY RoundedBounds

LEMMA NetInt ==
  ASSUME NEW price \in Nat, NEW D \in Int
  PROVE  NetUnit(price, D) \in Int
<1>1. PICK k \in Int : k = 1000000 - D
  BY SMT
<1>2. k \div 10000 \in Int /\ k % 10000 \in Int
  BY SMT
<1>3. \A a, b \in Int : a * b \in Int
  BY SMT
<1>4. PICK a \in Int, b \in Int : a = price * (k \div 10000) /\ b = price * (k % 10000)
  BY <1>2, <1>3, SMT
<1>5. Rounded(b, 10000) \in Int
  BY <1>4, SMT DEF Rounded
<1>6. NetUnit(price, D) = a + Rounded(b, 10000)
  BY <1>1, <1>4, SMT DEF NetUnit
<1> QED BY <1>5, <1>6, SMT

(* A row as sent has whole figures. *)
LEMMA OrderedAmounts ==
  ASSUME NEW product, NEW qty, NEW price \in Nat, NEW master \in Nat, NEW D \in Int
  PROVE  LET it == OrderedItem(product, qty, price, master, D)
         IN  it.qty = qty /\ it.list \in Int /\ it.disc \in Int
<1> DEFINE it == OrderedItem(product, qty, price, master, D)
           net == NetUnit(price, D)
           list == IF master > price THEN master ELSE price
<1>1. list \in Nat /\ net \in Int
  BY NetInt, SMT
<1>2. /\ it.qty = qty
      /\ it.disc = IF list > 0 THEN Rounded(100 * (100 * list - net), list) ELSE 0
      /\ it.list = IF it.disc < 10000 THEN Rounded(100 * net, 10000 - it.disc) ELSE list
  BY ItemFields
<1> HIDE DEF it, net, list
<1>3. it.disc \in Int
  <2>1. CASE ~(list > 0)
    BY <1>2, <2>1, SMT
  <2>2. CASE list > 0
    <3>1. 100 * (100 * list - net) \in Int
      BY <1>1, SMT
    <3>2. Rounded(100 * (100 * list - net), list) \in Int
      BY <1>1, <2>2, <3>1, RoundedInt, SMT
    <3> QED BY <1>2, <2>2, <3>2, SMT
  <2> QED BY <2>1, <2>2, SMT
<1>4. it.list \in Int
  <2>1. CASE ~(it.disc < 10000)
    BY <1>1, <1>2, <2>1, SMT
  <2>2. CASE it.disc < 10000
    <3>1. 100 * net \in Int /\ 10000 - it.disc \in Int /\ 10000 - it.disc > 0
      BY <1>1, <1>3, <2>2, SMT
    <3>2. Rounded(100 * net, 10000 - it.disc) \in Int
      BY <3>1, RoundedInt, SMT
    <3> QED BY <1>2, <2>2, <3>2, SMT
  <2> QED BY <2>1, <2>2, SMT
<1> QED BY <1>2, <1>3, <1>4 DEF it

(* What an order asks for are amounts, whatever the discount. *)
LEMMA ItemsAmounts ==
  ASSUME TypeOK, OrderRows(lines), NEW d \in Int
  PROVE  Amounts(ItemsAt(d)) /\ Amounts(FirstChunk(ItemsAt(d)))
<1> DEFINE t == ItemsAt(d)
           n == Cardinality(DOMAIN lines)
<1>1. /\ \A i \in 1..n : t[i] = LineItem(KeyAt(i), d) /\ KeyAt(i) \in DOMAIN lines
      /\ \A i \in DOMAIN t : i \notin 1..n => i = n + 1 /\ t[i] = ShipItem
      /\ Len(t) = n + 1 <=> RowValue("shipping") > 0
      /\ IsSeq(t) /\ Len(t) \in {n, n + 1} /\ n \in Nat
  BY ItemsFacts DEF OrderRows
<1>2. \A k \in DOMAIN lines : /\ LineItem(k, d).qty \in Nat \ {0}
                              /\ LineItem(k, d).list \in Int /\ LineItem(k, d).disc \in Int
  <2> SUFFICES ASSUME NEW k \in DOMAIN lines
               PROVE  /\ LineItem(k, d).qty \in Nat \ {0}
                      /\ LineItem(k, d).list \in Int /\ LineItem(k, d).disc \in Int
    OBVIOUS
  <2>1. PICK qty \in Nat \ {0}, price \in Nat, master \in Nat :
          qty = lines[k].qty /\ price = lines[k].price /\ master = MasterPrice[lines[k].product]
    <3>1. lines[k] \in Line /\ lines[k].product \in Products
      BY DEF TypeOK, Line
    <3>2. MasterPrice[lines[k].product] \in Nat
      BY <3>1, ForwardAssumption
    <3> QED BY <3>1, <3>2 DEF Line
  <2>2. LineItem(k, d) = OrderedItem(lines[k].product, qty, price, master, d)
    BY <2>1 DEF LineItem
  <2> QED BY <2>2, OrderedAmounts
<1>3. RowValue("shipping") > 0 => /\ ShipItem.qty \in Nat \ {0}
                                  /\ ShipItem.list \in Int /\ ShipItem.disc \in Int
  <2> SUFFICES ASSUME RowValue("shipping") > 0
               PROVE  ShipItem.qty \in Nat \ {0} /\ ShipItem.list \in Int /\ ShipItem.disc \in Int
    OBVIOUS
  <2>1. PICK price \in Nat : price = 100 * RowValue("shipping")
    BY RowValueInt
  <2>2. ShipItem = OrderedItem(Carriage, 1, price, 0, 0)
    BY <2>1 DEF ShipItem
  <2>3. 0 \in Nat /\ 0 \in Int
    OBVIOUS
  <2>4. ShipItem.qty = 1 /\ ShipItem.list \in Int /\ ShipItem.disc \in Int
    BY <2>2, <2>3, OrderedAmounts
  <2> QED BY <2>4
<1> HIDE DEF t, n
<1>4. DOMAIN t = 1..Len(t)
  BY <1>1, SeqFacts
<1>5. ASSUME NEW i \in DOMAIN t
      PROVE  t[i].qty \in Nat \ {0} /\ t[i].list \in Int /\ t[i].disc \in Int
  <2>1. CASE i \in 1..n
    BY <1>1, <1>2, <2>1
  <2>2. CASE i \notin 1..n
    <3>1. t[i] = ShipItem /\ Len(t) = n + 1
      BY <1>1, <1>4, <2>2
    <3> QED BY <1>1, <1>3, <3>1
  <2> QED BY <2>1, <2>2
<1>6. Amounts(t)
  BY <1>5 DEF Amounts
<1>7. \A i \in DOMAIN FirstChunk(t) : i \in DOMAIN t /\ FirstChunk(t)[i] = t[i]
  BY ChunkOfOrder DEF t
<1> QED BY <1>6, <1>7 DEF Amounts, t

(* Appending and patching rows keeps their figures whole. *)
LEMMA AppendedAmounts ==
  ASSUME Subform(zoho.rows), zoho.next \in Nat, NEW items, IsSeq(items), KnownRows(items),
         Amounts(zoho.rows), Amounts(items)
  PROVE  Amounts(Appended(items))
<1> DEFINE s == Appended(items)
           l == Len(zoho.rows)
<1>1. /\ DOMAIN s = 1..(l + Len(items))
      /\ \A i \in 1..l : s[i] = zoho.rows[i]
      /\ \A i \in (l + 1)..(l + Len(items)) :
           /\ s[i].qty = items[i - l].qty
           /\ s[i].list = items[i - l].list /\ s[i].disc = items[i - l].disc
  BY AppendedRows
<1>2. /\ l \in Nat /\ DOMAIN zoho.rows = 1..l
      /\ Len(items) \in Nat /\ DOMAIN items = 1..Len(items)
  BY SeqFacts DEF Subform
<1> HIDE DEF s, l
<1>3. ASSUME NEW i \in DOMAIN s
      PROVE  s[i].qty \in Nat \ {0} /\ s[i].list \in Int /\ s[i].disc \in Int
  <2>1. CASE i \in 1..l
    BY <1>1, <1>2, <2>1 DEF Amounts
  <2>2. CASE i \in (l + 1)..(l + Len(items))
    <3>1. i - l \in DOMAIN items
      BY <1>2, <2>2
    <3> QED BY <1>1, <2>2, <3>1 DEF Amounts
  <2> QED BY <1>1, <1>2, <2>1, <2>2
<1> QED BY <1>3 DEF Amounts, s

(* A manager sets amounts. *)
LEMMA EditedAmounts ==
  ASSUME Subform(zoho.rows), zoho.next \in Nat, Amounts(zoho.rows), NEW r \in Edited
  PROVE  Amounts(r)
<1> DEFINE s == zoho.rows
<1>1. CASE \E i \in DOMAIN s, d \in Discounts : r = [s EXCEPT ![i].disc = d]
  <2>1. PICK i \in DOMAIN s, d \in Discounts : r = [s EXCEPT ![i].disc = d]
    BY <1>1
  <2>2. /\ DOMAIN r = DOMAIN s /\ d \in Int /\ "disc" \in DOMAIN s[i]
        /\ \A j \in DOMAIN s : /\ r[j].qty = s[j].qty /\ r[j].list = s[j].list
                               /\ r[j].disc = s[j].disc \/ r[j].disc = d
    BY <2>1, BackfillAssumption DEF Subform, RowFields
  <2> QED BY <2>2 DEF Amounts
<1>2. CASE \E i \in DOMAIN s, n \in Prices : r = [s EXCEPT ![i].list = n]
  <2>1. PICK i \in DOMAIN s, n \in Prices : r = [s EXCEPT ![i].list = n]
    BY <1>2
  <2>2. /\ DOMAIN r = DOMAIN s /\ n \in Int /\ "list" \in DOMAIN s[i]
        /\ \A j \in DOMAIN s : /\ r[j].qty = s[j].qty /\ r[j].disc = s[j].disc
                               /\ r[j].list = s[j].list \/ r[j].list = n
    BY <2>1, BackfillAssumption DEF Subform, RowFields
  <2> QED BY <2>2 DEF Amounts
<1>3. CASE \E i \in DOMAIN s, q \in Quantities : r = [s EXCEPT ![i].qty = q]
  <2>1. PICK i \in DOMAIN s, q \in Quantities : r = [s EXCEPT ![i].qty = q]
    BY <1>3
  <2>2. /\ DOMAIN r = DOMAIN s /\ q \in Nat \ {0} /\ "qty" \in DOMAIN s[i]
        /\ \A j \in DOMAIN s : /\ r[j].list = s[j].list /\ r[j].disc = s[j].disc
                               /\ r[j].qty = s[j].qty \/ r[j].qty = q
    BY <2>1, BackfillAssumption DEF Subform, RowFields
  <2> QED BY <2>2 DEF Amounts
<1>4. CASE \E i \in DOMAIN s : r = RemoveAt(s, i)
  <2>1. PICK k \in DOMAIN s : r = RemoveAt(s, k)
    BY <1>4
  <2>2. /\ DOMAIN r = 1..(Len(s) - 1)
        /\ \A i \in 1..(Len(s) - 1) : r[i] = IF i < k THEN s[i] ELSE s[i + 1]
    BY <2>1, RemoveFacts DEF Subform
  <2>3. Len(s) \in Nat /\ DOMAIN s = 1..Len(s)
    BY SeqFacts DEF Subform
  <2> DEFINE at(i) == IF i < k THEN i ELSE i + 1
  <2>4. \A i \in DOMAIN r : at(i) \in DOMAIN s /\ r[i] = s[at(i)]
    BY <2>2, <2>3
  <2> QED BY <2>4 DEF Amounts
<1>5. CASE \E p \in Products \ {s[i].product : i \in DOMAIN s} :
             r = Appended(<<[product |-> p, qty |-> 1, list |-> MasterPrice[p], disc |-> 0]>>)
  <2>1. PICK p \in Products : r = Appended(<<[product |-> p, qty |-> 1, list |-> MasterPrice[p], disc |-> 0]>>)
    BY <1>5
  <2> DEFINE it == [product |-> p, qty |-> 1, list |-> MasterPrice[p], disc |-> 0]
             t == <<it>>
  <2>2. IsSeq(t) /\ DOMAIN t = 1..1 /\ t[1] = it
    <3>1. <<it>> \in Seq({it}) /\ DOMAIN <<it>> = 1..1 /\ <<it>>[1] = it
      OBVIOUS
    <3>2. IsSeq(<<it>>)
      BY <3>1, SeqAny
    <3> QED BY <3>1, <3>2
  <2>3. it.product = p /\ it.qty \in Nat \ {0} /\ it.list \in Int /\ it.disc \in Int
    BY ForwardAssumption
  <2>4. r = Appended(t)
    BY <2>1
  <2> HIDE DEF t, it
  <2>5. KnownRows(t) /\ Amounts(t)
    BY <2>2, <2>3 DEF KnownRows, Amounts
  <2> QED BY <2>2, <2>4, <2>5, AppendedAmounts
<1> QED BY <1>1, <1>2, <1>3, <1>4, <1>5 DEF Edited

(* A patch takes figures from the rows that were asked for. *)
LEMMA PatchedAmounts ==
  ASSUME Amounts(zoho.rows), NEW want, Amounts(want), NEW seen
  PROVE  Amounts(Patched(Patches(want, seen)))
<1> DEFINE s == zoho.rows
           P == Patches(want, seen)
           r == Patched(P)
<1>1. \A q \in P : \E i \in DOMAIN want : q = Row(seen[i].id, want[i])
  BY DEF Patches
<1>2. DOMAIN r = DOMAIN s /\ \A i \in DOMAIN s : r[i] = s[i] \/ r[i] \in P
  BY DEF Patched
<1> HIDE DEF r, P
<1>3. \A q \in P : q.qty \in Nat \ {0} /\ q.list \in Int /\ q.disc \in Int
  BY <1>1, RowType DEF Amounts
<1> QED BY <1>2, <1>3 DEF Amounts, r, P

-----------------------------------------------------------------------------
(* A webhook that passes the validator carries amounts, and its grand total    *)
(* covers its carriage.                                                        *)
HookOK(h) == h.valid => Payable(h) /\ h.ship <= h.grand

(* Positive figures of rows have a natural sum. *)
LEMMA RowTotalsNat ==
  ASSUME NEW s, NEW X, IsFiniteSet(X), \A i \in X : RowTotal(s[i]) \in Nat
  PROVE  SumOf(RowTotal, s, X) \in Nat
<1>1. PICK F : F = [i \in X |-> RowTotal(s[i])]
  OBVIOUS
<1>2. F \in [X -> Nat] /\ \A i \in X : F[i] = RowTotal(s[i])
  BY <1>1
<1>3. PICK g : Sums(g, F, X) /\ SumOf(RowTotal, s, X) = g[X]
  BY <1>2, SumOfRowTotals
<1> QED BY <1>2, <1>3, SumsNat

LEMMA QuantitiesNat ==
  ASSUME NEW s, NEW X, IsFiniteSet(X), X # {}, \A i \in X : s[i].qty \in Nat \ {0}
  PROVE  SumOf(Qty, s, X) \in Nat \ {0}
<1>1. PICK F : F = [i \in X |-> s[i].qty]
  OBVIOUS
<1>2. F \in [X -> Nat] /\ (\A i \in X : F[i] > 0) /\ \A i \in X : F[i] = Qty(s[i])
  BY <1>1 DEF Qty
<1>3. PICK g : Sums(g, F, X) /\ SumOf(Qty, s, X) = g[X]
  BY <1>2, SumOfQuantities
<1> QED BY <1>2, <1>3, SumsNat

(* The grand total is no less than the carriage in it. *)
Covered(a, b) ==
  Rounded(a + 100 * b, 10000) \in Int /\ Cents(b) <= Rounded(a + 100 * b, 10000)

LEMMA CarriageCovered == ASSUME NEW a \in Nat, NEW b \in Nat PROVE Covered(a, b)
<1>1. PICK c \in Int, C \in Int : c = a + 100 * b /\ C = Rounded(c, 10000)
  BY ToWhole, SMT DEF Whole
<1>2. 20000 * C <= 2 * c + 10000 /\ 2 * c + 10000 < 20000 * C + 20000
  BY <1>1, ToWhole, SMT DEF Whole
<1>3. PICK q \in Nat : q = Cents(b) /\ 100 * q <= b + 50
  BY CentsClose, SMT
<1>4. q <= C
  BY <1>1, <1>2, <1>3, SMT
<1> QED BY <1>1, <1>3, <1>4, SMT DEF Covered

(* What Zoho sends of a subform with whole figures. *)
LEMMA PayloadOK ==
  ASSUME NEW s, IsSeq(s), KnownRows(s), Amounts(s), NEW vat \in Nat, NEW t
  PROVE  HookOK(Payload(s, vat, t))
<1> DEFINE h == Payload(s, vat, t)
<1>1. /\ h.items = ItemsOf(s) /\ h.grand = GrandTotal(s, vat) /\ h.valid = Valid(s, vat)
      /\ h.ship = Cents(SumOf(RowTotal, s, RowsOf({Carriage}, s)))
  BY DEF Payload
<1> HIDE DEF h
<1>2. SUFFICES ASSUME Valid(s, vat) PROVE Payable(h) /\ h.ship <= h.grand
  BY <1>1 DEF HookOK, h
<1>3. IsFiniteSet(DOMAIN s)
  <2>1. Len(s) \in Nat /\ DOMAIN s = 1..Len(s)
    BY SeqFacts
  <2> QED BY <2>1, FS_Interval
<1>4. \A P : IsFiniteSet(RowsOf(P, s)) /\ RowsOf(P, s) \in SUBSET DOMAIN s
  BY <1>3, FS_Subset DEF RowsOf
<1>5. \A i \in DOMAIN s : RowTotal(s[i]) \in Nat /\ s[i].list \in Nat /\ s[i].qty \in Nat \ {0}
  <2>1. \A i \in DOMAIN s : RowTotal(s[i]) \in Int
    BY RowTotalClose DEF Amounts
  <2> QED BY <1>2, <2>1 DEF Valid, Amounts
<1>6. \A P : SumOf(RowTotal, s, RowsOf(P, s)) \in Nat
  BY <1>4, <1>5, RowTotalsNat
<1>7. /\ h.ship \in Nat /\ h.grand \in Nat \ {0} /\ h.ship <= h.grand
  <2>1. PICK A \in Nat, B \in Nat : /\ A = SumOf(RowTotal, s, RowsOf(Products, s)) * (100 + vat)
                                   /\ B = SumOf(RowTotal, s, RowsOf({Carriage}, s))
    <3>1. PICK N \in Nat, B \in Nat : /\ N = SumOf(RowTotal, s, RowsOf(Products, s))
                                     /\ B = SumOf(RowTotal, s, RowsOf({Carriage}, s))
      BY <1>6
    <3>2. N * (100 + vat) \in Nat
      OBVIOUS
    <3> QED BY <3>1, <3>2
  <2>2. h.grand = Rounded(A + 100 * B, 10000) /\ h.ship = Cents(B)
    BY <1>1, <2>1, SMT DEF GrandTotal
  <2>3. Covered(A, B)
    BY CarriageCovered
  <2>4. Cents(B) \in Nat
    BY CentsClose, SMT
  <2>5. h.grand > 0
    BY <1>1, <1>2 DEF Valid
  <2> QED BY <2>2, <2>3, <2>4, <2>5, SMT DEF Covered
<1>8. DOMAIN h.items \subseteq Products
  BY <1>1, ItemsType DEF ByProduct
<1>9. ASSUME NEW p \in DOMAIN h.items PROVE h.items[p] \in Item
  <2>1. PICK own : own = RowsOf({p}, s)
    OBVIOUS
  <2>2. h.items[p] = Merged(p, s) /\ p \in {s[i].product : i \in DOMAIN s}
    BY <1>1, <1>9 DEF ItemsOf
  <2>3. own # {} /\ IsFiniteSet(own) /\ own \in SUBSET DOMAIN s
    BY <1>4, <2>1, <2>2 DEF RowsOf
  <2>4. PICK qty \in Nat \ {0}, total \in Nat : qty = SumOf(Qty, s, own) /\ total = SumOf(RowTotal, s, own)
    BY <1>5, <2>3, QuantitiesNat, RowTotalsNat
  <2> DEFINE only == CHOOSE i \in own : TRUE
  <2>5. only \in own
    BY <2>3
  <2>6. Merged(p, s) = [qty |-> qty, total |-> Cents(total),
                        price |-> IF own = {only} THEN s[only].list ELSE Rounded(total, qty)]
    BY <2>1, <2>4 DEF Merged
  <2> HIDE DEF only
  <2>7. Cents(total) \in Nat /\ Rounded(total, qty) \in Nat /\ s[only].list \in Nat
    BY <1>5, <2>3, <2>5, CentsClose, RoundedNat
  <2> QED BY <2>2, <2>6, <2>7 DEF Item
<1> QED BY <1>7, <1>8, <1>9 DEF Payable

-----------------------------------------------------------------------------
(* The amounts on either side and on their way. *)
AmountsOK ==
  /\ TypeOK /\ Rested
  /\ Amounts(zoho.rows) /\ Amounts(run.want) /\ zoho.vat \in Nat
  /\ \A h \in outbox : HookOK(h)
  /\ hook.ship <= hook.grand

(* The VAT field is a natural percent. *)
LEMMA VatNat ==
  ASSUME TypeOK, NEW r \in VatRates
  PROVE  VatPercent(r) \in Nat
<1>1. r.num \in Nat /\ r.den \in Nat \ {0}
  BY RateType
<1> QED BY <1>1, RoundedNat DEF VatPercent

(* Whoever stores a subform with whole figures. *)
LEMMA StoreAmounts ==
  ASSUME AmountsOK, DataOK, NEW s, Subform(s), Amounts(s), NEW vat \in Nat, Store(s, vat),
         UNCHANGED vars, run'.want = run.want \/ run'.want = << >>
  PROVE  AmountsOK'
<1>1. zoho'.rows = s /\ zoho'.vat = vat /\ outbox' = outbox \cup {Payload(s, vat, zoho.time + 1)}
  BY DEF Store
<1>2. HookOK(Payload(s, vat, zoho.time + 1))
  BY PayloadOK DEF Subform
<1>3. Amounts(run'.want)
  BY DEF Amounts, AmountsOK
<1>4. TypeOK' /\ Rested' /\ (hook.ship <= hook.grand)'
  BY DEF AmountsOK, TypeOK, Rested, vars
<1>5. Amounts(zoho'.rows) /\ zoho'.vat \in Nat
  BY <1>1
<1>6. \A h \in outbox' : HookOK(h)
  BY <1>1, <1>2 DEF AmountsOK
<1> QED BY <1>3, <1>4, <1>5, <1>6 DEF AmountsOK

LEMMA AmountsInit == InitAll => AmountsOK
<1> SUFFICES ASSUME InitAll PROVE AmountsOK
  OBVIOUS
<1>1. TypeOK /\ Rested
  BY InitType DEF InitAll
<1>2. DataOK
  BY DataInit
<1>3. outbox = {} /\ run.want = << >> /\ hook.ship = 0 /\ hook.grand = 1
  BY RunOver DEF InitAll, Init, NoHook
<1>4. Amounts(run.want)
  BY <1>3 DEF Amounts
<1>5. Amounts(zoho.rows) /\ zoho.vat \in Nat
  <2>1. CASE zoho = NoRecord
    BY <2>1 DEF NoRecord, Amounts
  <2>2. CASE zoho \in {SentBefore(r) : r \in VatRates}
    <3>1. PICK r \in VatRates : zoho = SentBefore(r)
      BY <2>2
    <3>2. PICK t : t = FirstChunk(ItemsAt(DiscountWithCarriage(r)))
      OBVIOUS
    <3>3. Amounts(t) /\ IsSeq(t)
      BY <1>1, <1>2, <3>2, DiscountType, ItemsAmounts, ChunkOfOrder DEF DataOK
    <3>4. /\ zoho.vat = VatPercent(r) /\ LikeRows(t, zoho.rows)
          /\ \A i \in DOMAIN zoho.rows : zoho.rows[i].list = t[i].list /\ zoho.rows[i].disc = t[i].disc
      BY <1>2, <3>1, <3>2, SentRows DEF DataOK
    <3>5. Amounts(zoho.rows)
      BY <3>3, <3>4 DEF Amounts, LikeRows
    <3> QED BY <1>1, <3>4, <3>5, VatNat
  <2> QED BY <2>1, <2>2 DEF InitAll
<1> QED BY <1>1, <1>3, <1>4, <1>5 DEF AmountsOK

(* Every webhook that is applied is one of amounts. *)
LEMMA StepIsTurn == AmountsOK /\ [NextAll]_allVars => [Turn]_vars
<1> SUFFICES ASSUME AmountsOK, [NextAll]_allVars PROVE [Turn]_vars
  OBVIOUS
<1>1. ASSUME NEW h \in Accepted, Apply(h) PROVE Turn
  <2>1. Payable(h) /\ Receive(h)
    BY <1>1 DEF AmountsOK, HookOK, Accepted, Apply
  <2> QED BY <2>1 DEF Turn
<1>2. CASE Webhook
  BY <1>1, <1>2 DEF Webhook, SkipEcho, StatusOnly, ApplyLine, Applied, Refused, Turn
<1>3. CASE Push \/ ManagerEdits \/ RunBackfill \/ UNCHANGED allVars
  BY <1>3 DEF Push, ManagerEdits, RunBackfill, LoadSynced, BackfillGet, BackfillPut, BackfillStamp, allVars
<1> QED BY <1>2, <1>3 DEF NextAll

(* Pushes, edits, webhooks and backfills keep the amounts. *)
LEMMA AmountsStep == AmountsOK /\ DataOK /\ InHand /\ [NextAll]_allVars => AmountsOK'
<1> SUFFICES ASSUME AmountsOK, DataOK, InHand, [NextAll]_allVars PROVE AmountsOK'
  OBVIOUS
<1>0. TypeOK' /\ Rested'
  BY StepIsTurn, TypeStep DEF AmountsOK
<1>1. CASE Push
  <2>1. PICK r \in VatRates : Store(Appended(FirstChunk(AllItems(r))), VatPercent(r))
    BY <1>1 DEF Push
  <2>2. PICK t : t = FirstChunk(AllItems(r))
    OBVIOUS
  <2>3. IsSeq(t) /\ KnownRows(t) /\ Amounts(t)
    BY <2>2, ChunkOfOrder, ItemsAmounts, DiscountType DEF AllItems, DataOK, AmountsOK
  <2>4. Subform(Appended(t)) /\ Amounts(Appended(t))
    BY <2>3, AppendedRows, AppendedAmounts DEF DataOK, AmountsOK
  <2>5. VatPercent(r) \in Nat
    BY VatNat DEF AmountsOK
  <2>6. UNCHANGED vars /\ run' = run
    BY <1>1 DEF Push
  <2> QED BY <2>1, <2>2, <2>4, <2>5, <2>6, StoreAmounts
<1>2. CASE ManagerEdits
  <2>1. PICK r \in Edited : Store(r, zoho.vat)
    BY <1>2 DEF ManagerEdits
  <2>2. Subform(r) /\ Amounts(r)
    BY EditedRows, EditedAmounts DEF DataOK, AmountsOK
  <2>3. UNCHANGED vars /\ run' = run /\ zoho.vat \in Nat
    BY <1>2 DEF ManagerEdits, AmountsOK
  <2> QED BY <2>1, <2>2, <2>3, StoreAmounts
<1>3. CASE RunBackfill
  <2>1. UNCHANGED vars
    BY <1>3 DEF RunBackfill, LoadSynced, BackfillGet, BackfillPut, BackfillStamp
  <2>2. ASSUME Amounts(run'.want), UNCHANGED <<zoho, outbox>> PROVE AmountsOK'
    BY <1>0, <2>1, <2>2 DEF AmountsOK, vars
  <2>3. \A w : w = << >> => Amounts(w)
    BY DEF Amounts
  <2>4. CASE LoadSynced
    <3>1. PICK r \in VatRates : run' = [NoRun EXCEPT !.pc = "get", !.want = AllItems(r)]
      BY <2>4 DEF LoadSynced
    <3>2. run'.want = AllItems(r)
      BY <3>1 DEF NoRun
    <3>3. Amounts(AllItems(r))
      BY ItemsAmounts, DiscountType DEF AllItems, DataOK, AmountsOK
    <3> QED BY <2>2, <2>4, <3>2, <3>3 DEF LoadSynced
  <2>5. CASE BackfillGet
    <3>1. run' = NoRun \/ run' = [run EXCEPT !.pc = "put", !.seen = zoho.rows]
      BY <2>5 DEF BackfillGet, Over
    <3>2. run'.want = run.want \/ run'.want = << >>
      BY <3>1, RunOver, RunRead DEF DataOK
    <3> QED BY <2>2, <2>3, <2>5, <3>2 DEF BackfillGet, AmountsOK
  <2>6. CASE BackfillPut
    <3>1. PICK s : s = Patched(Patches(run.want, run.seen))
      OBVIOUS
    <3>2. Subform(s) /\ Amounts(s)
      BY <3>1, PatchedRows, PatchedAmounts DEF DataOK, AmountsOK
    <3>3. run'.want = run.want \/ run'.want = << >>
      <4>1. run' = NoRun \/ run' = [run EXCEPT !.pc = "stamp", !.time = zoho.time + 1]
        BY <2>6 DEF BackfillPut, Over
      <4> QED BY <4>1, RunOver, RunWrote DEF DataOK
    <3>4. CASE Store(s, zoho.vat)
      BY <2>1, <3>2, <3>3, <3>4, StoreAmounts DEF AmountsOK
    <3>5. CASE UNCHANGED <<zoho, outbox>>
      BY <2>2, <2>3, <3>3, <3>5 DEF AmountsOK
    <3> QED BY <2>6, <3>1, <3>4, <3>5 DEF BackfillPut
  <2>7. CASE BackfillStamp
    <3>1. run'.want = << >>
      BY <2>7, RunOver DEF BackfillStamp, Over
    <3> QED BY <2>2, <2>3, <2>7, <3>1 DEF BackfillStamp
  <2> QED BY <1>3, <2>4, <2>5, <2>6, <2>7 DEF RunBackfill
<1>4. CASE Webhook
  <2>1. UNCHANGED <<zoho, run>> /\ outbox' \subseteq outbox
    BY <1>4 DEF Webhook, SkipEcho, StatusOnly, Apply, ApplyLine, Applied, Refused, sideVars
  <2>2. hook'.ship <= hook'.grand
    <3>1. \/ hook' = hook \/ hook' = NoHook
          \/ \E h \in Accepted : hook' = h
      BY <1>4 DEF Webhook, SkipEcho, StatusOnly, Apply, Receive, ApplyLine, AddLine, Applied, Commit,
                  Refused, Rollback, Done, vars
    <3>2. NoHook.ship <= NoHook.grand
      BY DEF NoHook
    <3> QED BY <3>1, <3>2 DEF AmountsOK, HookOK, Accepted
  <2> QED BY <1>0, <2>1, <2>2 DEF AmountsOK
<1>5. CASE UNCHANGED allVars
  BY <1>0, <1>5 DEF allVars, sideVars, vars, AmountsOK
<1> QED BY <1>1, <1>2, <1>3, <1>4, <1>5 DEF NextAll

-----------------------------------------------------------------------------
(* The charge. *)

(* An order of the shop: a sub total, and a carriage within the total charged. *)
StoredWorth ==
  /\ "total" \in Present
  /\ \A s \in Stored :
       /\ s.rows["total"] >= 0
       /\ "sub_total" \in Present => s.rows["sub_total"] >= 0
       /\ "shipping" \in Present => s.rows["shipping"] >= 0 /\ s.rows["shipping"] <= s.rows["total"]

LEMMA WorthInit == StoredWorth /\ InitAll => Worth
<1> SUFFICES ASSUME StoredWorth, InitAll PROVE Worth
  OBVIOUS
<1>1. PICK s \in Stored : rows = s.rows
  BY DEF InitAll, Init
<1>2. /\ "total" \in Present /\ rows["total"] >= 0
      /\ "sub_total" \in Present => rows["sub_total"] >= 0
      /\ "shipping" \in Present => rows["shipping"] >= 0 /\ rows["shipping"] <= rows["total"]
  BY <1>1 DEF StoredWorth
<1> QED BY <1>2 DEF Worth, RowValue

(* A webhook leaves the rows it computed: the carriage it came with, within   *)
(* the grand total it came with.                                              *)
LEMMA WorthStep == StoredWorth /\ AmountsOK /\ Worth /\ [NextAll]_allVars => Worth'
<1> SUFFICES ASSUME StoredWorth, AmountsOK, Worth, [NextAll]_allVars PROVE Worth'
  OBVIOUS
<1>1. CASE Commit
  <2>1. /\ RowValue("sub_total")' \in {0, Totals.sub_total}
        /\ RowValue("shipping")' \in {0, Totals.shipping}
        /\ RowValue("total")' = Totals.total
    BY <1>1, CommittedRows DEF Codes, StoredWorth
  <2>2. Totals.shipping = hook.ship /\ Totals.total = hook.grand /\ Totals.sub_total = Cents(acc.paid)
    BY DEF Totals
  <2>3. hook.ship \in Nat /\ hook.grand \in Nat /\ hook.ship <= hook.grand /\ acc.paid \in Nat
    BY DEF AmountsOK, TypeOK
  <2>4. Cents(acc.paid) \in Nat
    BY <2>3, CentsClose, SMT
  <2> QED BY <2>1, <2>2, <2>3, <2>4 DEF Worth
<1>2. CASE ~Commit
  <2>1. UNCHANGED rows
    BY <1>2, StepIsTurn, OtherSteps
  <2> QED BY <2>1 DEF Worth, RowValue
<1> QED BY <1>1, <1>2

(* The Sales Order asks for what the customer was charged, to the cent,       *)
(* through every push, edit, webhook and run of the backfill, whenever the    *)
(* order is small enough for its discounts to be that precise.                *)
THEOREM ChargeAlwaysWorth == StoredWorth => (SpecAll => [](Precise => WorthCharged))
<1> SUFFICES ASSUME StoredWorth PROVE SpecAll => [](Precise => WorthCharged)
  OBVIOUS
<1> DEFINE Inv == DataOK /\ InHand /\ AmountsOK /\ Worth
<1>1. InitAll => Inv
  BY DataInit, AmountsInit, WorthInit
<1>2. Inv /\ [NextAll]_allVars => Inv'
  BY DataStep, AmountsStep, WorthStep
<1>3. Inv => (Precise => WorthCharged)
  BY PreciseCharge DEF DataOK, AmountsOK
<1> QED BY <1>1, <1>2, <1>3, PTL DEF SpecAll

-----------------------------------------------------------------------------
(* The rows of an order, whoever changes them. *)

LEMMA AmountsAlways == SpecAll => [](DataOK /\ InHand /\ AmountsOK)
BY DataInit, AmountsInit, DataStep, AmountsStep, PTL DEF SpecAll

(* Amounts stay amounts through pushes, edits, webhooks and backfills too.    *)
THEOREM AllTypeCorrect == SpecAll => []TypeOK
<1>1. AmountsOK => TypeOK
  BY DEF AmountsOK
<1> QED BY <1>1, AmountsAlways, PTL

(* Every webhook Zoho sends of a subform leaves rows that sum to its grand    *)
(* total, or exceed it where nothing is left to book a reduction on.          *)
THEOREM AllRowsReconcile == EveryRow => (SpecAll => RowsReconcile)
<1> SUFFICES ASSUME EveryRow PROVE SpecAll => RowsReconcile
  OBVIOUS
<1>1. AmountsOK /\ [NextAll]_allVars => [Reconciled]_rows
  BY StepIsTurn, RowsStep DEF AmountsOK
<1>2. SpecAll => [][NextAll]_allVars
  BY DEF SpecAll
<1> QED BY <1>1, <1>2, AmountsAlways, PTL DEF RowsReconcile, Reconciled

(* No edit of a subform gives a row of the order the wrong sign.              *)
THEOREM AllSignsKept == StoredSigns => (SpecAll => []SignsKept)
<1> SUFFICES ASSUME StoredSigns PROVE SpecAll => []SignsKept
  OBVIOUS
<1>1. InitAll => SignsKept
  BY SignsInit DEF InitAll
<1>2. AmountsOK /\ SignsKept /\ [NextAll]_allVars => SignsKept'
  BY StepIsTurn, SignsStep DEF AmountsOK
<1> QED BY <1>1, <1>2, AmountsAlways, PTL DEF SpecAll

(* Whatever list prices a subform gets, a row of a product the customer       *)
(* bought has a unit price that was paid for it, but for its rounding.        *)
THEOREM AllPaidPriceKept == SpecAll => PaidPriceKept
<1>1. InitAll => BuiltPaid
  BY BuiltInit DEF InitAll
<1>2. AmountsOK /\ BuiltPaid /\ [NextAll]_allVars => BuiltPaid'
  BY StepIsTurn, BuiltStep DEF AmountsOK
<1>3. AmountsOK /\ BuiltPaid /\ [NextAll]_allVars => [Close]_lines
  BY StepIsTurn, PaidStep DEF AmountsOK
<1> QED BY <1>1, <1>2, <1>3, AmountsAlways, PTL DEF SpecAll, PaidPriceKept, Close
=============================================================================
