------------------------------ MODULE Backfill ------------------------------
(***************************************************************************)
(* One order and its Sales Order: pushes, the edits of managers, the       *)
(* webhooks they cause, and the one-off command that rewrites discounts.   *)
(*                                                                         *)
(* The command is a process of its own beside the running service: it      *)
(* loads the order, reads the subform, rewrites the rows that differ and   *)
(* stores the Modified_Time, and anything may happen in between.           *)
(***************************************************************************)
EXTENDS ForwardTotals

CONSTANTS
  Quantities, Discounts, Prices,   \* what a manager sets rows to
  Budget, MaxTotal                 \* how often each kind of event, and all of them, may happen

Kinds == {"edit", "push", "run", "fault"}

ASSUME BackfillAssumption ==
  /\ Quantities \subseteq Nat \ {0} /\ Discounts \subseteq Nat /\ Prices \subseteq Nat
  /\ Budget \in [Kinds -> Nat] /\ MaxTotal \in Nat

VARIABLES
  zoho,         \* the Sales Order: rows, VAT percent, Modified_Time, next row id
  outbox,       \* webhooks Zoho has still to deliver
  stamp,        \* zoho_modified_time
  run,          \* the backfill command
  used,         \* events so far
  overlap       \* a run had the order changed under it

sideVars == <<zoho, outbox, stamp, run, used, overlap>>
allVars == <<vars, sideVars>>

NoRun == [pc |-> "off", want |-> <<>>, seen |-> <<>>, time |-> 0]
NoRecord == [rows |-> <<>>, vat |-> 0, time |-> 0, next |-> 1]

Spend(k) ==
  /\ used[k] < Budget[k] /\ SumFunction(used) < MaxTotal
  /\ used' = [used EXCEPT ![k] = @ + 1]

Created == zoho.time > 0

Row(id, item) ==
  [id |-> id, product |-> item.product, qty |-> item.qty, list |-> item.list, disc |-> item.disc]

(* Rows that arrive without an id are appended. *)
Appended(items) ==
  zoho.rows \o [i \in DOMAIN items |-> Row(zoho.next + i - 1, items[i])]

(* Zoho stores rows and VAT, and its workflow sends the webhook. *)
Store(rows_, vat) ==
  /\ zoho' = [rows |-> rows_, vat |-> vat, time |-> zoho.time + 1,
              next |-> zoho.next + Len(rows_)]
  /\ outbox' = outbox \cup {Payload(rows_, vat, zoho.time + 1)}

(* Something else changes the order on either side while a run is under way.  *)
Disturb == overlap' = (overlap \/ run.pc # "off")

-----------------------------------------------------------------------------
(* An order of before the fix may have been sent with the wrong discount. *)
SentBefore(r) ==
  LET items == FirstChunk(ItemsAt(DiscountWithCarriage(r)))
  IN  [rows |-> [i \in DOMAIN items |-> Row(i, items[i])],
       vat |-> VatPercent(r), time |-> 1, next |-> 1 + Len(items)]

InitAll ==
  /\ Init
  /\ outbox = {} /\ run = NoRun /\ used = [k \in Kinds |-> 0] /\ overlap = FALSE
  /\ \/ zoho = NoRecord /\ stamp = 0
     \/ zoho \in {SentBefore(r) : r \in VatRates} /\ stamp = 1

(* processOrder sends the order, new or again, and stores the Modified_Time.  *)
Push ==
  /\ IF Created THEN Spend("push") ELSE UNCHANGED used
  /\ \E r \in VatRates : Store(Appended(FirstChunk(AllItems(r))), VatPercent(r))
  /\ stamp' = zoho.time + 1
  /\ Disturb /\ UNCHANGED <<vars, run>>

-----------------------------------------------------------------------------
(* A manager edits the subform *)

Edited ==
  {[zoho.rows EXCEPT ![i].disc = d] : i \in DOMAIN zoho.rows, d \in Discounts}
  \cup {[zoho.rows EXCEPT ![i].list = n] : i \in DOMAIN zoho.rows, n \in Prices}
  \cup {[zoho.rows EXCEPT ![i].qty = q] :
          i \in {j \in DOMAIN zoho.rows : zoho.rows[j].product # Carriage}, q \in Quantities}
  \cup {RemoveAt(zoho.rows, i) : i \in DOMAIN zoho.rows}
  \cup {Appended(<<[product |-> p, qty |-> 1, list |-> MasterPrice[p], disc |-> 0]>>) :
          p \in Products \ {zoho.rows[i].product : i \in DOMAIN zoho.rows}}

ManagerEdits ==
  /\ Created /\ Spend("edit")
  /\ \E rows_ \in Edited \ {zoho.rows} :
       RowsOf(Products, rows_) # {} /\ Store(rows_, zoho.vat)
  /\ Disturb /\ UNCHANGED <<vars, stamp, run>>

-----------------------------------------------------------------------------
(* The webhooks *)

(* Our own write coming back, or an edit a later one has overtaken. *)
SkipEcho(h) ==
  /\ pc = "idle" /\ h.time <= stamp
  /\ outbox' = outbox \ {h}
  /\ UNCHANGED <<vars, zoho, stamp, run, used, overlap>>

(* The same products in the same quantities: items and totals stay. *)
StatusOnly(h) ==
  /\ pc = "idle" /\ h.time > stamp /\ ItemsUnchanged(h.items)
  /\ outbox' = outbox \ {h} /\ stamp' = h.time
  /\ Disturb /\ UNCHANGED <<vars, zoho, run, used>>

Apply(h) ==
  /\ h.time > stamp /\ Receive(h)
  /\ UNCHANGED sideVars

ApplyLine == (\E p \in left : AddLine(p)) /\ UNCHANGED sideVars

Applied ==
  /\ Commit
  /\ outbox' = outbox \ {hook} /\ stamp' = hook.time
  /\ Disturb /\ UNCHANGED <<zoho, run, used>>

(* The webhook is answered with an error, and will be sent again. *)
Refused == Spend("fault") /\ Rollback /\ UNCHANGED <<zoho, outbox, stamp, run, overlap>>

(* One that is not valid is answered with an error whenever it comes. *)
Accepted == {h \in outbox : h.valid}

Webhook == \/ \E h \in Accepted : SkipEcho(h) \/ StatusOnly(h) \/ Apply(h)
           \/ ApplyLine \/ Applied \/ Refused

-----------------------------------------------------------------------------
(* BackfillOrderDiscounts *)

Over == run' = NoRun

(* OrdersSyncedBetween loads every order up front. *)
LoadSynced ==
  /\ run.pc = "off" /\ Created /\ Spend("run")
  /\ \E r \in VatRates : run' = [NoRun EXCEPT !.pc = "get", !.want = AllItems(r)]
  /\ UNCHANGED <<vars, zoho, outbox, stamp, overlap>>

(* Mutant: rows are compared by product alone. *)
LinesUpByProduct(want, subform) ==
  /\ Len(want) = Len(subform)
  /\ \A i \in DOMAIN want : want[i].product = subform[i].product

LinesUp(want, subform) ==
  /\ Len(want) = Len(subform)
  /\ \A i \in DOMAIN want : /\ want[i].product = subform[i].product
                            /\ want[i].qty = subform[i].qty

(* The rows to rewrite, named by their id. *)
Patches(want, subform) ==
  {Row(subform[i].id, want[i]) :
     i \in {j \in DOMAIN want : <<want[j].list, want[j].disc>> # <<subform[j].list, subform[j].disc>>}}

(* GetOrder; an order that was edited, is right or is only reported is left.  *)
BackfillGet ==
  /\ run.pc = "get"
  /\ \/ Over
     \/ /\ LinesUp(run.want, zoho.rows) /\ Patches(run.want, zoho.rows) # {}
        /\ run' = [run EXCEPT !.pc = "put", !.seen = zoho.rows]
  /\ UNCHANGED <<vars, zoho, outbox, stamp, used, overlap>>

Patched(patches) ==
  [i \in DOMAIN zoho.rows |->
     IF \E q \in patches : q.id = zoho.rows[i].id
       THEN CHOOSE q \in patches : q.id = zoho.rows[i].id ELSE zoho.rows[i]]

(* UpdateOrderItemRows; Zoho refuses a row that is no longer there, and the   *)
(* call, or its answer, may be lost.                                          *)
BackfillPut ==
  LET patches == Patches(run.want, run.seen) IN
  /\ run.pc = "put"
  /\ \/ /\ {q.id : q \in patches} \subseteq {zoho.rows[i].id : i \in DOMAIN zoho.rows}
        /\ Store(Patched(patches), zoho.vat)
        /\ \/ run' = [run EXCEPT !.pc = "stamp", !.time = zoho.time + 1] /\ UNCHANGED used
           \/ Over /\ Spend("fault")
     \/ Over /\ UNCHANGED <<zoho, outbox, used>>
  /\ UNCHANGED <<vars, stamp, overlap>>

BackfillStamp ==
  /\ run.pc = "stamp" /\ Over
  /\ \/ stamp' = run.time /\ UNCHANGED used
     \/ Spend("fault") /\ UNCHANGED stamp
  /\ UNCHANGED <<vars, zoho, outbox, overlap>>

RunBackfill == LoadSynced \/ BackfillGet \/ BackfillPut \/ BackfillStamp

NextAll == Push \/ ManagerEdits \/ Webhook \/ RunBackfill

SpecAll == InitAll /\ [][NextAll]_allVars

-----------------------------------------------------------------------------
(* A subform without its row ids. *)
Figures(subform) == [i \in DOMAIN subform |->
  [product |-> subform[i].product, qty |-> subform[i].qty,
   list |-> subform[i].list, disc |-> subform[i].disc]]

(* The VAT field is the rate, but for what does not change a cent. *)
WholeVat(r) ==
  LET off == zoho.vat * r.den - 100 * r.num
  IN  (IF off < 0 THEN -off ELSE off) * (RowValue("total") - RowValue("shipping"))
        <= 50 * (r.num + r.den)

(* "Pinning it at (Total - Shipping)/(1+rate) makes Zoho's grand total equal  *)
(* what the customer was actually charged": so it does, to the cent, whenever *)
(* the subform is the whole of what the order asks for and the VAT is a whole *)
(* percent; where the charge exceeds the lines, Zoho asks for less.           *)
WorthCharged ==
  \A r \in VatRates :
    Figures(zoho.rows) = AllItems(r) /\ WholeVat(r) =>
      LET gap == GrandTotal(zoho.rows, zoho.vat) - RowValue("total")
      IN  gap <= 1 /\ (Charged(r) <= Undiscounted(r) => gap >= -1)

(* Once every webhook is delivered both sides hold the same products in the   *)
(* same quantities, whatever the backfill rewrote and in whichever order the  *)
(* webhooks came, unless the order was changed between the reading and the    *)
(* stamp of a run, or pushed again.                                           *)
SidesAgree ==
  Created /\ outbox = {} /\ pc = "idle" /\ run = NoRun /\ ~overlap /\ used["push"] = 0
    => ItemsUnchanged(ItemsOf(zoho.rows))

(* "overwrite the existing Sales Order": a product has no more rows there     *)
(* than in the order.                                                         *)
NoRowTwice ==
  \A p \in Products :
    Cardinality(RowsOf({p}, zoho.rows)) <= Cardinality(RowsOf({p}, lines))
=============================================================================
