---------------------------- MODULE OrderContract ----------------------------
(***************************************************************************)
(* What the forward synchronisation promises, with no word on goroutines,  *)
(* queries, retries or crashes: which Sales Orders and Payments there may  *)
(* be in Zoho, and which of them the two id columns of oc_order may name.  *)
(* OrderSync implements it.                                                *)
(***************************************************************************)
EXTENDS Integers, Sequences

CONSTANTS
  Orders,     \* oc_order rows
  Wholesale,  \* orders of customers in a wholesale group
  NoId,       \* the empty column
  B2bId,      \* the mark of a wholesale order in zoho_id
  ErrId       \* the mark of a rejected payment in zoho_payment_id

VARIABLES
  sales,      \* Sales Orders ever created: [id, order]
  link,       \* link[o]: oc_order.zoho_id
  payments,   \* Zoho Payments records, by their number: [sale, order]
  payLink     \* payLink[o]: oc_order.zoho_payment_id

vars == <<sales, link, payments, payLink>>

Init ==
  /\ sales = {} /\ payments = <<>>
  /\ link = [o \in Orders |-> NoId]
  /\ payLink = [o \in Orders |-> NoId]

(* A Sales Order is created; Zoho chooses an id it has not used. *)
Sell(o) ==
  /\ o \notin Wholesale
  /\ \E s \in sales' :
       /\ s.order = o
       /\ \A t \in sales : t.id # s.id
       /\ sales' = sales \cup {s}
  /\ UNCHANGED <<link, payments, payLink>>

(* The row comes to name a Sales Order of its own: the first one, or that of a *)
(* repeated create.  There is no way back to the empty column.                 *)
Bind(o) ==
  /\ \E s \in sales : s.order = o /\ link' = [link EXCEPT ![o] = s.id]
  /\ UNCHANGED <<sales, payments, payLink>>

(* A wholesale order is marked, or loses its mark to a push. *)
Mark(o) ==
  /\ o \in Wholesale
  /\ \E v \in {NoId, B2bId} : link' = [link EXCEPT ![o] = v]
  /\ UNCHANGED <<sales, payments, payLink>>

Pay(o) ==
  /\ \E s \in sales :
       /\ s.order = o
       /\ payments' = Append(payments, [sale |-> s.id, order |-> o])
  /\ UNCHANGED <<sales, link, payLink>>

(* The row comes to name a payment of its own, or the mark of a rejected one. *)
Book(o) ==
  /\ \/ payLink' = [payLink EXCEPT ![o] = ErrId]
     \/ \E n \in DOMAIN payments :
          payments[n].order = o /\ payLink' = [payLink EXCEPT ![o] = n]
  /\ UNCHANGED <<sales, link, payments>>

Next == \E o \in Orders : Sell(o) \/ Bind(o) \/ Mark(o) \/ Pay(o) \/ Book(o)

Spec == Init /\ [][Next]_vars

=============================================================================
