------------------------------ MODULE OrderSync ------------------------------
(***************************************************************************)
(* The forward direction of the connector: oc_order rows become Zoho Sales *)
(* Orders and Zoho Payments.  The order worker (Poller) and the handlers   *)
(* of GET /zoho/push/order/{id} (Pushers) share the database columns and   *)
(* the CRM and take no lock; a step ends wherever a database statement or  *)
(* a remote call is sent, so the others may run in between.                *)
(*                                                                         *)
(* A Sales Order id is the position in crm of the write that created it,   *)
(* and that position is also the write's Modified_Time; a payment id is a  *)
(* position in pays.                                                       *)
(***************************************************************************)
EXTENDS Integers, Sequences, FiniteSets

CONSTANTS
  Orders,       \* oc_order.order_id values
  Statuses,     \* oc_order_status ids the shop uses
  Placed,       \* those an order may be placed in
  B2BOrders,    \* orders of customers in a wholesale group
  Rejected,     \* orders Validate or the contact upsert refuses every time
  Products,     \* oc_product rows
  NoUid,        \* products whose product_uid is empty
  Lines,        \* Lines[o]: the products of order o
  WfStatuses,   \* payment statuses the wfsync service reports
  Poller,       \* the order worker goroutine
  Pushers,      \* goroutines serving push requests
  Limit,        \* rows one status query returns (LIMIT 10)
  Budget,       \* Budget[k]: how often the environment does k (bounds the model)
  MaxTotal      \* how often it does anything at all (bounds the model)

NoId  == 0      \* the empty string in zoho_id and zoho_payment_id
B2bId == -1     \* the sentinel "[B2B]" in zoho_id
ErrId == -1     \* the sentinel "[ERR]" in zoho_payment_id
NoWf  == ""     \* wfsync has not reported on the order

Disturbances == {"fault", "crash", "push", "move", "wf", "delete", "age"}
Procs == Pushers \cup {Poller}

ASSUME OrdersAssumption ==
  /\ Orders \subseteq Nat \ {0}
  /\ B2BOrders \subseteq Orders
  /\ Rejected \subseteq Orders
  /\ Lines \in [Orders -> SUBSET Products]
  /\ NoUid \subseteq Products

ASSUME SetupAssumption ==
  /\ Statuses \subseteq Nat /\ Placed \subseteq Statuses
  /\ WfStatuses \subseteq STRING
  /\ NoWf \notin WfStatuses
  /\ Poller \notin Pushers
  /\ Limit \in Nat \ {0}
  /\ Budget \in [Disturbances -> Nat] /\ MaxTotal \in Nat

VARIABLES
  zohoId,       \* oc_order.zoho_id
  status,       \* oc_order.order_status_id
  age,          \* of oc_order.date_modified: 0 to 30 days, 1 to 60, 2 beyond
  modTime,      \* oc_order.zoho_modified_time (0: NULL)
  wf,           \* oc_order.wf_payment_status, written by wfsync
  payId,        \* oc_order.zoho_payment_id
  payStatus,    \* oc_order.zoho_payment_status
  linked,       \* products whose oc_product.zoho_id is filled in
  catalog,      \* products the external repository has a Zoho id for
  crm,          \* every write Zoho accepted on a Sales Order: [so, order]
  gone,         \* Sales Orders a manager deleted
  pays,         \* Zoho Payments records: [sells, order, status]
  pc, job,      \* where each goroutine is, and the order it has in hand
  batch, scan,  \* the worker's fetched rows, and its next status query
  used          \* disturbances so far

dbVars   == <<zohoId, status, age, modTime, wf, payId, payStatus>>
prodVars == <<linked, catalog>>
crmVars  == <<crm, gone, pays>>
procVars == <<pc, job, batch, scan>>
vars     == <<dbVars, prodVars, crmVars, procVars, used>>

-----------------------------------------------------------------------------
(* Shared vocabulary *)

(* GetNewOrders runs one query per status, in this order. *)
PolledStatuses == <<1, 2, 17, 5, 22, 23>>

ZohoOrderExists(id) == id # NoId /\ id # B2bId

LiveOrders == {crm[i].so : i \in DOMAIN crm} \ gone

StripeToZoho ==
  [pending |-> "Created", open |-> "Created", requires_payment_method |-> "Created",
   requires_confirmation |-> "Created",
   processing |-> "InProgress", complete |-> "InProgress", requires_action |-> "InProgress",
   requires_capture |-> "Held",
   paid |-> "Paid", succeeded |-> "Paid",
   canceled |-> "Canceled", expired |-> "Canceled",
   refunded |-> "Refunded"]

ConvertPaymentStatus(s) == IF s \in DOMAIN StripeToZoho THEN StripeToZoho[s] ELSE "Error"

ZohoStatuses == {StripeToZoho[s] : s \in DOMAIN StripeToZoho} \cup {"Error"}

(* A query with a LIMIT returns the first rows in primary key order. *)
Limited(S) == {o \in S : Cardinality({q \in S : q < o}) < Limit}

(* What a fetched row and its line items look like at the moment of reading. *)
Row(o, n) == [order |-> o, scan |-> n, known |-> zohoId[o], wf |-> wf[o],
              missing |-> Lines[o] \ linked, so |-> NoId, mt |-> 0, pay |-> NoId]

NoJob == [order |-> 0, scan |-> 0, known |-> NoId, wf |-> NoWf,
          missing |-> {}, so |-> NoId, mt |-> 0, pay |-> NoId]

(* Mutant: a query without its condition on zoho_id. *)
AnyOrders(s) == Limited({o \in Orders : status[o] = s /\ age[o] = 0})

NewOrders(s) == Limited({o \in Orders : status[o] = s /\ zohoId[o] = NoId /\ age[o] = 0})

(* Mutant: the payment column the sync writes itself is asked. *)
StoredPayments ==
  Limited({o \in Orders : zohoId[o] # NoId /\ payStatus[o] # NoWf /\ payId[o] = NoId})

OrdersPendingPayment ==
  Limited({o \in Orders : zohoId[o] # NoId /\ wf[o] # NoWf /\ payId[o] = NoId})

(* Mutant: a status is sent once and not compared any more. *)
NeverUpdated ==
  Limited({o \in Orders : /\ zohoId[o] # NoId /\ payId[o] \notin {NoId, ErrId}
                          /\ wf[o] # NoWf /\ payStatus[o] = NoWf
                          /\ age[o] <= 1})

OrdersPendingPaymentUpdate ==
  Limited({o \in Orders : /\ zohoId[o] # NoId
                          /\ payId[o] \notin {NoId, ErrId}
                          /\ wf[o] # NoWf
                          /\ wf[o] # payStatus[o]
                          /\ age[o] <= 1})

(* Rows are handled in the order they were fetched. *)
First(j) == \A k \in batch : j.scan < k.scan \/ (j.scan = k.scan /\ j.order <= k.order)

Excuses == used["fault"] + used["crash"] + used["push"] + used["move"]
Spend(k) == /\ used[k] < Budget[k]
            /\ Excuses + used["wf"] + used["delete"] + used["age"] < MaxTotal
            /\ used' = [used EXCEPT ![k] = @ + 1]

(* A write that carries date_modified: the row is a new one again. *)
Refresh(o) == age' = [age EXCEPT ![o] = 0]

Goto(p, l) == pc' = [pc EXCEPT ![p] = l]

Drop(p, l) == Goto(p, l) /\ job' = [job EXCEPT ![p] = NoJob]

(* processOrder is over, for better or worse: the caller takes its next order. *)
Finish(p) == Drop(p, IF p = Poller THEN "orders" ELSE "idle")

(* createZohoPayment returns to ProcessPendingPayments or to processOrder. *)
PaymentReturns(p) ==
  IF p = Poller /\ job[p].scan = 0 THEN Drop(p, "pending")
                                   ELSE Goto(p, "stamp") /\ UNCHANGED job

-----------------------------------------------------------------------------
Init ==
  /\ zohoId = [o \in Orders |-> NoId]
  /\ status \in [Orders -> Placed]
  /\ age = [o \in Orders |-> 0]
  /\ modTime = [o \in Orders |-> 0]
  /\ wf = [o \in Orders |-> NoWf]
  /\ payId = [o \in Orders |-> NoId]
  /\ payStatus = [o \in Orders |-> NoWf]
  /\ linked = {} /\ catalog = {}
  /\ crm = <<>> /\ gone = {} /\ pays = <<>>
  /\ pc = [p \in Procs |-> IF p = Poller THEN "scan" ELSE "idle"]
  /\ job = [p \in Procs |-> NoJob]
  /\ batch = {} /\ scan = 1
  /\ used = [k \in Disturbances |-> 0]

-----------------------------------------------------------------------------
(* ProcessOrders: fetch, then hand each row to processOrder *)

(* One of the six queries of GetNewOrders; a query that fails is skipped. *)
ScanStatus ==
  /\ pc[Poller] = "scan"
  /\ \/ /\ batch' = batch \cup {Row(o, scan) : o \in NewOrders(PolledStatuses[scan])}
        /\ UNCHANGED used
     \/ Spend("fault") /\ UNCHANGED batch
  /\ IF scan < Len(PolledStatuses)
       THEN scan' = scan + 1 /\ UNCHANGED pc
       ELSE scan' = 1 /\ Goto(Poller, "orders")
  /\ UNCHANGED <<dbVars, prodVars, crmVars, job>>

(* Mutant: a wholesale order is skipped without a mark. *)
MarkNothing ==
  /\ pc[Poller] = "orders"
  /\ \E j \in batch :
       /\ First(j) /\ j.order \in B2BOrders
       /\ batch' = batch \ {j}
  /\ UNCHANGED <<dbVars, prodVars, crmVars, pc, job, scan, used>>

(* A wholesale order is marked and skipped; the mark's error is ignored. *)
MarkB2B ==
  /\ pc[Poller] = "orders"
  /\ \E j \in batch :
       /\ First(j) /\ j.order \in B2BOrders
       /\ batch' = batch \ {j}
       /\ \/ zohoId' = [zohoId EXCEPT ![j.order] = B2bId] /\ Refresh(j.order) /\ UNCHANGED used
          \/ Spend("fault") /\ UNCHANGED <<zohoId, age>>
  /\ UNCHANGED <<status, modTime, wf, payId, payStatus, prodVars, crmVars, pc, job, scan>>

NextOrder ==
  /\ pc[Poller] = "orders"
  /\ \E j \in batch :
       /\ First(j) /\ j.order \notin B2BOrders
       /\ batch' = batch \ {j}
       /\ job' = [job EXCEPT ![Poller] = [j EXCEPT !.known = NoId]]
       /\ Goto(Poller, "contact")
  /\ UNCHANGED <<dbVars, prodVars, crmVars, scan, used>>

OrdersDone ==
  /\ pc[Poller] = "orders" /\ batch = {}
  /\ Goto(Poller, "pendingScan")
  /\ UNCHANGED <<dbVars, prodVars, crmVars, job, batch, scan, used>>

(* PushOrderToZoho reads the row and goes straight to processOrder. *)
PushBegin(p, o) ==
  /\ p \in Pushers /\ pc[p] = "idle"
  /\ Spend("push")
  /\ job' = [job EXCEPT ![p] = Row(o, 0)]
  /\ Goto(p, "contact")
  /\ UNCHANGED <<dbVars, prodVars, crmVars, batch, scan>>

-----------------------------------------------------------------------------
(* processOrder, one step per remote call or database write *)

(* Mutant: an order that is refused ends the pass of the worker. *)
ContactOrStop(p) ==
  LET j == job[p] IN
  /\ pc[p] = "contact"
  /\ \/ /\ j.order \in Rejected \/ Lines[j.order] \cap NoUid # {}
        /\ Drop(p, IF p = Poller THEN "pendingScan" ELSE "idle")
        /\ batch' = IF p = Poller THEN {} ELSE batch
     \/ /\ j.order \notin Rejected /\ Lines[j.order] \cap NoUid = {}
        /\ Goto(p, IF j.missing = {} THEN "send" ELSE "resolve")
        /\ UNCHANGED <<job, batch>>
  /\ UNCHANGED <<dbVars, prodVars, crmVars, scan, used>>

(* Validate, the contact upsert, and the check for products without a UID. *)
Contact(p) ==
  LET j == job[p] IN
  /\ pc[p] = "contact"
  /\ \/ /\ j.order \in Rejected \/ Lines[j.order] \cap NoUid # {}
        /\ Finish(p) /\ UNCHANGED used
     \/ /\ j.order \notin Rejected /\ Lines[j.order] \cap NoUid = {}
        /\ Goto(p, IF j.missing = {} THEN "send" ELSE "resolve")
        /\ UNCHANGED <<job, used>>
     \/ Spend("fault") /\ Finish(p)
  /\ UNCHANGED <<dbVars, prodVars, crmVars, batch, scan>>

(* Look the missing Zoho product ids up; one lookup or store may fail. *)
ResolveProducts(p) ==
  LET j == job[p] IN
  /\ pc[p] = "resolve"
  /\ \E got \in SUBSET (j.missing \cap catalog) :
       /\ \/ got = j.missing \cap catalog /\ UNCHANGED used
          \/ got # j.missing \cap catalog /\ Spend("fault")
       /\ linked' = linked \cup got
       /\ IF got = j.missing
            THEN Goto(p, "send") /\ job' = [job EXCEPT ![p].missing = {}]
            ELSE Finish(p)
  /\ UNCHANGED <<dbVars, catalog, crmVars, batch, scan>>

(* The write on Zoho: an update when the row names a Sales Order, else a create. *)
Written(j) ==
  [so |-> IF ZohoOrderExists(j.known) THEN j.known ELSE Len(crm) + 1, order |-> j.order]

Accepts(j) == ZohoOrderExists(j.known) => j.known \notin gone

(* Mutant: a payment the row names already is kept. *)
AfterSendPaidOnce(j) ==
  IF ~ZohoOrderExists(j.known) /\ j.wf # NoWf /\ payId[j.order] = NoId THEN "payCreate" ELSE "stamp"

(* A payment is created along with a create only. *)
AfterSend(j) == IF ~ZohoOrderExists(j.known) /\ j.wf # NoWf THEN "payCreate" ELSE "stamp"

SendOrder(p) ==
  LET j == job[p] IN
  /\ pc[p] = "send"
  /\ j.order \notin B2BOrders /\ Accepts(j)
  /\ crm' = Append(crm, Written(j))
  /\ job' = [job EXCEPT ![p].so = Written(j).so, ![p].mt = Len(crm) + 1]
  /\ Goto(p, AfterSend(j))
  /\ UNCHANGED <<dbVars, prodVars, gone, pays, batch, scan, used>>

(* The call fails, or Zoho accepts it and the answer is lost. *)
SendFails(p) ==
  LET j == job[p] IN
  /\ pc[p] = "send"
  /\ j.order \notin B2BOrders
  /\ \/ ~Accepts(j) /\ UNCHANGED <<crm, used>>
     \/ Spend("fault") /\ UNCHANGED crm
     \/ Accepts(j) /\ Spend("fault") /\ crm' = Append(crm, Written(j))
  /\ Finish(p)
  /\ UNCHANGED <<dbVars, prodVars, gone, pays, batch, scan>>

(* The wholesale branch sends nothing and leaves zohoId empty. *)
SendNothing(p) ==
  /\ pc[p] = "send"
  /\ job[p].order \in B2BOrders
  /\ Goto(p, AfterSend(job[p]))
  /\ UNCHANGED <<dbVars, prodVars, crmVars, job, batch, scan, used>>

(* SetOrderZohoModifiedTime; its failure is only logged. *)
Stamp(p) ==
  LET j == job[p] IN
  /\ pc[p] = "stamp"
  /\ \/ /\ modTime' = IF j.mt = 0 THEN modTime ELSE [modTime EXCEPT ![j.order] = j.mt]
        /\ UNCHANGED used
     \/ j.mt # 0 /\ Spend("fault") /\ UNCHANGED modTime
  /\ Goto(p, "link")
  /\ UNCHANGED <<zohoId, status, age, wf, payId, payStatus, prodVars, crmVars, job, batch, scan>>

(* Mutant: the id of the last Sales Order created, not of this one. *)
LinkLatest(p) ==
  /\ pc[p] = "link"
  /\ zohoId' = [zohoId EXCEPT ![job[p].order] = Len(crm)] /\ Refresh(job[p].order)
  /\ Finish(p)
  /\ UNCHANGED <<status, modTime, wf, payId, payStatus, prodVars, crmVars, batch, scan, used>>

(* Mutant: the id the row had when it was read is written back. *)
LinkAsRead(p) ==
  LET j == job[p] IN
  /\ pc[p] = "link"
  /\ zohoId' = [zohoId EXCEPT ![j.order] = IF p = Poller THEN j.so ELSE j.known]
  /\ Refresh(j.order)
  /\ Finish(p)
  /\ UNCHANGED <<status, modTime, wf, payId, payStatus, prodVars, crmVars, batch, scan, used>>

(* ChangeOrderZohoId: always by the worker, by a push only when the id changed. *)
Link(p) ==
  LET j == job[p] IN
  /\ pc[p] = "link"
  /\ \/ /\ p = Poller \/ j.so # j.known
        /\ \/ zohoId' = [zohoId EXCEPT ![j.order] = j.so] /\ Refresh(j.order) /\ UNCHANGED used
           \/ Spend("fault") /\ UNCHANGED <<zohoId, age>>
     \/ p # Poller /\ j.so = j.known /\ UNCHANGED <<zohoId, age, used>>
  /\ Finish(p)
  /\ UNCHANGED <<status, modTime, wf, payId, payStatus, prodVars, crmVars, batch, scan>>

-----------------------------------------------------------------------------
(* createZohoPayment *)

PayCreate(p) ==
  LET j == job[p]
      rec == [sells |-> j.so, order |-> j.order, status |-> ConvertPaymentStatus(j.wf)] IN
  /\ pc[p] = "payCreate"
  /\ \/ /\ j.so \in LiveOrders
        /\ pays' = Append(pays, rec)
        /\ job' = [job EXCEPT ![p].pay = Len(pays) + 1]
        /\ Goto(p, "payRecord") /\ UNCHANGED used
     \/ \* INVALID_DATA: the Sales Order the payment links to does not exist
        /\ j.so \notin LiveOrders
        /\ Goto(p, "payMark") /\ UNCHANGED <<pays, job, used>>
     \/ \* any other failure, or a lost answer
        /\ Spend("fault")
        /\ \/ UNCHANGED pays
           \/ j.so \in LiveOrders /\ pays' = Append(pays, rec)
        /\ PaymentReturns(p)
  /\ UNCHANGED <<dbVars, prodVars, crm, gone, batch, scan>>

PayRecord(p) ==
  LET j == job[p] IN
  /\ pc[p] = "payRecord"
  /\ \/ /\ payId' = [payId EXCEPT ![j.order] = j.pay]
        /\ payStatus' = [payStatus EXCEPT ![j.order] = j.wf]
        /\ UNCHANGED used
     \/ Spend("fault") /\ UNCHANGED <<payId, payStatus>>
  /\ PaymentReturns(p)
  /\ UNCHANGED <<zohoId, status, age, modTime, wf, prodVars, crmVars, batch, scan>>

PayMark(p) ==
  /\ pc[p] = "payMark"
  /\ \/ payId' = [payId EXCEPT ![job[p].order] = ErrId] /\ UNCHANGED used
     \/ Spend("fault") /\ UNCHANGED payId
  /\ PaymentReturns(p)
  /\ UNCHANGED <<zohoId, status, age, modTime, wf, payStatus, prodVars, crmVars, batch, scan>>

-----------------------------------------------------------------------------
(* ProcessPendingPayments and ProcessPaymentUpdates *)

(* A query of the worker: its rows are the next batch; an error ends the pass. *)
Fetch(from, rows, to, next) ==
  /\ pc[Poller] = from
  /\ \/ /\ batch' = {[NoJob EXCEPT !.order = o, !.wf = wf[o]] : o \in rows}
        /\ Goto(Poller, to) /\ UNCHANGED used
     \/ Spend("fault") /\ Goto(Poller, next) /\ UNCHANGED batch
  /\ UNCHANGED <<dbVars, prodVars, crmVars, job, scan>>

PendingScan == Fetch("pendingScan", OrdersPendingPayment, "pending", "updateScan")
UpdateScan  == Fetch("updateScan", OrdersPendingPaymentUpdate, "updates", "scan")

(* The row's zoho_id is read again and a sentinel is skipped. *)
PendingNext ==
  /\ pc[Poller] = "pending"
  /\ \E j \in batch :
       /\ First(j)
       /\ batch' = batch \ {j}
       /\ \/ /\ ZohoOrderExists(zohoId[j.order])
             /\ job' = [job EXCEPT ![Poller] = [j EXCEPT !.so = zohoId[j.order]]]
             /\ Goto(Poller, "payCreate") /\ UNCHANGED used
          \/ ~ZohoOrderExists(zohoId[j.order]) /\ UNCHANGED <<job, pc, used>>
          \/ Spend("fault") /\ UNCHANGED <<job, pc>>
  /\ UNCHANGED <<dbVars, prodVars, crmVars, scan>>

PendingDone ==
  /\ pc[Poller] = "pending" /\ batch = {}
  /\ Goto(Poller, "updateScan")
  /\ UNCHANGED <<dbVars, prodVars, crmVars, job, batch, scan, used>>

UpdateNext ==
  /\ pc[Poller] = "updates"
  /\ \E j \in batch :
       /\ First(j)
       /\ batch' = batch \ {j}
       /\ \/ /\ payId[j.order] \notin {NoId, ErrId}
             /\ job' = [job EXCEPT ![Poller] = [j EXCEPT !.pay = payId[j.order]]]
             /\ Goto(Poller, "pushStatus") /\ UNCHANGED used
          \/ payId[j.order] \in {NoId, ErrId} /\ UNCHANGED <<job, pc, used>>
          \/ Spend("fault") /\ UNCHANGED <<job, pc>>
  /\ UNCHANGED <<dbVars, prodVars, crmVars, scan>>

UpdatesDone ==
  /\ pc[Poller] = "updates" /\ batch = {}
  /\ Goto(Poller, "scan")
  /\ UNCHANGED <<dbVars, prodVars, crmVars, job, batch, scan, used>>

(* UpdatePaymentStatus: done, refused or unreachable, or done with a lost answer. *)
PushStatus ==
  LET j == job[Poller]
      done == pays' = [pays EXCEPT ![j.pay].status = ConvertPaymentStatus(j.wf)] IN
  /\ pc[Poller] = "pushStatus"
  /\ \/ done /\ Goto(Poller, "storeStatus") /\ UNCHANGED <<job, used>>
     \/ Spend("fault") /\ (done \/ UNCHANGED pays) /\ Drop(Poller, "updates")
  /\ UNCHANGED <<dbVars, prodVars, crm, gone, batch, scan>>

(* SetOrderZohoPaymentStatus *)
StoreStatus ==
  LET j == job[Poller] IN
  /\ pc[Poller] = "storeStatus"
  /\ \/ payStatus' = [payStatus EXCEPT ![j.order] = j.wf] /\ UNCHANGED used
     \/ Spend("fault") /\ UNCHANGED payStatus
  /\ Drop(Poller, "updates")
  /\ UNCHANGED <<zohoId, status, age, modTime, wf, payId, prodVars, crmVars, batch, scan>>

-----------------------------------------------------------------------------
(* The environment: shop, wfsync, product repository, managers, the process *)

(* A change of status, or any other write of the shop or a webhook to the row. *)
ShopMoves(o, s) ==
  /\ s # status[o] \/ age[o] > 0
  /\ Spend("move")
  /\ status' = [status EXCEPT ![o] = s] /\ Refresh(o)
  /\ UNCHANGED <<zohoId, modTime, wf, payId, payStatus, prodVars, crmVars, procVars>>

WfReports(o, w) ==
  /\ w # wf[o] /\ Spend("wf")
  /\ wf' = [wf EXCEPT ![o] = w]
  /\ UNCHANGED <<zohoId, status, age, modTime, payId, payStatus, prodVars, crmVars, procVars>>

(* Nothing was written to the row for another 30 days. *)
DaysPass(o) ==
  /\ age[o] < 2 /\ Spend("age")
  /\ age' = [age EXCEPT ![o] = @ + 1]
  /\ UNCHANGED <<zohoId, status, modTime, wf, payId, payStatus, prodVars, crmVars, procVars>>

CatalogAdds(q) ==
  /\ q \notin catalog
  /\ catalog' = catalog \cup {q}
  /\ UNCHANGED <<dbVars, linked, crmVars, procVars, used>>

ManagerDeletes(s) ==
  /\ s \in LiveOrders /\ Spend("delete")
  /\ gone' = gone \cup {s}
  /\ UNCHANGED <<dbVars, prodVars, crm, pays, procVars>>

(* The process dies and is started again: everything in memory is lost. *)
Crash ==
  /\ Spend("crash")
  /\ pc' = [p \in Procs |-> IF p = Poller THEN "scan" ELSE "idle"]
  /\ job' = [p \in Procs |-> NoJob]
  /\ batch' = {} /\ scan' = 1
  /\ UNCHANGED <<dbVars, prodVars, crmVars>>

-----------------------------------------------------------------------------
ProcessOrder(p) ==
  \/ Contact(p) \/ ResolveProducts(p)
  \/ SendOrder(p) \/ SendFails(p) \/ SendNothing(p)
  \/ PayCreate(p) \/ PayRecord(p) \/ PayMark(p)
  \/ Stamp(p) \/ Link(p)

PollerStep ==
  \/ ScanStatus \/ MarkB2B \/ NextOrder \/ OrdersDone
  \/ ProcessOrder(Poller)
  \/ PendingScan \/ PendingNext \/ PendingDone
  \/ UpdateScan \/ UpdateNext \/ UpdatesDone \/ PushStatus \/ StoreStatus

Environment ==
  \/ \E o \in Orders, s \in Statuses : ShopMoves(o, s)
  \/ \E o \in Orders, w \in WfStatuses : WfReports(o, w)
  \/ \E o \in Orders : DaysPass(o)
  \/ \E q \in Products : CatalogAdds(q)
  \/ \E s \in LiveOrders : ManagerDeletes(s)
  \/ Crash

Next ==
  \/ PollerStep
  \/ \E p \in Pushers : ProcessOrder(p) \/ \E o \in Orders : PushBegin(p, o)
  \/ Environment

Spec == Init /\ [][Next]_vars

(* The ticker loop of Start keeps the worker going; nothing else is promised. *)
FairSpec == Spec /\ WF_vars(PollerStep)

-----------------------------------------------------------------------------
(* Types *)

SalesRow == [so : Nat, order : Orders]
PayRow   == [sells : Nat, order : Orders, status : ZohoStatuses]
JobRow   == [order : Orders \cup {0}, scan : Nat, known : Nat \cup {B2bId},
             wf : WfStatuses \cup {NoWf}, missing : SUBSET Products,
             so : Nat, mt : Nat, pay : Nat]

WorkerLabels == {"scan", "orders", "pendingScan", "pending", "updateScan",
                 "updates", "pushStatus", "storeStatus"}
OrderLabels  == {"contact", "resolve", "send", "payCreate", "payRecord",
                 "payMark", "stamp", "link"}
Labels == WorkerLabels \cup OrderLabels \cup {"idle"}

(* Where a goroutine has one order in hand. *)
InHand == OrderLabels \cup {"pushStatus", "storeStatus"}

ControlOK ==
  /\ pc \in [Procs -> Labels]
  /\ job \in [Procs -> JobRow]
  /\ \A p \in Procs : pc[p] \in InHand => job[p].order \in Orders
  /\ \A j \in batch : j \in JobRow /\ j.order \in Orders
  /\ scan \in 1..Len(PolledStatuses)

(* Every column, CRM record and local variable holds a value of its type, and *)
(* a goroutine that works on an order has one in hand.                        *)
TypeOK ==
  /\ zohoId \in [Orders -> Nat \cup {B2bId}]
  /\ status \in [Orders -> Statuses] /\ age \in [Orders -> 0..2]
  /\ modTime \in [Orders -> Nat]
  /\ wf \in [Orders -> WfStatuses \cup {NoWf}]
  /\ payId \in [Orders -> Nat \cup {ErrId}]
  /\ payStatus \in [Orders -> WfStatuses \cup {NoWf}]
  /\ linked \subseteq Products /\ catalog \subseteq Products
  /\ crm \in Seq(SalesRow) /\ gone \subseteq Nat /\ pays \in Seq(PayRow)
  /\ ControlOK
  /\ used \in [Disturbances -> Nat]

-----------------------------------------------------------------------------
(* Safety *)

(* The Sales Orders, and the Payments, that exist in Zoho for an order. *)
Copies(o)   == {i \in DOMAIN crm : crm[i].so = i /\ crm[i].order = o}
Payments(o) == {i \in DOMAIN pays : pays[i].order = o}

OwnSale(id, o)    == id \in DOMAIN crm /\ crm[id].so = id /\ crm[id].order = o
OwnPayment(id, o) == id \in DOMAIN pays /\ pays[id].order = o

(* A stored zoho_id names a Sales Order created for that very order, every    *)
(* write went to a Sales Order of the order it was built from, and so do      *)
(* payments: worker and push handlers never mix two orders up.                *)
RecordsBelong ==
  /\ \A o \in Orders : ZohoOrderExists(zohoId[o]) => OwnSale(zohoId[o], o)
  /\ \A i \in DOMAIN crm : OwnSale(crm[i].so, crm[i].order)
  /\ \A i \in DOMAIN pays : OwnSale(pays[i].sells, pays[i].order)
  /\ \A o \in Orders : payId[o] \notin {NoId, ErrId} => OwnPayment(payId[o], o)

(* So do the ids a goroutine took from a row or an answer and still carries,  *)
(* however much the row has changed since.                                    *)
JobBelongs(j) ==
  /\ ZohoOrderExists(j.known) => OwnSale(j.known, j.order)
  /\ ZohoOrderExists(j.so) => OwnSale(j.so, j.order)
  /\ j.pay # NoId => OwnPayment(j.pay, j.order)

JobsBelong == /\ \A p \in Procs : JobBelongs(job[p])
              /\ \A j \in batch : JobBelongs(j)

(* Whatever happens, each duplicate is the price of one lost call, restart,   *)
(* push request or status change during a scan; none has another cause.       *)
DuplicatesAccounted ==
  \A o \in Orders : /\ Cardinality(Copies(o)) <= 1 + Excuses
                    /\ Cardinality(Payments(o)) <= 1 + Excuses

(* The payment a row names is linked to the Sales Order the row names, even   *)
(* after a restart between the two writes.                                    *)
PaymentOnItsSale ==
  \A o \in Orders :
    ZohoOrderExists(zohoId[o]) /\ payId[o] \notin {NoId, ErrId}
      => pays[payId[o]].sells = zohoId[o]

(* Once a row names a Sales Order or the [B2B] mark it never names another:   *)
(* a second id would orphan the record the webhooks and the payment refer to. *)
NeverRelinked ==
  [][\A o \in Orders : zohoId[o] # NoId => zohoId'[o] = zohoId[o]]_zohoId

-----------------------------------------------------------------------------
(* Liveness *)

Healthy(o) == o \notin B2BOrders \cup Rejected /\ Lines[o] \cap NoUid = {}

(* In the worklist of the worker, as far as status and date go. *)
Polled(o) == (\E i \in DOMAIN PolledStatuses : status[o] = PolledStatuses[i]) /\ age[o] = 0

(* An order that can be synced is synced, if it stays in a polled status and  *)
(* is not left for 30 days before its products are known: orders refused or   *)
(* without product data, fewer than the LIMIT, wait beside it and do not keep *)
(* it from being synced.                                                      *)
HealthyOrderLinked ==
  \A o \in Orders : Healthy(o) =>
    (<>[](Lines[o] \subseteq catalog /\ Polled(o)) => <>ZohoOrderExists(zohoId[o]))

(* PushOrderToZoho empties the zoho_id of a wholesale order, since nothing is *)
(* sent for one; the worker then marks it again, and for good once the pushes *)
(* end, if the order is in a polled status and not left for 30 days.          *)
WholesaleSettles ==
  \A o \in B2BOrders : <>[]Polled(o) => <>[](zohoId[o] = B2bId)

(* An order in Zoho with payment data gets its Zoho payment record.           *)
PaidOrderGetsPayment ==
  \A o \in Orders \ B2BOrders :
    (ZohoOrderExists(zohoId[o]) /\ wf[o] # NoWf) ~> payId[o] # NoId

(* Once wfsync is quiet the payment in Zoho shows the status wfsync reported, *)
(* for an order that names its Sales Order and was written to within 60 days. *)
PaymentShown(o) ==
  payId[o] \notin {NoId, ErrId} =>
    pays[payId[o]].status = ConvertPaymentStatus(wf[o])
PaymentConverges ==
  \A o \in Orders : <>[](zohoId[o] # NoId /\ age[o] <= 1) => <>[]PaymentShown(o)

-----------------------------------------------------------------------------
(* Refinement *)

(* Of the writes in crm, those that created a Sales Order. *)
Created == {[id |-> i, order |-> crm[i].order] : i \in {n \in DOMAIN crm : crm[n].so = n}}

PaymentOf(rec) == [sale |-> rec.sells, order |-> rec.order]

Contract == INSTANCE OrderContract WITH
  Wholesale <- B2BOrders,
  sales     <- Created,
  link      <- zohoId,
  payments  <- [n \in DOMAIN pays |-> PaymentOf(pays[n])],
  payLink   <- payId

(* Through every race of worker and pushes, retry and crash the sync only     *)
(* makes the steps of its contract: Sales Orders and Payments are created for *)
(* their own order, a row comes to name only its own, and never becomes empty *)
(* again.                                                                     *)
ImplementsContract == Contract!Spec

=============================================================================
