--------------------------- MODULE OrderSync_proofs ---------------------------
(***************************************************************************)
(* Proofs about OrderSync, for every set of orders, every budget of        *)
(* disturbances and every number of push handlers:                         *)
(*   - types, and that no two orders are mixed up.  TypeOK is inductive by *)
(*     itself; RecordsBelong is not: it needs JobsBelong, because an id    *)
(*     travels from a row or an answer through a goroutine's locals before *)
(*     it is written back;                                                 *)
(*   - the refinement of OrderContract;                                    *)
(*   - the worker's worklist, on which the next three rest: that a zoho_id *)
(*     is replaced by a push or a move of the order only, that a payment   *)
(*     follows its Sales Order, and the price of each duplicate.           *)
(***************************************************************************)
EXTENDS OrderSync, FiniteSetTheorems, SequenceTheorems, TLAPS

LEMMA ConvertType == ASSUME NEW s PROVE ConvertPaymentStatus(s) \in ZohoStatuses
  BY DEF ConvertPaymentStatus, ZohoStatuses

(* A disturbance leaves the counters counters. *)
LEMMA SpendType ==
  ASSUME TypeOK, NEW k \in Disturbances, Spend(k)
  PROVE  used' \in [Disturbances -> Nat]
  BY DEF TypeOK, Spend

LEMMA RowType ==
  ASSUME TypeOK, NEW o \in Orders, NEW n \in Nat
  PROVE  Row(o, n) \in JobRow /\ Row(o, n).order \in Orders
  BY OrdersAssumption DEF TypeOK, Row, JobRow, NoId, B2bId

LEMMA NoJobType == NoJob \in JobRow
  BY DEF NoJob, JobRow, NoId

(* Filling in one field of a row gives a row of the same order. *)
LEMMA EditType ==
  ASSUME NEW j \in JobRow, NEW n \in Nat
  PROVE  /\ [j EXCEPT !.known = n] \in JobRow /\ [j EXCEPT !.known = n].order = j.order
         /\ [j EXCEPT !.so = n] \in JobRow /\ [j EXCEPT !.so = n].order = j.order
         /\ [j EXCEPT !.pay = n] \in JobRow /\ [j EXCEPT !.pay = n].order = j.order
  BY DEF JobRow

LEMMA SentType ==
  ASSUME NEW j \in JobRow, NEW n \in Nat, NEW m \in Nat
  PROVE  /\ [j EXCEPT !.so = n, !.mt = m] \in JobRow
         /\ [j EXCEPT !.so = n, !.mt = m].order = j.order
  BY DEF JobRow

LEMMA FetchedType ==
  ASSUME TypeOK, NEW o \in Orders
  PROVE  /\ [NoJob EXCEPT !.order = o, !.wf = wf[o]] \in JobRow
         /\ [NoJob EXCEPT !.order = o, !.wf = wf[o]].order = o
  BY DEF TypeOK, NoJob, JobRow, NoId

(* Taking a row out of the batch, with an order in hand from then on. *)
LEMMA TakeType ==
  ASSUME TypeOK, NEW l \in Labels, UNCHANGED scan, batch' \subseteq batch,
         \/ Goto(Poller, l) /\ \E j \in JobRow : /\ j.order \in Orders
                                               /\ job' = [job EXCEPT ![Poller] = j]
         \/ UNCHANGED <<pc, job>>
  PROVE  ControlOK'
  BY DEF TypeOK, ControlOK, Goto

LEMMA ProcsFacts ==
  /\ Poller \in Procs /\ Pushers \subseteq Procs
  /\ {"fault", "crash", "push", "move", "wf", "delete", "age"} \subseteq Disturbances
  /\ {"contact", "resolve", "send", "payCreate", "payRecord", "payMark", "stamp",
      "link", "pushStatus", "storeStatus"} = InHand
  /\ {"scan", "orders", "pendingScan", "pending", "updateScan", "updates", "idle"}
       = Labels \ InHand
  /\ InHand \subseteq Labels
  BY DEF Procs, Disturbances, Labels, WorkerLabels, OrderLabels, InHand

(* Moving a goroutine keeps the control state well typed: with its order in  *)
(* hand, with another one, or back to a place where it has none.             *)
LEMMA GotoType ==
  ASSUME TypeOK, NEW p \in Procs, NEW l \in Labels,
         Goto(p, l), UNCHANGED <<batch, scan>>,
         NEW j \in JobRow, j.order \in Orders \/ l \notin InHand,
         \/ job' = [job EXCEPT ![p] = j]
         \/ UNCHANGED job /\ j = job[p]
  PROVE  ControlOK'
  BY DEF TypeOK, ControlOK, Goto

LEMMA FinishType ==
  ASSUME TypeOK, NEW p \in Procs, UNCHANGED <<batch, scan>>
  PROVE  /\ \A l \in Labels \ InHand : Drop(p, l) => ControlOK'
         /\ Finish(p) => ControlOK'
         /\ PaymentReturns(p) /\ job[p].order \in Orders => ControlOK'
  <1>1. ASSUME NEW l \in Labels \ InHand, Drop(p, l) PROVE ControlOK'
    BY <1>1, GotoType, NoJobType DEF Drop
  <1>2. Finish(p) => ControlOK'
    BY <1>1, ProcsFacts DEF Finish
  <1>3. PaymentReturns(p) /\ job[p].order \in Orders => ControlOK'
    BY <1>1, GotoType, ProcsFacts DEF PaymentReturns, TypeOK, ControlOK
  <1> QED
    BY <1>1, <1>2, <1>3

(* The worker moves on between orders: it has none in hand there. *)
LEMMA BatchType ==
  ASSUME TypeOK, NEW l \in Labels \ InHand,
         Goto(Poller, l) \/ UNCHANGED pc, UNCHANGED job,
         \A j \in batch' : j \in JobRow /\ j.order \in Orders,
         scan' \in 1..Len(PolledStatuses)
  PROVE  ControlOK'
  BY DEF TypeOK, ControlOK, Goto, Procs

LEMMA InitType == Init => TypeOK
  <1> SUFFICES ASSUME Init PROVE TypeOK
    OBVIOUS
  <1>1. ControlOK
    BY NoJobType, ProcsFacts DEF Init, ControlOK, PolledStatuses
  <1>2. crm \in Seq(SalesRow) /\ pays \in Seq(PayRow)
    BY DEF Init
  <1>3. age \in [Orders -> 0..2]
    <2>1. age = [o \in Orders |-> 0] /\ 0 \in 0..2
      BY DEF Init
    <2> QED BY <2>1
  <1>4. status \in [Orders -> Statuses]
    <2>1. status \in [Orders -> Placed] /\ Placed \subseteq Statuses
      BY SetupAssumption DEF Init
    <2> QED BY <2>1
  <1> QED
    BY <1>1, <1>2, <1>3, <1>4 DEF Init, TypeOK, NoId

(* A date that is kept or set is one of the ages. *)
LEMMA AgeType ==
  ASSUME TypeOK, UNCHANGED age \/ \E o \in Orders : Refresh(o)
  PROVE  age' \in [Orders -> 0..2]
  <1>1. age \in [Orders -> 0..2] /\ 0 \in 0..2
    BY DEF TypeOK
  <1>2. ASSUME NEW o \in Orders, age' = [age EXCEPT ![o] = 0] PROVE age' \in [Orders -> 0..2]
    BY <1>1, <1>2, Zenon
  <1> QED
    BY <1>1, <1>2 DEF Refresh

LEMMA FunctionIsSeq ==
  ASSUME NEW S, NEW n \in Nat, NEW f \in [1..n -> S] PROVE f \in Seq(S)
  BY SeqDef

(* The steps of the worker outside processOrder keep the types. *)
LEMMA WorkerType ==
  ASSUME TypeOK,
         \/ ScanStatus \/ MarkB2B \/ NextOrder \/ OrdersDone
         \/ PendingScan \/ PendingNext \/ PendingDone
         \/ UpdateScan \/ UpdateNext \/ UpdatesDone \/ PushStatus \/ StoreStatus
  PROVE  TypeOK'
  <1> USE ProcsFacts DEF dbVars, prodVars, crmVars, procVars
  <1>1. CASE ScanStatus
    <2>1. \A j \in batch' : j \in JobRow /\ j.order \in Orders
      <3>1. ASSUME NEW o \in NewOrders(PolledStatuses[scan])
            PROVE  Row(o, scan) \in JobRow /\ Row(o, scan).order \in Orders
        BY RowType DEF TypeOK, ControlOK, NewOrders, Limited
      <3> QED BY <1>1, <3>1 DEF ScanStatus, TypeOK, ControlOK
    <2>2. scan' \in 1..Len(PolledStatuses)
      BY <1>1 DEF ScanStatus, PolledStatuses, TypeOK, ControlOK
    <2>3. ControlOK'
      BY <1>1, <2>1, <2>2, BatchType DEF ScanStatus
    <2> QED
      BY <1>1, <2>3, SpendType DEF ScanStatus, TypeOK
  <1>2. CASE MarkB2B
    <2>1. ControlOK'
      BY <1>2 DEF MarkB2B, TypeOK, ControlOK
    <2>2. zohoId' \in [Orders -> Nat \cup {B2bId}]
      BY <1>2 DEF MarkB2B, TypeOK
    <2>3. age' \in [Orders -> 0..2]
      <3>1. UNCHANGED age \/ \E o \in Orders : Refresh(o)
        BY <1>2 DEF MarkB2B, TypeOK, ControlOK
      <3> QED BY <3>1, AgeType
    <2> QED
      BY <1>2, <2>1, <2>2, <2>3, SpendType DEF MarkB2B, TypeOK
  <1>3. CASE NextOrder
    <2>1. ControlOK'
      <3>1. ASSUME NEW j \in batch PROVE /\ [j EXCEPT !.known = NoId] \in JobRow
                                         /\ [j EXCEPT !.known = NoId].order \in Orders
        BY EditType DEF TypeOK, ControlOK, NoId
      <3> QED
        BY <1>3, <3>1, TakeType DEF NextOrder
    <2> QED
      BY <1>3, <2>1 DEF NextOrder, TypeOK
  <1>4. CASE OrdersDone
    BY <1>4, BatchType DEF OrdersDone, TypeOK, ControlOK
  <1>5. ASSUME NEW from, NEW rows, rows \subseteq Orders, NEW to \in Labels \ InHand,
               NEW next \in Labels \ InHand, Fetch(from, rows, to, next)
        PROVE  TypeOK'
    <2>1. \A j \in batch' : j \in JobRow /\ j.order \in Orders
      <3>1. \A o \in rows : LET r == [NoJob EXCEPT !.order = o, !.wf = wf[o]]
                           IN  r \in JobRow /\ r.order \in Orders
        BY <1>5, FetchedType
      <3>2. CASE batch' = {[NoJob EXCEPT !.order = o, !.wf = wf[o]] : o \in rows}
        BY <3>1, <3>2, Zenon
      <3>3. CASE UNCHANGED batch
        BY <3>3 DEF TypeOK, ControlOK
      <3> QED
        BY <1>5, <3>2, <3>3 DEF Fetch
    <2>2. ControlOK'
      BY <1>5, <2>1, BatchType DEF Fetch, TypeOK, ControlOK
    <2> QED
      BY <1>5, <2>2, SpendType DEF Fetch, TypeOK
  <1>6. CASE PendingScan
    BY <1>5, <1>6 DEF PendingScan, OrdersPendingPayment, Limited
  <1>7. CASE PendingNext
    <2>1. ControlOK'
      <3>1. ASSUME NEW j \in batch, ZohoOrderExists(zohoId[j.order])
            PROVE  /\ [j EXCEPT !.so = zohoId[j.order]] \in JobRow
                   /\ [j EXCEPT !.so = zohoId[j.order]].order \in Orders
        BY <3>1, EditType DEF TypeOK, ControlOK, ZohoOrderExists
      <3> QED
        BY <1>7, <3>1, TakeType DEF PendingNext
    <2> QED
      BY <1>7, <2>1, SpendType DEF PendingNext, TypeOK
  <1>8. CASE PendingDone
    BY <1>8, BatchType DEF PendingDone, TypeOK, ControlOK
  <1>9. CASE UpdateScan
    BY <1>5, <1>9 DEF UpdateScan, OrdersPendingPaymentUpdate, Limited
  <1>10. CASE UpdateNext
    <2>1. ControlOK'
      <3>1. ASSUME NEW j \in batch, payId[j.order] \notin {NoId, ErrId}
            PROVE  /\ [j EXCEPT !.pay = payId[j.order]] \in JobRow
                   /\ [j EXCEPT !.pay = payId[j.order]].order \in Orders
        BY <3>1, EditType DEF TypeOK, ControlOK
      <3> QED
        BY <1>10, <3>1, TakeType DEF UpdateNext
    <2> QED
      BY <1>10, <2>1, SpendType DEF UpdateNext, TypeOK
  <1>11. CASE UpdatesDone
    BY <1>11, BatchType DEF UpdatesDone, TypeOK, ControlOK
  <1>12. CASE PushStatus
    <2> DEFINE done == [pays EXCEPT ![job[Poller].pay].status
                                      = ConvertPaymentStatus(job[Poller].wf)]
    <2>1. done \in Seq(PayRow)
      <3>1. ASSUME NEW i \in DOMAIN pays PROVE done[i] \in PayRow
        <4>1. pays[i] \in PayRow
          BY <3>1, ElementOfSeq DEF TypeOK
        <4>2. ASSUME NEW r \in PayRow, NEW s \in ZohoStatuses
              PROVE  [r EXCEPT !.status = s] \in PayRow
          BY DEF PayRow
        <4>3. done[i] = IF i = job[Poller].pay
                          THEN [pays[i] EXCEPT !.status = ConvertPaymentStatus(job[Poller].wf)]
                          ELSE pays[i]
          BY <3>1 DEF TypeOK
        <4> QED
          BY <4>1, <4>2, <4>3, ConvertType
      <3>2. Len(pays) \in Nat /\ DOMAIN pays = 1..Len(pays)
        BY DEF TypeOK
      <3>3. DOMAIN done = DOMAIN pays
        BY DEF TypeOK
      <3>4. done \in [1..Len(pays) -> PayRow]
        BY <3>1, <3>2, <3>3
      <3> QED
        BY <3>2, <3>4, FunctionIsSeq
    <2>2. pays' \in Seq(PayRow)
      BY <1>12, <2>1 DEF PushStatus, TypeOK
    <2>3. ControlOK'
      <3>1. job[Poller] \in JobRow /\ job[Poller].order \in Orders
        BY <1>12 DEF PushStatus, TypeOK, ControlOK
      <3>2. UNCHANGED <<batch, scan>>
        BY <1>12 DEF PushStatus
      <3>3. CASE Goto(Poller, "storeStatus") /\ UNCHANGED job
        BY <3>1, <3>2, <3>3, GotoType
      <3>4. CASE Drop(Poller, "updates")
        BY <3>2, <3>4, FinishType
      <3> QED
        BY <1>12, <3>3, <3>4 DEF PushStatus
    <2> QED
      BY <1>12, <2>2, <2>3, SpendType DEF PushStatus, TypeOK
  <1>13. CASE StoreStatus
    <2>1. payStatus' \in [Orders -> WfStatuses \cup {NoWf}]
      BY <1>13 DEF StoreStatus, TypeOK, ControlOK, JobRow
    <2>2. ControlOK'
      BY <1>13, FinishType DEF StoreStatus
    <2> QED
      BY <1>13, <2>1, <2>2, SpendType DEF StoreStatus, TypeOK
  <1> QED
    BY <1>1, <1>2, <1>3, <1>4, <1>6, <1>7, <1>8, <1>9, <1>10, <1>11, <1>12, <1>13

(* So do the steps of processOrder, whoever runs it. *)
LEMMA OrderType ==
  ASSUME TypeOK, NEW p \in Procs, ProcessOrder(p)
  PROVE  TypeOK'
  <1> USE ProcsFacts DEF dbVars, prodVars, crmVars, procVars
  <1> DEFINE j == job[p]
  <1>1. j \in JobRow /\ Len(crm) \in Nat /\ Len(pays) \in Nat
    BY DEF TypeOK, ControlOK
  <1>2. ASSUME pc[p] \in InHand PROVE j.order \in Orders
    BY <1>2 DEF TypeOK, ControlOK
  <1>3. ASSUME pc[p] \in InHand PROVE Written(j) \in SalesRow
    BY <1>1, <1>2, <1>3 DEF Written, SalesRow, JobRow, ZohoOrderExists
  <1>4. CASE Contact(p)
    <2>1. ControlOK'
      BY <1>1, <1>2, <1>4, GotoType, FinishType DEF Contact
    <2> QED
      BY <1>4, <2>1, SpendType DEF Contact, TypeOK
  <1>5. CASE ResolveProducts(p)
    <2>1. [j EXCEPT !.missing = {}] \in JobRow /\ [j EXCEPT !.missing = {}].order = j.order
      BY <1>1 DEF JobRow
    <2>2. job' = [job EXCEPT ![p].missing = {}] => job' = [job EXCEPT ![p] = [j EXCEPT !.missing = {}]]
      OBVIOUS
    <2>3. ControlOK'
      BY <1>2, <1>5, <2>1, <2>2, GotoType, FinishType DEF ResolveProducts
    <2> QED
      BY <1>5, <2>3, SpendType DEF ResolveProducts, TypeOK
  <1>6. CASE SendOrder(p)
    <2> DEFINE k == [j EXCEPT !.so = Written(j).so, !.mt = Len(crm) + 1]
    <2>1. k \in JobRow /\ k.order = j.order
      <3>1. Written(j).so \in Nat /\ Len(crm) + 1 \in Nat
        BY <1>1, <1>3, <1>6 DEF SalesRow, SendOrder
      <3> HIDE DEF j
      <3> QED
        BY <1>1, <3>1, SentType
    <2>2. job' = [job EXCEPT ![p] = k]
      BY <1>6 DEF SendOrder, TypeOK, ControlOK
    <2>3. AfterSend(j) \in Labels
      BY DEF AfterSend
    <2>4. ControlOK'
      <3> HIDE DEF k
      <3> QED
        BY <1>2, <1>6, <2>1, <2>2, <2>3, GotoType DEF SendOrder
    <2> QED
      BY <1>3, <1>6, <2>4 DEF SendOrder, TypeOK
  <1>7. CASE SendFails(p)
    <2>1. ControlOK'
      BY <1>7, FinishType DEF SendFails
    <2>2. crm' \in Seq(SalesRow)
      <3>1. Append(crm, Written(j)) \in Seq(SalesRow)
        BY <1>3, <1>7 DEF SendFails, TypeOK
      <3> QED
        BY <1>7, <3>1 DEF SendFails, TypeOK
    <2> QED
      BY <1>7, <2>1, <2>2, SpendType DEF SendFails, TypeOK
  <1>8. CASE SendNothing(p)
    <2>1. ControlOK'
      BY <1>1, <1>2, <1>8, GotoType DEF SendNothing, AfterSend
    <2> QED
      BY <1>8, <2>1 DEF SendNothing, TypeOK
  <1>9. CASE PayCreate(p)
    <2> DEFINE rec == [sells |-> j.so, order |-> j.order, status |-> ConvertPaymentStatus(j.wf)]
               k == [j EXCEPT !.pay = Len(pays) + 1]
    <2>1. rec \in PayRow
      BY <1>1, <1>2, <1>9, ConvertType DEF PayRow, JobRow, PayCreate
    <2>2. pays' \in Seq(PayRow)
      <3>1. Append(pays, rec) \in Seq(PayRow)
        BY <2>1 DEF TypeOK
      <3> QED
        BY <1>9, <3>1 DEF PayCreate, TypeOK
    <2>3. k \in JobRow /\ k.order = j.order
      <3>1. Len(pays) + 1 \in Nat
        BY <1>1
      <3> HIDE DEF j
      <3> QED
        BY <1>1, <3>1, EditType
    <2>4. job' = [job EXCEPT ![p].pay = Len(pays) + 1] => job' = [job EXCEPT ![p] = k]
      OBVIOUS
    <2>5. ControlOK'
      <3> HIDE DEF k
      <3> QED
        BY <1>1, <1>2, <1>9, <2>3, <2>4, GotoType, FinishType DEF PayCreate
    <2> QED
      BY <1>9, <2>2, <2>5, SpendType DEF PayCreate, TypeOK
  <1>10. CASE PayRecord(p)
    <2>1. ControlOK'
      BY <1>2, <1>10, FinishType DEF PayRecord
    <2>2. payId' \in [Orders -> Nat \cup {ErrId}] /\ payStatus' \in [Orders -> WfStatuses \cup {NoWf}]
      BY <1>1, <1>2, <1>10 DEF PayRecord, TypeOK, JobRow
    <2> QED
      BY <1>10, <2>1, <2>2, SpendType DEF PayRecord, TypeOK
  <1>11. CASE PayMark(p)
    <2>1. ControlOK'
      BY <1>2, <1>11, FinishType DEF PayMark
    <2> QED
      BY <1>11, <2>1, SpendType DEF PayMark, TypeOK
  <1>12. CASE Stamp(p)
    <2>1. ControlOK'
      BY <1>1, <1>2, <1>12, GotoType DEF Stamp
    <2>2. modTime' \in [Orders -> Nat]
      BY <1>1, <1>2, <1>12 DEF Stamp, TypeOK, JobRow
    <2> QED
      BY <1>12, <2>1, <2>2, SpendType DEF Stamp, TypeOK
  <1>13. CASE Link(p)
    <2>1. ControlOK'
      BY <1>13, FinishType DEF Link
    <2>2. zohoId' \in [Orders -> Nat \cup {B2bId}]
      BY <1>1, <1>2, <1>13 DEF Link, TypeOK, JobRow
    <2>3. age' \in [Orders -> 0..2]
      <3>1. UNCHANGED age \/ \E o \in Orders : Refresh(o)
        BY <1>2, <1>13 DEF Link
      <3> QED BY <3>1, AgeType
    <2> QED
      BY <1>13, <2>1, <2>2, <2>3, SpendType DEF Link, TypeOK
  <1> QED
    BY <1>4, <1>5, <1>6, <1>7, <1>8, <1>9, <1>10, <1>11, <1>12, <1>13 DEF ProcessOrder

LEMMA EnvironmentType ==
  ASSUME TypeOK, Environment
  PROVE  TypeOK'
  <1> USE ProcsFacts DEF dbVars, prodVars, crmVars, procVars
  <1>1. UNCHANGED procVars => ControlOK'
    BY DEF TypeOK, ControlOK
  <1>2. ASSUME NEW o \in Orders, NEW s \in Statuses, ShopMoves(o, s) PROVE TypeOK'
    <2>1. age' \in [Orders -> 0..2]
      BY <1>2, AgeType DEF ShopMoves
    <2> QED BY <1>1, <1>2, <2>1, SpendType DEF ShopMoves, TypeOK
  <1>3. ASSUME NEW o \in Orders, NEW w \in WfStatuses, WfReports(o, w) PROVE TypeOK'
    BY <1>1, <1>3, SpendType DEF WfReports, TypeOK
  <1>4. ASSUME NEW q \in Products, CatalogAdds(q) PROVE TypeOK'
    BY <1>1, <1>4 DEF CatalogAdds, TypeOK
  <1>7. ASSUME NEW o \in Orders, DaysPass(o) PROVE TypeOK'
    <2>1. age' \in [Orders -> 0..2]
      <3>1. age[o] \in 0..2 /\ age[o] < 2
        BY <1>7 DEF DaysPass, TypeOK
      <3>2. age[o] + 1 \in 0..2
        BY <3>1, SMT
      <3>3. age \in [Orders -> 0..2]
        BY DEF TypeOK
      <3> QED BY <1>7, <3>2, <3>3 DEF DaysPass
    <2> QED BY <1>1, <1>7, <2>1, SpendType DEF DaysPass, TypeOK
  <1>5. ASSUME NEW s \in LiveOrders, ManagerDeletes(s) PROVE TypeOK'
    <2>1. s \in Nat
      <3>1. PICK i \in DOMAIN crm : crm[i].so = s
        BY DEF LiveOrders
      <3>2. crm[i] \in SalesRow
        BY ElementOfSeq DEF TypeOK
      <3> QED
        BY <3>1, <3>2 DEF SalesRow
    <2> QED
      BY <1>1, <1>5, <2>1, SpendType DEF ManagerDeletes, TypeOK
  <1>6. CASE Crash
    <2>1. ControlOK'
      BY <1>6, NoJobType DEF Crash, ControlOK, PolledStatuses
    <2> QED
      BY <1>6, <2>1, SpendType DEF Crash, TypeOK
  <1> QED
    BY <1>2, <1>3, <1>4, <1>5, <1>6, <1>7 DEF Environment

LEMMA PushBeginType ==
  ASSUME TypeOK, NEW p \in Pushers, NEW o \in Orders, PushBegin(p, o)
  PROVE  TypeOK'
  <1>1. Row(o, 0) \in JobRow /\ Row(o, 0).order \in Orders
    BY RowType
  <1>2. ControlOK'
    BY <1>1, ProcsFacts, GotoType DEF PushBegin
  <1> QED
    BY <1>2, SpendType, ProcsFacts DEF PushBegin, TypeOK, dbVars, prodVars, crmVars

LEMMA TypeStep == TypeOK /\ [Next]_vars => TypeOK'
  <1> SUFFICES ASSUME TypeOK, [Next]_vars PROVE TypeOK'
    OBVIOUS
  <1>1. CASE PollerStep
    BY <1>1, WorkerType, OrderType, ProcsFacts DEF PollerStep
  <1>2. ASSUME NEW p \in Pushers, ProcessOrder(p) \/ \E o \in Orders : PushBegin(p, o)
        PROVE  TypeOK'
    BY <1>2, OrderType, PushBeginType, ProcsFacts
  <1>3. CASE Environment
    BY <1>3, EnvironmentType
  <1>4. CASE UNCHANGED vars
    BY <1>4 DEF vars, dbVars, prodVars, crmVars, procVars, TypeOK, ControlOK
  <1> QED
    BY <1>1, <1>2, <1>3, <1>4 DEF Next

(* Every column, CRM record and goroutine local keeps its type, and whoever   *)
(* works on an order has a real one in hand: no step of worker, push handler  *)
(* or environment, in whatever order, writes to order 0.                      *)
THEOREM TypeCorrect == Spec => []TypeOK
  BY InitType, TypeStep, PTL DEF Spec

-----------------------------------------------------------------------------
(* RecordsBelong: the inductive invariant adds JobsBelong *)

IInv == TypeOK /\ RecordsBelong /\ JobsBelong

(* The logs of writes and payments only grow, and a payment keeps its order   *)
(* and its Sales Order: what belonged to an order still does.                 *)
Growth ==
  /\ \A id, o : OwnSale(id, o) => OwnSale(id, o)'
  /\ \A id, o : OwnPayment(id, o) => OwnPayment(id, o)'
  /\ \A i \in DOMAIN pays : /\ i \in DOMAIN pays'
                            /\ pays'[i].order = pays[i].order
                            /\ pays'[i].sells = pays[i].sells

LEMMA StillGrowth == UNCHANGED <<crm, pays>> => Growth
  BY DEF Growth, OwnSale, OwnPayment

LEMMA CrmGrowth ==
  ASSUME TypeOK, NEW r \in SalesRow, crm' = Append(crm, r), UNCHANGED pays
  PROVE  /\ Growth
         /\ DOMAIN crm' = DOMAIN crm \cup {Len(crm) + 1}
         /\ \A i \in DOMAIN crm : crm'[i] = crm[i]
         /\ crm'[Len(crm) + 1] = r
  BY DEF TypeOK, Growth, OwnSale, OwnPayment

LEMMA PaysGrowth ==
  ASSUME TypeOK, NEW r \in PayRow, pays' = Append(pays, r), UNCHANGED crm
  PROVE  /\ Growth
         /\ DOMAIN pays' = DOMAIN pays \cup {Len(pays) + 1}
         /\ \A i \in DOMAIN pays : pays'[i] = pays[i]
         /\ pays'[Len(pays) + 1] = r
         /\ Len(pays) + 1 \in Nat /\ Len(pays) + 1 # NoId
  BY DEF TypeOK, Growth, OwnSale, OwnPayment, NoId

LEMMA BelongsKept ==
  ASSUME Growth, NEW j, JobBelongs(j) PROVE JobBelongs(j)'
  BY DEF Growth, JobBelongs

(* What a step has to show for JobsBelong: only what is new in a local.       *)
LEMMA JobsKept ==
  ASSUME IInv, Growth,
         \A p \in Procs : job'[p] = job[p] \/ job'[p] = NoJob \/ JobBelongs(job[p])',
         \A j \in batch' : j \in batch \/ JobBelongs(j)'
  PROVE  JobsBelong'
  <1>1. JobBelongs(NoJob)'
    BY DEF JobBelongs, NoJob, ZohoOrderExists, NoId
  <1>2. ASSUME NEW p \in Procs PROVE JobBelongs(job[p])'
    <2>1. JobBelongs(job[p])
      BY DEF IInv, JobsBelong
    <2>2. CASE job'[p] = job[p]
      BY <2>1, <2>2 DEF JobBelongs, Growth
    <2>3. CASE job'[p] = NoJob
      BY <1>1, <2>3 DEF JobBelongs
    <2> QED
      BY <2>2, <2>3
  <1>3. ASSUME NEW j \in batch PROVE JobBelongs(j)'
    BY BelongsKept DEF IInv, JobsBelong
  <1> QED
    BY <1>1, <1>2, <1>3 DEF JobsBelong

(* ... and for RecordsBelong: only what is new in a column or a log.          *)
LEMMA RecordsKept ==
  ASSUME IInv, TypeOK', Growth,
         \A i \in DOMAIN crm' : \/ i \in DOMAIN crm /\ crm'[i] = crm[i]
                              \/ OwnSale(crm[i].so, crm[i].order)',
         \A i \in DOMAIN pays' : \/ i \in DOMAIN pays
                               \/ OwnSale(pays[i].sells, pays[i].order)',
         \A o \in Orders : \/ zohoId'[o] = zohoId[o]
                          \/ ZohoOrderExists(zohoId[o])' => OwnSale(zohoId[o], o)',
         \A o \in Orders : \/ payId'[o] = payId[o]
                          \/ payId'[o] \in {NoId, ErrId}
                          \/ OwnPayment(payId[o], o)'
  PROVE  RecordsBelong'
  <1>1. \A o \in Orders : ZohoOrderExists(zohoId[o])' => OwnSale(zohoId[o], o)'
    BY DEF IInv, RecordsBelong, Growth
  <1>2. \A i \in DOMAIN crm' : OwnSale(crm[i].so, crm[i].order)'
    BY DEF IInv, RecordsBelong, Growth
  <1>3. \A i \in DOMAIN pays' : OwnSale(pays[i].sells, pays[i].order)'
    BY DEF IInv, RecordsBelong, Growth
  <1>4. \A o \in Orders : payId'[o] \notin {NoId, ErrId} => OwnPayment(payId[o], o)'
    BY DEF IInv, RecordsBelong, Growth
  <1> QED
    BY <1>1, <1>2, <1>3, <1>4 DEF RecordsBelong

(* A step that leaves columns, CRM and payments alone needs only JobsBelong.  *)
LEMMA LocalStep ==
  ASSUME IInv, UNCHANGED <<zohoId, payId, crm, pays>>,
         \A p \in Procs : job'[p] = job[p] \/ job'[p] = NoJob \/ JobBelongs(job[p])',
         \A j \in batch' : j \in batch \/ JobBelongs(j)'
  PROVE  RecordsBelong' /\ JobsBelong'
  <1>1. RecordsBelong'
    BY DEF IInv, RecordsBelong, OwnSale, OwnPayment
  <1> QED
    BY <1>1, StillGrowth, JobsKept

(* A step that writes a column and leaves CRM and payments alone.             *)
LEMMA ColumnStep ==
  ASSUME IInv, UNCHANGED <<crm, pays>>,
         \A o \in Orders : \/ zohoId'[o] = zohoId[o]
                          \/ zohoId'[o] \in {NoId, B2bId}
                          \/ OwnSale(zohoId[o], o)',
         \A o \in Orders : \/ payId'[o] = payId[o]
                          \/ payId'[o] \in {NoId, ErrId}
                          \/ OwnPayment(payId[o], o)'
  PROVE  RecordsBelong'
  BY DEF IInv, RecordsBelong, OwnSale, OwnPayment, ZohoOrderExists

(* A step that drops an order or moves on with it unchanged.                  *)
LEMMA Dropped ==
  ASSUME TypeOK, NEW p \in Procs, NEW l,
         Drop(p, l) \/ Finish(p) \/ PaymentReturns(p) \/ UNCHANGED job
  PROVE  \A q \in Procs : job'[q] = job[q] \/ job'[q] = NoJob
  BY DEF TypeOK, ControlOK, Drop, Finish, PaymentReturns

LEMMA WorkerBelongs ==
  ASSUME IInv, TypeOK',
         \/ ScanStatus \/ MarkB2B \/ NextOrder \/ OrdersDone
         \/ PendingScan \/ PendingNext \/ PendingDone
         \/ UpdateScan \/ UpdateNext \/ UpdatesDone \/ PushStatus \/ StoreStatus
  PROVE  RecordsBelong' /\ JobsBelong'
  <1> USE ProcsFacts DEF dbVars, prodVars, crmVars, procVars
  <1>0. TypeOK /\ RecordsBelong /\ JobsBelong
    BY DEF IInv
  <1>1. CASE ScanStatus
    <2>1. ASSUME NEW o \in Orders, NEW j, j = Row(o, scan) PROVE JobBelongs(j)'
      BY <1>0, <1>1, <2>1
         DEF ScanStatus, RecordsBelong, JobBelongs, Row, NoId, ZohoOrderExists, OwnSale, OwnPayment
    <2>2. \A j \in batch' : j \in batch \/ \E o \in Orders : j = Row(o, scan)
      BY <1>1 DEF ScanStatus, NewOrders, Limited
    <2>3. \A j \in batch' : j \in batch \/ JobBelongs(j)'
      BY <2>1, <2>2
    <2> QED
      BY <1>1, <2>3, LocalStep DEF ScanStatus
  <1>2. CASE MarkB2B
    <2>1. RecordsBelong'
      <3>1. \A o \in Orders : zohoId'[o] = zohoId[o] \/ zohoId'[o] \in {NoId, B2bId}
        BY <1>0, <1>2 DEF MarkB2B, TypeOK
      <3>2. UNCHANGED <<crm, pays, payId>>
        BY <1>2 DEF MarkB2B
      <3> QED
        BY <3>1, <3>2, ColumnStep
    <2> QED
      BY <1>2, <2>1, StillGrowth, JobsKept DEF MarkB2B
  <1>3. ASSUME NEW from, NEW rows, rows \subseteq Orders, NEW to, NEW next,
               Fetch(from, rows, to, next)
        PROVE  RecordsBelong' /\ JobsBelong'
    <2>1. ASSUME NEW o \in rows, NEW j, j = [NoJob EXCEPT !.order = o, !.wf = wf[o]]
          PROVE  JobBelongs(j)'
      BY <2>1 DEF JobBelongs, NoJob, NoId, ZohoOrderExists
    <2>2. CASE batch' = {[NoJob EXCEPT !.order = o, !.wf = wf[o]] : o \in rows}
      <3>1. \A j \in batch' : \E o \in rows : j = [NoJob EXCEPT !.order = o, !.wf = wf[o]]
        BY <2>2, Zenon
      <3>2. \A j \in batch' : JobBelongs(j)'
        BY <2>1, <3>1
      <3> QED
        BY <1>3, <3>2, LocalStep DEF Fetch
    <2>3. CASE UNCHANGED batch
      BY <1>3, <2>3, LocalStep DEF Fetch
    <2> QED
      BY <1>3, <2>2, <2>3 DEF Fetch
  <1>4. CASE PendingScan \/ UpdateScan
    BY <1>3, <1>4 DEF PendingScan, UpdateScan, OrdersPendingPayment,
                      OrdersPendingPaymentUpdate, Limited
  <1>5. CASE OrdersDone \/ PendingDone \/ UpdatesDone
    BY <1>5, LocalStep DEF OrdersDone, PendingDone, UpdatesDone
  <1>6. CASE NextOrder
    <2>1. PICK j \in batch : /\ batch' = batch \ {j}
                            /\ job' = [job EXCEPT ![Poller] = [j EXCEPT !.known = NoId]]
      BY <1>6 DEF NextOrder
    <2>2. JobBelongs(j) /\ j \in JobRow
      BY <1>0 DEF JobsBelong, TypeOK, ControlOK
    <2>3. ASSUME NEW k, k = [j EXCEPT !.known = NoId] PROVE JobBelongs(k)
      BY <2>2, <2>3 DEF JobBelongs, JobRow, NoId, ZohoOrderExists
    <2>4. JobBelongs(job[Poller])'
      BY <1>0, <1>6, <2>1, <2>3 DEF NextOrder, JobBelongs, OwnSale, OwnPayment, TypeOK, ControlOK
    <2>5. \A p \in Procs : job'[p] = job[p] \/ JobBelongs(job[p])'
      BY <1>0, <2>1, <2>4 DEF TypeOK, ControlOK
    <2> QED
      BY <1>6, <2>1, <2>5, LocalStep DEF NextOrder
  <1>7. CASE PendingNext
    <2>1. PICK j \in batch : /\ batch' = batch \ {j}
                            /\ \/ UNCHANGED job
                               \/ /\ ZohoOrderExists(zohoId[j.order])
                                  /\ job' = [job EXCEPT ![Poller] = [j EXCEPT !.so = zohoId[j.order]]]
      BY <1>7 DEF PendingNext
    <2>2. JobBelongs(j) /\ j \in JobRow /\ j.order \in Orders
      BY <1>0 DEF JobsBelong, TypeOK, ControlOK
    <2>3. ASSUME NEW k, k = [j EXCEPT !.so = zohoId[j.order]], ZohoOrderExists(zohoId[j.order])
          PROVE  JobBelongs(k)
      BY <1>0, <2>2, <2>3 DEF JobBelongs, JobRow, RecordsBelong
    <2>4. \A p \in Procs : job'[p] = job[p] \/ JobBelongs(job[p])'
      <3>1. CASE UNCHANGED job
        BY <3>1
      <3>2. CASE ~UNCHANGED job
        <4>1. JobBelongs(job[Poller])'
          BY <1>0, <1>7, <2>1, <2>3, <3>2
             DEF PendingNext, JobBelongs, OwnSale, OwnPayment, TypeOK, ControlOK
        <4> QED
          BY <1>0, <2>1, <3>2, <4>1 DEF TypeOK, ControlOK
      <3> QED
        BY <3>1, <3>2
    <2> QED
      BY <1>7, <2>1, <2>4, LocalStep DEF PendingNext
  <1>8. CASE UpdateNext
    <2>1. PICK j \in batch : /\ batch' = batch \ {j}
                            /\ \/ UNCHANGED job
                               \/ /\ payId[j.order] \notin {NoId, ErrId}
                                  /\ job' = [job EXCEPT ![Poller] = [j EXCEPT !.pay = payId[j.order]]]
      BY <1>8 DEF UpdateNext
    <2>2. JobBelongs(j) /\ j \in JobRow /\ j.order \in Orders
      BY <1>0 DEF JobsBelong, TypeOK, ControlOK
    <2>3. ASSUME NEW k, k = [j EXCEPT !.pay = payId[j.order]], payId[j.order] \notin {NoId, ErrId}
          PROVE  JobBelongs(k)
      BY <1>0, <2>2, <2>3 DEF JobBelongs, JobRow, RecordsBelong
    <2>4. \A p \in Procs : job'[p] = job[p] \/ JobBelongs(job[p])'
      <3>1. CASE UNCHANGED job
        BY <3>1
      <3>2. CASE ~UNCHANGED job
        <4>1. JobBelongs(job[Poller])'
          BY <1>0, <1>8, <2>1, <2>3, <3>2
             DEF UpdateNext, JobBelongs, OwnSale, OwnPayment, TypeOK, ControlOK
        <4> QED
          BY <1>0, <2>1, <3>2, <4>1 DEF TypeOK, ControlOK
      <3> QED
        BY <3>1, <3>2
    <2> QED
      BY <1>8, <2>1, <2>4, LocalStep DEF UpdateNext
  <1>9. CASE PushStatus
    <2> DEFINE done == [pays EXCEPT ![job[Poller].pay].status
                                      = ConvertPaymentStatus(job[Poller].wf)]
    <2>1. \A i \in DOMAIN pays : pays[i] \in PayRow
      BY <1>0, ElementOfSeq DEF TypeOK
    <2>2. ASSUME NEW r \in PayRow, NEW s
          PROVE  /\ [r EXCEPT !.status = s].order = r.order
                 /\ [r EXCEPT !.status = s].sells = r.sells
      BY DEF PayRow
    <2>3. DOMAIN done = DOMAIN pays
      BY <1>0 DEF TypeOK
    <2>4. ASSUME NEW i \in DOMAIN pays
          PROVE  done[i].order = pays[i].order /\ done[i].sells = pays[i].sells
      <3>1. done[i] = IF i = job[Poller].pay
                        THEN [pays[i] EXCEPT !.status = ConvertPaymentStatus(job[Poller].wf)]
                        ELSE pays[i]
        BY <1>0 DEF TypeOK
      <3> QED
        BY <2>1, <2>2, <3>1
    <2>5. pays' = done \/ pays' = pays
      BY <1>9 DEF PushStatus
    <2>6. Growth
      <3> HIDE DEF done
      <3> QED
        BY <1>9, <2>3, <2>4, <2>5 DEF PushStatus, Growth, OwnSale, OwnPayment
    <2>7. DOMAIN pays' = DOMAIN pays
      BY <2>3, <2>5
    <2>8. RecordsBelong'
      <3>1. UNCHANGED <<crm, zohoId, payId>>
        BY <1>9 DEF PushStatus
      <3> QED
        BY <1>0, <2>6, <2>7, <3>1 DEF RecordsBelong, Growth
    <2>9. \A p \in Procs : job'[p] = job[p] \/ job'[p] = NoJob
      BY <1>0, <1>9, Dropped DEF PushStatus
    <2> QED
      BY <1>9, <2>6, <2>8, <2>9, JobsKept DEF PushStatus
  <1>10. CASE StoreStatus
    BY <1>0, <1>10, Dropped, LocalStep DEF StoreStatus
  <1> QED
    BY <1>1, <1>2, <1>4, <1>5, <1>6, <1>7, <1>8, <1>9, <1>10

(* Every write on Zoho goes to a Sales Order of the order it is built from.   *)
LEMMA SendBelongs ==
  ASSUME IInv, NEW p \in Procs, pc[p] = "send",
         crm' = Append(crm, Written(job[p])), UNCHANGED <<zohoId, payId, pays>>
  PROVE  /\ RecordsBelong' /\ Growth
         /\ \A id, o : id = Written(job[p]).so /\ o = job[p].order => OwnSale(id, o)'
  <1> DEFINE j == job[p]
             w == Written(j)
  <1>1. TypeOK /\ RecordsBelong /\ JobsBelong
    BY DEF IInv
  <1>2. j \in JobRow /\ j.order \in Orders /\ Len(crm) \in Nat
    BY <1>1, ProcsFacts DEF TypeOK, ControlOK
  <1>3. w \in SalesRow /\ w.order = j.order
    BY <1>2 DEF Written, SalesRow, JobRow, ZohoOrderExists
  <1>4. /\ Growth
        /\ DOMAIN crm' = DOMAIN crm \cup {Len(crm) + 1}
        /\ \A i \in DOMAIN crm : crm'[i] = crm[i]
        /\ crm'[Len(crm) + 1] = w
    <2> HIDE DEF w
    <2> QED
      BY <1>1, <1>3, CrmGrowth DEF w
  <1>5. ASSUME NEW id, id = w.so, NEW o, o = j.order PROVE OwnSale(id, o)'
    <2>1. CASE ZohoOrderExists(j.known)
      <3>1. OwnSale(id, o)
        BY <1>1, <1>5, <2>1 DEF JobsBelong, JobBelongs, Written
      <3> QED
        BY <1>4, <3>1 DEF Growth
    <2>2. CASE ~ZohoOrderExists(j.known)
      <3>1. id = Len(crm) + 1
        BY <1>5, <2>2 DEF Written
      <3> QED
        BY <1>3, <1>4, <1>5, <3>1 DEF OwnSale
    <2> QED
      BY <2>1, <2>2
  <1>6. \A i \in DOMAIN crm' : OwnSale(crm[i].so, crm[i].order)'
    <2> SUFFICES ASSUME NEW i \in DOMAIN crm' PROVE OwnSale(crm[i].so, crm[i].order)'
      OBVIOUS
    <2>1. CASE i \in DOMAIN crm
      <3>1. OwnSale(crm[i].so, crm[i].order)
        BY <1>1, <2>1 DEF RecordsBelong
      <3> QED
        BY <1>4, <2>1, <3>1 DEF Growth, OwnSale
    <2>2. CASE i = Len(crm) + 1
      <3>1. ASSUME NEW id, id = w.so, NEW o, o = j.order PROVE OwnSale(id, o)'
        BY <1>5, <3>1
      <3> HIDE DEF w
      <3> QED
        BY <1>3, <1>4, <2>2, <3>1 DEF OwnSale
    <2> QED
      BY <1>4, <2>1, <2>2
  <1>7. RecordsBelong'
    BY <1>1, <1>4, <1>6 DEF RecordsBelong, Growth
  <1> QED
    BY <1>4, <1>5, <1>7

(* A payment is linked to a Sales Order of the order it is for.               *)
LEMMA PayBelongs ==
  ASSUME IInv, NEW p \in Procs, pc[p] = "payCreate", job[p].so \in LiveOrders,
         NEW r, r = [sells |-> job[p].so, order |-> job[p].order,
                     status |-> ConvertPaymentStatus(job[p].wf)],
         pays' = Append(pays, r), UNCHANGED <<zohoId, payId, crm>>
  PROVE  /\ RecordsBelong' /\ Growth
         /\ \A id, o : id = Len(pays) + 1 /\ o = job[p].order => OwnPayment(id, o)'
         /\ Len(pays) + 1 # NoId
  <1>1. TypeOK /\ RecordsBelong /\ JobsBelong
    BY DEF IInv
  <1>2. job[p] \in JobRow /\ job[p].order \in Orders
    BY <1>1, ProcsFacts DEF TypeOK, ControlOK
  <1>3. r \in PayRow /\ r.order = job[p].order /\ r.sells = job[p].so
    BY <1>2, ConvertType DEF PayRow, JobRow
  <1>4. /\ Growth
        /\ DOMAIN pays' = DOMAIN pays \cup {Len(pays) + 1}
        /\ \A i \in DOMAIN pays : pays'[i] = pays[i]
        /\ pays'[Len(pays) + 1] = r
        /\ Len(pays) + 1 \in Nat /\ Len(pays) + 1 # NoId
    BY <1>1, <1>3, PaysGrowth
  <1>5. ZohoOrderExists(job[p].so)
    <2>1. PICK i \in DOMAIN crm : crm[i].so = job[p].so
      BY DEF LiveOrders
    <2>2. OwnSale(job[p].so, crm[i].order)
      BY <1>1, <2>1 DEF RecordsBelong
    <2>3. job[p].so \in 1..Len(crm) /\ Len(crm) \in Nat
      BY <1>1, <2>2 DEF OwnSale, TypeOK
    <2> QED
      BY <2>3 DEF ZohoOrderExists, NoId, B2bId
  <1>6. OwnSale(job[p].so, job[p].order)
    BY <1>1, <1>5 DEF JobsBelong, JobBelongs
  <1>7. \A i \in DOMAIN pays' : OwnSale(pays[i].sells, pays[i].order)'
    <2> SUFFICES ASSUME NEW i \in DOMAIN pays' PROVE OwnSale(pays[i].sells, pays[i].order)'
      OBVIOUS
    <2>1. CASE i \in DOMAIN pays
      <3>1. OwnSale(pays[i].sells, pays[i].order)
        BY <1>1, <2>1 DEF RecordsBelong
      <3> QED
        BY <1>4, <2>1, <3>1 DEF OwnSale
    <2>2. CASE i = Len(pays) + 1
      BY <1>3, <1>4, <1>6, <2>2 DEF OwnSale
    <2> QED
      BY <1>4, <2>1, <2>2
  <1>8. RecordsBelong'
    BY <1>1, <1>4, <1>7 DEF RecordsBelong, Growth
  <1>9. ASSUME NEW id, id = Len(pays) + 1, NEW o, o = job[p].order PROVE OwnPayment(id, o)'
    BY <1>3, <1>4, <1>9 DEF OwnPayment
  <1> QED
    BY <1>4, <1>8, <1>9

LEMMA OrderBelongs ==
  ASSUME IInv, NEW p \in Procs, ProcessOrder(p)
  PROVE  RecordsBelong' /\ JobsBelong'
  <1> USE ProcsFacts DEF dbVars, prodVars, crmVars, procVars
  <1> DEFINE j == job[p]
  <1>0. /\ TypeOK /\ RecordsBelong /\ JobsBelong
        /\ j \in JobRow /\ JobBelongs(j)
        /\ pc[p] \in InHand => j.order \in Orders
    BY DEF IInv, TypeOK, ControlOK, JobsBelong
  <1>1. ASSUME Finish(p) \/ PaymentReturns(p) \/ UNCHANGED job
        PROVE  \A q \in Procs : job'[q] = job[q] \/ job'[q] = NoJob
    BY <1>0, <1>1, Dropped
  <1>2. CASE Contact(p)
    BY <1>1, <1>2, LocalStep DEF Contact
  <1>3. CASE ResolveProducts(p)
    <2>1. CASE Finish(p)
      BY <1>1, <1>3, <2>1, LocalStep DEF ResolveProducts
    <2>2. CASE job' = [job EXCEPT ![p].missing = {}]
      <3>1. ASSUME NEW k, k = [j EXCEPT !.missing = {}] PROVE JobBelongs(k)
        BY <1>0, <3>1 DEF JobBelongs, JobRow
      <3>2. job' = [job EXCEPT ![p] = [j EXCEPT !.missing = {}]]
        BY <2>2
      <3>3. JobBelongs(job[p])'
        BY <1>0, <1>3, <3>1, <3>2
           DEF ResolveProducts, JobBelongs, OwnSale, OwnPayment, TypeOK, ControlOK
      <3>4. \A q \in Procs : job'[q] = job[q] \/ JobBelongs(job[q])'
        BY <1>0, <3>2, <3>3 DEF TypeOK, ControlOK
      <3> QED
        BY <1>3, <3>4, LocalStep DEF ResolveProducts
    <2> QED
      BY <1>3, <2>1, <2>2 DEF ResolveProducts
  <1>4. CASE SendOrder(p)
    <2> DEFINE k == [j EXCEPT !.so = Written(j).so, !.mt = Len(crm) + 1]
    <2>1. /\ RecordsBelong' /\ Growth
          /\ \A id, o : id = Written(j).so /\ o = j.order => OwnSale(id, o)'
      BY <1>4, SendBelongs DEF SendOrder
    <2>2. job' = [job EXCEPT ![p] = k]
      BY <1>0, <1>4 DEF SendOrder, TypeOK, ControlOK
    <2>3. ASSUME NEW l, l = k PROVE JobBelongs(l)'
      <3>1. JobBelongs(j)
        BY <1>0
      <3>2. l.known = j.known /\ l.order = j.order /\ l.pay = j.pay /\ l.so = Written(j).so
        BY <1>0, <2>3 DEF JobRow
      <3> HIDE DEF k, j
      <3> QED
        BY <2>1, <3>1, <3>2 DEF JobBelongs, Growth
    <2>4. job'[p] = k /\ \A q \in Procs \ {p} : job'[q] = job[q]
      BY <1>0, <2>2 DEF TypeOK, ControlOK
    <2>5. JobBelongs(job[p])'
      <3> HIDE DEF k
      <3> QED
        BY <2>3, <2>4 DEF JobBelongs
    <2>6. \A q \in Procs : job'[q] = job[q] \/ JobBelongs(job[q])'
      BY <2>4, <2>5
    <2> QED
      BY <1>4, <2>1, <2>6, JobsKept DEF SendOrder
  <1>5. CASE SendFails(p)
    <2>1. \A q \in Procs : job'[q] = job[q] \/ job'[q] = NoJob
      BY <1>1, <1>5 DEF SendFails
    <2>2. CASE UNCHANGED crm
      BY <1>5, <2>1, <2>2, LocalStep DEF SendFails
    <2>3. CASE crm' = Append(crm, Written(j))
      <3>1. RecordsBelong' /\ Growth
        BY <1>5, <2>3, SendBelongs DEF SendFails
      <3> QED
        BY <1>5, <2>1, <3>1, JobsKept DEF SendFails
    <2> QED
      BY <1>5, <2>2, <2>3 DEF SendFails
  <1>6. CASE SendNothing(p)
    BY <1>1, <1>6, LocalStep DEF SendNothing
  <1>7. CASE PayCreate(p)
    <2> DEFINE rec == [sells |-> j.so, order |-> j.order, status |-> ConvertPaymentStatus(j.wf)]
    <2>1. CASE /\ pays' = Append(pays, rec) /\ j.so \in LiveOrders
      <3>1. /\ RecordsBelong' /\ Growth
            /\ \A id, o : id = Len(pays) + 1 /\ o = j.order => OwnPayment(id, o)'
        BY <1>7, <2>1, PayBelongs DEF PayCreate
      <3>2. CASE PaymentReturns(p)
        BY <1>1, <1>7, <3>1, <3>2, JobsKept DEF PayCreate
      <3>3. CASE job' = [job EXCEPT ![p].pay = Len(pays) + 1]
        <4> DEFINE k == [j EXCEPT !.pay = Len(pays) + 1]
        <4>1. job' = [job EXCEPT ![p] = k]
          BY <3>3
        <4>2. ASSUME NEW l, l = k PROVE JobBelongs(l)'
          <5>1. JobBelongs(j)
            BY <1>0
          <5>2. l.known = j.known /\ l.order = j.order /\ l.so = j.so /\ l.pay = Len(pays) + 1
            BY <1>0, <4>2 DEF JobRow
          <5> HIDE DEF k, j
          <5> QED
            BY <3>1, <5>1, <5>2 DEF JobBelongs, Growth
        <4>3. job'[p] = k /\ \A q \in Procs \ {p} : job'[q] = job[q]
          BY <1>0, <4>1 DEF TypeOK, ControlOK
        <4>4. JobBelongs(job[p])'
          <5> HIDE DEF k
          <5> QED
            BY <4>2, <4>3 DEF JobBelongs
        <4>5. \A q \in Procs : job'[q] = job[q] \/ JobBelongs(job[q])'
          BY <4>3, <4>4
        <4> QED
          BY <1>7, <3>1, <4>5, JobsKept DEF PayCreate
      <3> QED
        BY <1>7, <2>1, <3>2, <3>3 DEF PayCreate
    <2>2. CASE UNCHANGED pays
      BY <1>1, <1>7, <2>2, LocalStep DEF PayCreate
    <2> QED
      BY <1>7, <2>1, <2>2 DEF PayCreate
  <1>8. CASE Stamp(p)
    BY <1>1, <1>8, LocalStep DEF Stamp
  <1>9. CASE PayRecord(p) \/ PayMark(p)
    <2>1. UNCHANGED <<zohoId, crm, pays, batch>>
      BY <1>9 DEF PayRecord, PayMark
    <2>2. ASSUME NEW o \in Orders, payId'[o] # payId[o], payId'[o] \notin {NoId, ErrId}
          PROVE  OwnPayment(payId[o], o)'
      <3>1. o = j.order /\ payId'[o] = j.pay
        BY <1>0, <1>9, <2>2 DEF PayRecord, PayMark, TypeOK
      <3>2. OwnPayment(j.pay, j.order)
        BY <1>0, <2>2, <3>1 DEF JobBelongs
      <3> QED
        BY <2>1, <3>1, <3>2 DEF OwnPayment
    <2>3. RecordsBelong'
      BY <2>1, <2>2, ColumnStep
    <2>4. \A q \in Procs : job'[q] = job[q] \/ job'[q] = NoJob
      BY <1>1, <1>9 DEF PayRecord, PayMark
    <2> QED
      BY <2>1, <2>3, <2>4, StillGrowth, JobsKept
  <1>10. CASE Link(p)
    <2>1. UNCHANGED <<payId, crm, pays, batch>>
      BY <1>10 DEF Link
    <2>2. ASSUME NEW o \in Orders, zohoId'[o] # zohoId[o], zohoId'[o] \notin {NoId, B2bId}
          PROVE  OwnSale(zohoId[o], o)'
      <3>1. o = j.order /\ zohoId'[o] = j.so
        BY <1>0, <1>10, <2>2 DEF Link, TypeOK
      <3>2. OwnSale(j.so, j.order)
        BY <1>0, <2>2, <3>1 DEF JobBelongs, ZohoOrderExists
      <3> QED
        BY <2>1, <3>1, <3>2 DEF OwnSale
    <2>3. RecordsBelong'
      BY <2>1, <2>2, ColumnStep
    <2>4. \A q \in Procs : job'[q] = job[q] \/ job'[q] = NoJob
      BY <1>1, <1>10 DEF Link
    <2> QED
      BY <2>1, <2>3, <2>4, StillGrowth, JobsKept
  <1> QED
    BY <1>2, <1>3, <1>4, <1>5, <1>6, <1>7, <1>8, <1>9, <1>10 DEF ProcessOrder

LEMMA PushBeginBelongs ==
  ASSUME IInv, NEW p \in Pushers, NEW o \in Orders, PushBegin(p, o)
  PROVE  RecordsBelong' /\ JobsBelong'
  <1>0. TypeOK /\ RecordsBelong /\ p \in Procs
    BY ProcsFacts DEF IInv
  <1>1. ASSUME NEW j, j = Row(o, 0) PROVE JobBelongs(j)
    BY <1>0, <1>1 DEF RecordsBelong, JobBelongs, Row, NoId, ZohoOrderExists
  <1>2. UNCHANGED <<zohoId, payId, crm, pays, batch>> /\ job' = [job EXCEPT ![p] = Row(o, 0)]
    BY <1>0 DEF PushBegin, dbVars, crmVars
  <1>3. JobBelongs(job[p])'
    BY <1>0, <1>1, <1>2 DEF JobBelongs, OwnSale, OwnPayment, TypeOK, ControlOK
  <1>4. \A q \in Procs : job'[q] = job[q] \/ JobBelongs(job[q])'
    BY <1>0, <1>2, <1>3 DEF TypeOK, ControlOK
  <1> QED
    BY <1>2, <1>4, LocalStep

LEMMA EnvironmentBelongs ==
  ASSUME IInv, Environment \/ UNCHANGED vars
  PROVE  RecordsBelong' /\ JobsBelong'
  <1>1. UNCHANGED <<zohoId, payId, crm, pays>>
    BY DEF Environment, ShopMoves, WfReports, DaysPass, CatalogAdds, ManagerDeletes, Crash,
           vars, dbVars, prodVars, crmVars
  <1>2. \/ UNCHANGED <<job, batch>>
        \/ job' = [p \in Procs |-> NoJob] /\ batch' = {}
    BY DEF Environment, ShopMoves, WfReports, DaysPass, CatalogAdds, ManagerDeletes, Crash,
           vars, procVars
  <1> QED
    BY <1>1, <1>2, LocalStep

LEMMA InitBelongs == Init => RecordsBelong /\ JobsBelong
  <1> SUFFICES ASSUME Init PROVE RecordsBelong /\ JobsBelong
    OBVIOUS
  <1>1. RecordsBelong
    BY DEF Init, RecordsBelong, ZohoOrderExists
  <1>2. JobsBelong
    BY DEF Init, JobsBelong, JobBelongs, NoJob, ZohoOrderExists, NoId
  <1> QED
    BY <1>1, <1>2

LEMMA Inductive == IInv /\ [Next]_vars => IInv'
  <1> SUFFICES ASSUME IInv, [Next]_vars PROVE IInv'
    OBVIOUS
  <1>1. TypeOK /\ TypeOK'
    BY TypeStep DEF IInv
  <1>2. CASE PollerStep
    BY <1>1, <1>2, WorkerBelongs, OrderBelongs, ProcsFacts DEF PollerStep, IInv
  <1>3. ASSUME NEW p \in Pushers, ProcessOrder(p) \/ \E o \in Orders : PushBegin(p, o)
        PROVE  IInv'
    BY <1>1, <1>3, OrderBelongs, PushBeginBelongs, ProcsFacts DEF IInv
  <1>4. CASE Environment \/ UNCHANGED vars
    BY <1>1, <1>4, EnvironmentBelongs DEF IInv
  <1> QED
    BY <1>2, <1>3, <1>4 DEF Next

(* Worker and push handlers never mix two orders up: however their steps, the *)
(* failures and the restarts interleave, a stored zoho_id names a Sales Order *)
(* created for that very order, every write and every payment goes to a Sales *)
(* Order of the order it was built from (processOrder, createZohoPayment).    *)
THEOREM OrdersNeverMixed == Spec => []RecordsBelong
  <1>1. Init => IInv
    BY InitType, InitBelongs DEF IInv
  <1>2. IInv => RecordsBelong
    BY DEF IInv
  <1> QED
    BY <1>1, <1>2, Inductive, PTL DEF Spec

(* The same of the ids a goroutine carries from a read to a later write.      *)
THEOREM LocalsNeverMixed == Spec => []JobsBelong
  <1>1. Init => IInv
    BY InitType, InitBelongs DEF IInv
  <1>2. IInv => JobsBelong
    BY DEF IInv
  <1> QED
    BY <1>1, <1>2, Inductive, PTL DEF Spec

-----------------------------------------------------------------------------
(* OrderSync implements OrderContract.  The steps that write crm, pays,       *)
(* zoho_id or zoho_payment_id are matched with a step of the contract, all    *)
(* others with a stutter; that an id travels through a goroutine's locals     *)
(* unharmed is IInv.                                                          *)

SentLabels == {"payCreate", "payRecord", "payMark", "stamp", "link"}

(* A goroutine past the call to Zoho has a Sales Order in hand, unless the    *)
(* order is a wholesale one; about to store a payment's id, it has that too.  *)
HeldBy(p) ==
  /\ pc[p] \in SentLabels => job[p].order \in B2BOrders \/ ZohoOrderExists(job[p].so)
  /\ pc[p] = "payRecord" => job[p].pay # NoId

Held == \A p \in Procs : HeldBy(p)

RInv == IInv /\ Held

Sale(i) == [id |-> i, order |-> crm[i].order]

PaymentRecords == [n \in DOMAIN pays |-> PaymentOf(pays[n])]

(* What the contract sees of the state. *)
Seen == <<Created, zohoId, PaymentRecords, payId>>

LEMMA InitHeld == Init => Held
  BY DEF Init, Held, HeldBy, SentLabels

(* Only SendOrder, SendNothing and PendingNext lead past the call.            *)
LEMMA OrderHeld ==
  ASSUME RInv, NEW p \in Procs, ProcessOrder(p)
  PROVE  HeldBy(p)'
  <1> USE ProcsFacts DEF HeldBy, SentLabels
  <1> DEFINE j == job[p]
  <1>0. /\ TypeOK /\ ControlOK /\ HeldBy(p) /\ j \in JobRow
        /\ pc \in [Procs -> Labels] /\ job \in [Procs -> JobRow]
    BY DEF RInv, IInv, TypeOK, ControlOK, Held
  <1>1. CASE Contact(p) \/ ResolveProducts(p) \/ SendFails(p) \/ Link(p)
    BY <1>0, <1>1 DEF Contact, ResolveProducts, SendFails, Link, Finish, Goto, Drop
  <1>2. CASE SendOrder(p)
    <2>1. job'[p].so = Written(j).so /\ job'[p].order = j.order /\ pc'[p] # "payRecord"
      BY <1>0, <1>2 DEF SendOrder, AfterSend, Goto, JobRow
    <2>2. ZohoOrderExists(Written(j).so)
      <3>1. Len(crm) + 1 \in Nat \ {0}
        BY <1>0 DEF TypeOK
      <3> QED
        BY <3>1 DEF Written, ZohoOrderExists, NoId, B2bId
    <2> QED
      BY <2>1, <2>2 DEF ZohoOrderExists
  <1>3. CASE SendNothing(p)
    BY <1>0, <1>3 DEF SendNothing, AfterSend, Goto
  <1>4. CASE PayCreate(p)
    <2>1. CASE pc'[p] = "payRecord"
      <3>1. job' = [job EXCEPT ![p].pay = Len(pays) + 1]
        BY <1>0, <1>4, <2>1 DEF PayCreate, PaymentReturns, Goto, Drop
      <3>2. Len(pays) + 1 # NoId
        BY <1>0 DEF TypeOK, NoId
      <3>3. job'[p].pay # NoId /\ job'[p].so = j.so /\ job'[p].order = j.order
        BY <1>0, <3>1, <3>2 DEF JobRow
      <3> QED
        BY <1>0, <1>4, <3>3 DEF PayCreate, ZohoOrderExists
    <2>2. CASE pc'[p] # "payRecord"
      BY <1>0, <1>4, <2>2 DEF PayCreate, PaymentReturns, Goto, Drop, ZohoOrderExists
    <2> QED
      BY <2>1, <2>2
  <1>5. CASE PayRecord(p) \/ PayMark(p) \/ Stamp(p)
    BY <1>0, <1>5 DEF PayRecord, PayMark, Stamp, PaymentReturns, Goto, Drop, ZohoOrderExists
  <1> QED
    BY <1>1, <1>2, <1>3, <1>4, <1>5 DEF ProcessOrder

LEMMA WorkerHeld ==
  ASSUME RInv,
         \/ ScanStatus \/ MarkB2B \/ NextOrder \/ OrdersDone
         \/ PendingScan \/ PendingNext \/ PendingDone
         \/ UpdateScan \/ UpdateNext \/ UpdatesDone \/ PushStatus \/ StoreStatus
  PROVE  HeldBy(Poller)'
  <1> USE ProcsFacts DEF HeldBy, SentLabels
  <1>0. /\ HeldBy(Poller) /\ pc \in [Procs -> Labels] /\ job \in [Procs -> JobRow]
        /\ \A j \in batch : j \in JobRow
    BY DEF RInv, IInv, TypeOK, ControlOK, Held
  <1>1. CASE PendingNext
    <2>1. PICK j \in batch :
            \/ /\ ZohoOrderExists(zohoId[j.order])
               /\ job' = [job EXCEPT ![Poller] = [j EXCEPT !.so = zohoId[j.order]]]
               /\ Goto(Poller, "payCreate")
            \/ UNCHANGED <<job, pc>>
      BY <1>1 DEF PendingNext
    <2>2. CASE UNCHANGED <<job, pc>>
      BY <1>1, <2>2 DEF PendingNext
    <2>3. CASE /\ ZohoOrderExists(zohoId[j.order])
               /\ job' = [job EXCEPT ![Poller] = [j EXCEPT !.so = zohoId[j.order]]]
               /\ Goto(Poller, "payCreate")
      <3>1. pc'[Poller] = "payCreate" /\ job'[Poller].so = zohoId[j.order]
        BY <1>0, <2>3 DEF Goto, JobRow
      <3> QED
        BY <2>3, <3>1 DEF ZohoOrderExists
    <2> QED
      BY <2>1, <2>2, <2>3
  <1>2. CASE \/ ScanStatus \/ MarkB2B \/ NextOrder \/ OrdersDone \/ PendingScan \/ PendingDone
             \/ UpdateScan \/ UpdateNext \/ UpdatesDone \/ PushStatus \/ StoreStatus
    <2>1. pc'[Poller] \notin {"payCreate", "payRecord", "payMark", "stamp", "link"}
      BY <1>0, <1>2 DEF ScanStatus, MarkB2B, NextOrder, OrdersDone, PendingScan, PendingDone,
         UpdateScan, UpdateNext, UpdatesDone, PushStatus, StoreStatus, Fetch, Goto, Drop
    <2> QED
      BY <2>1
  <1> QED
    BY <1>1, <1>2

(* A step of one goroutine leaves the locals of the others alone.             *)
LEMMA OthersHeld ==
  ASSUME RInv, NEW p \in Procs, NEW q \in Procs, p # q,
         \/ ProcessOrder(q)
         \/ q \in Pushers /\ \E o \in Orders : PushBegin(q, o)
         \/ q = Poller /\ PollerStep
  PROVE  HeldBy(p)'
  <1>0. /\ HeldBy(p) /\ pc \in [Procs -> Labels] /\ job \in [Procs -> JobRow]
    BY DEF RInv, IInv, TypeOK, ControlOK, Held
  <1>1. ASSUME ProcessOrder(q) PROVE pc'[p] = pc[p] /\ job'[p] = job[p]
    BY <1>0, <1>1 DEF ProcessOrder, Contact, ResolveProducts, SendOrder, SendFails, SendNothing,
       PayCreate, PayRecord, PayMark, Stamp, Link, PaymentReturns, Finish, Goto, Drop
  <1>2. ASSUME NEW o \in Orders, PushBegin(q, o) PROVE pc'[p] = pc[p] /\ job'[p] = job[p]
    BY <1>0, <1>2 DEF PushBegin, Goto
  <1>3. ASSUME q = Poller, PollerStep, ~ProcessOrder(Poller)
        PROVE  pc'[p] = pc[p] /\ job'[p] = job[p]
    BY <1>0, <1>3 DEF PollerStep, ScanStatus, MarkB2B, NextOrder, OrdersDone, PendingScan,
       PendingNext, PendingDone, UpdateScan, UpdateNext, UpdatesDone, PushStatus, StoreStatus,
       Fetch, Goto, Drop
  <1>4. pc'[p] = pc[p] /\ job'[p] = job[p]
    BY <1>1, <1>2, <1>3
  <1> QED
    BY <1>0, <1>4 DEF HeldBy, ZohoOrderExists

LEMMA HeldStep == RInv /\ [Next]_vars => Held'
  <1> SUFFICES ASSUME RInv, [Next]_vars, NEW p \in Procs PROVE HeldBy(p)'
    BY DEF Held
  <1> USE ProcsFacts
  <1>1. CASE PollerStep
    BY <1>1, OrderHeld, WorkerHeld, OthersHeld DEF PollerStep
  <1>2. ASSUME NEW q \in Pushers, ProcessOrder(q) PROVE HeldBy(p)'
    BY <1>2, OrderHeld, OthersHeld
  <1>3. ASSUME NEW q \in Pushers, NEW o \in Orders, PushBegin(q, o) PROVE HeldBy(p)'
    <2>1. CASE p # q
      BY <1>3, <2>1, OthersHeld
    <2>2. CASE p = q
      <3>1. pc'[p] = "contact"
        BY <1>3, <2>2 DEF PushBegin, Goto, RInv, IInv, TypeOK, ControlOK
      <3> QED
        BY <3>1 DEF HeldBy, SentLabels
    <2> QED
      BY <2>1, <2>2
  <1>4. CASE Environment \/ UNCHANGED vars
    <2>1. HeldBy(p) /\ p \in Procs
      BY DEF RInv, Held
    <2>2. CASE UNCHANGED <<pc, job>>
      BY <2>1, <2>2 DEF HeldBy, ZohoOrderExists
    <2>3. CASE Crash
      BY <2>3 DEF Crash, HeldBy, SentLabels
    <2> QED
      BY <1>4, <2>2, <2>3 DEF Environment, ShopMoves, WfReports, DaysPass, CatalogAdds, ManagerDeletes,
         vars, procVars
  <1> QED
    BY <1>1, <1>2, <1>3, <1>4 DEF Next

LEMMA RInductive == RInv /\ [Next]_vars => RInv'
  BY Inductive, HeldStep DEF RInv

-----------------------------------------------------------------------------
(* The steps of the contract *)

LEMMA Stutter ==
  ASSUME UNCHANGED <<crm, pays, zohoId, payId>>
  PROVE  UNCHANGED Seen
  BY DEF Seen, Created, PaymentRecords, PaymentOf

(* A Sales Order in use was created by a write of its own order.              *)
LEMMA SaleKnown ==
  ASSUME RInv, NEW id, NEW o, OwnSale(id, o)
  PROVE  /\ Sale(id) \in Created
         /\ Sale(id).id = id /\ Sale(id).order = o
  BY DEF OwnSale, Created, Sale

LEMMA SendMaps ==
  ASSUME RInv, NEW p \in Procs, SendOrder(p) \/ SendFails(p)
  PROVE  (\E o \in Orders : Contract!Sell(o)) \/ UNCHANGED Seen
  <1> DEFINE j == job[p]
             new == Len(crm) + 1
  <1>0. TypeOK /\ JobsBelong /\ j \in JobRow
    BY DEF RInv, IInv, TypeOK, ControlOK
  <1>1. j.order \in Orders /\ j.order \notin B2BOrders /\ UNCHANGED <<zohoId, pays, payId>>
    BY <1>0 DEF SendOrder, SendFails, TypeOK, ControlOK, InHand, OrderLabels, dbVars
  <1>2. CASE UNCHANGED crm
    BY <1>1, <1>2, Stutter
  <1>3. CASE crm' = Append(crm, Written(j))
    <2>1. /\ DOMAIN crm = 1..Len(crm) /\ DOMAIN crm' = 1..new
          /\ \A i \in DOMAIN crm : crm'[i] = crm[i]
          /\ crm'[new] = Written(j) /\ new \notin DOMAIN crm /\ Len(crm) \in Nat
      BY <1>0, <1>3 DEF TypeOK
    <2>2. CASE ZohoOrderExists(j.known)
      <3>1. crm'[new].so # new
        BY <1>0, <2>1, <2>2 DEF Written, JobsBelong, JobBelongs, OwnSale
      <3>2. Created' = Created
        BY <2>1, <3>1 DEF Created
      <3> QED
        BY <1>1, <3>2 DEF Seen, PaymentRecords, PaymentOf
    <2>3. CASE ~ZohoOrderExists(j.known)
      <3> DEFINE s == [id |-> new, order |-> j.order]
      <3>1. crm'[new].so = new /\ crm'[new].order = j.order
        BY <2>1, <2>3 DEF Written
      <3>2. Created' = Created \cup {s}
        BY <2>1, <3>1 DEF Created
      <3>3. \A t \in Created : t.id # s.id
        BY <2>1 DEF Created
      <3>4. s.order = j.order /\ s \in Created'
        BY <3>2
      <3>5. PaymentRecords' = PaymentRecords
        BY <1>1 DEF PaymentRecords, PaymentOf
      <3> HIDE DEF s
      <3>6. Contract!Sell(j.order)
        BY <1>1, <3>2, <3>3, <3>4, <3>5 DEF Contract!Sell, PaymentRecords
      <3> QED
        BY <1>1, <3>6
    <2> QED
      BY <2>2, <2>3
  <1> QED
    BY <1>2, <1>3 DEF SendOrder, SendFails

LEMMA LinkMaps ==
  ASSUME RInv, NEW p \in Procs, Link(p)
  PROVE  (\E o \in Orders : Contract!Bind(o) \/ Contract!Mark(o)) \/ UNCHANGED Seen
  <1> DEFINE j == job[p]
  <1>0. TypeOK /\ JobBelongs(j) /\ j \in JobRow
    BY DEF RInv, IInv, TypeOK, ControlOK, JobsBelong
  <1>1. j.order \in Orders /\ UNCHANGED <<crm, pays, payId>>
    BY <1>0 DEF Link, TypeOK, ControlOK, InHand, OrderLabels, crmVars
  <1>2. CASE UNCHANGED zohoId
    BY <1>1, <1>2, Stutter
  <1>3. CASE zohoId' = [zohoId EXCEPT ![j.order] = j.so]
    <2>0. Created' = Created /\ PaymentRecords' = PaymentRecords
      BY <1>1 DEF Created, PaymentRecords, PaymentOf
    <2>1. CASE ZohoOrderExists(j.so)
      <3>1. OwnSale(j.so, j.order)
        BY <1>0, <2>1 DEF JobBelongs
      <3>2. \E s \in Created : s.order = j.order /\ s.id = j.so
        BY <3>1, SaleKnown
      <3>3. Contract!Bind(j.order)
        BY <1>1, <1>3, <2>0, <3>2 DEF Contract!Bind, PaymentRecords
      <3> QED
        BY <1>1, <3>3
    <2>2. CASE ~ZohoOrderExists(j.so)
      <3>1. j.order \in B2BOrders
        BY <2>2 DEF RInv, Held, HeldBy, SentLabels, Link
      <3>2. j.so \in {NoId, B2bId}
        BY <2>2 DEF ZohoOrderExists
      <3>3. Contract!Mark(j.order)
        BY <1>1, <1>3, <2>0, <3>1, <3>2 DEF Contract!Mark, PaymentRecords
      <3> QED
        BY <1>1, <3>3
    <2> QED
      BY <2>1, <2>2
  <1> QED
    BY <1>2, <1>3 DEF Link

LEMMA PayMaps ==
  ASSUME RInv, NEW p \in Procs, PayCreate(p)
  PROVE  (\E o \in Orders : Contract!Pay(o)) \/ UNCHANGED Seen
  <1> DEFINE j == job[p]
             rec == [sells |-> j.so, order |-> j.order, status |-> ConvertPaymentStatus(j.wf)]
  <1>0. TypeOK /\ RecordsBelong /\ JobBelongs(j) /\ j \in JobRow
    BY DEF RInv, IInv, TypeOK, ControlOK, JobsBelong
  <1>1. j.order \in Orders /\ UNCHANGED <<crm, zohoId, payId>>
    BY <1>0 DEF PayCreate, TypeOK, ControlOK, InHand, OrderLabels, dbVars
  <1>2. CASE UNCHANGED pays
    BY <1>1, <1>2, Stutter
  <1>3. CASE j.so \in LiveOrders /\ pays' = Append(pays, rec)
    <2>1. OwnSale(j.so, j.order)
      <3>1. PICK i \in DOMAIN crm : j.so = crm[i].so
        BY <1>3 DEF LiveOrders
      <3>2. j.so \in DOMAIN crm /\ j.so \in Nat \ {0}
        BY <1>0, <3>1 DEF RecordsBelong, OwnSale, TypeOK
      <3> QED
        BY <1>0, <3>2 DEF JobBelongs, ZohoOrderExists, NoId, B2bId
    <2>2. \E s \in Created : s.order = j.order /\ s.id = j.so
      BY <2>1, SaleKnown
    <2>3. PaymentRecords' = Append(PaymentRecords, [sale |-> j.so, order |-> j.order])
      BY <1>0, <1>3 DEF PaymentRecords, PaymentOf, TypeOK
    <2>4. Created' = Created
      BY <1>1 DEF Created
    <2>5. Contract!Pay(j.order)
      BY <1>1, <2>2, <2>3, <2>4 DEF Contract!Pay, PaymentRecords
    <2> QED
      BY <1>1, <2>5
  <1> QED
    BY <1>2, <1>3 DEF PayCreate

LEMMA BookMaps ==
  ASSUME RInv, NEW p \in Procs, PayRecord(p) \/ PayMark(p)
  PROVE  (\E o \in Orders : Contract!Book(o)) \/ UNCHANGED Seen
  <1> DEFINE j == job[p]
  <1>0. TypeOK /\ JobBelongs(j) /\ HeldBy(p)
    BY DEF RInv, IInv, TypeOK, ControlOK, JobsBelong, Held
  <1>1. j.order \in Orders /\ UNCHANGED <<crm, pays, zohoId>>
    BY <1>0 DEF PayRecord, PayMark, TypeOK, ControlOK, InHand, OrderLabels, crmVars
  <1>2. Created' = Created /\ PaymentRecords' = PaymentRecords
    BY <1>1 DEF Created, PaymentRecords, PaymentOf
  <1>3. CASE UNCHANGED payId
    BY <1>1, <1>3, Stutter
  <1>4. CASE payId' = [payId EXCEPT ![j.order] = ErrId]
    BY <1>1, <1>2, <1>4 DEF Contract!Book, PaymentRecords
  <1>5. CASE pc[p] = "payRecord" /\ payId' = [payId EXCEPT ![j.order] = j.pay]
    <2>1. OwnPayment(j.pay, j.order)
      BY <1>0, <1>5 DEF HeldBy, JobBelongs
    <2>2. j.pay \in DOMAIN PaymentRecords /\ PaymentRecords[j.pay].order = j.order
      BY <2>1 DEF OwnPayment, PaymentRecords, PaymentOf
    <2> QED
      BY <1>1, <1>2, <1>5, <2>2 DEF Contract!Book, PaymentRecords
  <1> QED
    BY <1>3, <1>4, <1>5 DEF PayRecord, PayMark

(* MarkB2B puts the mark of its contract; UpdateStatus changes the status of  *)
(* a payment only, which the contract does not see.                           *)
LEMMA MarkMaps ==
  ASSUME RInv, MarkB2B
  PROVE  (\E o \in Orders : Contract!Mark(o)) \/ UNCHANGED Seen
  <1>1. PICK j \in batch : /\ j.order \in B2BOrders
                           /\ \/ zohoId' = [zohoId EXCEPT ![j.order] = B2bId]
                              \/ UNCHANGED zohoId
    BY DEF MarkB2B
  <1>2. j.order \in Orders /\ UNCHANGED <<crm, pays, payId>>
    BY OrdersAssumption, <1>1 DEF MarkB2B, crmVars
  <1>3. Created' = Created /\ PaymentRecords' = PaymentRecords
    BY <1>2 DEF Created, PaymentRecords, PaymentOf
  <1>4. CASE UNCHANGED zohoId
    BY <1>2, <1>4, Stutter
  <1>5. CASE zohoId' = [zohoId EXCEPT ![j.order] = B2bId]
    BY <1>1, <1>2, <1>3, <1>5 DEF Contract!Mark, PaymentRecords
  <1> QED
    BY <1>1, <1>4, <1>5

LEMMA StatusMaps ==
  ASSUME RInv, PushStatus
  PROVE  UNCHANGED Seen
  <1>0. TypeOK
    BY DEF RInv, IInv
  <1>1. UNCHANGED <<crm, zohoId, payId>>
    BY DEF PushStatus, dbVars
  <1>2. \/ UNCHANGED pays
        \/ \E v : pays' = [pays EXCEPT ![job[Poller].pay].status = v]
    BY DEF PushStatus
  <1>3. /\ DOMAIN pays' = DOMAIN pays
        /\ \A n \in DOMAIN pays : pays'[n].sells = pays[n].sells /\ pays'[n].order = pays[n].order
    <2>1. CASE UNCHANGED pays
      BY <2>1
    <2>2. ASSUME NEW v, pays' = [pays EXCEPT ![job[Poller].pay].status = v]
          PROVE  /\ DOMAIN pays' = DOMAIN pays
                 /\ \A n \in DOMAIN pays :
                      pays'[n].sells = pays[n].sells /\ pays'[n].order = pays[n].order
      <3>1. pays \in [1..Len(pays) -> PayRow]
        BY <1>0 DEF TypeOK
      <3>2. \A n \in DOMAIN pays : pays[n] \in PayRow
        BY <3>1
      <3>3. ASSUME NEW n \in DOMAIN pays
            PROVE  pays'[n].sells = pays[n].sells /\ pays'[n].order = pays[n].order
        <4>1. pays'[n] = IF n = job[Poller].pay THEN [pays[n] EXCEPT !.status = v] ELSE pays[n]
          BY <2>2, <3>1
        <4> QED
          BY <3>2, <4>1 DEF PayRow
      <3> QED
        BY <2>2, <3>1, <3>3
    <2> QED
      BY <1>2, <2>1, <2>2
  <1>4. PaymentRecords' = PaymentRecords
    BY <1>3 DEF PaymentRecords, PaymentOf
  <1>5. Created' = Created
    BY <1>1 DEF Created
  <1> QED
    BY <1>1, <1>4, <1>5 DEF Seen

LEMMA OtherMaps ==
  ASSUME \/ ScanStatus \/ NextOrder \/ OrdersDone \/ PendingScan \/ PendingNext \/ PendingDone
         \/ UpdateScan \/ UpdateNext \/ UpdatesDone \/ StoreStatus \/ Environment
         \/ UNCHANGED vars
         \/ \E p \in Procs : Contact(p) \/ ResolveProducts(p) \/ SendNothing(p) \/ Stamp(p)
         \/ \E p \in Pushers, o \in Orders : PushBegin(p, o)
  PROVE  UNCHANGED Seen
  <1>1. UNCHANGED <<crm, pays, zohoId, payId>>
    BY DEF ScanStatus, NextOrder, OrdersDone, PendingScan, PendingNext, PendingDone, UpdateScan,
       UpdateNext, UpdatesDone, StoreStatus, Fetch, Contact, ResolveProducts, SendNothing, Stamp,
       PushBegin, Environment, ShopMoves, WfReports, DaysPass, CatalogAdds, ManagerDeletes, Crash,
       vars, dbVars, prodVars, crmVars, procVars
  <1> QED
    BY <1>1, Stutter

LEMMA OrderMaps ==
  ASSUME RInv, NEW p \in Procs, ProcessOrder(p)
  PROVE  Contract!Next \/ UNCHANGED Seen
  BY SendMaps, LinkMaps, PayMaps, BookMaps, OtherMaps DEF ProcessOrder, Contract!Next

LEMMA StepMaps == RInv /\ [Next]_vars => Contract!Next \/ UNCHANGED Seen
  <1> SUFFICES ASSUME RInv, [Next]_vars PROVE Contract!Next \/ UNCHANGED Seen
    OBVIOUS
  <1>1. CASE PollerStep
    <2>1. CASE ProcessOrder(Poller)
      BY <2>1, OrderMaps, ProcsFacts
    <2>2. CASE MarkB2B
      BY <2>2, MarkMaps DEF Contract!Next
    <2>3. CASE PushStatus
      BY <2>3, StatusMaps
    <2>4. CASE \/ ScanStatus \/ NextOrder \/ OrdersDone \/ PendingScan \/ PendingNext \/ PendingDone
               \/ UpdateScan \/ UpdateNext \/ UpdatesDone \/ StoreStatus
      BY <2>4, OtherMaps
    <2> QED
      BY <1>1, <2>1, <2>2, <2>3, <2>4 DEF PollerStep
  <1>2. ASSUME NEW p \in Pushers, ProcessOrder(p) PROVE Contract!Next \/ UNCHANGED Seen
    BY <1>2, OrderMaps, ProcsFacts
  <1>3. CASE \E p \in Pushers, o \in Orders : PushBegin(p, o)
    BY <1>3, OtherMaps
  <1>4. CASE Environment \/ UNCHANGED vars
    BY <1>4, OtherMaps
  <1> QED
    BY <1>1, <1>2, <1>3, <1>4 DEF Next

LEMMA InitMaps == Init => Contract!Init
  <1> SUFFICES ASSUME Init PROVE Contract!Init
    OBVIOUS
  <1>1. DOMAIN crm = {} /\ DOMAIN pays = {}
    BY DEF Init
  <1>2. Created = {}
    BY <1>1 DEF Created
  <1>3. PaymentRecords = <<>>
    BY <1>1 DEF PaymentRecords
  <1> QED
    BY <1>2, <1>3 DEF Init, Contract!Init, PaymentRecords

(* The worker, the push handlers, their retries and restarts only ever make   *)
(* the steps of the contract: Sales Orders and Payments of their own order,   *)
(* columns that come to name one's own record and never become empty again.   *)
THEOREM SyncImplementsContract == Spec => ImplementsContract
  <1>1. Init => RInv
    BY InitType, InitBelongs, InitHeld DEF RInv, IInv
  <1>2. UNCHANGED Seen => UNCHANGED Contract!vars
    BY DEF Seen, Contract!vars, PaymentRecords
  <1>3. RInv /\ [Next]_vars => [Contract!Next]_(Contract!vars)
    BY <1>2, StepMaps
  <1> QED
    BY <1>1, <1>3, InitMaps, RInductive, PTL DEF Spec, ImplementsContract, Contract!Spec

-----------------------------------------------------------------------------
(* The worker's worklist *)

PayLabels  == {"payCreate", "payRecord", "payMark"}
SendLabels == {"contact", "resolve", "send"}

(* The worker has an order in hand; it is on the rows of GetNewOrders (its    *)
(* other rows have scan 0).                                                   *)
Working == pc[Poller] \in OrderLabels
Syncing == pc[Poller] \in {"scan", "orders"} \/ (Working /\ job[Poller].scan # 0)

(* Each query of a pass is made once, and the worklist is empty when the next *)
(* pass begins: a row stands for one order found by one query.                *)
RowOK(j) ==
  /\ j.known = NoId
  /\ IF Syncing THEN /\ j.scan \in 1..Len(PolledStatuses)
                     /\ pc[Poller] = "scan" => j.scan < scan
                ELSE j.scan = 0

Worklist ==
  /\ pc[Poller] # "scan" => scan = 1
  /\ pc[Poller] \in {"pendingScan", "updateScan"} => batch = {}
  /\ \A j \in batch : RowOK(j)
  /\ \A j, k \in batch : j.order = k.order /\ j.scan = k.scan => j = k
  /\ Working => /\ job[Poller].known = NoId
                /\ job[Poller].scan = 0 => pc[Poller] \in PayLabels
                /\ job[Poller].scan # 0 => job[Poller].order \notin B2BOrders

(* The way of an order through processOrder and createZohoPayment: it is      *)
(* over, or goes on to a later call with what was read of the row.            *)
Following ==
  [contact |-> {"resolve", "send"}, resolve |-> {"send"}, send |-> {"payCreate", "stamp"},
   payCreate |-> {"payRecord", "payMark", "stamp"}, payRecord |-> {"stamp"},
   payMark |-> {"stamp"}, stamp |-> {"link"}, link |-> {}]

GoesOn(p) ==
  /\ pc'[p] \in Following[pc[p]]
  /\ pc'[p] = "stamp" => p # Poller \/ job[p].scan # 0 \/ pc[p] = "send"
  /\ job'[p].order = job[p].order /\ job'[p].known = job[p].known
  /\ job'[p].scan = job[p].scan /\ job'[p].wf = job[p].wf

LEMMA OneMoves ==
  ASSUME TypeOK, NEW p \in Procs, ProcessOrder(p)
  PROVE  /\ pc[p] \in OrderLabels
         /\ UNCHANGED <<batch, scan, status, wf, gone>>
         /\ \A q \in Procs \ {p} : pc'[q] = pc[q] /\ job'[q] = job[q]
<1>1. pc \in [Procs -> Labels] /\ job \in [Procs -> JobRow]
  BY DEF TypeOK, ControlOK
<1>2. CASE Contact(p) \/ ResolveProducts(p) \/ SendOrder(p) \/ SendFails(p) \/ SendNothing(p)
  BY <1>1, <1>2 DEF Contact, ResolveProducts, SendOrder, SendFails, SendNothing, Finish, Drop,
     Goto, dbVars, crmVars, OrderLabels
<1>3. CASE PayCreate(p) \/ PayRecord(p) \/ PayMark(p) \/ Stamp(p) \/ Link(p)
  BY <1>1, <1>3 DEF PayCreate, PayRecord, PayMark, PaymentReturns, Stamp, Link, Finish, Drop,
     Goto, dbVars, crmVars, OrderLabels
<1> QED BY <1>2, <1>3 DEF ProcessOrder

LEMMA Moves ==
  ASSUME TypeOK, NEW p \in Procs, ProcessOrder(p)
  PROVE  \/ Finish(p) /\ pc[p] \in SendLabels \cup {"link"}
         \/ Drop(p, "pending") /\ p = Poller /\ job[p].scan = 0 /\ pc[p] \in PayLabels
         \/ GoesOn(p)
<1>1. pc \in [Procs -> Labels] /\ job \in [Procs -> JobRow]
  BY DEF TypeOK, ControlOK
<1>2. CASE Contact(p) \/ ResolveProducts(p) \/ SendFails(p) \/ Link(p)
  BY <1>1, <1>2 DEF Contact, ResolveProducts, SendFails, Link, Goto, JobRow,
     GoesOn, Following, SendLabels
<1>3. CASE SendOrder(p)
  <2>1. pc'[p] = AfterSend(job[p]) /\ pc[p] = "send"
    BY <1>1, <1>3 DEF SendOrder, Goto
  <2>2. /\ job'[p].order = job[p].order /\ job'[p].known = job[p].known
        /\ job'[p].scan = job[p].scan /\ job'[p].wf = job[p].wf
    BY <1>1, <1>3 DEF SendOrder, JobRow
  <2> QED BY <2>1, <2>2 DEF AfterSend, GoesOn, Following
<1>4. CASE SendNothing(p)
  BY <1>1, <1>4 DEF SendNothing, AfterSend, Goto, GoesOn, Following
<1>5. CASE PayCreate(p)
  <2>1. pc[p] = "payCreate"
    BY <1>5 DEF PayCreate
  <2>2. CASE PaymentReturns(p)
    BY <1>1, <2>1, <2>2 DEF PaymentReturns, Goto, GoesOn, Following, PayLabels
  <2>3. CASE job' = [job EXCEPT ![p].pay = Len(pays) + 1] /\ Goto(p, "payRecord")
    BY <1>1, <2>1, <2>3 DEF Goto, GoesOn, Following, JobRow
  <2>4. CASE Goto(p, "payMark") /\ UNCHANGED job
    BY <1>1, <2>1, <2>4 DEF Goto, GoesOn, Following
  <2> QED BY <1>5, <2>2, <2>3, <2>4 DEF PayCreate
<1>6. CASE PayRecord(p) \/ PayMark(p)
  BY <1>1, <1>6 DEF PayRecord, PayMark, PaymentReturns, Goto, GoesOn, Following, PayLabels
<1>7. CASE Stamp(p)
  BY <1>1, <1>7 DEF Stamp, Goto, GoesOn, Following
<1> QED BY <1>2, <1>3, <1>4, <1>5, <1>6, <1>7 DEF ProcessOrder

(* Nobody but the worker touches its worklist. *)
LEMMA OthersLeave ==
  ASSUME TypeOK,
         \/ \E p \in Pushers : ProcessOrder(p) \/ \E o \in Orders : PushBegin(p, o)
         \/ Environment /\ ~Crash
         \/ UNCHANGED vars
  PROVE  pc'[Poller] = pc[Poller] /\ job'[Poller] = job[Poller] /\ UNCHANGED <<batch, scan>>
<1>1. ASSUME NEW p \in Pushers, ProcessOrder(p)
      PROVE  pc'[Poller] = pc[Poller] /\ job'[Poller] = job[Poller] /\ UNCHANGED <<batch, scan>>
  BY <1>1, OneMoves, ProcsFacts, SetupAssumption
<1>2. ASSUME NEW p \in Pushers, NEW o \in Orders, PushBegin(p, o)
      PROVE  pc'[Poller] = pc[Poller] /\ job'[Poller] = job[Poller] /\ UNCHANGED <<batch, scan>>
  BY <1>2, ProcsFacts, SetupAssumption DEF PushBegin, Goto, TypeOK, ControlOK
<1>3. CASE (Environment /\ ~Crash) \/ UNCHANGED vars
  BY <1>3 DEF Environment, ShopMoves, WfReports, DaysPass, CatalogAdds, ManagerDeletes, vars, procVars
<1> QED BY <1>1, <1>2, <1>3

LEMMA WorklistFrame ==
  ASSUME Worklist, pc'[Poller] = pc[Poller], job'[Poller] = job[Poller], UNCHANGED <<batch, scan>>
  PROVE  Worklist'
BY DEF Worklist, RowOK, Working, Syncing

LEMMA StatusesFacts ==
  /\ Len(PolledStatuses) = 6 /\ DOMAIN PolledStatuses = 1..6
  /\ \A n, m \in 1..6 : PolledStatuses[n] = PolledStatuses[m] => n = m
BY DEF PolledStatuses

LEMMA WorklistScan == ASSUME TypeOK, Worklist, ScanStatus PROVE Worklist'
<1>1. /\ pc \in [Procs -> Labels] /\ Poller \in Procs /\ UNCHANGED job
      /\ pc[Poller] = "scan" /\ scan \in 1..6
  BY ProcsFacts, StatusesFacts DEF TypeOK, ControlOK, ScanStatus
<1>2. \/ scan < 6 /\ scan' = scan + 1 /\ pc'[Poller] = "scan"
      \/ scan = 6 /\ scan' = 1 /\ pc'[Poller] = "orders"
  BY <1>1, StatusesFacts DEF ScanStatus, Goto
<1>3. Syncing /\ Syncing' /\ ~Working /\ ~Working'
  BY <1>1, <1>2 DEF Syncing, Working, OrderLabels
<1>4. \A j \in batch : RowOK(j)' /\ j.scan < scan /\ j.scan \in 1..6
  BY <1>1, <1>2, <1>3, StatusesFacts DEF Worklist, RowOK
<1>5. ASSUME NEW j \in batch', j \notin batch
      PROVE  RowOK(j)' /\ \E o \in NewOrders(PolledStatuses[scan]) : j = Row(o, scan)
  <2>1. PICK o \in NewOrders(PolledStatuses[scan]) : j = Row(o, scan)
    BY <1>5 DEF ScanStatus
  <2>2. j.known = NoId /\ j.scan = scan
    BY <2>1 DEF Row, NewOrders, Limited
  <2> QED BY <1>1, <1>2, <1>3, <2>1, <2>2, StatusesFacts DEF RowOK
<1>6. ASSUME NEW j \in batch', NEW k \in batch', j.order = k.order, j.scan = k.scan PROVE j = k
  <2>1. CASE j \in batch /\ k \in batch
    BY <1>6, <2>1 DEF Worklist
  <2>2. \A i \in batch' \ batch : i.scan = scan /\ i = Row(i.order, scan)
    BY <1>5 DEF Row
  <2>3. CASE j \notin batch \/ k \notin batch
    BY <1>4, <1>6, <2>2, <2>3
  <2> QED BY <2>1, <2>3
<1> QED BY <1>2, <1>3, <1>4, <1>5, <1>6 DEF Worklist

(* Rows of a batch that is replaced: one of each order, without a scan. *)
LEMMA WorklistFetch ==
  ASSUME TypeOK, Worklist, NEW from, NEW rows \in SUBSET Orders,
         \/ from = "pendingScan" /\ Fetch(from, rows, "pending", "updateScan")
         \/ from = "updateScan" /\ Fetch(from, rows, "updates", "scan")
  PROVE  Worklist'
<1>1. /\ pc \in [Procs -> Labels] /\ Poller \in Procs /\ UNCHANGED <<job, scan>>
      /\ pc[Poller] \in {"pendingScan", "updateScan"} /\ batch = {} /\ scan = 1
  BY ProcsFacts DEF TypeOK, ControlOK, Fetch, Worklist
<1>2. CASE batch' = {[NoJob EXCEPT !.order = o, !.wf = wf[o]] : o \in rows}
           /\ pc'[Poller] \in {"pending", "updates"}
  <2>1. \A j \in batch' : /\ j.scan = 0 /\ j.known = NoId
                            /\ j = [NoJob EXCEPT !.order = j.order, !.wf = wf[j.order]]
    BY <1>2 DEF NoJob
  <2>2. ~Syncing' /\ ~Working'
    BY <1>2 DEF Syncing, Working, OrderLabels
  <2>3. \A j \in batch' : RowOK(j)'
    BY <2>1, <2>2 DEF RowOK
  <2>4. \A j, k \in batch' : j.order = k.order => j = k
    BY <2>1
  <2> QED BY <1>1, <1>2, <2>2, <2>3, <2>4 DEF Worklist
<1>3. CASE batch' = {} /\ pc'[Poller] \in {"updateScan", "scan"}
  BY <1>1, <1>3 DEF Worklist, Working, OrderLabels
<1> QED BY <1>1, <1>2, <1>3 DEF Fetch, Goto

LEMMA WorklistNext ==
  ASSUME TypeOK, Worklist,
         MarkB2B \/ NextOrder \/ OrdersDone \/ PendingNext \/ PendingDone \/ UpdateNext \/ UpdatesDone
  PROVE  Worklist'
<1>0. pc \in [Procs -> Labels] /\ job \in [Procs -> JobRow] /\ Poller \in Procs
      /\ UNCHANGED scan /\ pc[Poller] # "scan"
  BY ProcsFacts DEF TypeOK, ControlOK, MarkB2B, NextOrder, OrdersDone, PendingNext, PendingDone,
     UpdateNext, UpdatesDone
<1>1. CASE MarkB2B
  BY <1>0, <1>1 DEF MarkB2B, Worklist, RowOK, Syncing, Working, OrderLabels
<1>2. CASE NextOrder
  <2>1. PICK j \in batch : /\ j.order \notin B2BOrders /\ batch' = batch \ {j}
                           /\ job' = [job EXCEPT ![Poller] = [j EXCEPT !.known = NoId]]
                           /\ pc' = [pc EXCEPT ![Poller] = "contact"]
    BY <1>2 DEF NextOrder, Goto
  <2>2. Syncing /\ j \in JobRow /\ RowOK(j)
    BY <1>2 DEF NextOrder, Syncing, TypeOK, ControlOK, Worklist
  <2>3. job'[Poller].known = NoId /\ job'[Poller].order = j.order /\ job'[Poller].scan = j.scan
        /\ j.scan # 0
    BY <1>0, <2>1, <2>2, StatusesFacts DEF JobRow, RowOK
  <2>4. pc'[Poller] = "contact" /\ Working' /\ Syncing'
    BY <1>0, <2>1, <2>3 DEF Working, Syncing, OrderLabels
  <2>5. \A k \in batch' : RowOK(k)'
    BY <2>1, <2>2, <2>4 DEF Worklist, RowOK
  <2>6. batch' \subseteq batch
    BY <2>1
  <2> QED BY <1>0, <2>1, <2>3, <2>4, <2>5, <2>6 DEF Worklist
<1>3. CASE OrdersDone \/ PendingDone \/ UpdatesDone
  <2>1. batch' = {} /\ pc'[Poller] \in {"pendingScan", "updateScan", "scan"}
    BY <1>0, <1>3 DEF OrdersDone, PendingDone, UpdatesDone, Goto
  <2> QED BY <1>0, <2>1 DEF Worklist, Working, OrderLabels
<1>4. CASE PendingNext
  <2>1. /\ pc[Poller] = "pending" /\ batch' \subseteq batch
        /\ \/ UNCHANGED <<pc, job>>
           \/ pc'[Poller] = "payCreate" /\ \E j \in batch, n \in Nat :
                                             job' = [job EXCEPT ![Poller] = [j EXCEPT !.so = n]]
    <3>1. pc[Poller] = "pending" /\ batch' \subseteq batch
      BY <1>4 DEF PendingNext
    <3>2. CASE UNCHANGED <<pc, job>>
      BY <3>1, <3>2
    <3>3. CASE \E j \in batch : /\ ZohoOrderExists(zohoId[j.order]) /\ Goto(Poller, "payCreate")
                                /\ job' = [job EXCEPT ![Poller] = [j EXCEPT !.so = zohoId[j.order]]]
      <4>1. PICK j \in batch : /\ ZohoOrderExists(zohoId[j.order]) /\ Goto(Poller, "payCreate")
                               /\ job' = [job EXCEPT ![Poller] = [j EXCEPT !.so = zohoId[j.order]]]
        BY <3>3
      <4>2. zohoId[j.order] \in Nat
        BY <4>1 DEF TypeOK, ControlOK, ZohoOrderExists
      <4>3. pc'[Poller] = "payCreate"
        BY <1>0, <4>1 DEF Goto
      <4> QED BY <3>1, <4>1, <4>2, <4>3
    <3> QED BY <1>4, <3>1, <3>2, <3>3 DEF PendingNext
  <2>2. ~Syncing /\ \A j \in batch : j \in JobRow /\ j.scan = 0 /\ j.known = NoId
    <3>1. ~Syncing
      BY <2>1 DEF Syncing, Working, OrderLabels
    <3> QED BY <3>1 DEF Worklist, RowOK, TypeOK, ControlOK
  <2>3. CASE UNCHANGED <<pc, job>>
    BY <1>0, <2>1, <2>2, <2>3 DEF Worklist, RowOK, Syncing, Working
  <2>4. CASE /\ pc'[Poller] = "payCreate"
             /\ \E j \in batch, n \in Nat : job' = [job EXCEPT ![Poller] = [j EXCEPT !.so = n]]
    <3>1. job'[Poller].scan = 0 /\ job'[Poller].known = NoId
      BY <1>0, <2>2, <2>4 DEF JobRow
    <3>2. ~Syncing' /\ "payCreate" \in PayLabels
      BY <2>4, <3>1 DEF Syncing, Working, PayLabels
    <3> QED BY <1>0, <2>1, <2>2, <2>4, <3>1, <3>2 DEF Worklist, RowOK
  <2> QED BY <2>1, <2>3, <2>4
<1>5. CASE UpdateNext
  <2>1. pc[Poller] = "updates" /\ pc'[Poller] \in {"updates", "pushStatus"} /\ batch' \subseteq batch
    BY <1>0, <1>5 DEF UpdateNext, Goto
  <2>2. ~Syncing /\ ~Syncing' /\ ~Working'
    BY <2>1 DEF Syncing, Working, OrderLabels
  <2> QED BY <1>0, <2>1, <2>2 DEF Worklist, RowOK
<1> QED BY <1>1, <1>2, <1>3, <1>4, <1>5

LEMMA WorklistProcess ==
  ASSUME TypeOK, Worklist, ProcessOrder(Poller) \/ PushStatus \/ StoreStatus
  PROVE  Worklist'
<1>0. pc \in [Procs -> Labels] /\ job \in [Procs -> JobRow] /\ Poller \in Procs
  BY ProcsFacts DEF TypeOK, ControlOK
<1>1. CASE ProcessOrder(Poller)
  <2>1. Working /\ UNCHANGED <<batch, scan>> /\ scan = 1
    BY <1>0, <1>1, OneMoves DEF Working, OrderLabels, Worklist
  <2>2. \/ pc'[Poller] = "orders" /\ job[Poller].scan # 0
        \/ pc'[Poller] = "pending" /\ job[Poller].scan = 0
        \/ GoesOn(Poller)
    BY <1>0, <1>1, <2>1, Moves DEF Finish, Drop, Goto, Worklist, SendLabels, PayLabels
  <2>3. Syncing' <=> Syncing
    <3>1. CASE pc'[Poller] = "orders" /\ job[Poller].scan # 0
      BY <2>1, <3>1 DEF Syncing, Working
    <3>2. CASE pc'[Poller] = "pending" /\ job[Poller].scan = 0
      BY <2>1, <3>2 DEF Syncing, Working, OrderLabels
    <3>3. CASE GoesOn(Poller)
      BY <2>1, <3>3 DEF Syncing, Working, OrderLabels, GoesOn, Following
    <3> QED BY <2>2, <3>1, <3>2, <3>3
  <2>4. pc'[Poller] \notin {"scan", "pendingScan", "updateScan"} /\ pc[Poller] # "scan"
    BY <2>1, <2>2 DEF GoesOn, Following, Working, OrderLabels
  <2>5. Working' => /\ job'[Poller].known = NoId
                    /\ job'[Poller].scan = 0 => pc'[Poller] \in PayLabels
                    /\ job'[Poller].scan # 0 => job'[Poller].order \notin B2BOrders
    <3>1. CASE ~GoesOn(Poller)
      BY <2>2, <3>1 DEF Working, OrderLabels
    <3>2. CASE GoesOn(Poller)
      BY <2>1, <3>2 DEF GoesOn, Following, Worklist, PayLabels, Working, OrderLabels
    <3> QED BY <3>1, <3>2
  <2> QED BY <2>1, <2>3, <2>4, <2>5 DEF Worklist, RowOK
<1>2. CASE PushStatus \/ StoreStatus
  <2>1. /\ pc[Poller] \in {"pushStatus", "storeStatus"} /\ pc'[Poller] \in {"storeStatus", "updates"}
        /\ UNCHANGED <<batch, scan>>
    BY <1>0, <1>2 DEF PushStatus, StoreStatus, Drop, Goto
  <2>2. ~Syncing /\ ~Syncing' /\ ~Working'
    BY <2>1 DEF Syncing, Working, OrderLabels
  <2> QED BY <2>1, <2>2 DEF Worklist, RowOK
<1> QED BY <1>1, <1>2

LEMMA WorklistStep == TypeOK /\ Worklist /\ [Next]_vars => Worklist'
<1> SUFFICES ASSUME TypeOK, Worklist, [Next]_vars PROVE Worklist'
  OBVIOUS
<1>1. CASE PollerStep
  <2>1. OrdersPendingPayment \subseteq Orders /\ OrdersPendingPaymentUpdate \subseteq Orders
    BY DEF OrdersPendingPayment, OrdersPendingPaymentUpdate, Limited
  <2> QED BY <1>1, <2>1, WorklistScan, WorklistFetch, WorklistNext, WorklistProcess
          DEF PollerStep, PendingScan, UpdateScan
<1>2. CASE Crash
  <2>1. pc'[Poller] = "scan" /\ batch' = {} /\ scan' = 1
    BY <1>2, ProcsFacts DEF Crash
  <2> QED BY <2>1 DEF Worklist, Working, OrderLabels
<1> QED BY <1>1, <1>2, OthersLeave, WorklistFrame DEF Next

LEMMA InitWorklist == Init => Worklist
BY ProcsFacts DEF Init, Worklist, Working, OrderLabels

(* Whatever a step does, it spends at most one disturbance. *)
LEMMA OneSpends ==
  [Next]_vars => UNCHANGED used \/ \E k \in Disturbances : Spend(k)
<1> SUFFICES ASSUME [Next]_vars PROVE UNCHANGED used \/ \E k \in Disturbances : Spend(k)
  OBVIOUS
<1>1. ASSUME NEW p \in Procs, ProcessOrder(p)
      PROVE  UNCHANGED used \/ Spend("fault")
  <2>1. CASE Contact(p) \/ ResolveProducts(p) \/ SendOrder(p) \/ SendFails(p) \/ SendNothing(p)
    BY <2>1 DEF Contact, ResolveProducts, SendOrder, SendFails, SendNothing
  <2>2. CASE PayCreate(p) \/ PayRecord(p) \/ PayMark(p) \/ Stamp(p) \/ Link(p)
    BY <2>2 DEF PayCreate, PayRecord, PayMark, Stamp, Link
  <2> QED BY <1>1, <2>1, <2>2 DEF ProcessOrder
<1>2. CASE PollerStep
  <2>1. CASE ProcessOrder(Poller)
    BY <1>1, <2>1, ProcsFacts
  <2>2. CASE ~ProcessOrder(Poller)
    BY <1>2, <2>2, ProcsFacts DEF PollerStep, ScanStatus, MarkB2B, NextOrder, OrdersDone, PendingScan,
       PendingNext, PendingDone, UpdateScan, UpdateNext, UpdatesDone, PushStatus, StoreStatus, Fetch
  <2> QED BY <2>1, <2>2
<1>3. CASE Environment
  BY <1>3, ProcsFacts DEF Environment, ShopMoves, WfReports, DaysPass, CatalogAdds, ManagerDeletes, Crash
<1>4. ASSUME NEW p \in Pushers, NEW o \in Orders, PushBegin(p, o) PROVE Spend("push")
  BY <1>4 DEF PushBegin
<1>5. UNCHANGED vars => UNCHANGED used
  BY DEF vars
<1> QED BY <1>1, <1>2, <1>3, <1>4, <1>5, ProcsFacts DEF Next

LEMMA WorkerMoves ==
  ASSUME TypeOK, PollerStep
  PROVE  \A q \in Pushers : pc'[q] = pc[q] /\ job'[q] = job[q]
<1>1. /\ pc \in [Procs -> Labels] /\ job \in [Procs -> JobRow]
      /\ \A q \in Pushers : q \in Procs \ {Poller}
  BY ProcsFacts, SetupAssumption DEF TypeOK, ControlOK
<1>2. CASE ProcessOrder(Poller)
  BY <1>1, <1>2, OneMoves, ProcsFacts
<1>3. CASE ~ProcessOrder(Poller)
  BY <1>1, <1>3 DEF PollerStep, ScanStatus, MarkB2B, NextOrder, OrdersDone, PendingScan,
     PendingNext, PendingDone, UpdateScan, UpdateNext, UpdatesDone, PushStatus, StoreStatus,
     Fetch, Goto, Drop
<1> QED BY <1>2, <1>3

-----------------------------------------------------------------------------
(* A worker that is alone *)

(* No push request came so far, and the shop moved no order to another status. *)
Calm == used["push"] = 0 /\ used["move"] = 0

Idle(p) == pc[p] = "idle"

(* Then the worklist has one row for an order, found under the status the     *)
(* order has, and the order has no zoho_id until it is dealt with.            *)
CalmRow(j) ==
  /\ status[j.order] = PolledStatuses[j.scan]
  /\ zohoId[j.order] = NoId
  /\ Working => j.order # job[Poller].order

CalmInv ==
  Calm => /\ \A p \in Pushers : Idle(p)
          /\ Syncing => \A j \in batch : CalmRow(j)
          /\ Syncing /\ Working => zohoId[job[Poller].order] = NoId

LEMMA CalmOnes ==
  ASSUME TypeOK, [Next]_vars, Calm'
  PROVE  Calm /\ ~(\E p \in Pushers, o \in Orders : PushBegin(p, o))
              /\ ~(\E o \in Orders, s \in Statuses : ShopMoves(o, s))
<1>0. used \in [Disturbances -> Nat] /\ {"push", "move"} \subseteq Disturbances
  BY ProcsFacts DEF TypeOK
<1>1. \A k \in {"push", "move"} : Spend(k) => used'[k] # 0
  BY <1>0 DEF Spend
<1>2. \A k \in Disturbances : Spend(k) => \A i \in {"push", "move"} : used'[i] = 0 => used[i] = 0
  BY <1>0 DEF Spend
<1>3. (\E k \in Disturbances : Spend(k)) \/ UNCHANGED used
  BY ProcsFacts, OneSpends
<1> QED BY <1>1, <1>2, <1>3 DEF Calm, PushBegin, ShopMoves

LEMMA OneRow ==
  ASSUME TypeOK, Worklist, CalmInv, Calm, Syncing, NEW j \in batch, NEW k \in batch, j.order = k.order
  PROVE  j = k
BY StatusesFacts DEF Worklist, RowOK, CalmInv, CalmRow

(* The worker's place and worklist, and the columns, are as they were. *)
LEMMA CalmFrame ==
  ASSUME CalmInv, Calm, pc'[Poller] = pc[Poller], job'[Poller] = job[Poller],
         UNCHANGED <<zohoId, status>>, batch' \subseteq batch, \A p \in Pushers : pc'[p] = pc[p]
  PROVE  CalmInv'
BY DEF CalmInv, CalmRow, Syncing, Working, Idle

(* It is elsewhere: not on rows of GetNewOrders, or at the start of a pass. *)
LEMMA CalmElsewhere ==
  ASSUME CalmInv, Calm, \A p \in Pushers : pc'[p] = pc[p],
         ~Syncing' \/ (batch' = {} /\ ~Working')
  PROVE  CalmInv'
BY DEF CalmInv, Idle

(* It moves on with the order it has, which keeps its column. *)
LEMMA CalmGoesOn ==
  ASSUME CalmInv, Calm, \A p \in Pushers : pc'[p] = pc[p],
         Syncing' => Syncing, Working' => Working,
         Working' => job'[Poller].order = job[Poller].order,
         UNCHANGED <<zohoId, status, batch>>
  PROVE  CalmInv'
BY DEF CalmInv, CalmRow, Idle

LEMMA CalmWorker ==
  ASSUME TypeOK, Worklist, CalmInv, Calm, PollerStep
  PROVE  CalmInv'
<1>0. /\ pc \in [Procs -> Labels] /\ job \in [Procs -> JobRow] /\ Poller \in Procs
      /\ \A q \in Pushers : pc'[q] = pc[q]
  BY WorkerMoves, ProcsFacts DEF TypeOK, ControlOK
<1>1. CASE ScanStatus
  <2>1. /\ pc[Poller] = "scan" /\ pc'[Poller] \in {"scan", "orders"} /\ UNCHANGED <<zohoId, status>>
        /\ scan \in 1..6
    BY <1>0, <1>1, StatusesFacts DEF ScanStatus, Goto, dbVars, TypeOK, ControlOK
  <2>2. Syncing /\ ~Working /\ ~Working'
    BY <2>1 DEF Syncing, Working, OrderLabels
  <2>3. ASSUME NEW j \in batch' PROVE CalmRow(j)'
    <3>1. CASE j \in batch
      BY <2>1, <2>2, <3>1 DEF CalmInv, CalmRow
    <3>2. CASE j \notin batch
      <4>1. PICK o \in NewOrders(PolledStatuses[scan]) : j = Row(o, scan)
        BY <1>1, <3>2 DEF ScanStatus
      <4>2. j.order = o /\ j.scan = scan /\ status[o] = PolledStatuses[scan] /\ zohoId[o] = NoId
        BY <4>1 DEF Row, NewOrders, Limited
      <4> QED BY <2>1, <2>2, <4>2 DEF CalmRow
    <3> QED BY <3>1, <3>2
  <2> QED BY <1>0, <2>2, <2>3 DEF CalmInv, Idle
<1>2. CASE MarkB2B
  <2>1. PICK j \in batch : /\ batch' = batch \ {j} /\ UNCHANGED <<pc, job, status>>
                           /\ \A o \in Orders \ {j.order} : zohoId'[o] = zohoId[o]
    BY <1>2 DEF MarkB2B, TypeOK
  <2>2. Syncing /\ ~Working
    BY <1>2 DEF MarkB2B, Syncing, Working, OrderLabels
  <2>3. \A k \in batch' : k.order \in Orders \ {j.order}
    BY <2>1, <2>2, OneRow DEF TypeOK, ControlOK
  <2>4. \A k \in batch' : CalmRow(k)'
    BY <2>1, <2>2, <2>3 DEF CalmInv, CalmRow, Working
  <2> QED BY <1>0, <2>1, <2>2, <2>4 DEF CalmInv, Idle, Working
<1>3. CASE NextOrder
  <2>1. PICK j \in batch : /\ batch' = batch \ {j} /\ UNCHANGED <<zohoId, status>>
                           /\ job' = [job EXCEPT ![Poller] = [j EXCEPT !.known = NoId]]
                           /\ pc' = [pc EXCEPT ![Poller] = "contact"]
    BY <1>3 DEF NextOrder, Goto, dbVars
  <2>2. Syncing /\ ~Working
    BY <1>3 DEF NextOrder, Syncing, Working, OrderLabels
  <2>3. j \in JobRow
    BY DEF TypeOK, ControlOK
  <2>4. job'[Poller].order = j.order
    BY <1>0, <2>1, <2>3 DEF JobRow
  <2>5. \A k \in batch' : k.order # j.order
    BY <2>1, <2>2, OneRow
  <2>6. \A k \in batch' : CalmRow(k)'
    BY <2>1, <2>2, <2>4, <2>5 DEF CalmInv, CalmRow
  <2> QED BY <1>0, <2>1, <2>2, <2>4, <2>6 DEF CalmInv, CalmRow, Idle
<1>4. CASE OrdersDone \/ PendingScan \/ PendingDone \/ UpdateScan \/ UpdatesDone
  <2>1. ~Working' /\ (~Syncing' \/ batch' = {})
    BY <1>0, <1>4 DEF OrdersDone, PendingScan, PendingDone, UpdateScan, UpdatesDone, Fetch, Goto,
       Worklist, Syncing, Working, OrderLabels
  <2> QED BY <1>0, <2>1, CalmElsewhere
<1>5. CASE PendingNext
  <2>1. /\ pc[Poller] = "pending"
        /\ \/ UNCHANGED <<pc, job>>
           \/ \E j \in batch : \E n : job' = [job EXCEPT ![Poller] = [j EXCEPT !.so = n]]
    BY <1>5 DEF PendingNext
  <2>2. ~Syncing /\ ~Working /\ \A j \in batch : j.scan = 0 /\ j \in JobRow
    <3>1. ~Syncing /\ ~Working
      BY <2>1 DEF Syncing, Working, OrderLabels
    <3> QED BY <3>1 DEF Worklist, RowOK, TypeOK, ControlOK
  <2>3. CASE UNCHANGED <<pc, job>>
    BY <1>0, <2>2, <2>3, CalmElsewhere DEF Syncing, Working
  <2>4. CASE \E j \in batch : \E n : job' = [job EXCEPT ![Poller] = [j EXCEPT !.so = n]]
    <3>1. job'[Poller].scan = 0
      BY <1>0, <2>2, <2>4 DEF JobRow
    <3>2. pc'[Poller] \notin {"scan", "orders"}
      BY <1>0, <1>5 DEF PendingNext, Goto
    <3> QED BY <1>0, <3>1, <3>2, CalmElsewhere DEF Syncing
  <2> QED BY <2>1, <2>3, <2>4
<1>6. CASE UpdateNext \/ PushStatus \/ StoreStatus
  <2>1. pc'[Poller] \in {"updates", "pushStatus", "storeStatus"}
    BY <1>0, <1>6 DEF UpdateNext, PushStatus, StoreStatus, Drop, Goto
  <2>2. ~Syncing'
    BY <2>1 DEF Syncing, Working, OrderLabels
  <2> QED BY <1>0, <2>2, CalmElsewhere
<1>7. CASE ProcessOrder(Poller)
  <2>1. Working /\ UNCHANGED <<batch, scan, status>>
    BY <1>0, <1>7, OneMoves DEF Working
  <2>2. \/ pc'[Poller] = "orders" /\ job[Poller].scan # 0
        \/ pc'[Poller] = "pending"
        \/ GoesOn(Poller)
    <3>1. Finish(Poller) /\ pc[Poller] \in SendLabels \cup {"link"} => job[Poller].scan # 0
      BY <2>1 DEF Worklist, SendLabels, PayLabels
    <3>2. Finish(Poller) => pc'[Poller] = "orders"
      BY <1>0 DEF Finish, Drop, Goto
    <3>3. Drop(Poller, "pending") => pc'[Poller] = "pending"
      BY <1>0 DEF Drop, Goto
    <3> QED BY <1>0, <1>7, <3>1, <3>2, <3>3, Moves
  <2>3. Working' => job'[Poller].order = job[Poller].order
    BY <2>2 DEF Working, OrderLabels, GoesOn
  <2>4. Syncing' => Syncing
    BY <2>1, <2>2 DEF Syncing, Working, OrderLabels, GoesOn, Following
  <2>5. CASE UNCHANGED zohoId
    BY <1>0, <2>1, <2>3, <2>4, <2>5, CalmGoesOn
  <2>6. CASE Link(Poller)
    <3>1. pc[Poller] = "link" /\ pc'[Poller] = "orders" /\ \A o \in Orders \ {job[Poller].order} : zohoId'[o] = zohoId[o]
      BY <1>0, <2>6 DEF Link, Finish, Drop, Goto, TypeOK
    <3>2. Syncing
      BY <3>1, <2>1 DEF Worklist, Syncing, PayLabels
    <3>3. ~Working'
      BY <3>1 DEF Working, OrderLabels
    <3>4. \A k \in batch : k.order \in Orders \ {job[Poller].order} /\ CalmRow(k)
      BY <2>1, <3>2 DEF CalmInv, CalmRow, TypeOK, ControlOK
    <3>5. \A k \in batch' : CalmRow(k)'
      BY <2>1, <3>1, <3>3, <3>4 DEF CalmRow
    <3> QED BY <1>0, <3>3, <3>5 DEF CalmInv, Idle
  <2> QED BY <1>7, <2>5, <2>6 DEF ProcessOrder, Contact, ResolveProducts, SendOrder, SendFails,
          SendNothing, PayCreate, PayRecord, PayMark, Stamp, dbVars
<1> QED BY <1>1, <1>2, <1>3, <1>4, <1>5, <1>6, <1>7 DEF PollerStep

LEMMA CalmStep == TypeOK /\ Worklist /\ CalmInv /\ [Next]_vars => CalmInv'
<1> SUFFICES ASSUME TypeOK, Worklist, CalmInv, [Next]_vars, Calm' PROVE CalmInv'
  BY DEF CalmInv
<1>1. /\ Calm
      /\ ~(\E p \in Pushers, o \in Orders : PushBegin(p, o))
      /\ ~(\E o \in Orders, s \in Statuses : ShopMoves(o, s))
  BY CalmOnes
<1>2. ~(\E p \in Pushers : ProcessOrder(p))
  <2> SUFFICES ASSUME NEW p \in Pushers, ProcessOrder(p) PROVE FALSE
    OBVIOUS
  <2>1. pc[p] \in OrderLabels
    BY OneMoves, ProcsFacts
  <2> QED BY <1>1, <2>1 DEF CalmInv, Idle, OrderLabels
<1>3. CASE PollerStep
  BY <1>1, <1>3, CalmWorker
<1>4. CASE Crash
  <2>1. \A p \in Pushers : pc'[p] = "idle"
    BY <1>4, ProcsFacts, SetupAssumption DEF Crash
  <2>2. pc'[Poller] = "scan" /\ batch' = {}
    BY <1>4, ProcsFacts DEF Crash
  <2> QED BY <2>1, <2>2 DEF CalmInv, Idle, Working, OrderLabels
<1>5. CASE (Environment /\ ~Crash) \/ UNCHANGED vars
  <2>1. pc'[Poller] = pc[Poller] /\ job'[Poller] = job[Poller] /\ UNCHANGED batch
    BY <1>5, OthersLeave
  <2>2. UNCHANGED <<zohoId, status, pc>>
    BY <1>1, <1>5 DEF Environment, WfReports, DaysPass, CatalogAdds, ManagerDeletes, vars, dbVars, procVars
  <2> QED BY <1>1, <2>1, <2>2, CalmFrame
<1> QED BY <1>1, <1>2, <1>3, <1>4, <1>5 DEF Next

LEMMA InitCalm == Init => CalmInv
BY SetupAssumption, ProcsFacts DEF Init, CalmInv, Idle, Working, OrderLabels

(* Only MarkB2B and Link write zoho_id, and an order the worker has yet to    *)
(* deal with has none.                                                        *)
LEMMA CalmLinks ==
  TypeOK /\ Worklist /\ CalmInv /\ [Next]_vars =>
    (Calm' => \A o \in Orders : zohoId[o] # NoId => zohoId'[o] = zohoId[o])
<1> SUFFICES ASSUME TypeOK, Worklist, CalmInv, [Next]_vars, Calm',
                    NEW o \in Orders, zohoId'[o] # zohoId[o]
             PROVE  zohoId[o] = NoId
  OBVIOUS
<1>1. Calm /\ ~(\E p \in Pushers, q \in Orders : PushBegin(p, q))
  BY CalmOnes
<1>2. ~(\E p \in Pushers : ProcessOrder(p))
  <2> SUFFICES ASSUME NEW p \in Pushers, ProcessOrder(p) PROVE FALSE
    OBVIOUS
  <2>1. pc[p] \in OrderLabels
    BY OneMoves, ProcsFacts
  <2> QED BY <1>1, <2>1 DEF CalmInv, Idle, OrderLabels
<1>3. CASE MarkB2B
  <2>1. PICK j \in batch : zohoId' = [zohoId EXCEPT ![j.order] = B2bId] \/ UNCHANGED zohoId
    BY <1>3 DEF MarkB2B
  <2>2. Syncing
    BY <1>3 DEF MarkB2B, Syncing
  <2> QED BY <1>1, <2>1, <2>2 DEF CalmInv, CalmRow, TypeOK
<1>4. CASE Link(Poller)
  <2>1. pc[Poller] = "link" /\ job[Poller].order = o
    BY <1>4 DEF Link, TypeOK
  <2>2. Syncing /\ Working
    BY <2>1 DEF Worklist, Syncing, Working, PayLabels, OrderLabels
  <2> QED BY <1>1, <2>1, <2>2 DEF CalmInv
<1>5. CASE ProcessOrder(Poller) /\ ~Link(Poller)
  BY <1>5 DEF ProcessOrder, Contact, ResolveProducts, SendOrder, SendFails,
     SendNothing, PayCreate, PayRecord, PayMark, Stamp, dbVars
<1>6. CASE PollerStep /\ ~ProcessOrder(Poller) /\ ~MarkB2B
  BY <1>6 DEF PollerStep, ScanStatus, NextOrder, OrdersDone, PendingScan, PendingNext, PendingDone,
     UpdateScan, UpdateNext, UpdatesDone, PushStatus, StoreStatus, Fetch, dbVars
<1>7. CASE Environment \/ UNCHANGED vars
  BY <1>7 DEF Environment, ShopMoves, WfReports, DaysPass, CatalogAdds, ManagerDeletes, Crash, vars, dbVars
<1> QED BY <1>1, <1>2, <1>3, <1>4, <1>5, <1>6, <1>7 DEF Next

(* A zoho_id, once stored, can only be replaced by a push handler, or after   *)
(* the shop moved an order during a pass of GetNewOrders: failures, restarts  *)
(* and deletions in Zoho alone never make the worker link an order again.     *)
THEOREM RelinkNeedsPushOrMove ==
  Spec => [][Calm' => \A o \in Orders : zohoId[o] # NoId => zohoId'[o] = zohoId[o]]_zohoId
<1>1. Spec => [](TypeOK /\ Worklist /\ CalmInv)
  BY InitType, InitWorklist, InitCalm, TypeStep, WorklistStep, CalmStep, PTL DEF Spec
<1>2. TypeOK /\ Worklist /\ CalmInv /\ [Next]_vars =>
        [Calm' => \A o \in Orders : zohoId[o] # NoId => zohoId'[o] = zohoId[o]]_zohoId
  BY CalmLinks
<1> QED BY <1>1, <1>2, PTL DEF Spec

(* The same where no push requests are made and the shop moves no order.      *)
THEOREM LinkedForGood ==
  Budget["push"] = 0 /\ Budget["move"] = 0 => (Spec => NeverRelinked)
<1> SUFFICES ASSUME Budget["push"] = 0, Budget["move"] = 0 PROVE Spec => NeverRelinked
  OBVIOUS
<1>1. Init => Calm
  BY DEF Init, Calm, Disturbances
<1>2. TypeOK /\ Calm /\ [Next]_vars => Calm'
  <2> SUFFICES ASSUME TypeOK, Calm, [Next]_vars PROVE Calm'
    OBVIOUS
  <2>1. used \in [Disturbances -> Nat]
    BY DEF TypeOK
  <2>2. ~Spend("push") /\ ~Spend("move")
    BY DEF Calm, Spend
  <2>3. \A k \in Disturbances \ {"push", "move"} : Spend(k) => Calm'
    BY <2>1 DEF Calm, Spend
  <2>4. UNCHANGED used => Calm'
    BY DEF Calm
  <2> QED BY <2>2, <2>3, <2>4, OneSpends
<1>3. Spec => []Calm
  BY <1>1, <1>2, TypeCorrect, PTL DEF Spec
<1>4. Spec => [](TypeOK /\ Worklist /\ CalmInv)
  BY InitType, InitWorklist, InitCalm, TypeStep, WorklistStep, CalmStep, PTL DEF Spec
<1>5. TypeOK /\ Worklist /\ CalmInv /\ Calm' /\ [Next]_vars =>
        [\A o \in Orders : zohoId[o] # NoId => zohoId'[o] = zohoId[o]]_zohoId
  BY CalmLinks
<1> QED BY <1>3, <1>4, <1>5, PTL DEF Spec, NeverRelinked

-----------------------------------------------------------------------------
(* The payment a row names *)

(* Nor has any call failed. *)
Quiet == Calm /\ used["fault"] = 0

(* The worker is on the rows of OrdersPendingPayment. *)
Paying == pc[Poller] = "pending" \/ (Working /\ job[Poller].scan = 0)

(* An order with a payment had payment data when its row was read; a row read *)
(* without is of an order that has none.                                      *)
QuietRow(j) ==
  /\ j.wf # NoWf => wf[j.order] # NoWf
  /\ Syncing /\ j.wf = NoWf => payId[j.order] = NoId
  /\ Paying => j.wf # NoWf

(* An order that is sent again after a restart gets a payment again, so that  *)
(* the old one is no longer named when the new Sales Order comes to be.       *)
QuietOrder(j, l) ==
  /\ j.wf # NoWf => wf[j.order] # NoWf
  /\ l \in PayLabels => j.wf # NoWf
  /\ j.scan = 0 => zohoId[j.order] = j.so
  /\ l \in SendLabels /\ j.wf = NoWf => payId[j.order] = NoId
  /\ l = "payRecord" => pays[j.pay].sells = j.so
  /\ l \in {"stamp", "link"} /\ payId[j.order] \notin {NoId, ErrId}
       => pays[payId[j.order]].sells = j.so

QuietInv ==
  Quiet => /\ PaymentOnItsSale
           /\ \A o \in Orders : payId[o] # NoId => wf[o] # NoWf
           /\ \A j \in batch : QuietRow(j)
           /\ Working => QuietOrder(job[Poller], pc[Poller])

LEMMA QuietOnes ==
  ASSUME TypeOK, [Next]_vars, Quiet'
  PROVE  Quiet /\ ~Spend("fault")
<1>1. used \in [Disturbances -> Nat] /\ {"fault"} \subseteq Disturbances
  BY ProcsFacts DEF TypeOK
<1>2. ~Spend("fault")
  BY <1>1 DEF Spend, Quiet
<1>3. \A k \in Disturbances : Spend(k) => used["fault"] = 0
  BY <1>1 DEF Spend, Quiet
<1>4. UNCHANGED used => used["fault"] = 0
  BY DEF Quiet
<1> QED BY <1>2, <1>3, <1>4, OneSpends, CalmOnes DEF Quiet

(* A payment stays where it is and keeps its Sales Order. *)
LEMMA PaysKept ==
  ASSUME TypeOK, [Next]_vars
  PROVE  \A i \in DOMAIN pays : i \in DOMAIN pays' /\ pays'[i].sells = pays[i].sells
<1>1. CASE UNCHANGED pays
  BY <1>1
<1>2. ASSUME NEW r, pays' = Append(pays, r)
      PROVE  \A i \in DOMAIN pays : i \in DOMAIN pays' /\ pays'[i].sells = pays[i].sells
  BY <1>2 DEF TypeOK
<1>3. ASSUME NEW n, NEW s, pays' = [pays EXCEPT ![n].status = s]
      PROVE  \A i \in DOMAIN pays : i \in DOMAIN pays' /\ pays'[i].sells = pays[i].sells
  <2>1. \A i \in DOMAIN pays : pays[i] \in PayRow
    BY DEF TypeOK
  <2> QED BY <1>3, <2>1 DEF PayRow
<1>4. ASSUME NEW p \in Procs, ProcessOrder(p)
      PROVE  UNCHANGED pays \/ \E r : pays' = Append(pays, r)
  BY <1>4 DEF ProcessOrder, Contact, ResolveProducts, SendOrder, SendFails, SendNothing,
     PayCreate, PayRecord, PayMark, Stamp, Link, crmVars
<1>5. CASE PushStatus
  BY <1>1, <1>3, <1>5 DEF PushStatus
<1>6. CASE PollerStep /\ ~ProcessOrder(Poller) /\ ~PushStatus
  BY <1>1, <1>6 DEF PollerStep, ScanStatus, MarkB2B, NextOrder, OrdersDone, PendingScan, PendingNext,
     PendingDone, UpdateScan, UpdateNext, UpdatesDone, StoreStatus, Fetch, crmVars
<1>7. CASE Environment \/ UNCHANGED vars
  BY <1>1, <1>7 DEF Environment, ShopMoves, WfReports, DaysPass, CatalogAdds, ManagerDeletes, Crash, vars, crmVars
<1>8. ASSUME NEW p \in Pushers, NEW o \in Orders, PushBegin(p, o) PROVE UNCHANGED pays
  BY <1>8 DEF PushBegin, crmVars
<1> QED BY <1>1, <1>2, <1>4, <1>5, <1>6, <1>7, <1>8, ProcsFacts DEF Next

(* No column that matters is written, and the rows stay what they were. *)
LEMMA QuietFrame ==
  ASSUME TypeOK, RecordsBelong, [Next]_vars, QuietInv, Quiet,
         UNCHANGED payId, \A o \in Orders : wf'[o] = wf[o] \/ wf'[o] # NoWf,
         \A o \in Orders : zohoId'[o] = zohoId[o] \/ ~ZohoOrderExists(zohoId[o])'
  PROVE  /\ PaymentOnItsSale'
         /\ \A o \in Orders : payId'[o] # NoId => wf'[o] # NoWf
<1>1. \A o \in Orders : payId[o] \notin {NoId, ErrId} => payId[o] \in DOMAIN pays
  BY DEF RecordsBelong, OwnPayment
<1> QED BY <1>1, PaysKept DEF QuietInv, PaymentOnItsSale

QInv == RInv /\ Worklist /\ CalmInv /\ QuietInv

LEMMA QInvFacts ==
  ASSUME QInv
  PROVE  /\ TypeOK /\ RecordsBelong /\ JobsBelong /\ Held /\ Worklist /\ CalmInv /\ QuietInv
         /\ pc \in [Procs -> Labels] /\ job \in [Procs -> JobRow] /\ Poller \in Procs
         /\ \A j \in batch : j \in JobRow /\ j.order \in Orders
BY ProcsFacts DEF QInv, RInv, IInv, TypeOK, ControlOK

(* The worker between two orders: only its rows are to be looked at.          *)
LEMMA QuietBetween ==
  ASSUME QInv, [Next]_vars, Quiet, UNCHANGED <<payId, wf>>,
         \A o \in Orders : zohoId'[o] = zohoId[o] \/ ~ZohoOrderExists(zohoId[o])',
         ~Working', \A j \in batch' : QuietRow(j)'
  PROVE  QuietInv'
<1>1. /\ PaymentOnItsSale'
      /\ \A o \in Orders : payId'[o] # NoId => wf'[o] # NoWf
  BY QInvFacts, QuietFrame
<1> QED BY <1>1 DEF QuietInv

(* Rows it keeps in the same phase are still good. *)
LEMMA QuietRows ==
  ASSUME QInv, Quiet, NEW j \in batch, UNCHANGED <<payId, wf>>,
         Syncing' => Syncing, Paying' => Paying
  PROVE  QuietRow(j)'
BY DEF QInv, QuietInv, QuietRow

LEMMA QuietFetch ==
  ASSUME QInv, [Next]_vars, Quiet',
         ScanStatus \/ PendingScan \/ UpdateScan \/ OrdersDone \/ PendingDone \/ UpdatesDone
  PROVE  QuietInv'
<1>0. Quiet /\ ~Spend("fault")
  BY QInvFacts, QuietOnes
<1>1. /\ UNCHANGED <<payId, wf, zohoId>> /\ ~Working'
      /\ pc'[Poller] \in {"scan", "orders", "pendingScan", "pending", "updateScan", "updates"}
  BY QInvFacts DEF ScanStatus, PendingScan, UpdateScan, OrdersDone, PendingDone, UpdatesDone, Fetch,
     Goto, dbVars, Working, OrderLabels
<1>2. ASSUME NEW j \in batch' PROVE QuietRow(j)'
  <2>1. CASE OrdersDone \/ PendingDone \/ UpdatesDone
    BY <2>1 DEF OrdersDone, PendingDone, UpdatesDone
  <2>2. CASE ScanStatus
    <3>1. Syncing /\ ~Paying'
      BY <1>1, <2>2, QInvFacts DEF ScanStatus, Goto, Syncing, Paying
    <3>2. CASE j \in batch
      BY <1>0, <1>1, <3>1, <3>2, QuietRows
    <3>3. CASE j \notin batch
      <4>0. PICK o \in NewOrders(PolledStatuses[scan]) : j = Row(o, scan)
        BY <1>0, <2>2, <3>3 DEF ScanStatus
      <4>1. o \in Orders /\ j.wf = wf[o] /\ j.order = o
        BY <4>0 DEF Row, NewOrders, Limited
      <4> QED BY <1>0, <1>1, <3>1, <4>1 DEF QuietRow, QInv, QuietInv
    <3> QED BY <3>2, <3>3
  <2>3. CASE PendingScan \/ UpdateScan
    <3>1. PICK o \in Orders : /\ j = [NoJob EXCEPT !.order = o, !.wf = wf[o]]
                              /\ PendingScan => wf[o] # NoWf
      BY <1>0, <2>3 DEF PendingScan, UpdateScan, Fetch, OrdersPendingPayment,
         OrdersPendingPaymentUpdate, Limited
    <3>2. j.order = o /\ j.wf = wf[o]
      BY <3>1 DEF NoJob
    <3>3. ~Syncing' /\ (UpdateScan => ~Paying')
      BY <1>0, <1>1, <2>3, QInvFacts DEF PendingScan, UpdateScan, Fetch, Goto, Syncing, Paying
    <3> QED BY <1>1, <2>3, <3>1, <3>2, <3>3 DEF QuietRow
  <2> QED BY <2>1, <2>2, <2>3
<1> QED BY <1>0, <1>1, <1>2, QuietBetween

LEMMA QuietTake ==
  ASSUME QInv, [Next]_vars, Quiet', MarkB2B \/ NextOrder \/ PendingNext \/ UpdateNext
  PROVE  QuietInv'
<1>0. Quiet /\ ~Spend("fault")
  BY QInvFacts, QuietOnes
<1>1. CASE MarkB2B
  <2>1. /\ batch' \subseteq batch /\ UNCHANGED <<pc, job, payId, wf>> /\ pc[Poller] = "orders"
        /\ \A o \in Orders : zohoId'[o] = zohoId[o] \/ zohoId'[o] = B2bId
    BY <1>1, QInvFacts DEF MarkB2B, TypeOK
  <2>2. ~Working' /\ (Syncing' => Syncing) /\ (Paying' => Paying)
    BY <2>1 DEF Working, OrderLabels, Syncing, Paying
  <2>3. \A o \in Orders : zohoId'[o] = zohoId[o] \/ ~ZohoOrderExists(zohoId[o])'
    BY <2>1 DEF ZohoOrderExists
  <2>4. \A j \in batch' : QuietRow(j)'
    BY <1>0, <2>1, <2>2, QuietRows
  <2> QED BY <1>0, <2>1, <2>2, <2>3, <2>4, QuietBetween
<1>2. CASE UpdateNext
  <2>1. /\ batch' \subseteq batch /\ UNCHANGED <<payId, wf, zohoId>>
        /\ pc'[Poller] \in {"updates", "pushStatus"}
    BY <1>2, QInvFacts DEF UpdateNext, Goto, dbVars
  <2>2. ~Working' /\ ~Syncing' /\ ~Paying'
    BY <2>1 DEF Working, OrderLabels, Syncing, Paying
  <2>4. \A j \in batch' : QuietRow(j)'
    BY <1>0, <2>1, <2>2, QuietRows
  <2> QED BY <1>0, <2>1, <2>2, <2>4, QuietBetween
<1>3. CASE NextOrder
  <2>1. PICK j \in batch : /\ batch' = batch \ {j} /\ UNCHANGED <<zohoId, payId, wf>>
                           /\ job' = [job EXCEPT ![Poller] = [j EXCEPT !.known = NoId]]
                           /\ pc'[Poller] = "contact" /\ pc[Poller] = "orders"
    BY <1>3, QInvFacts DEF NextOrder, Goto, dbVars
  <2>2. Syncing
    BY <2>1 DEF Syncing
  <2>3. j.scan # 0 /\ QuietRow(j)
    BY <1>0, <2>2, QInvFacts, StatusesFacts DEF Worklist, RowOK, QuietInv
  <2>4. job'[Poller].order = j.order /\ job'[Poller].wf = j.wf /\ job'[Poller].scan = j.scan
    BY <2>1, QInvFacts DEF JobRow
  <2>5. ~Paying'
    BY <2>1, <2>3, <2>4 DEF Paying
  <2>6. \A k \in batch' : QuietRow(k)'
    BY <1>0, <2>1, <2>2, <2>5, QuietRows
  <2>7. QuietOrder(job[Poller], pc[Poller])'
    BY <2>1, <2>2, <2>3, <2>4 DEF QuietOrder, QuietRow, SendLabels, PayLabels
  <2>8. /\ PaymentOnItsSale'
        /\ \A o \in Orders : payId'[o] # NoId => wf'[o] # NoWf
    BY <1>0, <2>1, QInvFacts, QuietFrame
  <2> QED BY <2>6, <2>7, <2>8 DEF QuietInv
<1>4. CASE PendingNext
  <2>1. PICK j \in batch :
          /\ batch' = batch \ {j} /\ UNCHANGED <<zohoId, payId, wf>> /\ pc[Poller] = "pending"
          /\ \/ UNCHANGED <<pc, job>>
             \/ /\ job' = [job EXCEPT ![Poller] = [j EXCEPT !.so = zohoId[j.order]]]
                /\ pc'[Poller] = "payCreate" /\ ZohoOrderExists(zohoId[j.order])
    BY <1>4, QInvFacts DEF PendingNext, Goto, dbVars
  <2>2. Paying /\ ~Syncing /\ ~Working
    BY <2>1 DEF Paying, Syncing, Working, OrderLabels
  <2>3. j.scan = 0 /\ QuietRow(j) /\ j \in JobRow /\ zohoId[j.order] \in Nat \cup {B2bId}
    BY <1>0, <2>2, QInvFacts DEF Worklist, RowOK, QuietInv, TypeOK
  <2>8. /\ PaymentOnItsSale'
        /\ \A o \in Orders : payId'[o] # NoId => wf'[o] # NoWf
    BY <1>0, <2>1, QInvFacts, QuietFrame
  <2>9. CASE UNCHANGED <<pc, job>>
    <3>1. Paying' /\ ~Syncing' /\ ~Working'
      BY <2>2, <2>9 DEF Paying, Syncing, Working
    <3>2. \A k \in batch' : QuietRow(k)'
      BY <1>0, <2>1, <2>2, <3>1, QuietRows
    <3> QED BY <2>8, <3>1, <3>2 DEF QuietInv
  <2>10. CASE /\ job' = [job EXCEPT ![Poller] = [j EXCEPT !.so = zohoId[j.order]]]
              /\ pc'[Poller] = "payCreate" /\ ZohoOrderExists(zohoId[j.order])
    <3>1. /\ job'[Poller].order = j.order /\ job'[Poller].wf = j.wf /\ job'[Poller].scan = 0
          /\ job'[Poller].so = zohoId[j.order]
      BY <2>3, <2>10, QInvFacts DEF JobRow
    <3>2. ~Syncing'
      BY <2>10, <3>1 DEF Syncing
    <3>3. \A k \in batch' : QuietRow(k)'
      BY <1>0, <2>1, <2>2, <3>2, QuietRows
    <3>4. QuietOrder(job[Poller], pc[Poller])'
      BY <2>1, <2>2, <2>3, <2>10, <3>1 DEF QuietOrder, QuietRow, SendLabels, PayLabels
    <3> QED BY <2>8, <3>3, <3>4 DEF QuietInv
  <2> QED BY <2>1, <2>9, <2>10
<1> QED BY <1>1, <1>2, <1>3, <1>4

(* processOrder moves on, or ends: what a step of its own has to show.        *)
LEMMA QuietProcess ==
  ASSUME QInv, [Next]_vars, Quiet', ProcessOrder(Poller), NEW o, o = job[Poller].order,
         \A q \in Orders \ {o} : payId'[q] = payId[q] /\ zohoId'[q] = zohoId[q],
         ZohoOrderExists(zohoId[o])' /\ payId'[o] \notin {NoId, ErrId}
           => pays'[payId'[o]].sells = zohoId'[o],
         payId'[o] # NoId => payId[o] # NoId \/ job[Poller].wf # NoWf,
         GoesOn(Poller) => QuietOrder(job[Poller], pc[Poller])'
  PROVE  QuietInv'
<1>0. Quiet /\ ~Spend("fault")
  BY QInvFacts, QuietOnes
<1>1. Working /\ UNCHANGED <<batch, scan, wf>> /\ pc[Poller] \in OrderLabels
  BY QInvFacts, OneMoves DEF Working
<1>2. job[Poller].order \in Orders
  BY <1>1, QInvFacts DEF TypeOK, ControlOK, InHand
<1>3. QuietOrder(job[Poller], pc[Poller])
  BY <1>0, <1>1 DEF QInv, QuietInv
<1>4. PaymentOnItsSale'
  <2> SUFFICES ASSUME NEW q \in Orders, ZohoOrderExists(zohoId[q])', payId'[q] \notin {NoId, ErrId}
               PROVE  pays'[payId'[q]].sells = zohoId'[q]
    BY DEF PaymentOnItsSale
  <2>1. CASE q = o
    BY <2>1
  <2>2. CASE q # o
    <3>1. payId'[q] = payId[q] /\ zohoId'[q] = zohoId[q]
      BY <2>2
    <3>2. payId[q] \in DOMAIN pays /\ pays[payId[q]].sells = zohoId[q]
      BY <1>0, <3>1, QInvFacts DEF QuietInv, PaymentOnItsSale, RecordsBelong, OwnPayment,
         ZohoOrderExists
    <3> QED BY <3>1, <3>2, QInvFacts, PaysKept
  <2> QED BY <2>1, <2>2
<1>5. \A q \in Orders : payId'[q] # NoId => wf'[q] # NoWf
  BY <1>0, <1>1, <1>3, QInvFacts DEF QuietInv, QuietOrder
<1>6. /\ Finish(Poller) => pc'[Poller] = "orders"
      /\ Drop(Poller, "pending") => pc'[Poller] = "pending"
  BY QInvFacts DEF Finish, Drop, Goto
<1>7. \/ GoesOn(Poller)
      \/ pc'[Poller] = "orders" /\ pc[Poller] \in SendLabels \cup {"link"}
      \/ pc'[Poller] = "pending" /\ job[Poller].scan = 0
  BY <1>6, QInvFacts, Moves
<1>8. (Syncing' => Syncing) /\ (Paying' => Paying)
  <2>1. CASE GoesOn(Poller)
    BY <1>1, <2>1 DEF GoesOn, Following, Syncing, Paying, Working, OrderLabels
  <2>2. CASE pc'[Poller] = "orders" /\ pc[Poller] \in SendLabels \cup {"link"}
    BY <1>1, <2>2, QInvFacts DEF Syncing, Paying, Working, OrderLabels, Worklist, SendLabels, PayLabels
  <2>3. CASE pc'[Poller] = "pending" /\ job[Poller].scan = 0
    BY <1>1, <2>3 DEF Syncing, Paying, Working, OrderLabels
  <2> QED BY <1>7, <2>1, <2>2, <2>3
<1>9. ASSUME NEW j \in batch' PROVE QuietRow(j)'
  <2>1. j \in batch /\ QuietRow(j) /\ j.order \in Orders
    BY <1>0, <1>1, QInvFacts DEF QuietInv
  <2>2. Syncing => payId'[j.order] = payId[j.order]
    <3> SUFFICES ASSUME Syncing PROVE j.order # job[Poller].order
      BY <2>1
    <3> QED BY <1>0, <1>1, <2>1, QInvFacts DEF Quiet, CalmInv, CalmRow
  <2> QED BY <1>1, <1>8, <2>1, <2>2 DEF QuietRow
<1>10. Working' => GoesOn(Poller)
  BY <1>7 DEF Working, OrderLabels
<1> QED BY <1>4, <1>5, <1>9, <1>10 DEF QuietInv

LEMMA QuietWorks ==
  ASSUME QInv, [Next]_vars, Quiet', ProcessOrder(Poller)
  PROVE  QuietInv'
<1>0. Quiet /\ ~Spend("fault")
  BY QInvFacts, QuietOnes
<1>1. PICK o \in Orders : o = job[Poller].order
  BY QInvFacts, OneMoves DEF TypeOK, ControlOK, InHand
<1>2. /\ Working /\ UNCHANGED <<batch, scan, wf>> /\ QuietOrder(job[Poller], pc[Poller])
      /\ job[Poller].known = NoId
      /\ job[Poller].scan = 0 => pc[Poller] \in PayLabels
      /\ job[Poller].scan # 0 => o \notin B2BOrders /\ zohoId[o] = NoId
  <2>1. Working /\ UNCHANGED <<batch, scan, wf>>
    BY QInvFacts, OneMoves DEF Working
  <2>2. job[Poller].scan # 0 => Syncing
    BY <2>1 DEF Syncing
  <2> QED BY <1>0, <1>1, <2>1, <2>2, QInvFacts DEF Worklist, QuietInv, CalmInv, Quiet
(* As long as neither column of the order is written its payment stays good.  *)
<1>3. payId'[o] = payId[o] /\ zohoId'[o] = zohoId[o]
        => (ZohoOrderExists(zohoId[o])' /\ payId'[o] \notin {NoId, ErrId}
              => pays'[payId'[o]].sells = zohoId'[o])
  <2> SUFFICES ASSUME payId'[o] = payId[o], zohoId'[o] = zohoId[o],
                      ZohoOrderExists(zohoId[o])', payId'[o] \notin {NoId, ErrId}
               PROVE  pays'[payId'[o]].sells = zohoId'[o]
    OBVIOUS
  <2>1. payId[o] \in DOMAIN pays /\ pays[payId[o]].sells = zohoId[o]
    BY <1>0, QInvFacts DEF QuietInv, PaymentOnItsSale, RecordsBelong, OwnPayment, ZohoOrderExists
  <2> QED BY <2>1, QInvFacts, PaysKept
<1>4. CASE Contact(Poller) \/ ResolveProducts(Poller) \/ SendOrder(Poller) \/ SendFails(Poller)
  <2>1. UNCHANGED <<payId, zohoId, pays>> /\ pc[Poller] \in SendLabels
    BY <1>4 DEF Contact, ResolveProducts, SendOrder, SendFails, SendLabels, dbVars, crmVars
  <2>2. job[Poller].scan # 0
    BY <1>2, <2>1 DEF PayLabels, SendLabels
  <2>3. ASSUME GoesOn(Poller) PROVE QuietOrder(job[Poller], pc[Poller])'
    <3>1. CASE ~SendOrder(Poller)
      <4>1. pc'[Poller] \in {"resolve", "send"}
        BY <1>4, <2>3, <3>1, QInvFacts DEF GoesOn, Following, Contact, ResolveProducts, SendFails, Finish, Drop, Goto
      <4> QED BY <1>2, <2>1, <2>2, <2>3, <4>1 DEF GoesOn, QuietOrder, SendLabels, PayLabels
    <3>2. CASE SendOrder(Poller)
      <4>1. pc'[Poller] = IF job[Poller].wf # NoWf THEN "payCreate" ELSE "stamp"
        BY <1>2, <3>2, QInvFacts DEF SendOrder, AfterSend, Goto, ZohoOrderExists
      <4> QED BY <1>2, <2>1, <2>2, <2>3, <4>1, <1>1 DEF GoesOn, QuietOrder, SendLabels, PayLabels
    <3> QED BY <3>1, <3>2
  <2> QED BY <1>1, <1>3, <2>1, <2>3, QuietProcess
<1>5. CASE SendNothing(Poller)
  BY <1>1, <1>2, <1>5 DEF SendNothing, PayLabels
<1>6. CASE PayCreate(Poller)
  <2>1. UNCHANGED <<payId, zohoId>> /\ pc[Poller] = "payCreate"
    BY <1>6 DEF PayCreate, dbVars
  <2>2. ASSUME GoesOn(Poller) PROVE QuietOrder(job[Poller], pc[Poller])'
    <3>0. job'[Poller].order = o /\ job'[Poller].scan = job[Poller].scan
          /\ job'[Poller].wf = job[Poller].wf
      BY <1>1, <2>2 DEF GoesOn
    <3>1. CASE job' = [job EXCEPT ![Poller].pay = Len(pays) + 1] /\ pc'[Poller] = "payRecord"
      <4>1. job'[Poller].so = job[Poller].so /\ job'[Poller].pay = Len(pays) + 1
        BY <3>1, QInvFacts DEF JobRow
      <4>2. \E r : pays' = Append(pays, r) /\ r.sells = job[Poller].so
        BY <1>0, <1>6, <3>1, QInvFacts DEF PayCreate, Goto
      <4>3. pays'[Len(pays) + 1].sells = job[Poller].so
        BY <4>2, QInvFacts DEF TypeOK
      <4> QED BY <1>1, <1>2, <2>1, <3>0, <3>1, <4>1, <4>3 DEF QuietOrder, SendLabels, PayLabels
    <3>2. CASE UNCHANGED job /\ pc'[Poller] = "payMark"
      BY <1>1, <1>2, <2>1, <3>0, <3>2 DEF QuietOrder, SendLabels, PayLabels
    <3> QED BY <1>0, <1>6, <3>1, <3>2, QInvFacts DEF PayCreate, Goto
  <2> QED BY <1>1, <1>3, <2>1, <2>2, QuietProcess
<1>7. CASE PayRecord(Poller)
  <2>1. /\ payId' = [payId EXCEPT ![o] = job[Poller].pay] /\ UNCHANGED <<zohoId, pays>>
        /\ pc[Poller] = "payRecord" /\ PaymentReturns(Poller)
    BY <1>0, <1>1, <1>7 DEF PayRecord, crmVars
  <2>2. payId'[o] = job[Poller].pay /\ \A q \in Orders \ {o} : payId'[q] = payId[q]
    BY <1>1, <2>1, QInvFacts DEF TypeOK
  <2>3. job[Poller].wf # NoWf /\ pays[job[Poller].pay].sells = job[Poller].so
    BY <1>2, <2>1 DEF QuietOrder, PayLabels
  <2>4. ZohoOrderExists(zohoId[o])' => zohoId[o] = job[Poller].so
    BY <1>1, <1>2, <2>1 DEF ZohoOrderExists, QuietOrder
  <2>5. ASSUME GoesOn(Poller) PROVE QuietOrder(job[Poller], pc[Poller])'
    <3>1. pc'[Poller] = "stamp" /\ UNCHANGED job
      BY <2>1, <2>5, QInvFacts DEF PaymentReturns, Drop, Goto, GoesOn, Following
    <3> QED BY <1>1, <1>2, <2>1, <2>2, <2>3, <3>1 DEF QuietOrder, SendLabels, PayLabels
  <2> QED BY <1>1, <2>1, <2>2, <2>3, <2>4, <2>5, QuietProcess
<1>8. CASE PayMark(Poller)
  <2>1. /\ payId' = [payId EXCEPT ![o] = ErrId] /\ UNCHANGED <<zohoId, pays>>
        /\ pc[Poller] = "payMark" /\ PaymentReturns(Poller)
    BY <1>0, <1>1, <1>8 DEF PayMark, crmVars
  <2>2. payId'[o] = ErrId /\ \A q \in Orders \ {o} : payId'[q] = payId[q]
    BY <1>1, <2>1, QInvFacts DEF TypeOK
  <2>3. job[Poller].wf # NoWf
    BY <1>2, <2>1 DEF QuietOrder, PayLabels
  <2>5. ASSUME GoesOn(Poller) PROVE QuietOrder(job[Poller], pc[Poller])'
    <3>1. pc'[Poller] = "stamp" /\ UNCHANGED job
      BY <2>1, <2>5, QInvFacts DEF PaymentReturns, Drop, Goto, GoesOn, Following
    <3> QED BY <1>1, <1>2, <2>1, <2>2, <2>3, <3>1 DEF QuietOrder, SendLabels, PayLabels
  <2> QED BY <1>1, <2>1, <2>2, <2>3, <2>5, QuietProcess
<1>9. CASE Stamp(Poller)
  <2>1. /\ UNCHANGED <<zohoId, payId, pays, job>> /\ pc[Poller] = "stamp" /\ pc'[Poller] = "link"
    BY <1>9, QInvFacts DEF Stamp, crmVars, Goto
  <2>2. QuietOrder(job[Poller], pc[Poller])'
    BY <1>2, <2>1 DEF QuietOrder, SendLabels, PayLabels
  <2> QED BY <1>1, <1>3, <2>1, <2>2, QuietProcess
<1>10. CASE Link(Poller)
  <2>1. /\ zohoId' = [zohoId EXCEPT ![o] = job[Poller].so] /\ UNCHANGED <<payId, pays>>
        /\ pc[Poller] = "link" /\ Finish(Poller)
    BY <1>0, <1>1, <1>10 DEF Link, crmVars
  <2>2. zohoId'[o] = job[Poller].so /\ \A q \in Orders \ {o} : zohoId'[q] = zohoId[q]
    BY <1>1, <2>1, QInvFacts DEF TypeOK
  <2>3. payId[o] \notin {NoId, ErrId} => pays[payId[o]].sells = job[Poller].so
    BY <1>1, <1>2, <2>1 DEF QuietOrder
  <2>4. ~GoesOn(Poller)
    BY <2>1 DEF GoesOn, Following
  <2> QED BY <1>1, <2>1, <2>2, <2>3, <2>4, QuietProcess
<1> QED BY <1>4, <1>5, <1>6, <1>7, <1>8, <1>9, <1>10 DEF ProcessOrder

LEMMA QuietStep == QInv /\ [Next]_vars => QuietInv'
<1> SUFFICES ASSUME QInv, [Next]_vars, Quiet' PROVE QuietInv'
  BY DEF QuietInv
<1>0. Quiet /\ ~Spend("fault")
  BY QInvFacts, QuietOnes
<1>1. /\ Calm /\ Calm'
      /\ ~(\E p \in Pushers, o \in Orders : PushBegin(p, o))
      /\ ~(\E o \in Orders, s \in Statuses : ShopMoves(o, s))
  BY QInvFacts, CalmOnes DEF Quiet
<1>2. ~(\E p \in Pushers : ProcessOrder(p))
  <2> SUFFICES ASSUME NEW p \in Pushers, ProcessOrder(p) PROVE FALSE
    OBVIOUS
  <2>1. pc[p] \in OrderLabels
    BY QInvFacts, OneMoves, ProcsFacts
  <2> QED BY <1>1, <2>1, QInvFacts DEF CalmInv, Idle, OrderLabels
<1>3. CASE PushStatus \/ StoreStatus
  <2>1. /\ pc[Poller] \in {"pushStatus", "storeStatus"} /\ pc'[Poller] \in {"storeStatus", "updates"}
        /\ UNCHANGED <<batch, payId, wf, zohoId>>
    BY <1>3, QInvFacts DEF PushStatus, StoreStatus, Drop, Goto, dbVars
  <2>2. ~Working' /\ ~Syncing' /\ ~Paying'
    BY <2>1 DEF Working, OrderLabels, Syncing, Paying
  <2>3. \A j \in batch' : QuietRow(j)'
    BY <1>0, <2>1, <2>2, QuietRows
  <2> QED BY <1>0, <2>1, <2>2, <2>3, QuietBetween
<1>4. CASE PollerStep
  BY <1>3, <1>4, QuietFetch, QuietTake, QuietWorks DEF PollerStep
<1>5. CASE Crash
  <2>1. pc'[Poller] = "scan" /\ batch' = {} /\ UNCHANGED <<payId, wf, zohoId>>
    BY <1>5, ProcsFacts DEF Crash, dbVars
  <2>2. ~Working'
    BY <2>1 DEF Working, OrderLabels
  <2> QED BY <1>0, <2>1, <2>2, QuietBetween
<1>6. CASE (Environment /\ ~Crash) \/ UNCHANGED vars
  <2>1. pc'[Poller] = pc[Poller] /\ job'[Poller] = job[Poller] /\ UNCHANGED batch
    BY <1>6, QInvFacts, OthersLeave
  <2>2. UNCHANGED <<zohoId, payId>> /\ \A o \in Orders : wf'[o] = wf[o] \/ wf'[o] # NoWf
    BY <1>1, <1>6, QInvFacts, SetupAssumption
       DEF Environment, WfReports, DaysPass, CatalogAdds, ManagerDeletes, vars, dbVars, TypeOK
  <2>3. /\ PaymentOnItsSale'
        /\ \A o \in Orders : payId'[o] # NoId => wf'[o] # NoWf
    BY <1>0, <2>2, QInvFacts, QuietFrame
  <2>4. (Working' <=> Working) /\ (Syncing' <=> Syncing) /\ (Paying' <=> Paying)
    BY <2>1 DEF Working, Syncing, Paying
  <2>5. \A j \in batch' : QuietRow(j)'
    BY <1>0, <2>1, <2>2, <2>4, QInvFacts DEF QuietInv, QuietRow
  <2>6. Working' => QuietOrder(job[Poller], pc[Poller])'
    <3> SUFFICES ASSUME Working PROVE QuietOrder(job[Poller], pc[Poller])'
      BY <2>4
    <3>1. QuietOrder(job[Poller], pc[Poller]) /\ job[Poller].order \in Orders
      BY <1>0, QInvFacts DEF QuietInv, Working, TypeOK, ControlOK, InHand
    <3>2. JobBelongs(job[Poller]) /\ RecordsBelong /\ HeldBy(Poller)
      BY QInvFacts DEF JobsBelong, Held
    <3>3. /\ pc[Poller] = "payRecord" => job[Poller].pay \in DOMAIN pays
          /\ payId[job[Poller].order] \notin {NoId, ErrId} => payId[job[Poller].order] \in DOMAIN pays
      BY <3>1, <3>2 DEF JobBelongs, RecordsBelong, OwnPayment, HeldBy
    <3> QED BY <2>1, <2>2, <3>1, <3>3, QInvFacts, PaysKept DEF QuietOrder
  <2> QED BY <2>3, <2>5, <2>6 DEF QuietInv
<1> QED BY <1>1, <1>2, <1>4, <1>5, <1>6 DEF Next

LEMMA InitQuiet == Init => QuietInv
BY SetupAssumption, ProcsFacts DEF Init, QuietInv, PaymentOnItsSale, Working, OrderLabels

(* The payment a row names is linked to the Sales Order the row names through *)
(* any number of restarts, deletions and reports, as long as no call failed,  *)
(* no push request came and the shop moved no order: each of those can leave  *)
(* an order with the payment of another copy.                                 *)
THEOREM PaymentFollowsSale == Spec => [](Quiet => PaymentOnItsSale)
<1>1. Init => QInv
  BY InitType, InitBelongs, InitHeld, InitWorklist, InitCalm, InitQuiet DEF QInv, RInv, IInv
<1>2. QInv /\ [Next]_vars => QInv'
  BY RInductive, WorklistStep, CalmStep, QuietStep DEF QInv, RInv, IInv
<1>3. QInv => (Quiet => PaymentOnItsSale)
  BY DEF QInv, QuietInv
<1> QED BY <1>1, <1>2, <1>3, PTL DEF Spec

-----------------------------------------------------------------------------
(* The price of a duplicate *)

(* What may still become a Sales Order of o: rows of the worklist and orders  *)
(* a goroutine is about to create one for.                                    *)
Rows(o)  == {j \in batch : j.order = o}
Sends(o) == {p \in Procs : /\ pc[p] \in SendLabels /\ job[p].order = o
                           /\ ~ZohoOrderExists(job[p].known)}

(* A query of this pass will still find the order. *)
Fetchable(o) ==
  /\ pc[Poller] = "scan" /\ zohoId[o] = NoId
  /\ \E n \in scan..Len(PolledStatuses) : status[o] = PolledStatuses[n]

(* The worker has it on its list, or in hand. *)
InWork(o)  == Working /\ job[Poller].order = o
Carried(o) == Syncing /\ (Rows(o) # {} \/ InWork(o))
SaleDue(o) == Fetchable(o) \/ (zohoId[o] = NoId /\ ~Carried(o))

(* The same of a Payment: the worker also finds orders that lack one, and has *)
(* an order without payment data in hand until it is linked.                  *)
PaySends(o) == Sends(o) \cup {p \in Procs : pc[p] = "payCreate" /\ job[p].order = o}
Lacks(o)    == zohoId[o] = NoId \/ payId[o] = NoId
Listing     == Syncing \/ Paying
PaymentDue(o) ==
  \/ Fetchable(o)
  \/ ~Listing /\ Lacks(o)
  \/ Listing /\ Rows(o) = {} /\ ~InWork(o) /\ Lacks(o)
  \/ Listing /\ Rows(o) = {} /\ InWork(o) /\ pc[Poller] \in {"stamp", "link"} /\ payId[o] = NoId

Num(b)       == IF b THEN 1 ELSE 0
Count(on, S) == IF on THEN Cardinality(S) ELSE 0

SaleCount(o) == Cardinality(Copies(o)) + Cardinality(Sends(o))
PayCount(o)  == Cardinality(Payments(o)) + Cardinality(PaySends(o))

(* Those that exist, that may come of what is under way, and the one to come  *)
(* if nothing is: more than one is the price of an excuse.                    *)
Account(o) ==
  /\ IsFiniteSet(Rows(o)) /\ IsFiniteSet(PaySends(o))
  /\ SaleCount(o) + Count(Syncing, Rows(o)) + Num(SaleDue(o)) <= 1 + Excuses
  /\ PayCount(o) + Count(Listing, Rows(o)) + Num(PaymentDue(o)) <= 1 + Excuses

Retail == Orders \ B2BOrders

(* Nothing is sent for a wholesale order, and the worker pays for an order    *)
(* that has a Sales Order.                                                    *)
NothingWholesale == \A i \in DOMAIN crm : crm[i].order \in Retail
Settled == Working /\ job[Poller].scan = 0 /\ job[Poller].order \in Retail
             => zohoId[job[Poller].order] # NoId

AInv == RInv /\ Worklist /\ NothingWholesale /\ Settled /\ \A o \in Retail : Account(o)

(* One element comes or goes. *)
LEMMA OneMore ==
  ASSUME NEW S, IsFiniteSet(S), NEW T, NEW x, T \ {x} = S \ {x}
  PROVE  /\ IsFiniteSet(T) /\ Cardinality(S) \in Nat /\ Cardinality(T) \in Nat
         /\ x \in T /\ x \notin S => Cardinality(T) = Cardinality(S) + 1
         /\ x \in S /\ x \notin T => Cardinality(T) = Cardinality(S) - 1
         /\ (x \in S <=> x \in T) => T = S
<1>1. CASE x \in T /\ x \notin S
  <2>1. T = S \cup {x}
    BY <1>1
  <2>2. IsFiniteSet(T) /\ Cardinality(T) = Cardinality(S) + 1
    BY <1>1, <2>1, FS_AddElement
  <2> QED BY <1>1, <2>2, FS_CardinalityType
<1>2. CASE x \in S /\ x \notin T
  <2>1. T = S \ {x}
    BY <1>2
  <2>2. IsFiniteSet(T) /\ Cardinality(T) = Cardinality(S) - 1
    BY <1>2, <2>1, FS_RemoveElement
  <2> QED BY <1>2, <2>2, FS_CardinalityType
<1>3. CASE x \in S <=> x \in T
  <2>1. T = S
    BY <1>3
  <2> QED BY <1>3, <2>1, FS_CardinalityType
<1> QED BY <1>1, <1>2, <1>3

LEMMA AInvFacts ==
  ASSUME AInv
  PROVE  /\ TypeOK /\ RecordsBelong /\ JobsBelong /\ Held /\ Worklist /\ NothingWholesale /\ Settled
         /\ pc \in [Procs -> Labels] /\ job \in [Procs -> JobRow] /\ Poller \in Procs
         /\ \A j \in batch : j \in JobRow /\ j.order \in Orders
BY ProcsFacts DEF AInv, RInv, IInv, TypeOK, ControlOK

LEMMA AccountFacts ==
  ASSUME AInv, NEW o \in Retail
  PROVE  /\ o \in Orders /\ o \notin B2BOrders /\ Account(o)
         /\ IsFiniteSet(Copies(o)) /\ IsFiniteSet(Payments(o))
         /\ IsFiniteSet(Rows(o)) /\ IsFiniteSet(Sends(o)) /\ IsFiniteSet(PaySends(o))
         /\ Cardinality(Copies(o)) \in Nat /\ Cardinality(Payments(o)) \in Nat
         /\ Cardinality(Rows(o)) \in Nat /\ Cardinality(Sends(o)) \in Nat
         /\ Cardinality(PaySends(o)) \in Nat /\ Excuses \in Nat
<1>1. o \in Orders /\ o \notin B2BOrders /\ Account(o)
  BY DEF AInv, Retail
<1>2. IsFiniteSet(Copies(o)) /\ IsFiniteSet(Payments(o))
  <2>1. Len(crm) \in Nat /\ Len(pays) \in Nat
    BY AInvFacts DEF TypeOK
  <2>2. IsFiniteSet(1..Len(crm)) /\ IsFiniteSet(1..Len(pays))
    BY <2>1, FS_Interval
  <2>3. Copies(o) \subseteq 1..Len(crm) /\ Payments(o) \subseteq 1..Len(pays)
    BY AInvFacts DEF TypeOK, Copies, Payments
  <2> QED BY <2>2, <2>3, FS_Subset
<1>3. IsFiniteSet(Rows(o)) /\ IsFiniteSet(Sends(o)) /\ IsFiniteSet(PaySends(o))
  <2>1. Sends(o) \subseteq PaySends(o)
    BY DEF PaySends
  <2> QED BY <1>1, <2>1, FS_Subset DEF Account
<1>4. Excuses \in Nat
  BY AInvFacts DEF TypeOK, Excuses, Disturbances
<1> QED BY <1>1, <1>2, <1>3, <1>4, FS_CardinalityType

LEMMA ExcusesStep ==
  ASSUME TypeOK, UNCHANGED used \/ \E k \in Disturbances : Spend(k)
  PROVE  /\ Excuses \in Nat /\ Excuses' \in Nat /\ Excuses <= Excuses'
         /\ \A k \in {"fault", "crash", "push", "move"} : Spend(k) => Excuses' = Excuses + 1
<1>1. used \in [Disturbances -> Nat]
  BY DEF TypeOK
<1>2. CASE UNCHANGED used
  BY <1>1, <1>2 DEF Excuses, Spend, Disturbances
<1>3. CASE \E k \in Disturbances : Spend(k)
  BY <1>1, <1>3 DEF Excuses, Spend, Disturbances
<1> QED BY <1>2, <1>3

(* A write is a copy more exactly when the row named no Sales Order. *)
LEMMA CopiesStep ==
  ASSUME AInv, NEW o \in Retail, NEW p \in Procs, crm' = Append(crm, Written(job[p]))
  PROVE  /\ IsFiniteSet(Copies(o)') /\ Cardinality(Copies(o)') \in Nat
         /\ job[p].order = o /\ ~ZohoOrderExists(job[p].known)
              => Cardinality(Copies(o)') = Cardinality(Copies(o)) + 1
         /\ job[p].order # o \/ ZohoOrderExists(job[p].known) => Copies(o)' = Copies(o)
<1> DEFINE n == Len(crm) + 1
<1>1. crm \in Seq(SalesRow) /\ JobBelongs(job[p])
  BY AInvFacts DEF TypeOK, JobsBelong
<1>2. ZohoOrderExists(job[p].known) => job[p].known \in 1..Len(crm)
  BY <1>1 DEF JobBelongs, OwnSale
<1>3. /\ DOMAIN crm' = 1..n /\ DOMAIN crm = 1..Len(crm) /\ Len(crm) \in Nat
      /\ \A i \in 1..Len(crm) : crm'[i] = crm[i]
      /\ crm'[n] = Written(job[p])
  BY <1>1
<1>4. /\ Written(job[p]).order = job[p].order
      /\ Written(job[p]).so = n <=> ~ZohoOrderExists(job[p].known)
  BY <1>2, <1>3 DEF Written
<1>5. Copies(o)' \ {n} = Copies(o) \ {n} /\ n \notin Copies(o)
  BY <1>3 DEF Copies
<1>6. n \in Copies(o)' <=> job[p].order = o /\ ~ZohoOrderExists(job[p].known)
  BY <1>3, <1>4 DEF Copies
<1>7. IsFiniteSet(Copies(o))
  BY AccountFacts
<1> HIDE DEF n
<1> QED BY <1>5, <1>6, <1>7, OneMore

LEMMA PaymentsStep ==
  ASSUME AInv, NEW o \in Retail, NEW r, pays' = Append(pays, r)
  PROVE  /\ IsFiniteSet(Payments(o)') /\ Cardinality(Payments(o)') \in Nat
         /\ r.order = o => Cardinality(Payments(o)') = Cardinality(Payments(o)) + 1
         /\ r.order # o => Payments(o)' = Payments(o)
<1> DEFINE n == Len(pays) + 1
<1>1. pays \in Seq(PayRow)
  BY AInvFacts DEF TypeOK
<1>2. /\ DOMAIN pays' = 1..n /\ DOMAIN pays = 1..Len(pays) /\ Len(pays) \in Nat
      /\ \A i \in 1..Len(pays) : pays'[i] = pays[i]
      /\ pays'[n] = r
  BY <1>1
<1>3. Payments(o)' \ {n} = Payments(o) \ {n} /\ n \notin Payments(o)
  BY <1>2 DEF Payments
<1>4. n \in Payments(o)' <=> r.order = o
  BY <1>2 DEF Payments
<1>5. IsFiniteSet(Payments(o))
  BY AccountFacts
<1> HIDE DEF n
<1> QED BY <1>3, <1>4, <1>5, OneMore

(* Only the goroutine that moves enters or leaves the senders. *)
LEMMA SendsStep ==
  ASSUME AInv, NEW o \in Retail, NEW p \in Procs,
         \A q \in Procs \ {p} : pc'[q] = pc[q] /\ job'[q] = job[q]
  PROVE  /\ Sends(o)' \ {p} = Sends(o) \ {p} /\ PaySends(o)' \ {p} = PaySends(o) \ {p}
         /\ IsFiniteSet(Sends(o)') /\ IsFiniteSet(PaySends(o)')
         /\ Cardinality(Sends(o)') \in Nat /\ Cardinality(PaySends(o)') \in Nat
         /\ p \in Sends(o) <=> pc[p] \in SendLabels /\ job[p].order = o /\ ~ZohoOrderExists(job[p].known)
         /\ p \in Sends(o)' <=> /\ pc'[p] \in SendLabels /\ job'[p].order = o
                                /\ ~ZohoOrderExists(job'[p].known)
         /\ p \in PaySends(o) <=> p \in Sends(o) \/ (pc[p] = "payCreate" /\ job[p].order = o)
         /\ p \in PaySends(o)' <=> p \in Sends(o)' \/ (pc'[p] = "payCreate" /\ job'[p].order = o)
<1>1. Sends(o)' \ {p} = Sends(o) \ {p}
  BY DEF Sends, ZohoOrderExists
<1>2. PaySends(o)' \ {p} = PaySends(o) \ {p}
  BY <1>1 DEF PaySends
<1>3. IsFiniteSet(Sends(o)) /\ IsFiniteSet(PaySends(o))
  BY AccountFacts
<1>4. /\ p \in Sends(o) <=> pc[p] \in SendLabels /\ job[p].order = o /\ ~ZohoOrderExists(job[p].known)
      /\ p \in Sends(o)' <=> /\ pc'[p] \in SendLabels /\ job'[p].order = o
                             /\ ~ZohoOrderExists(job'[p].known)
  BY DEF Sends, ZohoOrderExists
<1>5. /\ p \in PaySends(o) <=> p \in Sends(o) \/ (pc[p] = "payCreate" /\ job[p].order = o)
      /\ p \in PaySends(o)' <=> p \in Sends(o)' \/ (pc'[p] = "payCreate" /\ job'[p].order = o)
  BY DEF PaySends
<1> QED BY <1>1, <1>2, <1>3, <1>4, <1>5, OneMore

(* An order on its way through processOrder is traded for the Sales Order and *)
(* the Payment that come of it, or for nothing.                               *)
LEMMA SalesTrade ==
  ASSUME AInv, NEW o \in Retail, NEW p \in Procs, ProcessOrder(p)
  PROVE  /\ SaleCount(o)' \in Nat /\ SaleCount(o)' <= SaleCount(o)
         /\ UNCHANGED crm /\ p \in Sends(o) /\ p \notin Sends(o)' => SaleCount(o)' <= SaleCount(o) - 1
<1>1. /\ pc[p] \in OrderLabels
      /\ \A q \in Procs \ {p} : pc'[q] = pc[q] /\ job'[q] = job[q]
  BY AInvFacts, OneMoves
<1>2. /\ Cardinality(Copies(o)) \in Nat /\ Cardinality(Sends(o)) \in Nat
      /\ IsFiniteSet(Sends(o)) /\ o \notin B2BOrders
  BY AccountFacts
<1>3. Cardinality(Sends(o)') \in Nat /\ Sends(o)' \ {p} = Sends(o) \ {p}
  BY <1>1, SendsStep
<1>4. p \in Sends(o)' => p \in Sends(o)
  <2>1. SUFFICES ASSUME p \in Sends(o)' PROVE p \in Sends(o)
    OBVIOUS
  <2>2. pc'[p] \in SendLabels /\ job'[p].order = o /\ ~ZohoOrderExists(job'[p].known)
    BY <1>1, <2>1, SendsStep
  <2>3. GoesOn(p)
    <3>1. Finish(p) => pc'[p] \in {"orders", "idle"}
      BY AInvFacts DEF Finish, Drop, Goto
    <3>2. Drop(p, "pending") => pc'[p] = "pending"
      BY AInvFacts DEF Drop, Goto
    <3> QED BY <2>2, <3>1, <3>2, AInvFacts, Moves DEF SendLabels
  <2>4. pc[p] \in SendLabels
    BY <1>1, <2>2, <2>3 DEF GoesOn, Following, SendLabels, OrderLabels
  <2> QED BY <1>1, <2>2, <2>3, <2>4, SendsStep DEF GoesOn
<1>5. IF p \in Sends(o) /\ p \notin Sends(o)'
        THEN Cardinality(Sends(o)') = Cardinality(Sends(o)) - 1
        ELSE Cardinality(Sends(o)') = Cardinality(Sends(o))
  BY <1>2, <1>3, <1>4, OneMore
<1>6. CASE UNCHANGED crm
  <2>1. Copies(o)' = Copies(o)
    BY <1>6 DEF Copies
  <2> QED BY <1>2, <1>3, <1>5, <2>1 DEF SaleCount
<1>7. CASE crm' = Append(crm, Written(job[p])) /\ (SendOrder(p) \/ SendFails(p))
  <2>1. pc'[p] \notin SendLabels /\ pc[p] = "send"
    BY <1>7, AInvFacts DEF SendOrder, SendFails, Finish, Drop, Goto, AfterSend, SendLabels
  <2>2. p \notin Sends(o)'
    BY <1>1, <2>1, SendsStep
  <2>3. job[p].order = o /\ ~ZohoOrderExists(job[p].known) => p \in Sends(o)
    BY <1>1, <2>1, SendsStep DEF SendLabels
  <2>4. ~UNCHANGED crm
    <3>1. crm \in Seq(SalesRow)
      BY AInvFacts DEF TypeOK
    <3> QED BY <1>7, <3>1
  <2>5. CASE job[p].order = o /\ ~ZohoOrderExists(job[p].known)
    <3>1. Cardinality(Copies(o)') = Cardinality(Copies(o)) + 1
      BY <1>7, <2>5, CopiesStep
    <3> QED BY <1>2, <1>3, <1>5, <2>2, <2>3, <2>4, <2>5, <3>1 DEF SaleCount
  <2>6. CASE ~(job[p].order = o /\ ~ZohoOrderExists(job[p].known))
    <3>1. Copies(o)' = Copies(o)
      BY <1>7, <2>6, CopiesStep
    <3> QED BY <1>2, <1>3, <1>5, <2>4, <3>1 DEF SaleCount
  <2> QED BY <2>5, <2>6
<1> QED BY <1>6, <1>7 DEF ProcessOrder, Contact, ResolveProducts, SendOrder, SendFails, SendNothing,
        PayCreate, PayRecord, PayMark, Stamp, Link, crmVars

LEMMA PaysTrade ==
  ASSUME AInv, NEW o \in Retail, NEW p \in Procs, ProcessOrder(p)
  PROVE  /\ PayCount(o)' \in Nat /\ PayCount(o)' <= PayCount(o)
         /\ UNCHANGED pays /\ p \in PaySends(o) /\ p \notin PaySends(o)'
              => PayCount(o)' <= PayCount(o) - 1
<1>1. /\ pc[p] \in OrderLabels
      /\ \A q \in Procs \ {p} : pc'[q] = pc[q] /\ job'[q] = job[q]
  BY AInvFacts, OneMoves
<1>2. /\ Cardinality(Payments(o)) \in Nat /\ Cardinality(PaySends(o)) \in Nat
      /\ IsFiniteSet(PaySends(o)) /\ o \notin B2BOrders
  BY AccountFacts
<1>3. Cardinality(PaySends(o)') \in Nat /\ PaySends(o)' \ {p} = PaySends(o) \ {p}
  BY <1>1, SendsStep
<1>4. p \in PaySends(o)' => p \in PaySends(o)
  <2>1. SUFFICES ASSUME p \in PaySends(o)' PROVE p \in PaySends(o)
    OBVIOUS
  <2>2. /\ job'[p].order = o
        /\ (pc'[p] \in SendLabels /\ ~ZohoOrderExists(job'[p].known)) \/ pc'[p] = "payCreate"
    BY <1>1, <2>1, SendsStep
  <2>3. GoesOn(p)
    <3>1. Finish(p) => pc'[p] \in {"orders", "idle"}
      BY AInvFacts DEF Finish, Drop, Goto
    <3>2. Drop(p, "pending") => pc'[p] = "pending"
      BY AInvFacts DEF Drop, Goto
    <3> QED BY <2>2, <3>1, <3>2, AInvFacts, Moves DEF SendLabels
  <2>4. pc[p] \in SendLabels
    BY <1>1, <2>2, <2>3 DEF GoesOn, Following, SendLabels, OrderLabels
  <2>5. CASE pc'[p] \in SendLabels
    BY <1>1, <2>2, <2>3, <2>4, <2>5, SendsStep DEF GoesOn, SendLabels
  <2>6. CASE pc'[p] = "payCreate"
    <3>1. SendOrder(p)
      <4>1. ~(Contact(p) \/ ResolveProducts(p) \/ SendFails(p))
        BY <2>6, AInvFacts DEF Contact, ResolveProducts, SendFails, Finish, Drop, Goto
      <4>2. ~SendNothing(p)
        BY <1>2, <2>2, <2>3 DEF SendNothing, GoesOn
      <4>3. ~(PayCreate(p) \/ PayRecord(p) \/ PayMark(p) \/ Stamp(p) \/ Link(p))
        BY <2>4 DEF PayCreate, PayRecord, PayMark, Stamp, Link, SendLabels
      <4> QED BY <4>1, <4>2, <4>3 DEF ProcessOrder
    <3>2. ~ZohoOrderExists(job[p].known)
      BY <2>6, <3>1, AInvFacts DEF SendOrder, AfterSend, Goto
    <3> QED BY <1>1, <2>2, <2>3, <2>4, <3>2, SendsStep DEF GoesOn
  <2> QED BY <2>2, <2>5, <2>6
<1>5. IF p \in PaySends(o) /\ p \notin PaySends(o)'
        THEN Cardinality(PaySends(o)') = Cardinality(PaySends(o)) - 1
        ELSE Cardinality(PaySends(o)') = Cardinality(PaySends(o))
  BY <1>2, <1>3, <1>4, OneMore
<1>6. CASE UNCHANGED pays
  <2>1. Payments(o)' = Payments(o)
    BY <1>6 DEF Payments
  <2> QED BY <1>2, <1>3, <1>5, <2>1 DEF PayCount
<1>7. CASE ~UNCHANGED pays
  <2>1. PayCreate(p)
    BY <1>7 DEF ProcessOrder, Contact, ResolveProducts, SendOrder, SendFails, SendNothing,
       PayCreate, PayRecord, PayMark, Stamp, Link, crmVars
  <2>2. PICK r : pays' = Append(pays, r) /\ r.order = job[p].order
    BY <1>7, <2>1 DEF PayCreate
  <2>3. pc[p] = "payCreate" /\ pc'[p] \in {"payRecord", "pending", "stamp"}
    BY <1>7, <2>1, AInvFacts DEF PayCreate, PaymentReturns, Drop, Goto
  <2>4. p \notin PaySends(o)'
    BY <1>1, <2>3, SendsStep DEF SendLabels
  <2>5. CASE job[p].order = o
    <3>1. p \in PaySends(o)
      BY <1>1, <2>3, <2>5, SendsStep
    <3>2. Cardinality(Payments(o)') = Cardinality(Payments(o)) + 1
      BY <2>2, <2>5, PaymentsStep
    <3> QED BY <1>2, <1>3, <1>5, <1>7, <2>4, <3>1, <3>2 DEF PayCount
  <2>6. CASE job[p].order # o
    <3>1. Payments(o)' = Payments(o)
      BY <2>2, <2>6, PaymentsStep
    <3> QED BY <1>2, <1>3, <1>5, <1>7, <3>1 DEF PayCount
  <2> QED BY <2>5, <2>6
<1> QED BY <1>6, <1>7

(* The columns of an order that is sold once are never emptied again.         *)
LEMMA NeverEmptied ==
  ASSUME AInv, [Next]_vars, NEW o \in Retail
  PROVE  /\ zohoId'[o] = NoId => zohoId[o] = NoId
         /\ payId'[o] = NoId => payId[o] = NoId
<1>0. /\ o \in Orders /\ o \notin B2BOrders
      /\ zohoId \in [Orders -> Nat \cup {B2bId}] /\ payId \in [Orders -> Nat \cup {ErrId}]
  BY AInvFacts DEF Retail, TypeOK
<1>1. ASSUME NEW p \in Procs, ProcessOrder(p)
      PROVE  /\ zohoId'[o] = NoId => zohoId[o] = NoId
             /\ payId'[o] = NoId => payId[o] = NoId
  <2>0. HeldBy(p)
    BY AInvFacts DEF Held
  <2>1. CASE Link(p)
    BY <1>0, <2>0, <2>1 DEF Link, HeldBy, SentLabels, ZohoOrderExists
  <2>2. CASE PayRecord(p) \/ PayMark(p)
    <3>1. PICK id : id # NoId /\ (payId' = [payId EXCEPT ![job[p].order] = id] \/ UNCHANGED payId)
      BY <2>0, <2>2 DEF PayRecord, PayMark, HeldBy, ErrId, NoId
    <3>2. UNCHANGED zohoId
      BY <2>2 DEF PayRecord, PayMark
    <3> QED BY <1>0, <3>1, <3>2
  <2>3. CASE ~(Link(p) \/ PayRecord(p) \/ PayMark(p))
    BY <1>1, <2>3 DEF ProcessOrder, Contact, ResolveProducts, SendOrder, SendFails,
       SendNothing, PayCreate, Stamp, dbVars
  <2> QED BY <2>1, <2>2, <2>3
<1>2. CASE MarkB2B
  BY <1>0, <1>2 DEF MarkB2B
<1>3. CASE PollerStep /\ ~ProcessOrder(Poller) /\ ~MarkB2B
  BY <1>3 DEF PollerStep, ScanStatus, NextOrder, OrdersDone, PendingScan, PendingNext, PendingDone,
     UpdateScan, UpdateNext, UpdatesDone, PushStatus, StoreStatus, Fetch, dbVars
<1>4. CASE Environment \/ UNCHANGED vars
  BY <1>4 DEF Environment, ShopMoves, WfReports, DaysPass, CatalogAdds, ManagerDeletes, Crash, vars, dbVars
<1>5. ASSUME NEW p \in Pushers, NEW q \in Orders, PushBegin(p, q) PROVE UNCHANGED <<zohoId, payId>>
  BY <1>5 DEF PushBegin, dbVars
<1> QED BY <1>1, <1>2, <1>3, <1>4, <1>5, ProcsFacts DEF Next

(* An order that is processed does not take the worker to other rows. *)
LEMMA PhaseKept ==
  ASSUME TypeOK, Worklist, ProcessOrder(Poller)
  PROVE  /\ Working /\ Listing /\ pc[Poller] # "scan" /\ pc'[Poller] # "scan"
         /\ (Syncing' <=> Syncing) /\ (Paying' <=> Paying)
         /\ Finish(Poller) => Syncing
<1>0. pc \in [Procs -> Labels] /\ Poller \in Procs
  BY ProcsFacts DEF TypeOK, ControlOK
<1>1. Working /\ Listing /\ pc[Poller] \in OrderLabels
  BY <1>0, OneMoves DEF Working, Listing, Syncing, Paying
<1>2. CASE GoesOn(Poller)
  <2>1. pc'[Poller] \in OrderLabels /\ job'[Poller].scan = job[Poller].scan
    BY <1>1, <1>2 DEF GoesOn, Following, OrderLabels
  <2>2. pc'[Poller] \notin {"orders", "idle"}
    BY <2>1 DEF OrderLabels
  <2>3. ~Finish(Poller)
    BY <1>0, <2>2 DEF Finish, Drop, Goto
  <2> QED BY <1>1, <2>1, <2>3 DEF Syncing, Paying, Working, OrderLabels
<1>3. CASE Finish(Poller) /\ pc[Poller] \in SendLabels \cup {"link"}
  <2>1. pc'[Poller] = "orders" /\ job[Poller].scan # 0
    BY <1>0, <1>1, <1>3 DEF Finish, Drop, Goto, Worklist, SendLabels, PayLabels
  <2> QED BY <1>1, <2>1 DEF Syncing, Paying, Working, OrderLabels
<1>4. CASE Drop(Poller, "pending") /\ job[Poller].scan = 0
  <2>1. pc'[Poller] = "pending"
    BY <1>0, <1>4 DEF Drop, Goto
  <2>2. ~Finish(Poller)
    BY <1>0, <2>1 DEF Finish, Drop, Goto
  <2> QED BY <1>1, <1>4, <2>1, <2>2 DEF Syncing, Paying, Working, OrderLabels
<1> QED BY <1>0, <1>2, <1>3, <1>4, Moves

LEMMA NumType == \A b \in BOOLEAN : Num(b) \in {0, 1} /\ (b <=> Num(b) = 1)
BY DEF Num

(* The worker gives a Sales Order up only with its row, or after a failure.   *)
LEMMA SaleGivenUp ==
  ASSUME AInv, [Next]_vars, ProcessOrder(Poller), NEW o \in Retail, SaleDue(o)', ~SaleDue(o)
  PROVE  \/ UNCHANGED crm /\ Poller \in Sends(o) /\ Poller \notin Sends(o)'
         \/ Spend("fault")
<1>1. /\ Working /\ UNCHANGED batch /\ (Syncing' <=> Syncing) /\ pc'[Poller] # "scan"
      /\ \A q \in Procs \ {Poller} : pc'[q] = pc[q] /\ job'[q] = job[q]
  BY AInvFacts, PhaseKept, OneMoves
<1>2. Rows(o)' = Rows(o)
  BY <1>1 DEF Rows
<1>3. zohoId[o] = NoId /\ zohoId'[o] = NoId /\ Syncing /\ InWork(o) /\ ~InWork(o)'
  <2>1. zohoId'[o] = NoId /\ ~Carried(o)' /\ zohoId[o] = NoId
    BY <1>1, NeverEmptied DEF SaleDue, Fetchable
  <2> QED BY <1>1, <1>2, <2>1 DEF SaleDue, Carried
<1>4. job[Poller].order = o /\ job[Poller].known = NoId /\ job[Poller].scan # 0
  BY <1>1, <1>3, AInvFacts DEF InWork, Worklist, Syncing, Working, OrderLabels
<1>5. ~GoesOn(Poller)
  <2>1. GoesOn(Poller) => pc'[Poller] \in OrderLabels
    BY AInvFacts, OneMoves DEF GoesOn, Following, OrderLabels
  <2> QED BY <1>3, <1>4, <2>1 DEF GoesOn, InWork, Working
<1>6. Finish(Poller) /\ pc[Poller] \in SendLabels \cup {"link"}
  BY <1>4, <1>5, AInvFacts, Moves
<1>7. pc'[Poller] = "orders"
  BY <1>6, AInvFacts DEF Finish, Drop, Goto
<1>8. CASE pc[Poller] = "link"
  <2>1. Link(Poller) /\ HeldBy(Poller)
    BY <1>8, AInvFacts DEF ProcessOrder, Contact, ResolveProducts, SendOrder, SendFails, SendNothing,
       PayCreate, PayRecord, PayMark, Stamp, Held
  <2>2. ZohoOrderExists(job[Poller].so)
    BY <1>4, <1>8, <2>1 DEF HeldBy, SentLabels, Retail
  <2>3. zohoId' = [zohoId EXCEPT ![o] = job[Poller].so] => zohoId'[o] # NoId
    BY <2>2, AInvFacts DEF TypeOK, ZohoOrderExists, Retail
  <2> QED BY <1>3, <1>4, <2>1, <2>3 DEF Link
<1>9. CASE pc[Poller] \in SendLabels
  <2>1. Poller \in Sends(o) /\ Poller \notin Sends(o)'
    BY <1>1, <1>4, <1>7, <1>9, AInvFacts, SendsStep DEF SendLabels, ZohoOrderExists
  <2>2. CASE SendFails(Poller)
    BY <1>4, <2>1, <2>2 DEF SendFails, Accepts, ZohoOrderExists
  <2>3. CASE SendOrder(Poller)
    BY <1>7, <2>3, AInvFacts DEF SendOrder, AfterSend, Goto
  <2>4. CASE ~SendFails(Poller) /\ ~SendOrder(Poller)
    BY <2>1, <2>4 DEF ProcessOrder, Contact, ResolveProducts, SendNothing, PayCreate, PayRecord,
       PayMark, Stamp, Link, crmVars
  <2> QED BY <2>2, <2>3, <2>4
<1> QED BY <1>6, <1>8, <1>9

(* So it does with a Payment, which it also has in the rows that lack one.    *)
LEMMA PaymentGivenUp ==
  ASSUME AInv, [Next]_vars, ProcessOrder(Poller), NEW o \in Retail, PaymentDue(o)', ~PaymentDue(o)
  PROVE  \/ UNCHANGED pays /\ Poller \in PaySends(o) /\ Poller \notin PaySends(o)'
         \/ Spend("fault")
<1>1. /\ Working /\ UNCHANGED batch /\ Listing /\ Listing' /\ pc'[Poller] # "scan"
      /\ \A q \in Procs \ {Poller} : pc'[q] = pc[q] /\ job'[q] = job[q]
      /\ pc[Poller] \in OrderLabels
  BY AInvFacts, PhaseKept, OneMoves DEF Listing
<1>2. Rows(o)' = Rows(o)
  BY <1>1 DEF Rows
<1>3. GoesOn(Poller) => pc'[Poller] \in OrderLabels /\ job'[Poller].order = job[Poller].order
  BY <1>1 DEF GoesOn, Following, OrderLabels
<1>4. ~GoesOn(Poller) => pc'[Poller] \in {"orders", "pending"}
  BY AInvFacts, Moves DEF Finish, Drop, Goto
<1>5. InWork(o)' => InWork(o)
  BY <1>1, <1>3, <1>4 DEF InWork, Working, OrderLabels
<1>6. /\ Rows(o) = {} /\ InWork(o) /\ ~(pc[Poller] \in {"stamp", "link"} /\ payId[o] = NoId)
      /\ \/ ~InWork(o)' /\ Lacks(o)'
         \/ InWork(o)' /\ pc'[Poller] \in {"stamp", "link"} /\ payId'[o] = NoId
  <2>1. /\ Rows(o) = {}
        /\ \/ ~InWork(o)' /\ Lacks(o)'
           \/ InWork(o)' /\ pc'[Poller] \in {"stamp", "link"} /\ payId'[o] = NoId
    BY <1>1, <1>2 DEF PaymentDue, Fetchable
  <2>2. Lacks(o)' => Lacks(o)
    BY NeverEmptied DEF Lacks
  <2>3. ~(~InWork(o) /\ Lacks(o))
    BY <1>1, <2>1 DEF PaymentDue
  <2>4. InWork(o)
    BY <1>5, <2>1, <2>2, <2>3
  <2> QED BY <1>1, <2>1, <2>4 DEF PaymentDue
<1>7. job[Poller].order = o /\ job[Poller].known = NoId /\ o \in Orders /\ o \notin B2BOrders
  BY <1>6, AInvFacts DEF InWork, Worklist, Retail
<1>8. CASE pc[Poller] \in SendLabels
  <2>1. Poller \in PaySends(o) /\ UNCHANGED pays
    BY <1>1, <1>7, <1>8, AInvFacts, SendsStep DEF ZohoOrderExists, ProcessOrder, Contact, SendLabels,
       ResolveProducts, SendOrder, SendFails, SendNothing, PayCreate, PayRecord, PayMark, Stamp, Link, crmVars
  <2>2. pc'[Poller] \notin SendLabels \cup {"payCreate"}
    <3>1. CASE GoesOn(Poller)
      <4>1. InWork(o)'
        BY <1>3, <1>7, <3>1 DEF InWork, Working
      <4> QED BY <1>6, <4>1 DEF SendLabels
    <3>2. CASE ~GoesOn(Poller)
      BY <1>4, <3>2 DEF SendLabels
    <3> QED BY <3>1, <3>2
  <2>3. Poller \notin PaySends(o)'
    BY <1>1, <2>2, AInvFacts, SendsStep
  <2> QED BY <2>1, <2>3
<1>9. CASE pc[Poller] = "payCreate"
  <2>1. PayCreate(Poller)
    BY <1>9 DEF ProcessOrder, Contact, ResolveProducts, SendOrder, SendFails, SendNothing,
       PayRecord, PayMark, Stamp, Link
  <2>2. ASSUME pc'[Poller] \in {"payRecord", "payMark"} PROVE FALSE
    <3>1. GoesOn(Poller)
      BY <1>4, <2>2
    <3>2. InWork(o)'
      BY <1>3, <1>7, <3>1 DEF InWork, Working
    <3> QED BY <1>6, <2>2, <3>2
  <2> QED BY <2>1, <2>2, AInvFacts DEF PayCreate, Goto
<1>10. CASE pc[Poller] \in {"payRecord", "payMark"}
  <2>1. UNCHANGED zohoId /\ PaymentReturns(Poller) /\ (PayRecord(Poller) \/ PayMark(Poller))
    BY <1>10 DEF ProcessOrder, Contact, ResolveProducts, SendOrder, SendFails, SendNothing,
       PayCreate, PayRecord, PayMark, Stamp, Link
  <2>2. SUFFICES ASSUME ~Spend("fault") PROVE FALSE
    OBVIOUS
  <2>3. payId'[o] # NoId
    <3>1. HeldBy(Poller) /\ payId \in [Orders -> Nat \cup {ErrId}]
      BY AInvFacts DEF Held, TypeOK
    <3>2. PICK id : id # NoId /\ payId' = [payId EXCEPT ![o] = id]
      BY <1>7, <2>1, <2>2, <3>1 DEF PayRecord, PayMark, HeldBy, ErrId, NoId
    <3> QED BY <1>7, <3>1, <3>2
  <2>4. ~InWork(o)' /\ zohoId[o] = NoId
    BY <1>6, <2>1, <2>3 DEF Lacks
  <2>5. CASE job[Poller].scan = 0
    BY <1>6, <1>7, <2>4, <2>5, AInvFacts DEF Settled, InWork
  <2>6. CASE job[Poller].scan # 0
    <3>1. pc'[Poller] = "stamp"
      BY <2>1, <2>6, AInvFacts DEF PaymentReturns, Goto
    <3>2. InWork(o)'
      BY <1>3, <1>4, <1>7, <3>1 DEF InWork, Working
    <3> QED BY <2>4, <3>2
  <2> QED BY <2>5, <2>6
<1>11. CASE pc[Poller] = "stamp"
  <2>1. Stamp(Poller)
    BY <1>11 DEF ProcessOrder, Contact, ResolveProducts, SendOrder, SendFails, SendNothing,
       PayCreate, PayRecord, PayMark, Link
  <2>2. pc'[Poller] = "link" /\ UNCHANGED payId
    BY <2>1, AInvFacts DEF Stamp, Goto
  <2>3. InWork(o)'
    BY <1>3, <1>4, <1>7, <2>2 DEF InWork, Working
  <2> QED BY <1>6, <1>11, <2>2, <2>3
<1>12. CASE pc[Poller] = "link"
  <2>1. Link(Poller) /\ HeldBy(Poller)
    BY <1>12, AInvFacts DEF ProcessOrder, Contact, ResolveProducts, SendOrder, SendFails, SendNothing,
       PayCreate, PayRecord, PayMark, Stamp, Held
  <2>2. ZohoOrderExists(job[Poller].so) /\ UNCHANGED payId
    BY <1>7, <1>12, <2>1 DEF HeldBy, SentLabels, Link
  <2>3. zohoId' = [zohoId EXCEPT ![o] = job[Poller].so] => zohoId'[o] # NoId
    BY <1>7, <2>2, AInvFacts DEF TypeOK, ZohoOrderExists
  <2>4. payId'[o] # NoId
    BY <1>6, <1>12, <2>2
  <2>5. zohoId'[o] = NoId
    BY <1>6, <2>4 DEF Lacks
  <2> QED BY <1>7, <2>1, <2>3, <2>5 DEF Link
<1> QED BY <1>1, <1>8, <1>9, <1>10, <1>11, <1>12 DEF OrderLabels, SendLabels

LEMMA AccountProcess ==
  ASSUME AInv, [Next]_vars, NEW p \in Procs, ProcessOrder(p), NEW o \in Retail
  PROVE  Account(o)'
<1>1. /\ UNCHANGED <<batch, scan, status>>
      /\ \A q \in Procs \ {p} : pc'[q] = pc[q] /\ job'[q] = job[q]
  BY AInvFacts, OneMoves
<1>2. (Syncing' <=> Syncing) /\ (Listing' <=> Listing)
  <2>1. CASE p = Poller
    BY <2>1, AInvFacts, PhaseKept DEF Listing
  <2>2. CASE p # Poller
    BY <1>1, <2>2, ProcsFacts DEF Listing, Syncing, Paying, Working
  <2> QED BY <2>1, <2>2
<1>3. Rows(o)' = Rows(o) /\ IsFiniteSet(PaySends(o)')
  BY <1>1, SendsStep DEF Rows
<1>4. p # Poller => (SaleDue(o)' => SaleDue(o)) /\ (PaymentDue(o)' => PaymentDue(o))
  <2> SUFFICES ASSUME p # Poller
               PROVE  (SaleDue(o)' => SaleDue(o)) /\ (PaymentDue(o)' => PaymentDue(o))
    OBVIOUS
  <2>1. pc'[Poller] = pc[Poller] /\ job'[Poller] = job[Poller]
    BY <1>1, ProcsFacts
  <2>2. (zohoId'[o] = NoId => zohoId[o] = NoId) /\ (payId'[o] = NoId => payId[o] = NoId)
    BY NeverEmptied
  <2>3. /\ Fetchable(o)' => Fetchable(o)
        /\ InWork(o)' <=> InWork(o)
        /\ Lacks(o)' => Lacks(o)
    BY <1>1, <2>1, <2>2 DEF Fetchable, InWork, Working, Lacks
  <2>4. Carried(o)' <=> Carried(o)
    BY <1>2, <1>3, <2>3 DEF Carried
  <2> QED BY <1>2, <1>3, <2>1, <2>2, <2>3, <2>4 DEF SaleDue, PaymentDue
<1>5. Excuses \in Nat /\ Excuses' \in Nat /\ Excuses <= Excuses' /\ (Spend("fault") => Excuses' = Excuses + 1)
  BY AInvFacts, OneSpends, ExcusesStep
<1>6. SaleCount(o)' + Num(SaleDue(o))' <= SaleCount(o) + Num(SaleDue(o)) + (Excuses' - Excuses)
  <2>1. /\ SaleCount(o) \in Nat /\ SaleCount(o)' \in Nat /\ SaleCount(o)' <= SaleCount(o)
        /\ UNCHANGED crm /\ p \in Sends(o) /\ p \notin Sends(o)' => SaleCount(o)' <= SaleCount(o) - 1
    BY AccountFacts, SalesTrade DEF SaleCount
  <2>2. SaleDue(o)' => \/ SaleDue(o)
                       \/ UNCHANGED crm /\ p \in Sends(o) /\ p \notin Sends(o)'
                       \/ Spend("fault")
    BY <1>4, SaleGivenUp
  <2> QED BY <1>5, <2>1, <2>2 DEF Num
<1>7. PayCount(o)' + Num(PaymentDue(o))' <= PayCount(o) + Num(PaymentDue(o)) + (Excuses' - Excuses)
  <2>1. /\ PayCount(o) \in Nat /\ PayCount(o)' \in Nat /\ PayCount(o)' <= PayCount(o)
        /\ UNCHANGED pays /\ p \in PaySends(o) /\ p \notin PaySends(o)'
             => PayCount(o)' <= PayCount(o) - 1
    BY AccountFacts, PaysTrade DEF PayCount
  <2>2. PaymentDue(o)' => \/ PaymentDue(o)
                          \/ UNCHANGED pays /\ p \in PaySends(o) /\ p \notin PaySends(o)'
                          \/ Spend("fault")
    BY <1>4, PaymentGivenUp
  <2> QED BY <1>5, <2>1, <2>2 DEF Num
<1>8. Count(Syncing, Rows(o))' = Count(Syncing, Rows(o)) /\ Count(Listing, Rows(o))' = Count(Listing, Rows(o))
  BY <1>2, <1>3 DEF Count
<1>9. /\ Account(o) /\ IsFiniteSet(Rows(o)) /\ Cardinality(Rows(o)) \in Nat
      /\ SaleCount(o) \in Nat /\ SaleCount(o)' \in Nat /\ PayCount(o) \in Nat /\ PayCount(o)' \in Nat
  BY AccountFacts, SalesTrade, PaysTrade DEF SaleCount, PayCount
<1>10. Count(Syncing, Rows(o)) \in Nat /\ Count(Listing, Rows(o)) \in Nat
  BY <1>9 DEF Count
<1>11. Num(SaleDue(o)) \in Nat /\ Num(SaleDue(o))' \in Nat /\ Num(PaymentDue(o)) \in Nat /\ Num(PaymentDue(o))' \in Nat
  BY DEF Num
<1>12. /\ SaleCount(o)' + Count(Syncing, Rows(o))' + Num(SaleDue(o))' <= 1 + Excuses'
       /\ PayCount(o)' + Count(Listing, Rows(o))' + Num(PaymentDue(o))' <= 1 + Excuses'
  BY <1>5, <1>6, <1>7, <1>8, <1>9, <1>10, <1>11 DEF Account
<1> QED BY <1>3, <1>9, <1>12 DEF Account

LEMMA AccountBalance ==
  ASSUME AInv, NEW o \in Retail, IsFiniteSet(Rows(o)'), IsFiniteSet(PaySends(o)'), Excuses' \in Nat,
         SaleCount(o)' \in Nat, PayCount(o)' \in Nat,
         SaleCount(o)' + Count(Syncing, Rows(o))' + Num(SaleDue(o))'
           <= SaleCount(o) + Count(Syncing, Rows(o)) + Num(SaleDue(o)) + (Excuses' - Excuses),
         PayCount(o)' + Count(Listing, Rows(o))' + Num(PaymentDue(o))'
           <= PayCount(o) + Count(Listing, Rows(o)) + Num(PaymentDue(o)) + (Excuses' - Excuses)
  PROVE  Account(o)'
<1>1. /\ Account(o) /\ Cardinality(Rows(o)) \in Nat /\ Cardinality(Rows(o)') \in Nat /\ Excuses \in Nat
      /\ SaleCount(o) \in Nat /\ PayCount(o) \in Nat
  BY AccountFacts, FS_CardinalityType DEF SaleCount, PayCount
<1>2. /\ Count(Syncing, Rows(o)) \in Nat /\ Count(Listing, Rows(o)) \in Nat
      /\ Count(Syncing, Rows(o))' \in Nat /\ Count(Listing, Rows(o))' \in Nat
  BY <1>1 DEF Count
<1>3. /\ Num(SaleDue(o)) \in Nat /\ Num(SaleDue(o))' \in Nat
      /\ Num(PaymentDue(o)) \in Nat /\ Num(PaymentDue(o))' \in Nat
  BY DEF Num
<1>4. /\ SaleCount(o)' + Count(Syncing, Rows(o))' + Num(SaleDue(o))' <= 1 + Excuses'
      /\ PayCount(o)' + Count(Listing, Rows(o))' + Num(PaymentDue(o))' <= 1 + Excuses'
  BY <1>1, <1>2, <1>3 DEF Account
<1> QED BY <1>4 DEF Account

(* Nothing is created, and the goroutine that moves sends nothing. *)
LEMMA CountsKept ==
  ASSUME AInv, NEW o \in Retail, NEW p \in Procs, UNCHANGED crm, Payments(o)' = Payments(o),
         \A q \in Procs \ {p} : pc'[q] = pc[q] /\ job'[q] = job[q],
         p \notin PaySends(o), p \notin PaySends(o)'
  PROVE  /\ SaleCount(o)' = SaleCount(o) /\ PayCount(o)' = PayCount(o) /\ IsFiniteSet(PaySends(o)')
         /\ SaleCount(o) \in Nat /\ PayCount(o) \in Nat
<1>1. Copies(o)' = Copies(o)
  BY DEF Copies
<1>2. PaySends(o)' = PaySends(o) /\ IsFiniteSet(PaySends(o)')
  <2>1. PaySends(o)' \ {p} = PaySends(o) \ {p} /\ IsFiniteSet(PaySends(o)')
    BY SendsStep
  <2> QED BY <2>1
<1>3. Sends(o)' = Sends(o)
  <2>1. p \notin Sends(o) /\ p \notin Sends(o)'
    BY DEF PaySends
  <2> QED BY <2>1, SendsStep
<1>4. SaleCount(o) \in Nat /\ PayCount(o) \in Nat
  BY AccountFacts DEF SaleCount, PayCount
<1> QED BY <1>1, <1>2, <1>3, <1>4 DEF SaleCount, PayCount

(* What is due does not grow, and the rows stay. *)
LEMMA AccountFrame ==
  ASSUME AInv, [Next]_vars, NEW o \in Retail, NEW p \in Procs, UNCHANGED crm, Payments(o)' = Payments(o),
         \A q \in Procs \ {p} : pc'[q] = pc[q] /\ job'[q] = job[q],
         p \notin PaySends(o), p \notin PaySends(o)',
         Rows(o)' = Rows(o), Syncing' => Syncing \/ Rows(o) = {}, Listing' => Listing \/ Rows(o) = {},
         SaleDue(o)' => SaleDue(o), PaymentDue(o)' => PaymentDue(o)
  PROVE  Account(o)'
<1>1. /\ SaleCount(o)' = SaleCount(o) /\ PayCount(o)' = PayCount(o) /\ IsFiniteSet(PaySends(o)')
      /\ SaleCount(o) \in Nat /\ PayCount(o) \in Nat
  BY CountsKept
<1>2. Excuses \in Nat /\ Excuses' \in Nat /\ Excuses <= Excuses'
  BY AInvFacts, OneSpends, ExcusesStep
<1>3. IsFiniteSet(Rows(o)) /\ Cardinality(Rows(o)) \in Nat /\ Cardinality({}) = 0
  BY AccountFacts, FS_EmptySet
<1>4. /\ Count(Syncing, Rows(o)) \in Nat /\ Count(Syncing, Rows(o))' \in Nat
      /\ Count(Listing, Rows(o)) \in Nat /\ Count(Listing, Rows(o))' \in Nat
      /\ Count(Syncing, Rows(o))' <= Count(Syncing, Rows(o))
      /\ Count(Listing, Rows(o))' <= Count(Listing, Rows(o))
  BY <1>3 DEF Count
<1>5. /\ Num(SaleDue(o)) \in Nat /\ Num(SaleDue(o))' \in Nat
      /\ Num(PaymentDue(o)) \in Nat /\ Num(PaymentDue(o))' \in Nat
      /\ Num(SaleDue(o))' <= Num(SaleDue(o)) /\ Num(PaymentDue(o))' <= Num(PaymentDue(o))
  BY DEF Num
<1>6. /\ SaleCount(o)' + Count(Syncing, Rows(o))' + Num(SaleDue(o))'
           <= SaleCount(o) + Count(Syncing, Rows(o)) + Num(SaleDue(o)) + (Excuses' - Excuses)
      /\ PayCount(o)' + Count(Listing, Rows(o))' + Num(PaymentDue(o))'
           <= PayCount(o) + Count(Listing, Rows(o)) + Num(PaymentDue(o)) + (Excuses' - Excuses)
  BY <1>1, <1>2, <1>4, <1>5
<1> QED BY <1>1, <1>2, <1>3, <1>6, AccountBalance

(* A query turns what was due for an order into the row it finds it with.     *)
LEMMA AccountScan ==
  ASSUME AInv, [Next]_vars, NEW o \in Retail, ScanStatus
  PROVE  Account(o)'
<1>1. /\ pc[Poller] = "scan" /\ pc'[Poller] \in {"scan", "orders"} /\ scan \in 1..6
      /\ UNCHANGED <<zohoId, payId, status, job, crm, pays>>
      /\ \A q \in Procs \ {Poller} : pc'[q] = pc[q] /\ job'[q] = job[q]
      /\ pc'[Poller] = "scan" => scan' = scan + 1
      /\ o \in Orders
  BY AInvFacts, StatusesFacts DEF ScanStatus, Goto, dbVars, crmVars, TypeOK, ControlOK, Retail
<1>2. Syncing /\ Syncing' /\ Listing /\ Listing' /\ ~InWork(o) /\ ~InWork(o)'
  BY <1>1 DEF Syncing, Listing, InWork, Working, OrderLabels
<1>3. Poller \notin PaySends(o) /\ Poller \notin PaySends(o)'
  BY <1>1, AInvFacts, SendsStep DEF SendLabels
<1>4. Payments(o)' = Payments(o) /\ (Lacks(o)' <=> Lacks(o))
  BY <1>1 DEF Payments, Lacks
<1>5. Fetchable(o)' => Fetchable(o)
  BY <1>1, StatusesFacts DEF Fetchable
<1>6. CASE Rows(o)' = Rows(o)
  <2>1. (SaleDue(o)' => SaleDue(o)) /\ (PaymentDue(o)' => PaymentDue(o))
    BY <1>1, <1>2, <1>4, <1>5, <1>6 DEF SaleDue, PaymentDue, Carried
  <2> QED BY <1>1, <1>2, <1>3, <1>4, <1>6, <2>1, AInvFacts, AccountFrame
<1>7. CASE Rows(o)' # Rows(o)
  <2>1. /\ o \in NewOrders(PolledStatuses[scan]) /\ Rows(o)' = Rows(o) \cup {Row(o, scan)}
    <3>1. batch' = batch \cup {Row(q, scan) : q \in NewOrders(PolledStatuses[scan])}
      BY <1>7 DEF ScanStatus, Rows
    <3>2. \A q : Row(q, scan).order = q
      BY DEF Row
    <3>3. o \in NewOrders(PolledStatuses[scan])
      BY <1>7, <3>1, <3>2 DEF Rows
    <3> QED BY <3>1, <3>2, <3>3 DEF Rows
  <2>2. zohoId[o] = NoId /\ status[o] = PolledStatuses[scan]
    BY <2>1 DEF NewOrders, Limited
  <2>3. Row(o, scan) \notin Rows(o)
    <3>1. Row(o, scan).scan = scan
      BY DEF Row
    <3>2. \A j \in batch : j.scan < scan
      BY <1>1, <1>2, AInvFacts DEF Worklist, RowOK
    <3> QED BY <1>1, <3>1, <3>2 DEF Rows
  <2>4. Fetchable(o) /\ ~Fetchable(o)' /\ Rows(o)' # {}
    BY <1>1, <2>1, <2>2, StatusesFacts DEF Fetchable
  <2>5. /\ SaleDue(o) /\ ~SaleDue(o)' /\ PaymentDue(o) /\ ~PaymentDue(o)'
    BY <1>2, <2>4 DEF SaleDue, PaymentDue, Carried
  <2>6. /\ IsFiniteSet(Rows(o)') /\ Cardinality(Rows(o)') = Cardinality(Rows(o)) + 1
        /\ Cardinality(Rows(o)) \in Nat
    BY <2>1, <2>3, AccountFacts, FS_AddElement
  <2>7. /\ SaleCount(o)' = SaleCount(o) /\ PayCount(o)' = PayCount(o) /\ IsFiniteSet(PaySends(o)')
        /\ SaleCount(o) \in Nat /\ PayCount(o) \in Nat
    BY <1>1, <1>3, <1>4, AInvFacts, CountsKept
  <2>8. Excuses \in Nat /\ Excuses' \in Nat /\ Excuses <= Excuses'
    BY AInvFacts, OneSpends, ExcusesStep
  <2>9. /\ SaleCount(o)' + Count(Syncing, Rows(o))' + Num(SaleDue(o))'
             <= SaleCount(o) + Count(Syncing, Rows(o)) + Num(SaleDue(o)) + (Excuses' - Excuses)
        /\ PayCount(o)' + Count(Listing, Rows(o))' + Num(PaymentDue(o))'
             <= PayCount(o) + Count(Listing, Rows(o)) + Num(PaymentDue(o)) + (Excuses' - Excuses)
    BY <1>2, <2>5, <2>6, <2>7, <2>8 DEF Count, Num
  <2> QED BY <2>6, <2>7, <2>8, <2>9, AccountBalance
<1> QED BY <1>6, <1>7

(* The worker takes a row, and the row's order on its way.                    *)
LEMMA AccountNext ==
  ASSUME AInv, [Next]_vars, NEW o \in Retail, NextOrder
  PROVE  Account(o)'
<1>1. PICK j \in batch : /\ batch' = batch \ {j} /\ job' = [job EXCEPT ![Poller] = [j EXCEPT !.known = NoId]]
                         /\ pc' = [pc EXCEPT ![Poller] = "contact"] /\ pc[Poller] = "orders"
                         /\ UNCHANGED <<zohoId, payId, status, crm, pays, scan>>
  BY DEF NextOrder, Goto, dbVars, crmVars
<1>2. /\ \A q \in Procs \ {Poller} : pc'[q] = pc[q] /\ job'[q] = job[q]
      /\ pc'[Poller] = "contact" /\ Syncing /\ ~Working /\ j.scan # 0
      /\ job'[Poller].order = j.order /\ job'[Poller].known = NoId /\ job'[Poller].scan = j.scan
  <2>1. Syncing /\ ~Working
    BY <1>1 DEF Syncing, Working, OrderLabels
  <2>2. j.scan # 0 /\ j \in JobRow
    BY <2>1, AInvFacts, StatusesFacts DEF Worklist, RowOK
  <2> QED BY <1>1, <2>1, <2>2, AInvFacts DEF JobRow
<1>3. Syncing' /\ Listing /\ Listing' /\ Working' /\ (InWork(o)' <=> j.order = o) /\ ~InWork(o)
  BY <1>2 DEF Syncing, Listing, InWork, Working, OrderLabels
<1>4. Payments(o)' = Payments(o) /\ Copies(o)' = Copies(o) /\ (Lacks(o)' <=> Lacks(o)) /\ ~Fetchable(o)'
  BY <1>1, <1>2 DEF Payments, Copies, Lacks, Fetchable
<1>5. CASE j.order = o
  <2>1. Rows(o)' = Rows(o) \ {j} /\ j \in Rows(o)
    BY <1>1, <1>5 DEF Rows
  <2>2. /\ IsFiniteSet(Rows(o)') /\ Cardinality(Rows(o)') = Cardinality(Rows(o)) - 1
        /\ Cardinality(Rows(o)) \in Nat
    BY <2>1, AccountFacts, FS_RemoveElement
  <2>3. /\ Poller \notin Sends(o) /\ Poller \in Sends(o)'
        /\ Poller \notin PaySends(o) /\ Poller \in PaySends(o)'
    BY <1>1, <1>2, <1>5, AInvFacts, SendsStep DEF SendLabels, ZohoOrderExists
  <2>4. /\ Cardinality(Sends(o)') = Cardinality(Sends(o)) + 1 /\ Cardinality(Sends(o)) \in Nat
        /\ Cardinality(PaySends(o)') = Cardinality(PaySends(o)) + 1 /\ Cardinality(PaySends(o)) \in Nat
        /\ IsFiniteSet(PaySends(o)')
    <3>1. /\ Sends(o)' \ {Poller} = Sends(o) \ {Poller} /\ PaySends(o)' \ {Poller} = PaySends(o) \ {Poller}
      BY <1>2, AInvFacts, SendsStep
    <3> QED BY <2>3, <3>1, AccountFacts, OneMore
  <2>5. ~SaleDue(o)' /\ ~PaymentDue(o)'
    BY <1>2, <1>3, <1>4, <1>5 DEF SaleDue, PaymentDue, Carried
  <2>6. Excuses \in Nat /\ Excuses' \in Nat /\ Excuses <= Excuses'
    BY AInvFacts, OneSpends, ExcusesStep
  <2>7. Cardinality(Copies(o)) \in Nat /\ Cardinality(Payments(o)) \in Nat
    BY AccountFacts
  <2>8. /\ SaleCount(o) \in Nat /\ SaleCount(o)' = SaleCount(o) + 1
        /\ PayCount(o) \in Nat /\ PayCount(o)' = PayCount(o) + 1
    BY <1>4, <2>4, <2>7 DEF SaleCount, PayCount
  <2>9. /\ SaleCount(o)' + Count(Syncing, Rows(o))' + Num(SaleDue(o))'
             <= SaleCount(o) + Count(Syncing, Rows(o)) + Num(SaleDue(o)) + (Excuses' - Excuses)
        /\ PayCount(o)' + Count(Listing, Rows(o))' + Num(PaymentDue(o))'
             <= PayCount(o) + Count(Listing, Rows(o)) + Num(PaymentDue(o)) + (Excuses' - Excuses)
    BY <1>2, <1>3, <2>2, <2>5, <2>6, <2>8 DEF Count, Num
  <2> QED BY <2>2, <2>4, <2>6, <2>8, <2>9, AccountBalance
<1>6. CASE j.order # o
  <2>1. Rows(o)' = Rows(o)
    BY <1>1, <1>6 DEF Rows
  <2>2. Poller \notin PaySends(o) /\ Poller \notin PaySends(o)'
    BY <1>1, <1>2, <1>6, AInvFacts, SendsStep DEF SendLabels
  <2>3. (SaleDue(o)' => SaleDue(o)) /\ (PaymentDue(o)' => PaymentDue(o))
    BY <1>1, <1>2, <1>3, <1>4, <1>6, <2>1 DEF SaleDue, PaymentDue, Carried
  <2> QED BY <1>1, <1>2, <1>3, <1>4, <2>1, <2>2, <2>3, AInvFacts, AccountFrame
<1> QED BY <1>5, <1>6

(* The rows of a fetched batch: one of each order it was fetched for. *)
LEMMA FetchedRows ==
  ASSUME NEW o, NEW rows, batch' = {[NoJob EXCEPT !.order = q, !.wf = wf[q]] : q \in rows}
  PROVE  Rows(o)' = IF o \in rows THEN {[NoJob EXCEPT !.order = o, !.wf = wf[o]]} ELSE {}
<1>1. \A q : [NoJob EXCEPT !.order = q, !.wf = wf[q]].order = q
  BY DEF NoJob
<1> QED BY <1>1 DEF Rows

(* The worker elsewhere: outside the two lists of orders, between the ends of *)
(* them, or with other orders.                                                *)
LEMMA AccountElsewhere ==
  ASSUME AInv, [Next]_vars, NEW o \in Retail,
         MarkB2B \/ OrdersDone \/ PendingDone \/ UpdateScan \/ UpdateNext \/ UpdatesDone
           \/ PushStatus \/ StoreStatus
  PROVE  Account(o)'
<1>1. /\ o \in Orders /\ o \notin B2BOrders /\ UNCHANGED <<crm, payId>>
      /\ \A q \in Procs \ {Poller} : pc'[q] = pc[q] /\ job'[q] = job[q]
      /\ pc[Poller] \in WorkerLabels /\ pc'[Poller] \in WorkerLabels
  BY AInvFacts DEF Retail, WorkerLabels, MarkB2B, OrdersDone, PendingDone, UpdateScan, UpdateNext,
     UpdatesDone, PushStatus, StoreStatus, Fetch, Drop, Goto, dbVars, crmVars
<1>2. Poller \notin PaySends(o) /\ Poller \notin PaySends(o)'
  BY <1>1, AInvFacts, SendsStep DEF SendLabels, WorkerLabels
<1>3. ~Working /\ ~Working' /\ ~InWork(o) /\ ~InWork(o)'
  BY <1>1 DEF InWork, Working, OrderLabels, WorkerLabels
<1>4. Payments(o)' = Payments(o)
  <2>1. CASE UNCHANGED pays
    BY <2>1 DEF Payments
  <2>2. ASSUME NEW n, NEW s, pays' = [pays EXCEPT ![n].status = s] PROVE Payments(o)' = Payments(o)
    <3>1. \A i \in DOMAIN pays : pays[i] \in PayRow
      BY AInvFacts DEF TypeOK
    <3>2. DOMAIN pays' = DOMAIN pays /\ \A i \in DOMAIN pays : pays'[i].order = pays[i].order
      BY <2>2, <3>1 DEF PayRow
    <3> QED BY <3>2 DEF Payments
  <2> QED BY <2>1, <2>2 DEF MarkB2B, OrdersDone, PendingDone, UpdateScan, UpdateNext, UpdatesDone,
          PushStatus, StoreStatus, Fetch, crmVars
<1>5. zohoId'[o] = zohoId[o] /\ (Lacks(o)' <=> Lacks(o))
  <2>1. zohoId'[o] = zohoId[o]
    BY <1>1, AInvFacts DEF MarkB2B, OrdersDone, PendingDone, UpdateScan, UpdateNext, UpdatesDone,
       PushStatus, StoreStatus, Fetch, dbVars, TypeOK
  <2> QED BY <1>1, <2>1 DEF Lacks
<1>6. CASE MarkB2B
  <2>1. Rows(o)' = Rows(o) /\ UNCHANGED <<pc, job>> /\ pc[Poller] = "orders"
    BY <1>1, <1>6 DEF MarkB2B, Rows
  <2>2. Syncing /\ Syncing' /\ Listing /\ Listing'
    BY <2>1 DEF Syncing, Listing
  <2>3. (SaleDue(o)' => SaleDue(o)) /\ (PaymentDue(o)' => PaymentDue(o))
    BY <1>3, <1>5, <2>1, <2>2 DEF SaleDue, PaymentDue, Carried, Fetchable
  <2> QED BY <1>1, <1>2, <1>4, <2>1, <2>2, <2>3, AInvFacts, AccountFrame
<1>7. CASE OrdersDone \/ PendingDone
  <2>1. /\ batch = {} /\ batch' = {} /\ pc[Poller] \in {"orders", "pending"}
        /\ pc'[Poller] \in {"pendingScan", "updateScan"}
    BY <1>7, AInvFacts DEF OrdersDone, PendingDone, Goto
  <2>2. Rows(o) = {} /\ Rows(o)' = {}
    BY <2>1 DEF Rows
  <2>3. ~Syncing' /\ ~Listing' /\ Listing
    BY <1>3, <2>1 DEF Syncing, Listing, Paying
  <2>4. (SaleDue(o)' => SaleDue(o)) /\ (PaymentDue(o)' => PaymentDue(o))
    BY <1>3, <1>5, <2>1, <2>2, <2>3 DEF SaleDue, PaymentDue, Carried, Fetchable
  <2> QED BY <1>1, <1>2, <1>4, <2>2, <2>3, <2>4, AInvFacts, AccountFrame
<1>8. CASE UpdateScan \/ UpdateNext \/ UpdatesDone \/ PushStatus \/ StoreStatus
  <2>1. /\ pc[Poller] \in {"updateScan", "updates", "pushStatus", "storeStatus"}
        /\ \/ pc'[Poller] = "scan" /\ batch = {} /\ batch' = {}
           \/ pc'[Poller] \in {"updates", "pushStatus", "storeStatus"}
    BY <1>8, AInvFacts DEF UpdateScan, UpdateNext, UpdatesDone, PushStatus, StoreStatus, Fetch, Drop,
       Goto, Worklist
  <2>2. ~Syncing /\ ~Listing
    BY <1>3, <2>1 DEF Syncing, Listing, Paying
  <2>3. (SaleDue(o) <=> zohoId[o] = NoId) /\ (PaymentDue(o) <=> Lacks(o))
    BY <2>1, <2>2 DEF SaleDue, PaymentDue, Carried, Fetchable
  <2>4. (SaleDue(o)' => SaleDue(o)) /\ (PaymentDue(o)' => PaymentDue(o))
    <3>1. SaleDue(o)' => zohoId[o] = NoId
      BY <1>5 DEF SaleDue, Fetchable
    <3>2. PaymentDue(o)' => Lacks(o)
      BY <1>3, <1>5 DEF PaymentDue, Fetchable, Lacks
    <3> QED BY <2>3, <3>1, <3>2
  <2>5. /\ SaleCount(o)' = SaleCount(o) /\ PayCount(o)' = PayCount(o) /\ IsFiniteSet(PaySends(o)')
        /\ SaleCount(o) \in Nat /\ PayCount(o) \in Nat
    BY <1>1, <1>2, <1>4, AInvFacts, CountsKept
  <2>6. Excuses \in Nat /\ Excuses' \in Nat /\ Excuses <= Excuses'
    BY AInvFacts, OneSpends, ExcusesStep
  <2>7. /\ Count(Syncing, Rows(o)) = 0 /\ Count(Syncing, Rows(o))' = 0
        /\ Count(Listing, Rows(o)) = 0 /\ Count(Listing, Rows(o))' = 0
    <3>1. CASE pc'[Poller] = "scan" /\ batch' = {}
      <4>1. Rows(o)' = {}
        BY <3>1 DEF Rows
      <4> QED BY <2>2, <4>1, FS_EmptySet DEF Count
    <3>2. CASE pc'[Poller] \in {"updates", "pushStatus", "storeStatus"}
      <4>1. ~Syncing' /\ ~Listing'
        BY <1>3, <3>2 DEF Syncing, Listing, Paying
      <4> QED BY <2>2, <4>1 DEF Count
    <3> QED BY <2>1, <3>1, <3>2
  <2>8. IsFiniteSet(Rows(o)')
    <3>1. CASE batch' \subseteq batch
      <4>1. Rows(o)' \subseteq Rows(o)
        BY <3>1 DEF Rows
      <4> QED BY <4>1, AccountFacts, FS_Subset
    <3>2. CASE batch' = {[NoJob EXCEPT !.order = q, !.wf = wf[q]] : q \in OrdersPendingPaymentUpdate}
      <4>1. Rows(o)' = {} \/ \E x : Rows(o)' = {x}
        BY <3>2, FetchedRows
      <4> QED BY <4>1, FS_Singleton, FS_EmptySet
    <3> QED BY <1>8, <3>1, <3>2 DEF UpdateScan, UpdateNext, UpdatesDone, PushStatus, StoreStatus, Fetch
  <2>9. /\ SaleCount(o)' + Count(Syncing, Rows(o))' + Num(SaleDue(o))'
             <= SaleCount(o) + Count(Syncing, Rows(o)) + Num(SaleDue(o)) + (Excuses' - Excuses)
        /\ PayCount(o)' + Count(Listing, Rows(o))' + Num(PaymentDue(o))'
             <= PayCount(o) + Count(Listing, Rows(o)) + Num(PaymentDue(o)) + (Excuses' - Excuses)
    BY <2>4, <2>5, <2>6, <2>7 DEF Num
  <2> QED BY <2>5, <2>6, <2>8, <2>9, AccountBalance
<1> QED BY <1>6, <1>7, <1>8

(* OrdersPendingPayment finds orders that lack a payment. *)
LEMMA AccountPendingScan ==
  ASSUME AInv, [Next]_vars, NEW o \in Retail, PendingScan
  PROVE  Account(o)'
<1>1. /\ pc[Poller] = "pendingScan" /\ pc'[Poller] \in {"pending", "updateScan"} /\ batch = {}
      /\ UNCHANGED <<zohoId, payId, job, crm, pays>>
      /\ \A q \in Procs \ {Poller} : pc'[q] = pc[q] /\ job'[q] = job[q]
  BY AInvFacts DEF PendingScan, Fetch, Goto, dbVars, crmVars, Worklist
<1>2. ~Syncing /\ ~Syncing' /\ ~Listing /\ ~InWork(o) /\ ~InWork(o)'
  BY <1>1 DEF Syncing, Listing, Paying, InWork, Working, OrderLabels
<1>3. Poller \notin PaySends(o) /\ Poller \notin PaySends(o)'
  BY <1>1, AInvFacts, SendsStep DEF SendLabels
<1>4. Payments(o)' = Payments(o) /\ (Lacks(o)' <=> Lacks(o)) /\ Rows(o) = {}
  BY <1>1 DEF Payments, Lacks, Rows
<1>5. ~Fetchable(o) /\ ~Fetchable(o)' /\ (SaleDue(o)' => SaleDue(o)) /\ (PaymentDue(o) <=> Lacks(o))
  BY <1>1, <1>2, <1>4 DEF Fetchable, SaleDue, PaymentDue, Carried
<1>6. CASE Rows(o)' = {}
  <2>1. PaymentDue(o)' => PaymentDue(o)
    BY <1>2, <1>4, <1>5 DEF PaymentDue
  <2> QED BY <1>1, <1>2, <1>3, <1>4, <1>5, <1>6, <2>1, AInvFacts, AccountFrame
<1>7. CASE Rows(o)' # {}
  <2>1. batch' = {[NoJob EXCEPT !.order = q, !.wf = wf[q]] : q \in OrdersPendingPayment}
    BY <1>1, <1>7 DEF PendingScan, Fetch, Rows
  <2>2. o \in OrdersPendingPayment /\ \E x : Rows(o)' = {x}
    BY <1>7, <2>1, FetchedRows
  <2>3. Lacks(o) /\ pc'[Poller] = "pending"
    <3>1. payId[o] = NoId
      BY <2>2 DEF OrdersPendingPayment, Limited
    <3>2. pc'[Poller] = "pending"
      BY <1>1, <1>4, <1>7, AInvFacts DEF PendingScan, Fetch, Goto, Rows
    <3> QED BY <3>1, <3>2 DEF Lacks
  <2>4. IsFiniteSet(Rows(o)') /\ Cardinality(Rows(o)') = 1 /\ Cardinality(Rows(o)) = 0
    BY <1>4, <2>2, FS_Singleton, FS_EmptySet
  <2>5. Listing' /\ PaymentDue(o) /\ ~PaymentDue(o)'
    BY <1>5, <1>7, <2>3 DEF Listing, Paying, PaymentDue
  <2>6. /\ SaleCount(o)' = SaleCount(o) /\ PayCount(o)' = PayCount(o) /\ IsFiniteSet(PaySends(o)')
        /\ SaleCount(o) \in Nat /\ PayCount(o) \in Nat
    BY <1>1, <1>3, <1>4, AInvFacts, CountsKept
  <2>7. Excuses \in Nat /\ Excuses' \in Nat /\ Excuses <= Excuses'
    BY AInvFacts, OneSpends, ExcusesStep
  <2>8. /\ SaleCount(o)' + Count(Syncing, Rows(o))' + Num(SaleDue(o))'
             <= SaleCount(o) + Count(Syncing, Rows(o)) + Num(SaleDue(o)) + (Excuses' - Excuses)
        /\ PayCount(o)' + Count(Listing, Rows(o))' + Num(PaymentDue(o))'
             <= PayCount(o) + Count(Listing, Rows(o)) + Num(PaymentDue(o)) + (Excuses' - Excuses)
    BY <1>2, <1>5, <2>4, <2>5, <2>6, <2>7 DEF Count, Num
  <2> QED BY <2>4, <2>6, <2>7, <2>8, AccountBalance
<1> QED BY <1>6, <1>7

(* Each of them is paid for, or left for the next pass.                       *)
LEMMA AccountPendingNext ==
  ASSUME AInv, [Next]_vars, NEW o \in Retail, PendingNext
  PROVE  Account(o)'
<1>1. PICK j \in batch :
        /\ batch' = batch \ {j} /\ pc[Poller] = "pending"
        /\ \/ UNCHANGED <<pc, job>>
           \/ /\ job' = [job EXCEPT ![Poller] = [j EXCEPT !.so = zohoId[j.order]]]
              /\ pc' = [pc EXCEPT ![Poller] = "payCreate"]
  BY DEF PendingNext, Goto
<1>2. /\ UNCHANGED <<zohoId, payId, crm, pays>> /\ ~Syncing /\ ~Working /\ Listing
      /\ j.scan = 0 /\ j \in JobRow
      /\ \A q \in Procs \ {Poller} : pc'[q] = pc[q] /\ job'[q] = job[q]
  <2>1. ~Syncing /\ ~Working /\ Listing
    BY <1>1 DEF Syncing, Working, Listing, Paying, OrderLabels
  <2> QED BY <1>1, <2>1, AInvFacts DEF PendingNext, dbVars, crmVars, Worklist, RowOK
<1>3. \/ UNCHANGED <<pc, job>>
      \/ pc'[Poller] = "payCreate" /\ job'[Poller].order = j.order /\ job'[Poller].scan = 0
  BY <1>1, <1>2, AInvFacts DEF JobRow
<1>4. /\ ~Syncing' /\ Listing' /\ ~InWork(o)
      /\ InWork(o)' => pc'[Poller] = "payCreate" /\ j.order = o
      /\ pc'[Poller] = "payCreate" /\ j.order = o => InWork(o)'
  BY <1>1, <1>2, <1>3 DEF Syncing, Listing, Paying, InWork, Working, OrderLabels
<1>5. /\ Payments(o)' = Payments(o) /\ Copies(o)' = Copies(o) /\ (Lacks(o)' <=> Lacks(o))
      /\ ~Fetchable(o) /\ ~Fetchable(o)' /\ (SaleDue(o)' => SaleDue(o))
  BY <1>1, <1>2, <1>3, <1>4 DEF Payments, Copies, Lacks, Fetchable, SaleDue, Carried
<1>6. /\ Poller \notin Sends(o) /\ Poller \notin Sends(o)' /\ Poller \notin PaySends(o)
      /\ Poller \in PaySends(o)' <=> InWork(o)'
  <2>1. pc'[Poller] \in {"pending", "payCreate"}
    BY <1>1, <1>3
  <2> QED BY <1>1, <1>2, <1>3, <1>4, <2>1, AInvFacts, SendsStep DEF SendLabels
<1>7. CASE j.order = o
  <2>1. Rows(o)' = Rows(o) \ {j} /\ j \in Rows(o)
    BY <1>1, <1>7 DEF Rows
  <2>2. /\ IsFiniteSet(Rows(o)') /\ Cardinality(Rows(o)') = Cardinality(Rows(o)) - 1
        /\ Cardinality(Rows(o)) \in Nat
    BY <2>1, AccountFacts, FS_RemoveElement
  <2>3. /\ IsFiniteSet(PaySends(o)') /\ Sends(o)' = Sends(o)
        /\ Cardinality(PaySends(o)) \in Nat
        /\ Cardinality(PaySends(o)') = Cardinality(PaySends(o)) + Num(InWork(o)')
    <3>1. /\ Sends(o)' \ {Poller} = Sends(o) \ {Poller} /\ PaySends(o)' \ {Poller} = PaySends(o) \ {Poller}
      BY <1>2, AInvFacts, SendsStep
    <3>2. Sends(o)' = Sends(o)
      BY <1>6, <3>1
    <3>3. CASE InWork(o)'
      BY <1>6, <3>1, <3>2, <3>3, AccountFacts, OneMore DEF Num
    <3>4. CASE ~InWork(o)'
      <4>1. PaySends(o)' = PaySends(o)
        BY <1>6, <3>1, <3>4
      <4> QED BY <3>2, <3>4, <4>1, AccountFacts DEF Num
    <3> QED BY <3>3, <3>4
  <2>4. ~PaymentDue(o) /\ (InWork(o)' => ~PaymentDue(o)')
    BY <1>2, <1>4, <1>5, <2>1 DEF PaymentDue
  <2>5. Excuses \in Nat /\ Excuses' \in Nat /\ Excuses <= Excuses'
    BY AInvFacts, OneSpends, ExcusesStep
  <2>6. Cardinality(Copies(o)) \in Nat /\ Cardinality(Payments(o)) \in Nat /\ Cardinality(Sends(o)) \in Nat
    BY AccountFacts
  <2>7. /\ SaleCount(o) \in Nat /\ SaleCount(o)' = SaleCount(o)
        /\ PayCount(o) \in Nat /\ PayCount(o)' = PayCount(o) + Num(InWork(o)')
        /\ Num(InWork(o)') \in {0, 1} /\ PayCount(o)' \in Nat
    BY <1>5, <2>3, <2>6 DEF SaleCount, PayCount, Num
  <2>8. /\ Count(Syncing, Rows(o)) = 0 /\ Count(Syncing, Rows(o))' = 0
        /\ Count(Listing, Rows(o))' = Count(Listing, Rows(o)) - 1 /\ Count(Listing, Rows(o)) \in Nat
    BY <1>2, <1>4, <2>2 DEF Count
  <2>9. /\ Num(SaleDue(o)) \in Nat /\ Num(SaleDue(o))' \in Nat /\ Num(SaleDue(o))' <= Num(SaleDue(o))
        /\ Num(PaymentDue(o)) = 0 /\ Num(PaymentDue(o))' \in {0, 1}
        /\ Num(InWork(o)') + Num(PaymentDue(o))' <= 1
    BY <1>5, <2>4 DEF Num
  <2>10. /\ SaleCount(o)' + Count(Syncing, Rows(o))' + Num(SaleDue(o))'
              <= SaleCount(o) + Count(Syncing, Rows(o)) + Num(SaleDue(o)) + (Excuses' - Excuses)
         /\ PayCount(o)' + Count(Listing, Rows(o))' + Num(PaymentDue(o))'
              <= PayCount(o) + Count(Listing, Rows(o)) + Num(PaymentDue(o)) + (Excuses' - Excuses)
    BY <2>5, <2>7, <2>8, <2>9
  <2> QED BY <2>2, <2>3, <2>5, <2>7, <2>10, AccountBalance
<1>8. CASE j.order # o
  <2>1. Rows(o)' = Rows(o) /\ ~InWork(o)'
    BY <1>1, <1>4, <1>8 DEF Rows
  <2>2. PaymentDue(o)' => PaymentDue(o)
    BY <1>2, <1>4, <1>5, <2>1 DEF PaymentDue
  <2> QED BY <1>2, <1>4, <1>5, <1>6, <2>1, <2>2, AInvFacts, AccountFrame
<1> QED BY <1>7, <1>8

(* A push request is an excuse, and so are a restart and a change of status.  *)
LEMMA AccountPush ==
  ASSUME AInv, [Next]_vars, NEW o \in Retail, NEW p \in Pushers, NEW q \in Orders, PushBegin(p, q)
  PROVE  Account(o)'
<1>1. /\ pc[p] = "idle" /\ pc'[p] = "contact" /\ p \in Procs \ {Poller} /\ Spend("push")
      /\ UNCHANGED <<zohoId, payId, status, crm, pays, batch, scan>>
      /\ \A r \in Procs \ {p} : pc'[r] = pc[r] /\ job'[r] = job[r]
  BY AInvFacts, ProcsFacts, SetupAssumption DEF PushBegin, Goto, dbVars, crmVars
<1>2. pc'[Poller] = pc[Poller] /\ job'[Poller] = job[Poller] /\ Rows(o)' = Rows(o)
  BY <1>1, AInvFacts DEF Rows
<1>3. (Syncing' <=> Syncing) /\ (Listing' <=> Listing) /\ (InWork(o)' <=> InWork(o))
  BY <1>2 DEF Syncing, Listing, Paying, InWork, Working
<1>4. (SaleDue(o)' <=> SaleDue(o)) /\ (PaymentDue(o)' <=> PaymentDue(o))
  BY <1>1, <1>2, <1>3 DEF SaleDue, PaymentDue, Carried, Fetchable, Lacks
<1>5. Copies(o)' = Copies(o) /\ Payments(o)' = Payments(o)
  BY <1>1 DEF Copies, Payments
<1>6. /\ IsFiniteSet(PaySends(o)') /\ Cardinality(Sends(o)) \in Nat /\ Cardinality(PaySends(o)) \in Nat
      /\ Cardinality(Sends(o)') \in Nat /\ Cardinality(Sends(o)') <= Cardinality(Sends(o)) + 1
      /\ Cardinality(PaySends(o)') \in Nat /\ Cardinality(PaySends(o)') <= Cardinality(PaySends(o)) + 1
  <2>1. /\ Sends(o)' \ {p} = Sends(o) \ {p} /\ PaySends(o)' \ {p} = PaySends(o) \ {p}
        /\ p \notin PaySends(o) /\ p \notin Sends(o)
    BY <1>1, SendsStep DEF SendLabels
  <2>2. IsFiniteSet(Sends(o)) /\ IsFiniteSet(PaySends(o))
    BY AccountFacts
  <2>3. Cardinality(Sends(o)') <= Cardinality(Sends(o)) + 1
    BY <2>1, <2>2, OneMore
  <2>4. Cardinality(PaySends(o)') <= Cardinality(PaySends(o)) + 1
    BY <2>1, <2>2, OneMore
  <2> QED BY <2>1, <2>2, <2>3, <2>4, OneMore
<1>7. Cardinality(Copies(o)) \in Nat /\ Cardinality(Payments(o)) \in Nat /\ Excuses \in Nat /\ Excuses' = Excuses + 1
  BY <1>1, AccountFacts, AInvFacts, OneSpends, ExcusesStep
<1>8. /\ SaleCount(o) \in Nat /\ SaleCount(o)' \in Nat /\ SaleCount(o)' <= SaleCount(o) + 1
      /\ PayCount(o) \in Nat /\ PayCount(o)' \in Nat /\ PayCount(o)' <= PayCount(o) + 1
  BY <1>5, <1>6, <1>7 DEF SaleCount, PayCount
<1>9. /\ Count(Syncing, Rows(o))' = Count(Syncing, Rows(o)) /\ Count(Syncing, Rows(o)) \in Nat
      /\ Count(Listing, Rows(o))' = Count(Listing, Rows(o)) /\ Count(Listing, Rows(o)) \in Nat
      /\ Num(SaleDue(o))' = Num(SaleDue(o)) /\ Num(SaleDue(o)) \in Nat
      /\ Num(PaymentDue(o))' = Num(PaymentDue(o)) /\ Num(PaymentDue(o)) \in Nat
  BY <1>2, <1>3, <1>4, AccountFacts DEF Count, Num
<1>10. /\ SaleCount(o)' + Count(Syncing, Rows(o))' + Num(SaleDue(o))'
            <= SaleCount(o) + Count(Syncing, Rows(o)) + Num(SaleDue(o)) + (Excuses' - Excuses)
       /\ PayCount(o)' + Count(Listing, Rows(o))' + Num(PaymentDue(o))'
            <= PayCount(o) + Count(Listing, Rows(o)) + Num(PaymentDue(o)) + (Excuses' - Excuses)
  BY <1>7, <1>8, <1>9
<1> QED BY <1>2, <1>6, <1>7, <1>8, <1>10, AccountFacts, AccountBalance

LEMMA AccountCrash ==
  ASSUME AInv, [Next]_vars, NEW o \in Retail, Crash
  PROVE  Account(o)'
<1>1. /\ batch' = {} /\ UNCHANGED <<crm, pays>> /\ Spend("crash")
      /\ \A p \in Procs : pc'[p] \in {"scan", "idle"}
  BY ProcsFacts DEF Crash, crmVars
<1>2. Rows(o)' = {} /\ Sends(o)' = {} /\ PaySends(o)' = {} /\ Copies(o)' = Copies(o) /\ Payments(o)' = Payments(o)
  BY <1>1 DEF Rows, Sends, PaySends, SendLabels, Copies, Payments
<1>3. Excuses \in Nat /\ Excuses' = Excuses + 1
  BY <1>1, AccountFacts, AInvFacts, OneSpends, ExcusesStep
<1>4. /\ SaleCount(o)' = Cardinality(Copies(o)) /\ PayCount(o)' = Cardinality(Payments(o))
      /\ Count(Syncing, Rows(o))' = 0 /\ Count(Listing, Rows(o))' = 0
  BY <1>2, AccountFacts, FS_EmptySet DEF SaleCount, PayCount, Count
<1>5. /\ Cardinality(Copies(o)) \in Nat /\ Cardinality(Payments(o)) \in Nat
      /\ Cardinality(Copies(o)) <= SaleCount(o) /\ Cardinality(Payments(o)) <= PayCount(o)
      /\ SaleCount(o) \in Nat /\ PayCount(o) \in Nat
      /\ Count(Syncing, Rows(o)) \in Nat /\ Count(Listing, Rows(o)) \in Nat
  BY AccountFacts DEF SaleCount, PayCount, Count
<1>6. /\ Num(SaleDue(o)) \in Nat /\ Num(SaleDue(o))' \in {0, 1}
      /\ Num(PaymentDue(o)) \in Nat /\ Num(PaymentDue(o))' \in {0, 1}
  BY DEF Num
<1>7. /\ SaleCount(o)' + Count(Syncing, Rows(o))' + Num(SaleDue(o))'
           <= SaleCount(o) + Count(Syncing, Rows(o)) + Num(SaleDue(o)) + (Excuses' - Excuses)
      /\ PayCount(o)' + Count(Listing, Rows(o))' + Num(PaymentDue(o))'
           <= PayCount(o) + Count(Listing, Rows(o)) + Num(PaymentDue(o)) + (Excuses' - Excuses)
  BY <1>3, <1>4, <1>5, <1>6
<1> QED BY <1>2, <1>3, <1>4, <1>5, <1>7, FS_EmptySet, AccountBalance

LEMMA AccountEnvironment ==
  ASSUME AInv, [Next]_vars, NEW o \in Retail, (Environment /\ ~Crash) \/ UNCHANGED vars
  PROVE  Account(o)'
<1>1. /\ UNCHANGED <<pc, job, batch, scan, zohoId, payId, crm, pays>>
      /\ UNCHANGED status \/ Spend("move")
  BY DEF Environment, ShopMoves, WfReports, DaysPass, CatalogAdds, ManagerDeletes, vars, procVars, dbVars, crmVars
<1>2. /\ Rows(o)' = Rows(o) /\ Sends(o)' = Sends(o) /\ PaySends(o)' = PaySends(o)
      /\ Copies(o)' = Copies(o) /\ Payments(o)' = Payments(o)
      /\ (Syncing' <=> Syncing) /\ (Listing' <=> Listing) /\ (InWork(o)' <=> InWork(o))
  BY <1>1 DEF Rows, Sends, PaySends, ZohoOrderExists, Copies, Payments, Syncing, Listing, Paying, InWork, Working
<1>3. UNCHANGED status => (SaleDue(o)' <=> SaleDue(o)) /\ (PaymentDue(o)' <=> PaymentDue(o))
  BY <1>1, <1>2 DEF SaleDue, PaymentDue, Carried, Fetchable, Lacks
<1>4. Excuses \in Nat /\ Excuses' \in Nat /\ Excuses <= Excuses' /\ (Spend("move") => Excuses' = Excuses + 1)
  BY AInvFacts, OneSpends, ExcusesStep
<1>5. /\ SaleCount(o) \in Nat /\ SaleCount(o)' = SaleCount(o) /\ PayCount(o) \in Nat /\ PayCount(o)' = PayCount(o)
      /\ Count(Syncing, Rows(o))' = Count(Syncing, Rows(o)) /\ Count(Syncing, Rows(o)) \in Nat
      /\ Count(Listing, Rows(o))' = Count(Listing, Rows(o)) /\ Count(Listing, Rows(o)) \in Nat
  BY <1>2, AccountFacts DEF SaleCount, PayCount, Count
<1>6. /\ Num(SaleDue(o)) \in {0, 1} /\ Num(SaleDue(o))' \in {0, 1}
      /\ Num(PaymentDue(o)) \in {0, 1} /\ Num(PaymentDue(o))' \in {0, 1}
      /\ UNCHANGED status => /\ Num(SaleDue(o))' = Num(SaleDue(o))
                             /\ Num(PaymentDue(o))' = Num(PaymentDue(o))
  BY <1>3 DEF Num
<1>7. /\ SaleCount(o)' + Count(Syncing, Rows(o))' + Num(SaleDue(o))'
           <= SaleCount(o) + Count(Syncing, Rows(o)) + Num(SaleDue(o)) + (Excuses' - Excuses)
      /\ PayCount(o)' + Count(Listing, Rows(o))' + Num(PaymentDue(o))'
           <= PayCount(o) + Count(Listing, Rows(o)) + Num(PaymentDue(o)) + (Excuses' - Excuses)
  BY <1>1, <1>4, <1>5, <1>6
<1> QED BY <1>2, <1>4, <1>5, <1>7, AccountFacts, AccountBalance

LEMMA AccountStep == AInv /\ [Next]_vars => \A o \in Retail : Account(o)'
<1> SUFFICES ASSUME AInv, [Next]_vars, NEW o \in Retail PROVE Account(o)'
  OBVIOUS
<1>1. CASE PollerStep
  BY <1>1, AInvFacts, AccountProcess, AccountScan, AccountNext, AccountElsewhere, AccountPendingScan,
     AccountPendingNext DEF PollerStep
<1>2. CASE \E p \in Pushers : ProcessOrder(p) \/ \E q \in Orders : PushBegin(p, q)
  BY <1>2, ProcsFacts, AccountProcess, AccountPush
<1>3. CASE Environment \/ UNCHANGED vars
  BY <1>3, AccountCrash, AccountEnvironment
<1> QED BY <1>1, <1>2, <1>3 DEF Next

LEMMA WholesaleStep == AInv /\ [Next]_vars => NothingWholesale'
<1> SUFFICES ASSUME AInv, [Next]_vars PROVE NothingWholesale'
  OBVIOUS
<1>1. CASE UNCHANGED crm
  BY <1>1, AInvFacts DEF NothingWholesale
<1>2. ASSUME NEW p \in Procs, SendOrder(p) \/ SendFails(p) PROVE NothingWholesale'
  <2>1. /\ job[p].order \in Retail /\ Written(job[p]).order = job[p].order
        /\ crm' = Append(crm, Written(job[p])) \/ UNCHANGED crm
    BY <1>2, AInvFacts DEF SendOrder, SendFails, Written, Retail, TypeOK, ControlOK, InHand, OrderLabels
  <2>2. crm \in Seq(SalesRow)
    BY AInvFacts DEF TypeOK
  <2> QED BY <1>1, <2>1, <2>2, AInvFacts DEF NothingWholesale
<1>3. ASSUME NEW p \in Procs, ProcessOrder(p), ~(SendOrder(p) \/ SendFails(p)) PROVE UNCHANGED crm
  BY <1>3 DEF ProcessOrder, Contact, ResolveProducts, SendNothing, PayCreate, PayRecord, PayMark,
     Stamp, Link, crmVars
<1>4. CASE PollerStep /\ ~ProcessOrder(Poller)
  BY <1>1, <1>4 DEF PollerStep, ScanStatus, MarkB2B, NextOrder, OrdersDone, PendingScan, PendingNext,
     PendingDone, UpdateScan, UpdateNext, UpdatesDone, PushStatus, StoreStatus, Fetch, crmVars
<1>5. CASE Environment \/ UNCHANGED vars
  BY <1>1, <1>5 DEF Environment, ShopMoves, WfReports, DaysPass, CatalogAdds, ManagerDeletes, Crash, vars, crmVars
<1>6. ASSUME NEW p \in Pushers, NEW q \in Orders, PushBegin(p, q) PROVE UNCHANGED crm
  BY <1>6 DEF PushBegin, crmVars
<1> QED BY <1>1, <1>2, <1>3, <1>4, <1>5, <1>6, ProcsFacts DEF Next

LEMMA SettledStep == AInv /\ [Next]_vars => Settled'
<1> SUFFICES ASSUME AInv, [Next]_vars, NEW o \in Retail, Working', job'[Poller].scan = 0, job'[Poller].order = o
             PROVE  zohoId'[o] # NoId
  BY DEF Settled
<1>1. zohoId'[o] = NoId => zohoId[o] = NoId
  BY NeverEmptied
<1>2. CASE pc'[Poller] = pc[Poller] /\ job'[Poller] = job[Poller]
  BY <1>1, <1>2, AInvFacts DEF Settled, Working
<1>3. CASE ProcessOrder(Poller)
  <2>1. GoesOn(Poller)
    <3>1. ~Finish(Poller) /\ ~Drop(Poller, "pending")
      BY AInvFacts DEF Finish, Drop, Goto, Working, OrderLabels
    <3> QED BY <1>3, <3>1, AInvFacts, Moves
  <2>2. Working
    BY <1>3, AInvFacts, PhaseKept
  <2> QED BY <1>1, <2>1, <2>2, AInvFacts DEF Settled, GoesOn
<1>4. CASE NextOrder
  <2>1. PICK j \in batch : job' = [job EXCEPT ![Poller] = [j EXCEPT !.known = NoId]] /\ Syncing
    BY <1>4 DEF NextOrder, Syncing
  <2>2. j.scan # 0 /\ j \in JobRow
    BY <2>1, AInvFacts, StatusesFacts DEF Worklist, RowOK
  <2> QED BY <2>1, <2>2, AInvFacts DEF JobRow
<1>5. CASE PendingNext
  <2>1. PICK j \in batch : \/ UNCHANGED <<pc, job>>
                           \/ /\ ZohoOrderExists(zohoId[j.order]) /\ UNCHANGED zohoId
                              /\ job' = [job EXCEPT ![Poller] = [j EXCEPT !.so = zohoId[j.order]]]
    BY <1>5 DEF PendingNext, dbVars
  <2>2. j \in JobRow
    BY AInvFacts
  <2> QED BY <1>2, <2>1, <2>2, AInvFacts DEF JobRow, ZohoOrderExists
<1>6. CASE PollerStep /\ ~ProcessOrder(Poller) /\ ~NextOrder /\ ~PendingNext
  <2>1. pc'[Poller] \in WorkerLabels
    BY <1>6, AInvFacts DEF PollerStep, ScanStatus, MarkB2B, OrdersDone, PendingScan, PendingDone, UpdateScan,
       UpdateNext, UpdatesDone, PushStatus, StoreStatus, Fetch, Drop, Goto, WorkerLabels
  <2> QED BY <2>1 DEF Working, OrderLabels, WorkerLabels
<1>7. CASE Crash
  BY <1>7, ProcsFacts DEF Crash, Working, OrderLabels
<1> QED BY <1>2, <1>3, <1>4, <1>5, <1>6, <1>7, AInvFacts, OthersLeave DEF Next

LEMMA InitAccount == Init => NothingWholesale /\ Settled /\ \A o \in Retail : Account(o)
<1> SUFFICES ASSUME Init PROVE NothingWholesale /\ Settled /\ \A o \in Retail : Account(o)
  OBVIOUS
<1>1. NothingWholesale
  BY DEF Init, NothingWholesale
<1>2. pc[Poller] = "scan" /\ \A p \in Procs : pc[p] \in {"scan", "idle"}
  BY ProcsFacts DEF Init
<1>3. Settled
  BY <1>2 DEF Settled, Working, OrderLabels
<1>4. ASSUME NEW o \in Retail PROVE Account(o)
  <2>1. Copies(o) = {} /\ Payments(o) = {} /\ Rows(o) = {}
    BY DEF Init, Copies, Payments, Rows
  <2>2. Sends(o) = {} /\ PaySends(o) = {}
    BY <1>2 DEF Sends, PaySends, SendLabels
  <2>3. IsFiniteSet({}) /\ Cardinality({}) = 0 /\ Excuses = 0
    BY FS_EmptySet DEF Init, Excuses, Disturbances
  <2>4. /\ SaleCount(o) = 0 /\ PayCount(o) = 0
        /\ Count(Syncing, Rows(o)) = 0 /\ Count(Listing, Rows(o)) = 0
    BY <2>1, <2>2, <2>3 DEF SaleCount, PayCount, Count
  <2>5. Num(SaleDue(o)) \in {0, 1} /\ Num(PaymentDue(o)) \in {0, 1}
    BY DEF Num
  <2> QED BY <2>1, <2>2, <2>3, <2>4, <2>5 DEF Account
<1> QED BY <1>1, <1>3, <1>4

(* DuplicatesAccounted: whatever the interleaving, an order has one Sales     *)
(* Order and one Payment, and more only as the price of lost calls, restarts, *)
(* push requests and moves of the order, one for one.                         *)
THEOREM OneForOne == Spec => []DuplicatesAccounted
<1>1. Init => AInv
  BY InitType, InitBelongs, InitHeld, InitWorklist, InitAccount DEF AInv, RInv, IInv
<1>2. AInv /\ [Next]_vars => AInv'
  BY RInductive, WorklistStep, AccountStep, WholesaleStep, SettledStep DEF AInv, RInv, IInv
<1>3. AInv => DuplicatesAccounted
  <2> SUFFICES ASSUME AInv, NEW o \in Orders
               PROVE  Cardinality(Copies(o)) <= 1 + Excuses /\ Cardinality(Payments(o)) <= 1 + Excuses
    BY DEF DuplicatesAccounted
  <2>1. CASE o \in B2BOrders
    <3>1. Copies(o) = {}
      BY <2>1, AInvFacts DEF NothingWholesale, Copies, Retail
    <3>2. Payments(o) = {}
      BY <2>1, AInvFacts DEF NothingWholesale, Payments, RecordsBelong, OwnSale, Retail
    <3>3. Excuses \in Nat
      BY AInvFacts DEF TypeOK, Excuses, Disturbances
    <3> QED BY <3>1, <3>2, <3>3, FS_EmptySet
  <2>2. CASE o \notin B2BOrders
    <3>1. o \in Retail
      BY <2>2 DEF Retail
    <3>2. /\ Cardinality(Copies(o)) <= SaleCount(o) /\ Cardinality(Payments(o)) <= PayCount(o)
          /\ Cardinality(Copies(o)) \in Nat /\ Cardinality(Payments(o)) \in Nat
          /\ SaleCount(o) \in Nat /\ PayCount(o) \in Nat
          /\ Count(Syncing, Rows(o)) \in Nat /\ Count(Listing, Rows(o)) \in Nat
      BY <3>1, AccountFacts DEF SaleCount, PayCount, Count
    <3>3. Num(SaleDue(o)) \in Nat /\ Num(PaymentDue(o)) \in Nat /\ Excuses \in Nat
      BY <3>1, AccountFacts DEF Num
    <3> QED BY <3>1, <3>2, <3>3, AccountFacts DEF Account
  <2> QED BY <2>1, <2>2
<1> QED BY <1>1, <1>2, <1>3, PTL DEF Spec
=============================================================================
