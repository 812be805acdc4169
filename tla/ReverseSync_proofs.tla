-------------------------- MODULE ReverseSync_proofs --------------------------
(***************************************************************************)
(* Proofs about ReverseSync, for every set of orders and handlers, every   *)
(* batch size and every disturbance: the types, the discipline of the row  *)
(* lock, the connections that abandoned transactions cost, that a webhook  *)
(* only reaches the order whose row names its Sales Order, that echoes of  *)
(* the service's own creates are dropped, that an order shows the newest   *)
(* version once all is answered, as long as handlers stay apart, and that  *)
(* all of it does what ShopContract allows.                                *)
(***************************************************************************)
EXTENDS ReverseSync, SequenceTheorems, FiniteSetTheorems, TLAPS

(* Ids name versions: what a row, a version or a push under way refers to has *)
(* been written.  TypeOK needs it, since a manager edits by id.               *)
Known == DOMAIN log \cup {NoId}

IdsOK ==
  /\ \A i \in DOMAIN log : log[i].so \in DOMAIN log
  /\ \A o \in Orders : zohoId[o] \in Known /\ push[o].known \in Known /\ push[o].so \in Known

TInv == TypeOK /\ IdsOK

LEMMA Kinds ==
  {"fault", "insert", "stamp", "crash", "push", "move", "again", "second", "undated"}
    \subseteq Disturbances
BY DEF Disturbances

(* A disturbance leaves the counters counters. *)
LEMMA SpendType ==
  ASSUME TypeOK, NEW k \in Disturbances, Spend(k)
  PROVE  used' \in [Disturbances -> Nat]
BY DEF TypeOK, Spend

LEMMA NoJobType == NoJob \in JobRow /\ NoJob' = NoJob /\ NoJob' \in JobRow'
<1>1. <<>> \in Seq(DOMAIN log) /\ <<>> \in Seq(DOMAIN log')
  OBVIOUS
<1> QED BY <1>1 DEF NoJob, JobRow

LEMMA NoPushType == NoPush \in PushRow
BY ReverseAssumption DEF NoPush, PushRow, NoId, NoTime

(* The webhook in hand is a version. *)
LEMMA HookType ==
  ASSUME TypeOK, NEW h \in Handlers, pc[h] # "idle"
  PROVE  /\ job[h].todo \in Seq(DOMAIN log) /\ job[h].todo # <<>>
         /\ Head(job[h].todo) \in DOMAIN log
         /\ Hook(h) \in Version /\ Hook(h).order \in Orders
<1>1. job[h].todo \in Seq(DOMAIN log) /\ job[h].todo # <<>>
  BY DEF TypeOK, HandlersOK, JobRow
<1>2. Head(job[h].todo) \in DOMAIN log
  BY <1>1
<1>3. Hook(h) \in Version
  BY <1>2, ElementOfSeq DEF TypeOK, Hook
<1> QED BY <1>1, <1>2, <1>3 DEF Version

LEMMA StatusType ==
  ASSUME TypeOK, NEW h \in Handlers, job[h].snap \in Statuses
  PROVE  NewStatus(h) \in Statuses
BY ReverseAssumption DEF NewStatus

-----------------------------------------------------------------------------
(* The ways a handler moves on *)

LEMMA GotoType ==
  ASSUME TypeOK, UNCHANGED <<log, job>>, NEW h \in Handlers, NEW l \in Labels, Goto(h, l),
         pc[h] # "idle", job[h].snap \in Statuses \/ l \in {"idle", "search"}
  PROVE  HandlersOK'
BY DEF TypeOK, HandlersOK, Goto, JobRow

LEMMA LeaveType ==
  ASSUME TypeOK, UNCHANGED log, NEW h \in Handlers, Leave(h)
  PROVE  HandlersOK'
<1>1. JobRow' = JobRow
  BY DEF JobRow
<1> QED BY <1>1, NoJobType DEF TypeOK, HandlersOK, Leave, Goto, Labels

LEMMA FailType ==
  ASSUME TypeOK, UNCHANGED log, NEW h \in Handlers, Fail(h)
  PROVE  HandlersOK' /\ outbox' \subseteq DOMAIN log'
BY LeaveType DEF Fail, TypeOK

LEMMA LongTail ==
  ASSUME NEW S, NEW s \in Seq(S), Len(s) > 1
  PROVE  Tail(s) \in Seq(S) /\ Tail(s) # <<>>
<1>1. s # <<>>
  BY EmptySeq
<1>2. Tail(s) \in Seq(S) /\ Len(Tail(s)) = Len(s) - 1 /\ Len(s) \in Nat
  BY <1>1, HeadTailProperties, LenProperties
<1> DEFINE t == Tail(s)
<1>3. t \in Seq(S) /\ Len(t) # 0
  BY <1>2
<1> HIDE DEF t
<1>4. t # <<>>
  BY <1>3, EmptySeq
<1> QED BY <1>3, <1>4 DEF t

LEMMA ProceedType ==
  ASSUME TypeOK, UNCHANGED log, NEW h \in Handlers, pc[h] # "idle", Proceed(h)
  PROVE  HandlersOK' /\ outbox' \subseteq DOMAIN log'
<1>1. CASE Len(job[h].todo) > 1
  <2> DEFINE j == [NoJob EXCEPT !.todo = Tail(job[h].todo), !.sent = job[h].sent]
  <2>1. Tail(job[h].todo) \in Seq(DOMAIN log) /\ Tail(job[h].todo) # <<>>
    BY <1>1, HookType, LongTail
  <2>2. j \in JobRow /\ j.todo # <<>>
    BY <2>1 DEF NoJob, JobRow, TypeOK, HandlersOK
  <2>3. JobRow' = JobRow
    BY DEF JobRow
  <2> HIDE DEF j
  <2>4. job' = [job EXCEPT ![h] = j] /\ Goto(h, "search") /\ UNCHANGED outbox
    BY <1>1 DEF Proceed, j
  <2> QED BY <2>2, <2>3, <2>4 DEF TypeOK, HandlersOK, Goto, Labels
<1>2. CASE ~(Len(job[h].todo) > 1)
  BY <1>2, LeaveType DEF Proceed, TypeOK
<1> QED BY <1>1, <1>2

(* A version is stored while the handlers rest. *)
LEMMA StoreType ==
  ASSUME TypeOK, NEW v \in Version, Store(v), UNCHANGED <<pc, job>>
  PROVE  /\ HandlersOK' /\ log' \in Seq(Version) /\ outbox' \subseteq DOMAIN log'
         /\ DOMAIN log' = DOMAIN log \cup {Len(log) + 1}
         /\ \A i \in DOMAIN log : log'[i] = log[i]
         /\ log'[Len(log) + 1] = v
<1>1. /\ log' \in Seq(Version) /\ DOMAIN log' = DOMAIN log \cup {Len(log) + 1}
      /\ \A i \in DOMAIN log : log'[i] = log[i]
      /\ log'[Len(log) + 1] = v
  BY AppendProperties DEF TypeOK, Store
<1>2. JobRow \subseteq JobRow'
  <2>1. ASSUME NEW j \in JobRow PROVE j \in JobRow'
    <3>1. j.todo \in Seq(DOMAIN log')
      BY <1>1, <2>1 DEF JobRow
    <3> QED BY <1>1, <2>1, <3>1 DEF JobRow
  <2> QED BY <2>1
<1> QED BY <1>1, <1>2 DEF TypeOK, HandlersOK, Store

-----------------------------------------------------------------------------
(* Types, action by action *)

LEMMA InitType == Init => TInv
<1> SUFFICES ASSUME Init PROVE TInv
  OBVIOUS
<1>1. HandlersOK
  BY NoJobType DEF Init, HandlersOK, Labels
<1>2. TypeOK
  BY <1>1, NoPushType, ReverseAssumption DEF Init, TypeOK, NoTime, NoId
<1>3. IdsOK
  BY DEF Init, IdsOK, Known, NoPush
<1> QED BY <1>2, <1>3 DEF TInv

LEMMA RequestType ==
  ASSUME TInv, NEW h \in Handlers, NEW b \in Batches, Deliver(h, b)
  PROVE  TInv'
<1> DEFINE j == [NoJob EXCEPT !.todo = b, !.sent = {b[i] : i \in DOMAIN b}]
<1>1. PICK n \in 1..MaxBatch : b \in [1..n -> DOMAIN log]
  BY DEF Batches
<1>2. n \in Nat \ {0}
  BY ReverseAssumption
<1>3. b \in Seq(DOMAIN log) /\ b # <<>>
  BY <1>1, <1>2, IsASeq
<1>4. j \in JobRow /\ j.todo # <<>>
  BY <1>1, <1>3, NoJobType DEF NoJob, JobRow
<1> HIDE DEF j
<1>5. job' = [job EXCEPT ![h] = j] /\ Goto(h, "search") /\ UNCHANGED log
  BY DEF Deliver, j, crmVars
<1>6. JobRow' = JobRow
  BY <1>5 DEF JobRow
<1>7. HandlersOK'
  BY <1>4, <1>5, <1>6 DEF TInv, TypeOK, HandlersOK, Goto, Labels
<1>8. used' \in [Disturbances -> Nat]
  BY Kinds, SpendType DEF Deliver, TInv, TypeOK
<1> QED BY <1>7, <1>8 DEF Deliver, TInv, TypeOK, IdsOK, Known, rowVars, sqlVars, crmVars

LEMMA HandlerType ==
  ASSUME TInv, NEW h \in Handlers, UpdateOrder(h)
  PROVE  TInv'
<1> USE DEF TInv
<1>1. pc[h] # "idle"
  BY DEF UpdateOrder, Search, Load, Check, SetStatus, Begin, SelectForUpdate, Commit, Leak,
         Stamp, Aborts
<1>2. Hook(h) \in Version /\ Hook(h).order \in Orders
  BY <1>1, HookType
<1>3. UNCHANGED <<log, push>>
  BY DEF UpdateOrder, Search, Load, Check, SetStatus, Begin, SelectForUpdate, Commit, Leak,
         Stamp, Aborts, crmVars
<1>4. UNCHANGED zohoId
  BY DEF UpdateOrder, Search, Load, Check, SetStatus, Begin, SelectForUpdate, Commit, Leak,
         Stamp, Aborts, rowVars
<1>5. IdsOK'
  BY <1>3, <1>4 DEF IdsOK, Known
<1>6. used' \in [Disturbances -> Nat]
  <2>1. used' = used \/ Spend("fault") \/ Spend("insert") \/ Spend("stamp")
    BY DEF UpdateOrder, Search, Load, Check, SetStatus, Begin, SelectForUpdate, Commit, Leak,
           Stamp, Aborts
  <2> QED BY <2>1, Kinds, SpendType DEF TypeOK
<1>7. pc[h] \notin {"idle", "search"} => job[h].snap \in Statuses
  BY DEF TypeOK, HandlersOK
<1>8. pc[h] \notin {"idle", "search"} => NewStatus(h) \in Statuses
  BY <1>7, StatusType
<1>9. HandlersOK' /\ outbox' \subseteq DOMAIN log'
  <2>1. CASE Search(h)
    <3>1. CASE zohoId[Hook(h).order] = Hook(h).so
      <4>1. /\ job' = [job EXCEPT ![h].snap = status[Hook(h).order]]
            /\ Goto(h, "load") /\ UNCHANGED outbox
        BY <2>1, <3>1 DEF Search
      <4>2. status[Hook(h).order] \in Statuses
        BY <1>2 DEF TypeOK
      <4> QED BY <1>1, <1>3, <4>1, <4>2 DEF TypeOK, HandlersOK, JobRow, Goto, Labels
    <3>2. CASE zohoId[Hook(h).order] # Hook(h).so
      BY <1>3, <2>1, <3>2, FailType DEF Search
    <3> QED BY <3>1, <3>2
  <2>2. CASE Load(h)
    <3> DEFINE same == (items[Hook(h).order] = Hook(h).items)
               j == [job[h] EXCEPT !.same = same]
    <3>1. job' = [job EXCEPT ![h] = j] /\ Goto(h, "check") /\ UNCHANGED outbox
      BY <2>2 DEF Load, crmVars
    <3>2. job[h] \in JobRow /\ pc[h] = "load"
      BY <2>2 DEF TypeOK, HandlersOK, Load
    <3>3. same \in BOOLEAN
      OBVIOUS
    <3>4. j \in JobRow /\ j.todo = job[h].todo /\ j.snap = job[h].snap
      <4> HIDE DEF same
      <4> QED BY <3>2, <3>3 DEF JobRow
    <3>5. JobRow' = JobRow
      BY <1>3 DEF JobRow
    <3> HIDE DEF j
    <3> QED BY <1>3, <3>1, <3>2, <3>4, <3>5 DEF TypeOK, HandlersOK, Goto, Labels
  <2>3. CASE Check(h)
    <3>1. CASE IsEcho(h) /\ Proceed(h)
      BY <1>1, <1>3, <3>1, ProceedType
    <3>2. CASE ~IsEcho(h)
      <4>1. \E l \in {"begin", "status", "stamp"} : Goto(h, l) /\ UNCHANGED <<job, outbox>>
        BY <2>3, <3>2 DEF Check
      <4> QED BY <1>1, <1>3, <1>7, <2>3, <4>1, GotoType DEF Check, Labels, TypeOK
    <3> QED BY <2>3, <3>1, <3>2 DEF Check
  <2>4. CASE SetStatus(h)
    BY <1>1, <1>3, <1>7, <2>4, GotoType, FailType DEF SetStatus, Labels, TypeOK
  <2>5. CASE Begin(h) \/ SelectForUpdate(h)
    BY <1>1, <1>3, <1>7, <2>5, GotoType DEF Begin, SelectForUpdate, Labels, TypeOK, crmVars
  <2>6. CASE Commit(h)
    BY <1>1, <1>3, <1>7, <2>6, GotoType, FailType DEF Commit, Labels, TypeOK
  <2>7. CASE Leak(h) \/ Aborts(h)
    BY <1>3, <2>7, FailType DEF Leak, Aborts
  <2>8. CASE Stamp(h)
    BY <1>1, <1>3, <2>8, ProceedType DEF Stamp
  <2> QED BY <2>1, <2>2, <2>3, <2>4, <2>5, <2>6, <2>7, <2>8 DEF UpdateOrder
<1>10. /\ items' \in [Orders -> Items] /\ status' \in [Orders -> Statuses]
       /\ stamp' \in [Orders -> Nat]
  BY <1>2, <1>8 DEF UpdateOrder, Search, Load, Check, SetStatus, Begin, SelectForUpdate, Commit,
     Leak, Stamp, Aborts, rowVars, TypeOK, Version
<1>11. lock' \in [Orders -> Handlers \cup {Free, Orphan}] /\ leaked' \in Nat
  <2>1. CASE Aborts(h)
    BY <2>1 DEF Aborts, TypeOK
  <2>2. CASE SelectForUpdate(h) \/ Commit(h) \/ Leak(h)
    <3>1. \E l \in {h, Free, Orphan} : lock' = [lock EXCEPT ![Hook(h).order] = l]
      BY <2>2 DEF SelectForUpdate, Commit, Leak
    <3>2. leaked' \in {leaked, leaked + 1}
      BY <2>2 DEF SelectForUpdate, Commit, Leak
    <3>3. lock' \in [Orders -> Handlers \cup {Free, Orphan}]
      <4>1. PICK l \in {h, Free, Orphan} : lock' = [lock EXCEPT ![Hook(h).order] = l]
        BY <3>1
      <4>2. l \in Handlers \cup {Free, Orphan}
        OBVIOUS
      <4> QED BY <4>1, <4>2 DEF TypeOK
    <3>4. leaked' \in Nat
      BY <3>2 DEF TypeOK
    <3> QED BY <3>3, <3>4
  <2>3. CASE Search(h) \/ Load(h) \/ Check(h) \/ SetStatus(h) \/ Begin(h) \/ Stamp(h)
    BY <2>3 DEF Search, Load, Check, SetStatus, Begin, Stamp, sqlVars, TypeOK
  <2> QED BY <2>1, <2>2, <2>3 DEF UpdateOrder
<1> QED BY <1>3, <1>4, <1>5, <1>6, <1>9, <1>10, <1>11 DEF TypeOK

LEMMA SentType ==
  ASSUME TInv, NEW o \in Orders
  PROVE  Sent(o) \in Version /\ Sent(o).so \in DOMAIN log \cup {Len(log) + 1}
<1>1. Len(log) + 1 \in Nat /\ DOMAIN log \subseteq Nat
  BY DEF TInv, TypeOK
<1>2. push[o].known \in Nat /\ push[o].items \in Items
  BY DEF TInv, TypeOK, PushRow
<1>3. push[o].known # NoId => push[o].known \in DOMAIN log
  BY DEF TInv, IdsOK, Known
<1> QED BY <1>1, <1>2, <1>3, ReverseAssumption DEF Sent, Version

(* A stored version keeps every id known, if it carries a known one itself.   *)
LEMMA StoreIds ==
  ASSUME TInv, NEW v \in Version, Store(v), UNCHANGED <<pc, job>>,
         v.so \in DOMAIN log \cup {Len(log) + 1}
  PROVE  /\ HandlersOK' /\ log' \in Seq(Version) /\ outbox' \subseteq DOMAIN log'
         /\ Known \subseteq Known' /\ Len(log) + 1 \in Known'
         /\ \A i \in DOMAIN log' : log'[i].so \in DOMAIN log'
<1>1. /\ HandlersOK' /\ log' \in Seq(Version) /\ outbox' \subseteq DOMAIN log'
      /\ DOMAIN log' = DOMAIN log \cup {Len(log) + 1}
      /\ \A i \in DOMAIN log : log'[i] = log[i]
      /\ log'[Len(log) + 1] = v
  BY StoreType DEF TInv
<1> QED BY <1>1 DEF TInv, IdsOK, Known

LEMMA PushType ==
  ASSUME TInv, NEW o \in Orders, PushStep(o) \/ RequestReads(o)
  PROVE  TInv'
<1> USE DEF TInv
<1>1. CASE PollerReads(o) \/ RequestReads(o)
  <2> DEFINE p == [NoPush EXCEPT !.at = "send", !.known = zohoId[o], !.items = items[o]]
  <2>1. p \in PushRow /\ p.known \in Known /\ p.so \in Known
    BY NoPushType DEF TypeOK, IdsOK, Known, NoPush, PushRow
  <2> HIDE DEF p
  <2>2. push' = [push EXCEPT ![o] = p] /\ UNCHANGED <<rowVars, sqlVars, crmVars, pc, job>>
    BY <1>1 DEF PollerReads, RequestReads, PushRead, p
  <2>3. used' \in [Disturbances -> Nat]
    BY <1>1, Kinds, SpendType DEF PollerReads, RequestReads, TypeOK
  <2> QED BY <2>1, <2>2, <2>3
          DEF TypeOK, IdsOK, Known, HandlersOK, JobRow, rowVars, sqlVars, crmVars
<1>2. CASE PushSend(o)
  <2>1. Sent(o) \in Version /\ Sent(o).so \in DOMAIN log \cup {Len(log) + 1}
    BY SentType
  <2>2. UNCHANGED <<rowVars, sqlVars, pc, job>>
    BY <1>2 DEF PushSend
  <2>3. used' \in [Disturbances -> Nat]
    BY <1>2, Kinds, SpendType DEF PushSend, TypeOK
  <2>4. CASE Store(Sent(o)) /\ push' = [push EXCEPT ![o].at = "stamp", ![o].so = Sent(o).so,
                                                   ![o].time = Sent(o).time]
    <3> DEFINE p == [push[o] EXCEPT !.at = "stamp", !.so = Sent(o).so, !.time = Sent(o).time]
    <3>1. Sent(o).time \in Nat /\ Sent(o).so \in Nat
      BY <2>1 DEF Version
    <3>2. push[o] \in PushRow /\ push[o].known \in Known
      BY DEF TypeOK, IdsOK
    <3>3. p \in PushRow /\ p.known = push[o].known /\ p.so = Sent(o).so
      BY <3>1, <3>2 DEF PushRow
    <3>4. push' = [push EXCEPT ![o] = p]
      BY <2>4
    <3> HIDE DEF p
    <3>5. /\ HandlersOK' /\ log' \in Seq(Version) /\ outbox' \subseteq DOMAIN log'
          /\ Known \subseteq Known' /\ Len(log) + 1 \in Known'
          /\ \A i \in DOMAIN log' : log'[i].so \in DOMAIN log'
      BY <2>1, <2>2, <2>4, StoreIds
    <3>6. p.known \in Known' /\ p.so \in Known'
      BY <2>1, <3>2, <3>3, <3>5 DEF Known
    <3> QED BY <2>2, <2>3, <3>3, <3>4, <3>5, <3>6 DEF TypeOK, IdsOK, rowVars, sqlVars
  <2>5. CASE Store(Sent(o)) /\ push' = [push EXCEPT ![o] = NoPush]
    <3>1. /\ HandlersOK' /\ log' \in Seq(Version) /\ outbox' \subseteq DOMAIN log'
          /\ Known \subseteq Known'
          /\ \A i \in DOMAIN log' : log'[i].so \in DOMAIN log'
      BY <2>1, <2>2, <2>5, StoreIds
    <3>2. NoPush \in PushRow /\ NoPush.known \in Known' /\ NoPush.so \in Known'
      BY NoPushType DEF NoPush, Known
    <3> QED BY <2>2, <2>3, <2>5, <3>1, <3>2 DEF TypeOK, IdsOK, rowVars, sqlVars
  <2>6. CASE UNCHANGED crmVars /\ push' = [push EXCEPT ![o] = NoPush]
    <3>1. NoPush \in PushRow /\ NoPush.known \in Known /\ NoPush.so \in Known
      BY NoPushType DEF NoPush, Known
    <3>2. HandlersOK' /\ Known' = Known
      BY <2>2, <2>6 DEF TypeOK, HandlersOK, JobRow, Known, crmVars
    <3> QED BY <2>2, <2>3, <2>6, <3>1, <3>2 DEF TypeOK, IdsOK, rowVars, sqlVars, crmVars
  <2> QED BY <1>2, <2>4, <2>5, <2>6 DEF PushSend
<1>3. CASE PushStamp(o)
  <2>1. UNCHANGED <<items, status, zohoId, sqlVars, crmVars, pc, job>>
    BY <1>3 DEF PushStamp
  <2>2. push' \in [Orders -> PushRow] /\ stamp' \in [Orders -> Nat]
    BY <1>3 DEF PushStamp, TypeOK, PushRow
  <2>3. \A q \in Orders : push'[q].known = push[q].known /\ push'[q].so = push[q].so
    BY <1>3 DEF PushStamp, TypeOK, PushRow
  <2>4. used' \in [Disturbances -> Nat]
    BY <1>3, Kinds, SpendType DEF PushStamp, TypeOK
  <2> QED BY <2>1, <2>2, <2>3, <2>4
          DEF TypeOK, IdsOK, Known, HandlersOK, JobRow, sqlVars, crmVars
<1>4. CASE PushLink(o)
  <2>1. UNCHANGED <<items, status, stamp, sqlVars, crmVars, pc, job>>
    BY <1>4 DEF PushLink
  <2>2. push' \in [Orders -> PushRow] /\ zohoId' \in [Orders -> Nat]
    BY <1>4, NoPushType DEF PushLink, TypeOK, PushRow
  <2>3. \A q \in Orders : push'[q].known \in Known /\ push'[q].so \in Known
                          /\ zohoId'[q] \in Known
    BY <1>4 DEF PushLink, TypeOK, IdsOK, NoPush, Known
  <2>4. used' \in [Disturbances -> Nat]
    BY <1>4, Kinds, SpendType DEF PushLink, TypeOK
  <2> QED BY <2>1, <2>2, <2>3, <2>4
          DEF TypeOK, IdsOK, Known, HandlersOK, JobRow, sqlVars, crmVars
<1> QED BY <1>1, <1>2, <1>3, <1>4 DEF PushStep

LEMMA EditType ==
  ASSUME TInv, NEW s \in SalesOrders, NEW i \in Items, NEW n \in Names, ManagerEdits(s, i, n)
  PROVE  TInv'
<1> USE DEF TInv
<1>1. s \in DOMAIN log
  BY DEF SalesOrders, IdsOK
<1>2. log[s] \in Version /\ log[Len(log)] \in Version /\ Len(log) \in Nat /\ s \in Nat
  BY <1>1, ElementOfSeq, LenProperties DEF TypeOK
<1>3. PICK t \in {Len(log) + 1, log[Len(log)].time, NoTime} :
        /\ used' = used \/ Spend("undated") \/ Spend("second")
        /\ Store([order |-> log[s].order, so |-> s, items |-> i, name |-> n,
                  time |-> t, own |-> FALSE])
  BY DEF ManagerEdits
<1> DEFINE v == [order |-> log[s].order, so |-> s, items |-> i, name |-> n,
                 time |-> t, own |-> FALSE]
<1>4. v \in Version /\ v.so = s
  BY <1>2 DEF Version, NoTime
<1> HIDE DEF v
<1>5. Store(v) /\ UNCHANGED <<rowVars, sqlVars, pc, job, push>>
  BY <1>3 DEF ManagerEdits, v
<1>6. /\ HandlersOK' /\ log' \in Seq(Version) /\ outbox' \subseteq DOMAIN log'
      /\ Known \subseteq Known'
      /\ \A k \in DOMAIN log' : log'[k].so \in DOMAIN log'
  BY <1>1, <1>4, <1>5, StoreIds
<1>7. used' \in [Disturbances -> Nat]
  BY <1>3, Kinds, SpendType DEF TypeOK
<1> QED BY <1>5, <1>6, <1>7 DEF TypeOK, IdsOK, rowVars, sqlVars

LEMMA CrashType == ASSUME TInv, Crash PROVE TInv'
<1> USE DEF TInv
<1>1. used' \in [Disturbances -> Nat]
  BY Kinds, SpendType DEF Crash
<1>2. JobRow' = JobRow
  BY DEF Crash, crmVars, JobRow
<1>3. HandlersOK'
  BY <1>2, NoJobType DEF Crash, HandlersOK, Labels
<1>4. push' \in [Orders -> PushRow]
  BY NoPushType DEF Crash
<1>5. IdsOK'
  BY DEF Crash, crmVars, rowVars, IdsOK, Known, NoPush
<1> QED BY <1>1, <1>3, <1>4, <1>5 DEF Crash, TypeOK, rowVars, crmVars

LEMMA MoveType ==
  ASSUME TInv, NEW o \in Orders, NEW s \in Statuses, ShopMoves(o, s) PROVE TInv'
<1> USE DEF TInv
<1>1. used' \in [Disturbances -> Nat]
  BY Kinds, SpendType DEF ShopMoves
<1> QED BY <1>1 DEF ShopMoves, TypeOK, IdsOK, Known, HandlersOK, JobRow, sqlVars, crmVars

LEMMA TypeStep == TInv /\ [Next]_vars => TInv'
<1> SUFFICES ASSUME TInv, [Next]_vars PROVE TInv'
  OBVIOUS
<1>1. CASE UNCHANGED vars
  BY <1>1 DEF vars, rowVars, sqlVars, crmVars, TInv, TypeOK, IdsOK, Known, HandlersOK, JobRow
<1>2. CASE \E h \in Handlers : UpdateOrder(h) \/ \E b \in Batches : Deliver(h, b)
  BY <1>2, HandlerType, RequestType
<1>3. CASE \E o \in Orders : PushStep(o) \/ RequestReads(o)
  BY <1>3, PushType
<1>4. CASE \E s \in SalesOrders, i \in Items, n \in Names : ManagerEdits(s, i, n)
  BY <1>4, EditType
<1>5. CASE \E o \in Orders, s \in Statuses : ShopMoves(o, s)
  BY <1>5, MoveType
<1>6. CASE Crash
  BY <1>6, CrashType
<1> QED BY <1>1, <1>2, <1>3, <1>4, <1>5, <1>6 DEF Next, Environment

(* The columns, the versions in Zoho and every local value of the webhook     *)
(* handlers (api-order.go) and of the pushes (orders.go) keep their types.    *)
THEOREM TypeCorrect == Spec => []TypeOK
<1>1. Spec => []TInv
  BY InitType, TypeStep, PTL DEF Spec
<1>2. TInv => TypeOK
  BY DEF TInv
<1> QED BY <1>1, <1>2, PTL

-----------------------------------------------------------------------------
(* The row lock *)

LEMMA HookKept ==
  ASSUME TypeOK, NEW g \in Handlers, pc[g] # "idle", job'[g] = job[g],
         \A i \in DOMAIN log : log'[i] = log[i]
  PROVE  Hook(g)' = Hook(g)
BY HookType DEF Hook

(* A step that neither enters nor leaves a transaction leaves the locks alone. *)
LEMMA LockFrame ==
  ASSUME TypeOK, LockIsHeldInTransaction, UNCHANGED lock,
         \A i \in DOMAIN log : log'[i] = log[i],
         \A g \in Handlers : /\ pc'[g] = "tx" <=> pc[g] = "tx"
                             /\ pc[g] = "tx" => job'[g] = job[g]
  PROVE  LockIsHeldInTransaction'
<1>1. \A g \in Handlers : pc[g] = "tx" => Hook(g)' = Hook(g)
  BY HookKept
<1> QED BY <1>1 DEF LockIsHeldInTransaction

(* So does a step of one handler outside of a transaction. *)
LEMMA LockElsewhere ==
  ASSUME TypeOK, LockIsHeldInTransaction, UNCHANGED <<lock, log>>, NEW h \in Handlers,
         pc[h] # "tx", NEW l \in Labels \ {"tx"}, Goto(h, l),
         job' = job \/ \E j : job' = [job EXCEPT ![h] = j]
  PROVE  LockIsHeldInTransaction'
<1>1. \A g \in Handlers : /\ pc'[g] = "tx" <=> pc[g] = "tx"
                          /\ pc[g] = "tx" => job'[g] = job[g]
  BY DEF TypeOK, HandlersOK, Goto
<1> QED BY <1>1, LockFrame

(* A transaction of h ends, and its lock passes to l. *)
LEMMA LockPasses ==
  ASSUME TypeOK, LockIsHeldInTransaction, UNCHANGED log, NEW h \in Handlers,
         pc[h] = "tx", NEW l \in {Free, Orphan},
         lock' = [lock EXCEPT ![Hook(h).order] = l], pc'[h] # "tx",
         \A g \in Handlers \ {h} : pc'[g] = pc[g] /\ job'[g] = job[g]
  PROVE  LockIsHeldInTransaction'
<1> SUFFICES ASSUME NEW o \in Orders, NEW g \in Handlers
             PROVE  lock'[o] = g <=> pc'[g] = "tx" /\ Hook(g)'.order = o
  BY DEF LockIsHeldInTransaction
<1>1. Hook(h).order \in Orders /\ lock[Hook(h).order] = h
  BY HookType DEF LockIsHeldInTransaction
<1>2. lock'[o] = IF o = Hook(h).order THEN l ELSE lock[o]
  BY <1>1 DEF TypeOK
<1>3. l # g
  BY ReverseAssumption
<1>4. CASE g = h
  BY <1>1, <1>2, <1>3, <1>4 DEF LockIsHeldInTransaction
<1>5. CASE g # h
  <2>1. pc'[g] = "tx" => Hook(g)' = Hook(g)
    BY <1>5, HookKept
  <2> QED BY <1>1, <1>2, <1>3, <1>5, <2>1 DEF LockIsHeldInTransaction
<1> QED BY <1>4, <1>5

(* Where a handler goes when it fails, or is done with a webhook. *)
LEMMA AfterFail ==
  ASSUME TypeOK, NEW h \in Handlers, Fail(h)
  PROVE  /\ Goto(h, "idle") /\ \E j : job' = [job EXCEPT ![h] = j]
         /\ pc'[h] = "idle"
         /\ \A g \in Handlers \ {h} : pc'[g] = pc[g] /\ job'[g] = job[g]
BY DEF Fail, Leave, Goto, TypeOK, HandlersOK

LEMMA AfterProceed ==
  ASSUME NEW h \in Handlers, Proceed(h)
  PROVE  /\ Goto(h, "search") \/ Goto(h, "idle")
         /\ \E j : job' = [job EXCEPT ![h] = j]
BY DEF Proceed, Leave

LEMMA HandlerLocks ==
  ASSUME TypeOK, LockIsHeldInTransaction, NEW h \in Handlers, UpdateOrder(h)
  PROVE  LockIsHeldInTransaction'
<1>1. CASE Search(h) \/ Load(h)
  <2>1. /\ pc[h] # "tx" /\ UNCHANGED <<lock, log>>
        /\ \E j : job' = [job EXCEPT ![h] = j]
        /\ \E l \in {"load", "check", "idle"} : Goto(h, l)
    BY <1>1, AfterFail DEF Search, Load, sqlVars, crmVars
  <2> QED BY <2>1, LockElsewhere DEF Labels
<1>2. CASE Check(h)
  <2>1. pc[h] # "tx" /\ UNCHANGED <<lock, log>>
    BY <1>2 DEF Check, sqlVars
  <2>2. \/ job' = job /\ \E l \in {"begin", "status", "stamp"} : Goto(h, l)
        \/ Proceed(h)
    BY <1>2 DEF Check
  <2> QED BY <2>1, <2>2, AfterProceed, LockElsewhere DEF Labels
<1>3. CASE SetStatus(h)
  <2>1. pc[h] # "tx" /\ UNCHANGED <<lock, log>>
    BY <1>3 DEF SetStatus, sqlVars
  <2>2. (job' = job /\ Goto(h, "stamp")) \/ Fail(h)
    BY <1>3 DEF SetStatus
  <2> QED BY <2>1, <2>2, AfterFail, LockElsewhere DEF Labels
<1>4. CASE Begin(h)
  BY <1>4, LockElsewhere DEF Begin, Labels, sqlVars, crmVars
<1>5. CASE SelectForUpdate(h)
  <2>1. Hook(h).order \in Orders /\ pc[h] = "lock" /\ lock[Hook(h).order] = Free
    BY <1>5, HookType DEF SelectForUpdate
  <2>2. \A g \in Handlers : pc[g] # "idle" => Hook(g)' = Hook(g)
    BY <1>5, HookKept DEF SelectForUpdate, crmVars
  <2>3. pc'[h] = "tx" /\ \A g \in Handlers \ {h} : pc'[g] = pc[g]
    BY <1>5 DEF SelectForUpdate, Goto, TypeOK, HandlersOK
  <2>4. \A o \in Orders : lock'[o] = IF o = Hook(h).order THEN h ELSE lock[o]
    BY <1>5 DEF SelectForUpdate, TypeOK
  <2>5. \A g \in Handlers : pc[g] = "tx" => Hook(g).order # Hook(h).order
    BY <2>1, ReverseAssumption DEF LockIsHeldInTransaction
  <2>6. \A o \in Orders : lock[o] # h
    BY <2>1 DEF LockIsHeldInTransaction
  <2> SUFFICES ASSUME NEW o \in Orders, NEW g \in Handlers
               PROVE  lock'[o] = g <=> pc'[g] = "tx" /\ Hook(g)'.order = o
    BY DEF LockIsHeldInTransaction
  <2>7. CASE g = h
    BY <2>1, <2>2, <2>3, <2>4, <2>6, <2>7
  <2>8. CASE g # h
    BY <2>1, <2>2, <2>3, <2>4, <2>5, <2>8 DEF LockIsHeldInTransaction
  <2> QED BY <2>7, <2>8
<1>6. CASE Commit(h)
  <2>1. pc[h] = "tx" /\ UNCHANGED log /\ lock' = [lock EXCEPT ![Hook(h).order] = Free]
    BY <1>6 DEF Commit
  <2>2. pc'[h] # "tx" /\ \A g \in Handlers \ {h} : pc'[g] = pc[g] /\ job'[g] = job[g]
    BY <1>6, AfterFail DEF Commit, Goto, TypeOK, HandlersOK
  <2> QED BY <2>1, <2>2, LockPasses
<1>7. CASE Leak(h)
  <2>1. pc[h] = "tx" /\ UNCHANGED log /\ lock' = [lock EXCEPT ![Hook(h).order] = Orphan]
    BY <1>7 DEF Leak
  <2>2. pc'[h] # "tx" /\ \A g \in Handlers \ {h} : pc'[g] = pc[g] /\ job'[g] = job[g]
    BY <1>7, AfterFail DEF Leak
  <2> QED BY <2>1, <2>2, LockPasses
<1>8. CASE Stamp(h)
  <2>1. pc[h] # "tx" /\ UNCHANGED <<lock, log>> /\ Proceed(h)
    BY <1>8 DEF Stamp, sqlVars
  <2> QED BY <2>1, AfterProceed, LockElsewhere DEF Labels
<1>9. CASE Aborts(h)
  <2>1. /\ pc'[h] # "tx" /\ UNCHANGED log
        /\ \A g \in Handlers \ {h} : pc'[g] = pc[g] /\ job'[g] = job[g]
        /\ \A o \in Orders : lock'[o] = IF lock[o] = h THEN Free ELSE lock[o]
    BY <1>9, AfterFail DEF Aborts
  <2>2. \A g \in Handlers \ {h} : pc[g] = "tx" => Hook(g)' = Hook(g)
    BY <2>1, HookKept
  <2> QED BY <2>1, <2>2, ReverseAssumption DEF LockIsHeldInTransaction
<1> QED BY <1>1, <1>2, <1>3, <1>4, <1>5, <1>6, <1>7, <1>8, <1>9 DEF UpdateOrder

LEMMA LockStep ==
  TInv /\ LockIsHeldInTransaction /\ [Next]_vars => LockIsHeldInTransaction'
<1> SUFFICES ASSUME TInv, LockIsHeldInTransaction, [Next]_vars PROVE LockIsHeldInTransaction'
  OBVIOUS
<1> USE DEF TInv
<1>1. CASE \E h \in Handlers : UpdateOrder(h)
  BY <1>1, HandlerLocks
<1>2. CASE \E h \in Handlers, b \in Batches : Deliver(h, b)
  BY <1>2, LockElsewhere DEF Deliver, Labels, sqlVars, crmVars
<1>3. CASE UNCHANGED <<lock, log, pc, job>>
  BY <1>3, LockFrame
<1>4. CASE UNCHANGED <<lock, pc, job>> /\ \E v \in Version : Store(v)
  BY <1>4, LockFrame, StoreType
<1>5. CASE Crash
  BY <1>5, ReverseAssumption DEF Crash, LockIsHeldInTransaction
<1>6. CASE \E o \in Orders : PushStep(o) \/ RequestReads(o)
  <2>1. PICK o \in Orders : PushStep(o) \/ RequestReads(o)
    BY <1>6
  <2>2. UNCHANGED <<lock, pc, job>> /\ (UNCHANGED log \/ Store(Sent(o)))
    BY <2>1 DEF PushStep, PollerReads, RequestReads, PushRead, PushSend, PushStamp, PushLink,
                sqlVars, crmVars
  <2> QED BY <1>3, <1>4, <2>2, SentType
<1>7. CASE \E s \in SalesOrders, i \in Items, n \in Names : ManagerEdits(s, i, n)
  <2>1. UNCHANGED <<lock, pc, job>> /\ \E v : Store(v)
    BY <1>7 DEF ManagerEdits, sqlVars
  <2>2. \A i \in DOMAIN log : log'[i] = log[i]
    BY <2>1, AppendProperties DEF Store, TypeOK
  <2> QED BY <2>1, <2>2, LockFrame
<1>8. CASE \E o \in Orders, s \in Statuses : ShopMoves(o, s)
  BY <1>3, <1>8 DEF ShopMoves, sqlVars, crmVars
<1> QED BY <1>1, <1>2, <1>3, <1>5, <1>6, <1>7, <1>8 DEF Next, Environment, vars, sqlVars, crmVars

(* UpdateOrderWithTransaction (sql-client.go): a handler holds the row lock   *)
(* of an order exactly while its transaction on that order is open, through   *)
(* failures, time-outs and restarts.                                          *)
THEOREM LockDiscipline == Spec => []LockIsHeldInTransaction
<1>1. Init => LockIsHeldInTransaction
  BY ReverseAssumption DEF Init, LockIsHeldInTransaction
<1>2. Spec => [](TInv /\ LockIsHeldInTransaction)
  BY <1>1, InitType, TypeStep, LockStep, PTL DEF Spec
<1> QED BY <1>2, PTL

-----------------------------------------------------------------------------
(* Lost connections *)

Abandoned == {o \in Orders : lock[o] = Orphan}

LEMMA LeakHandler ==
  ASSUME IsFiniteSet(Orders), TypeOK, LockIsHeldInTransaction, LeakOncePerOrder,
         NEW h \in Handlers, UpdateOrder(h)
  PROVE  LeakOncePerOrder'
<1>1. CASE Search(h) \/ Load(h) \/ Check(h) \/ SetStatus(h) \/ Begin(h) \/ Stamp(h)
  BY <1>1 DEF Search, Load, Check, SetStatus, Begin, Stamp, sqlVars, LeakOncePerOrder
<1>2. CASE SelectForUpdate(h) \/ Commit(h) \/ Aborts(h)
  <2>1. CASE SelectForUpdate(h)
    <3>1. Hook(h).order \in Orders /\ lock[Hook(h).order] = Free /\ UNCHANGED leaked
          /\ lock' = [lock EXCEPT ![Hook(h).order] = h]
      BY <2>1, HookType DEF SelectForUpdate
    <3>2. Free # Orphan
      BY DEF Free, Orphan
    <3>3. Abandoned' = Abandoned
      BY <3>1, <3>2, ReverseAssumption DEF Abandoned, TypeOK
    <3> QED BY <3>1, <3>3 DEF LeakOncePerOrder, Abandoned
  <2>2. CASE Commit(h)
    <3>1. Hook(h).order \in Orders /\ lock[Hook(h).order] = h /\ UNCHANGED leaked
          /\ lock' = [lock EXCEPT ![Hook(h).order] = Free]
      BY <2>2, HookType DEF Commit, LockIsHeldInTransaction
    <3>2. Free # Orphan
      BY DEF Free, Orphan
    <3>3. Abandoned' = Abandoned
      BY <3>1, <3>2, ReverseAssumption DEF Abandoned, TypeOK
    <3> QED BY <3>1, <3>3 DEF LeakOncePerOrder, Abandoned
  <2>3. CASE Aborts(h)
    <3>1. UNCHANGED leaked /\ \A o \in Orders : lock'[o] = IF lock[o] = h THEN Free ELSE lock[o]
      BY <2>3 DEF Aborts
    <3>2. Free # Orphan
      BY DEF Free, Orphan
    <3>3. Abandoned' = Abandoned
      BY <3>1, <3>2, ReverseAssumption DEF Abandoned
    <3> QED BY <3>1, <3>3 DEF LeakOncePerOrder, Abandoned
  <2> QED BY <1>2, <2>1, <2>2, <2>3
<1>3. CASE Leak(h)
  <2>1. Hook(h).order \in Orders /\ lock[Hook(h).order] = h /\ leaked' = leaked + 1
        /\ lock' = [lock EXCEPT ![Hook(h).order] = Orphan]
    BY <1>3, HookType DEF Leak, LockIsHeldInTransaction
  <2>2. Hook(h).order \notin Abandoned /\ Abandoned' = Abandoned \cup {Hook(h).order}
    BY <2>1, ReverseAssumption DEF Abandoned, TypeOK
  <2>3. IsFiniteSet(Abandoned)
    BY FS_Subset DEF Abandoned
  <2>4. Cardinality(Abandoned') = Cardinality(Abandoned) + 1
    BY <2>2, <2>3, FS_AddElement
  <2> QED BY <2>1, <2>4 DEF LeakOncePerOrder, Abandoned
<1> QED BY <1>1, <1>2, <1>3 DEF UpdateOrder

LEMMA LeakStep ==
  IsFiniteSet(Orders) /\ TInv /\ LockIsHeldInTransaction /\ LeakOncePerOrder /\ [Next]_vars
    => LeakOncePerOrder'
<1> SUFFICES ASSUME IsFiniteSet(Orders), TInv, LockIsHeldInTransaction, LeakOncePerOrder,
                    [Next]_vars
             PROVE  LeakOncePerOrder'
  OBVIOUS
<1>1. CASE \E h \in Handlers : UpdateOrder(h)
  BY <1>1, LeakHandler DEF TInv
<1>2. CASE UNCHANGED sqlVars
  BY <1>2 DEF sqlVars, LeakOncePerOrder
<1>3. CASE Crash
  <2>1. Abandoned' = {} /\ leaked' = 0
    BY <1>3 DEF Crash, Abandoned, Free, Orphan
  <2> QED BY <2>1, FS_EmptySet DEF LeakOncePerOrder, Abandoned
<1>4. ~Crash /\ ~(\E h \in Handlers : UpdateOrder(h)) => UNCHANGED sqlVars
  BY DEF Next, vars, Environment, Deliver, PushStep, PollerReads, RequestReads, PushRead, PushSend,
         PushStamp, PushLink, ManagerEdits, ShopMoves
<1> QED BY <1>1, <1>2, <1>3, <1>4

(* The transaction UpdateOrderWithTransaction abandons when an insert fails   *)
(* (sql-client.go) costs the pool one connection per order and no more,       *)
(* however often the webhook is repeated.                                     *)
THEOREM LeaksBounded == IsFiniteSet(Orders) => (Spec => []LeakOncePerOrder)
<1> SUFFICES ASSUME IsFiniteSet(Orders) PROVE Spec => []LeakOncePerOrder
  OBVIOUS
<1>1. Init => LockIsHeldInTransaction
  BY ReverseAssumption DEF Init, LockIsHeldInTransaction
<1>2. Init => LeakOncePerOrder
  <2> SUFFICES ASSUME Init PROVE LeakOncePerOrder
    OBVIOUS
  <2>1. Abandoned = {} /\ leaked = 0
    BY DEF Init, Abandoned, Free, Orphan
  <2> QED BY <2>1, FS_EmptySet DEF LeakOncePerOrder, Abandoned
<1>3. TInv /\ LockIsHeldInTransaction /\ LeakOncePerOrder /\ [Next]_vars => LeakOncePerOrder'
  BY LeakStep
<1>4. Spec => [](TInv /\ LockIsHeldInTransaction /\ LeakOncePerOrder)
  BY <1>1, <1>2, <1>3, InitType, TypeStep, LockStep, PTL DEF Spec
<1> QED BY <1>4, PTL

-----------------------------------------------------------------------------
(* Versions and the rows they reach *)

(* A push under way knows the id of its row, and only a create brings another. *)
PushesKnow ==
  \A o \in Orders : push[o].at # "idle" =>
    /\ push[o].known = zohoId[o]
    /\ push[o].at \in {"stamp", "link"} /\ push[o].known # NoId => push[o].so = push[o].known

(* A handler past the search has a version of the Sales Order its row names.   *)
HandlersMatch ==
  \A h \in Handlers : pc[h] \notin {"idle", "search"} => Hook(h).so = zohoId[Hook(h).order]

OInv == TInv /\ PushesKnow /\ HandlersMatch /\ OwnVersionsOnly

(* Nothing is forgotten: rows keep their id, versions are only added.         *)
Lasting ==
  /\ \A o \in Orders : zohoId[o] # NoId => zohoId'[o] = zohoId[o]
  /\ DOMAIN log \subseteq DOMAIN log' /\ \A i \in DOMAIN log : log'[i] = log[i]

LEMMA OwnKept ==
  ASSUME TInv, OwnVersionsOnly, Lasting, UNCHANGED items
  PROVE  OwnVersionsOnly'
<1> SUFFICES ASSUME NEW o \in Orders, items[o] # FirstItems
             PROVE  \E i \in Versions(o)' : items'[o] = log'[i].items
  BY DEF OwnVersionsOnly
<1>1. PICK i \in DOMAIN log : log[i].so = zohoId[o] /\ items[o] = log[i].items
  BY DEF OwnVersionsOnly, Versions
<1>2. zohoId[o] # NoId
  BY <1>1 DEF TInv, IdsOK, TypeOK, NoId
<1>3. i \in Versions(o)'
  BY <1>1, <1>2 DEF Lasting, Versions
<1> QED BY <1>1, <1>3 DEF Lasting

LEMMA MatchKept ==
  ASSUME TInv, HandlersMatch, Lasting, UNCHANGED <<pc, job>>
  PROVE  HandlersMatch'
<1> SUFFICES ASSUME NEW h \in Handlers, pc[h] \notin {"idle", "search"}
             PROVE  Hook(h)'.so = zohoId'[Hook(h)'.order]
  BY DEF HandlersMatch
<1>1. Hook(h)' = Hook(h)
  BY HookKept DEF TInv, Lasting
<1>2. Hook(h).so \in DOMAIN log /\ Hook(h).order \in Orders
  BY HookType DEF TInv, IdsOK, Hook
<1>3. Hook(h).so # NoId
  BY <1>2 DEF TInv, TypeOK, NoId
<1> QED BY <1>1, <1>2, <1>3 DEF HandlersMatch, Lasting

(* A handler moves itself, and nothing but the rows, the locks and its answer. *)
LEMMA HandlerAlone ==
  ASSUME TypeOK, NEW h \in Handlers, UpdateOrder(h)
  PROVE  /\ pc[h] # "idle" /\ UNCHANGED <<log, push, zohoId>>
         /\ \A g \in Handlers \ {h} : pc'[g] = pc[g] /\ job'[g] = job[g]
<1>0. pc[h] # "idle" /\ UNCHANGED <<log, push, zohoId>>
  BY DEF UpdateOrder, Search, Load, Check, SetStatus, Begin, SelectForUpdate, Commit, Leak,
         Stamp, Aborts, rowVars, crmVars
<1>1. \A g \in Handlers \ {h} : pc'[g] = pc[g] /\ job'[g] = job[g]
  <2>1. \A l : Goto(h, l) => \A g \in Handlers \ {h} : pc'[g] = pc[g]
    BY DEF Goto, TypeOK, HandlersOK
  <2>2. Fail(h) => \A g \in Handlers \ {h} : pc'[g] = pc[g] /\ job'[g] = job[g]
    BY AfterFail
  <2>3. Proceed(h) => \A g \in Handlers \ {h} : pc'[g] = pc[g] /\ job'[g] = job[g]
    BY <2>1, AfterProceed DEF TypeOK, HandlersOK
  <2>4. CASE Search(h)
    BY <2>1, <2>2, <2>4 DEF Search, TypeOK, HandlersOK
  <2>5. CASE Load(h)
    BY <2>1, <2>5 DEF Load, TypeOK, HandlersOK
  <2>6. CASE Check(h) \/ Stamp(h)
    BY <2>1, <2>3, <2>6 DEF Check, Stamp
  <2>7. CASE SetStatus(h) \/ Begin(h) \/ SelectForUpdate(h) \/ Commit(h) \/ Leak(h) \/ Aborts(h)
    BY <2>1, <2>2, <2>7 DEF SetStatus, Begin, SelectForUpdate, Commit, Leak, Aborts
  <2> QED BY <2>4, <2>5, <2>6, <2>7 DEF UpdateOrder
<1> QED BY <1>0, <1>1

LEMMA OwnHandler ==
  ASSUME OInv, NEW h \in Handlers, UpdateOrder(h)
  PROVE  PushesKnow' /\ HandlersMatch' /\ OwnVersionsOnly'
<1> USE DEF OInv, TInv
<1>1. UNCHANGED <<log, push, zohoId>>
  BY DEF UpdateOrder, Search, Load, Check, SetStatus, Begin, SelectForUpdate, Commit, Leak,
         Stamp, Aborts, rowVars, crmVars
<1>2. PushesKnow' /\ Lasting
  BY <1>1 DEF PushesKnow, Lasting
<1>3. Hook(h) = log[Head(job[h].todo)] /\ Head(job[h].todo) \in DOMAIN log /\ Hook(h).order \in Orders
  <2>1. pc[h] # "idle"
    BY DEF UpdateOrder, Search, Load, Check, SetStatus, Begin, SelectForUpdate, Commit, Leak,
           Stamp, Aborts
  <2> QED BY <2>1, HookType DEF Hook
<1>4. \A g \in Handlers \ {h} : pc'[g] = pc[g] /\ job'[g] = job[g]
  BY HandlerAlone
<1>5. \/ pc'[h] \in {"idle", "search"}
      \/ Hook(h)' = Hook(h) /\ Hook(h).so = zohoId[Hook(h).order]
  <2>1. \A l : Goto(h, l) => pc'[h] = l
    BY DEF Goto, TypeOK, HandlersOK
  <2>2. Fail(h) \/ Proceed(h) => pc'[h] \in {"idle", "search"}
    BY <2>1, AfterFail, AfterProceed
  <2>3. CASE Search(h)
    <3>1. CASE zohoId[Hook(h).order] = Hook(h).so
      <4>1. job'[h].todo = job[h].todo
        BY <2>3, <3>1 DEF Search, TypeOK, HandlersOK, JobRow
      <4> QED BY <1>1, <3>1, <4>1 DEF Hook
    <3>2. CASE zohoId[Hook(h).order] # Hook(h).so
      BY <2>2, <2>3, <3>2 DEF Search
    <3> QED BY <3>1, <3>2
  <2>4. CASE Load(h)
    <3>1. job'[h].todo = job[h].todo
      BY <2>4 DEF Load, TypeOK, HandlersOK, JobRow
    <3> QED BY <1>1, <2>4, <3>1 DEF Hook, Load, HandlersMatch
  <2>5. CASE ~Search(h) /\ ~Load(h)
    <3>1. /\ pc[h] \notin {"idle", "search"} \/ Aborts(h)
          /\ Fail(h) \/ Proceed(h) \/ UNCHANGED job
      BY <2>5 DEF UpdateOrder, Check, SetStatus, Begin, SelectForUpdate, Commit, Leak, Stamp, Aborts
    <3>2. Aborts(h) => Fail(h)
      BY DEF Aborts
    <3> QED BY <1>1, <2>2, <3>1, <3>2 DEF Hook, HandlersMatch
  <2> QED BY <2>3, <2>4, <2>5
<1>6. HandlersMatch'
  <2>1. \A g \in Handlers \ {h} : pc[g] # "idle" => Hook(g)' = Hook(g)
    BY <1>1, <1>4, HookKept
  <2> QED BY <1>1, <1>4, <1>5, <2>1 DEF HandlersMatch
<1>7. OwnVersionsOnly'
  <2>1. CASE Commit(h)
    <3>1. Head(job[h].todo) \in Versions(Hook(h).order)
      BY <1>3, <2>1 DEF Commit, HandlersMatch, Versions
    <3>2. \A o \in Orders : items'[o] = IF o = Hook(h).order THEN Hook(h).items ELSE items[o]
      BY <1>3, <2>1 DEF Commit, TypeOK
    <3>3. \A o \in Orders : Versions(o)' = Versions(o)
      BY <1>1 DEF Versions
    <3> QED BY <1>1, <1>3, <3>1, <3>2, <3>3 DEF OwnVersionsOnly
  <2>2. CASE ~Commit(h)
    <3>1. UNCHANGED items
      BY <2>2 DEF UpdateOrder, Search, Load, Check, SetStatus, Begin, SelectForUpdate, Leak,
                  Stamp, Aborts, rowVars
    <3> QED BY <1>2, <3>1, OwnKept
  <2> QED BY <2>1, <2>2
<1> QED BY <1>2, <1>6, <1>7

LEMMA OwnPush ==
  ASSUME OInv, NEW o \in Orders, PushStep(o) \/ RequestReads(o)
  PROVE  PushesKnow' /\ HandlersMatch' /\ OwnVersionsOnly'
<1> USE DEF OInv, TInv
<1>1. UNCHANGED <<items, pc, job>>
  BY DEF PushStep, PollerReads, RequestReads, PushRead, PushSend, PushStamp, PushLink, rowVars
<1>2. /\ DOMAIN log \subseteq DOMAIN log' /\ \A i \in DOMAIN log : log'[i] = log[i]
  <2>1. UNCHANGED log \/ Store(Sent(o))
    BY DEF PushStep, PollerReads, RequestReads, PushRead, PushSend, PushStamp, PushLink, crmVars
  <2>2. Store(Sent(o)) => /\ DOMAIN log \subseteq DOMAIN log'
                          /\ \A i \in DOMAIN log : log'[i] = log[i]
    BY <1>1, SentType, StoreType
  <2> QED BY <2>1, <2>2
<1>3. \A q \in Orders \ {o} : push'[q] = push[q] /\ zohoId'[q] = zohoId[q]
  BY DEF PushStep, PollerReads, RequestReads, PushRead, PushSend, PushStamp, PushLink, rowVars,
         TypeOK
<1>4. zohoId[o] # NoId => zohoId'[o] = zohoId[o]
  <2>1. CASE PushLink(o)
    BY <2>1 DEF PushLink, PushesKnow
  <2>2. CASE ~PushLink(o)
    BY <2>2 DEF PushStep, PollerReads, RequestReads, PushRead, PushSend, PushStamp, rowVars
  <2> QED BY <2>1, <2>2
<1>5. Lasting
  BY <1>2, <1>3, <1>4 DEF Lasting
<1>6. push'[o].at # "idle" =>
        /\ push'[o].known = zohoId'[o]
        /\ push'[o].at \in {"stamp", "link"} /\ push'[o].known # NoId
             => push'[o].so = push'[o].known
  <2>1. CASE PollerReads(o) \/ RequestReads(o)
    BY <2>1 DEF PollerReads, RequestReads, PushRead, NoPush, rowVars, TypeOK
  <2>2. CASE PushSend(o)
    <3>1. push[o].known # NoId => Sent(o).so = push[o].known
      BY DEF Sent
    <3>2. push[o].known = zohoId[o] /\ UNCHANGED zohoId /\ push[o] \in PushRow
      BY <2>2 DEF PushSend, PushesKnow, rowVars, TypeOK
    <3>3. \/ push'[o] = NoPush
          \/ push'[o] = [push[o] EXCEPT !.at = "stamp", !.so = Sent(o).so, !.time = Sent(o).time]
      BY <2>2 DEF PushSend, TypeOK
    <3>4. CASE push'[o] = NoPush
      BY <3>4 DEF NoPush
    <3>5. CASE push'[o] # NoPush
      <4>1. push'[o].known = push[o].known /\ push'[o].so = Sent(o).so
        BY <3>2, <3>3, <3>5 DEF PushRow
      <4> QED BY <3>1, <3>2, <4>1
    <3> QED BY <3>4, <3>5
  <2>3. CASE PushStamp(o)
    <3>1. push'[o] = [push[o] EXCEPT !.at = "link"] /\ UNCHANGED zohoId /\ push[o] \in PushRow
      BY <2>3 DEF PushStamp, TypeOK
    <3> QED BY <2>3, <3>1 DEF PushesKnow, PushStamp, PushRow
  <2>4. CASE PushLink(o)
    BY <2>4 DEF PushLink, NoPush, TypeOK
  <2> QED BY <2>1, <2>2, <2>3, <2>4 DEF PushStep
<1>7. PushesKnow'
  BY <1>3, <1>6 DEF PushesKnow
<1> QED BY <1>1, <1>5, <1>7, OwnKept, MatchKept

LEMMA OwnStep == OInv /\ [Next]_vars => OInv'
<1> SUFFICES ASSUME OInv, [Next]_vars PROVE PushesKnow' /\ HandlersMatch' /\ OwnVersionsOnly'
  BY TypeStep DEF OInv
<1> USE DEF OInv, TInv
<1>1. CASE \E h \in Handlers : UpdateOrder(h)
  BY <1>1, OwnHandler
<1>2. CASE \E o \in Orders : PushStep(o) \/ RequestReads(o)
  BY <1>2, OwnPush
<1>3. CASE \E h \in Handlers, b \in Batches : Deliver(h, b)
  <2>1. PICK h \in Handlers, b \in Batches : Deliver(h, b)
    BY <1>3
  <2>2. UNCHANGED <<items, zohoId, log, push>>
    BY <2>1 DEF Deliver, rowVars, crmVars
  <2>3. pc'[h] = "search" /\ \A g \in Handlers \ {h} : pc'[g] = pc[g] /\ job'[g] = job[g]
    BY <2>1 DEF Deliver, Goto, TypeOK, HandlersOK
  <2>4. \A g \in Handlers \ {h} : pc[g] # "idle" => Hook(g)' = Hook(g)
    BY <2>2, <2>3, HookKept
  <2> QED BY <2>2, <2>3, <2>4, OwnKept DEF PushesKnow, HandlersMatch, Lasting
<1>4. CASE \E s \in SalesOrders, i \in Items, n \in Names : ManagerEdits(s, i, n)
  <2>1. UNCHANGED <<items, zohoId, pc, job, push>> /\ \E v : Store(v)
    BY <1>4 DEF ManagerEdits, rowVars
  <2>2. Lasting
    BY <2>1, AppendProperties DEF Store, TypeOK, Lasting
  <2> QED BY <2>1, <2>2, OwnKept, MatchKept DEF PushesKnow
<1>5. CASE UNCHANGED <<items, zohoId, log, pc, job, push>>
  <2>1. Lasting
    BY <1>5 DEF Lasting
  <2> QED BY <1>5, <2>1, OwnKept, MatchKept DEF PushesKnow
<1>6. CASE Crash
  <2>1. Lasting /\ UNCHANGED items
    BY <1>6 DEF Lasting, Crash, rowVars, crmVars
  <2> QED BY <1>6, <2>1, OwnKept DEF Crash, PushesKnow, HandlersMatch, NoPush
<1>7. CASE \E o \in Orders, s \in Statuses : ShopMoves(o, s)
  BY <1>5, <1>7 DEF ShopMoves, crmVars
<1> QED BY <1>1, <1>2, <1>3, <1>4, <1>5, <1>6, <1>7
        DEF Next, Environment, vars, rowVars, crmVars

(* Whatever is edited, pushed, delivered late or again, UpdateOrder            *)
(* (api-order.go) only ever writes contents of the Sales Order its row names. *)
THEOREM OwnVersions == Spec => []OwnVersionsOnly
<1>1. Init => PushesKnow /\ HandlersMatch /\ OwnVersionsOnly
  BY DEF Init, PushesKnow, HandlersMatch, OwnVersionsOnly, NoPush
<1>2. Init => OInv
  BY <1>1, InitType DEF OInv
<1>3. Spec => []OInv
  BY <1>2, OwnStep, PTL DEF Spec
<1>4. OInv => OwnVersionsOnly
  BY DEF OInv
<1> QED BY <1>3, <1>4, PTL

-----------------------------------------------------------------------------
(* Echoes *)

(* A disturbance is counted, once and for all. *)
LEMMA UsedGrows ==
  ASSUME TypeOK, [Next]_vars
  PROVE  \A k \in Disturbances : used'[k] = 0 => used[k] = 0 /\ ~Spend(k)
<1>1. used' = used \/ \E k \in Disturbances : Spend(k)
  BY Kinds
     DEF Next, Environment, vars, UpdateOrder, Search, Load, Check, SetStatus, Begin,
         SelectForUpdate, Commit, Leak, Stamp, Aborts, Deliver, PushStep, PollerReads,
         RequestReads, PushSend, PushStamp, PushLink, ManagerEdits, ShopMoves, Crash
<1>2. used \in [Disturbances -> Nat]
  BY DEF TypeOK
<1>3. \A k \in Disturbances : Spend(k) => used'[k] = used[k] + 1
  BY <1>2 DEF Spend
<1>4. \A k, d \in Disturbances : Spend(d) /\ k # d => used'[k] = used[k]
  BY <1>2 DEF Spend
<1> QED BY <1>1, <1>2, <1>3, <1>4

LEMMA LastingStep ==
  ASSUME OInv, [Next]_vars
  PROVE  Lasting
<1> USE DEF OInv, TInv
<1>1. UNCHANGED log \/ \E v : log' = Append(log, v)
  BY DEF Next, Environment, vars, UpdateOrder, Search, Load, Check, SetStatus, Begin,
         SelectForUpdate, Commit, Leak, Stamp, Aborts, Deliver, PushStep, PollerReads,
         RequestReads, PushRead, PushSend, PushStamp, PushLink, ManagerEdits, ShopMoves, Crash,
         Store, crmVars
<1>2. DOMAIN log \subseteq DOMAIN log' /\ \A i \in DOMAIN log : log'[i] = log[i]
  <2>1. ASSUME NEW v, log' = Append(log, v)
        PROVE  DOMAIN log \subseteq DOMAIN log' /\ \A i \in DOMAIN log : log'[i] = log[i]
    BY <2>1, AppendProperties DEF TypeOK
  <2> QED BY <1>1, <2>1
<1>3. UNCHANGED zohoId \/ \E o \in Orders : PushLink(o)
  BY DEF Next, Environment, vars, UpdateOrder, Search, Load, Check, SetStatus, Begin,
         SelectForUpdate, Commit, Leak, Stamp, Aborts, Deliver, PushStep, PollerReads,
         RequestReads, PushRead, PushSend, PushStamp, ManagerEdits, ShopMoves, Crash, rowVars
<1>4. \A o \in Orders : zohoId[o] # NoId => zohoId'[o] = zohoId[o]
  BY <1>3 DEF PushLink, PushesKnow, TypeOK
<1> QED BY <1>2, <1>4 DEF Lasting

(* The version that created the Sales Order s, of the order o. *)
IsRoot(s, o) == log[s].so = s /\ log[s].own /\ log[s].order = o

Created == \A k \in DOMAIN log : log[k].so <= k /\ IsRoot(log[k].so, log[k].order)

Roots ==
  \A o \in Orders : /\ zohoId[o] # NoId => IsRoot(zohoId[o], o)
                    /\ push[o].so # NoId => IsRoot(push[o].so, o)

(* A write of the connector's own carries a new time, and what comes after it  *)
(* an earlier one never.                                                      *)
OwnIsTimed ==
  \A i, k \in DOMAIN log :
    log[i].own => /\ log[i].time = i
                  /\ i <= k /\ log[k].time # NoTime => i <= log[k].time

HistoryOK == Created /\ Roots /\ OwnIsTimed

(* A row is locked for an order that is linked. *)
LockedIsLinked == \A o \in Orders : lock[o] # Free => zohoId[o] # NoId

(* While the shop is quiet, what the connector writes creates Sales Orders ... *)
OwnCreates == \A i \in DOMAIN log : log[i].own => log[i].so = i

Creating ==
  \A o \in Orders :
    /\ push[o].at # "idle" => push[o].known = NoId
    /\ push[o].at \in {"stamp", "link"} => push[o].time = push[o].so /\ push[o].so # NoId
    /\ push[o].at = "link" => stamp[o] = push[o].so

(* ... and a row that names one has a stamp as new as that. *)
StampCovers == \A o \in Orders : zohoId[o] # NoId => zohoId[o] <= stamp[o]

EchoInv == OwnCreates /\ Creating /\ StampCovers /\ EchoNeverApplied

EInv == OInv /\ HistoryOK /\ LockedIsLinked /\ (Quiet => EchoInv)

LEMMA LogType ==
  ASSUME TypeOK
  PROVE  /\ Len(log) \in Nat /\ DOMAIN log = 1..Len(log) /\ 0 \notin DOMAIN log
         /\ \A i \in DOMAIN log : i \in Nat /\ log[i] \in Version
<1>1. log \in Seq(Version)
  BY DEF TypeOK
<1> QED BY <1>1, LenProperties, ElementOfSeq

(* A version more. *)
LEMMA HistoryStored ==
  ASSUME TInv, HistoryOK, NEW v \in Version, Store(v), UNCHANGED <<pc, job>>,
         NEW n, n = Len(log) + 1,
         v.so = n \/ (v.so \in DOMAIN log /\ IsRoot(v.so, v.order)),
         v.so = n => v.own,
         v.own => v.time = n,
         v.time = NoTime \/ v.time = n \/ (DOMAIN log # {} /\ v.time = log[Len(log)].time)
  PROVE  /\ Created' /\ OwnIsTimed'
         /\ \A s \in DOMAIN log : \A q : IsRoot(s, q) => IsRoot(s, q)'
         /\ \A q : v.so = n /\ v.order = q => IsRoot(n, q)'
<1>1. /\ DOMAIN log' = DOMAIN log \cup {n}
      /\ \A i \in DOMAIN log : log'[i] = log[i]
      /\ log'[n] = v
  BY StoreType DEF TInv
<1>2. /\ Len(log) \in Nat /\ DOMAIN log = 1..Len(log)
      /\ \A i \in DOMAIN log : i \in Nat /\ log[i] \in Version /\ log[i].so \in DOMAIN log
  BY LogType DEF TInv, IdsOK
<1>3. \A s \in DOMAIN log : \A q : IsRoot(s, q) => IsRoot(s, q)'
  BY <1>1 DEF IsRoot
<1>4. \A q : v.so = n /\ v.order = q => IsRoot(n, q)'
  BY <1>1 DEF IsRoot
<1>5. Created'
  <2> SUFFICES ASSUME NEW k \in DOMAIN log', NEW s, s = log'[k].so, NEW q, q = log'[k].order
               PROVE  s <= k /\ IsRoot(s, q)'
    BY DEF Created, IsRoot
  <2>1. CASE k \in DOMAIN log
    BY <1>1, <1>2, <1>3, <2>1 DEF HistoryOK, Created
  <2>2. CASE k = n
    BY <1>1, <1>2, <1>3, <1>4, <2>2
  <2> QED BY <1>1, <2>1, <2>2
<1>6. OwnIsTimed'
  <2> SUFFICES ASSUME NEW i \in DOMAIN log', NEW k \in DOMAIN log', log'[i].own
               PROVE  /\ log'[i].time = i
                      /\ i <= k /\ log'[k].time # NoTime => i <= log'[k].time
    BY DEF OwnIsTimed
  <2>1. log'[i].time = i
    BY <1>1 DEF HistoryOK, OwnIsTimed
  <2>2. ASSUME i <= k, log'[k].time # NoTime PROVE i <= log'[k].time
    <3>1. CASE k \in DOMAIN log
      <4>1. i \in DOMAIN log
        BY <1>1, <1>2, <2>2, <3>1
      <4> QED BY <1>1, <2>2, <3>1, <4>1 DEF HistoryOK, OwnIsTimed
    <3>2. CASE k = n /\ i = n
      BY <1>1, <1>2, <2>1, <3>2
    <3>3. CASE k = n /\ i \in DOMAIN log
      <4>1. CASE v.time = n
        BY <1>1, <1>2, <3>3, <4>1
      <4>2. CASE DOMAIN log # {} /\ v.time = log[Len(log)].time
        <5>1. Len(log) \in DOMAIN log /\ i <= Len(log)
          BY <1>2, <3>3
        <5> QED BY <1>1, <2>2, <3>3, <4>2, <5>1 DEF HistoryOK, OwnIsTimed
      <4> QED BY <1>1, <2>2, <3>3, <4>1, <4>2
    <3> QED BY <1>1, <3>1, <3>2, <3>3
  <2> QED BY <2>1, <2>2
<1> QED BY <1>3, <1>4, <1>5, <1>6

LEMMA HistoryFrame ==
  ASSUME TInv, HistoryOK, UNCHANGED <<log, zohoId>>,
         \A o \in Orders : push'[o].so = push[o].so \/ push'[o].so = NoId
  PROVE  HistoryOK'
BY DEF HistoryOK, Created, Roots, OwnIsTimed, IsRoot

LEMMA HistoryPush ==
  ASSUME OInv, HistoryOK, NEW o \in Orders, PushStep(o) \/ RequestReads(o)
  PROVE  HistoryOK'
<1> USE DEF OInv, TInv
<1>1. CASE PollerReads(o) \/ RequestReads(o) \/ PushStamp(o)
  <2>1. UNCHANGED <<log, zohoId>>
    BY <1>1 DEF PollerReads, RequestReads, PushRead, PushStamp, rowVars, crmVars
  <2>2. \A q \in Orders : push'[q].so = push[q].so \/ push'[q].so = NoId
    <3>1. CASE PushRead(o)
      <4>1. \A q \in Orders \ {o} : push'[q] = push[q]
        BY <3>1 DEF PushRead, TypeOK
      <4>2. push'[o].so = NoId
        BY <3>1 DEF PushRead, NoPush, TypeOK
      <4> QED BY <4>1, <4>2
    <3>2. CASE PushStamp(o)
      BY <3>2 DEF PushStamp, TypeOK, PushRow
    <3> QED BY <1>1, <3>1, <3>2 DEF PollerReads, RequestReads
  <2> QED BY <2>1, <2>2, HistoryFrame
<1>2. CASE PushSend(o)
  <2>0. PICK n, v : n = Len(log) + 1 /\ v = Sent(o)
    OBVIOUS
  <2>1. UNCHANGED <<zohoId, pc, job>>
    BY <1>2 DEF PushSend, rowVars
  <2>2. /\ v \in Version
        /\ v.so = IF push[o].known = NoId THEN n ELSE push[o].known
        /\ v.time = n /\ v.own /\ v.order = o
    BY <2>0, SentType DEF Sent
  <2>3. push[o].known = zohoId[o] /\ zohoId[o] \in Known
    BY <1>2 DEF PushSend, PushesKnow, IdsOK
  <2>4. \A q \in Orders : \/ push'[q].so = push[q].so
                          \/ push'[q].so = NoId
                          \/ q = o /\ push'[q].so = v.so /\ Store(v)
    BY <1>2, <2>0 DEF PushSend, NoPush, TypeOK, PushRow
  <2>5. CASE Store(v)
    <3>1. v.so = n \/ (v.so \in DOMAIN log /\ IsRoot(v.so, v.order))
      BY <2>2, <2>3 DEF HistoryOK, Roots, Known
    <3>2. /\ Created' /\ OwnIsTimed'
          /\ \A s \in DOMAIN log : \A q : IsRoot(s, q) => IsRoot(s, q)'
          /\ \A q : v.so = n /\ v.order = q => IsRoot(n, q)'
      BY <2>0, <2>1, <2>2, <2>5, <3>1, HistoryStored
    <3>3. \A s : s \in Known /\ s # NoId => s \in DOMAIN log
      BY DEF Known
    <3>4. \A q \in Orders : \A s : zohoId'[q] = s /\ s # NoId => IsRoot(s, q)'
      BY <2>1, <3>2, <3>3 DEF HistoryOK, Roots, IdsOK
    <3>5. \A q \in Orders : \A s : push'[q].so = s /\ s # NoId => IsRoot(s, q)'
      BY <2>2, <2>4, <3>1, <3>2, <3>3 DEF HistoryOK, Roots, IdsOK
    <3>6. Roots'
      BY <3>4, <3>5 DEF Roots, IsRoot
    <3> QED BY <3>2, <3>6 DEF HistoryOK
  <2>6. CASE ~Store(v)
    BY <1>2, <2>0, <2>1, <2>4, <2>6, HistoryFrame DEF PushSend, crmVars
  <2> QED BY <2>5, <2>6
<1>3. CASE PushLink(o)
  <2>1. UNCHANGED log /\ (\A q \in Orders : push'[q].so = push[q].so \/ push'[q].so = NoId)
    BY <1>3 DEF PushLink, crmVars, NoPush, TypeOK
  <2>2. \A q \in Orders : zohoId'[q] = zohoId[q] \/ zohoId'[q] = push[q].so
    BY <1>3 DEF PushLink, TypeOK
  <2> QED BY <2>1, <2>2 DEF HistoryOK, Created, Roots, OwnIsTimed, IsRoot
<1> QED BY <1>1, <1>2, <1>3 DEF PushStep

LEMMA HistoryEdit ==
  ASSUME OInv, HistoryOK, NEW s \in SalesOrders, NEW i \in Items, NEW n \in Names,
         ManagerEdits(s, i, n)
  PROVE  HistoryOK'
<1> USE DEF OInv, TInv
<1>0. PICK m : m = Len(log) + 1
  OBVIOUS
<1>1. s \in DOMAIN log /\ IsRoot(s, log[s].order)
  BY DEF SalesOrders, IdsOK, HistoryOK, Created, IsRoot
<1>2. log[s] \in Version /\ log[Len(log)] \in Version /\ Len(log) \in Nat /\ s \in Nat
      /\ DOMAIN log # {} /\ DOMAIN log = 1..Len(log)
  BY <1>1, ElementOfSeq, LenProperties DEF TypeOK
<1>3. PICK t \in {m, log[Len(log)].time, NoTime} :
        Store([order |-> log[s].order, so |-> s, items |-> i, name |-> n,
               time |-> t, own |-> FALSE])
  BY <1>0 DEF ManagerEdits
<1>4. PICK v : v = [order |-> log[s].order, so |-> s, items |-> i, name |-> n,
                    time |-> t, own |-> FALSE]
  OBVIOUS
<1>5. v \in Version /\ v.so = s /\ v.time = t /\ ~v.own /\ v.order = log[s].order
  BY <1>0, <1>2, <1>4 DEF Version, NoTime
<1>6. Store(v) /\ UNCHANGED <<zohoId, pc, job, push>>
  BY <1>3, <1>4 DEF ManagerEdits, rowVars
<1>7. /\ Created' /\ OwnIsTimed'
      /\ \A r \in DOMAIN log : \A q : IsRoot(r, q) => IsRoot(r, q)'
  <2>1. v.so # m
    BY <1>0, <1>1, <1>2, <1>5
  <2>2. v.time = NoTime \/ v.time = m \/ (DOMAIN log # {} /\ v.time = log[Len(log)].time)
    BY <1>2, <1>5
  <2> QED BY <1>0, <1>1, <1>5, <1>6, <2>1, <2>2, HistoryStored
<1>8. \A r : r \in Known /\ r # NoId => r \in DOMAIN log
  BY DEF Known
<1>9. \A q \in Orders : \A r : zohoId[q] = r \/ push[q].so = r => (r # NoId => IsRoot(r, q)')
  BY <1>7, <1>8 DEF HistoryOK, Roots, IdsOK
<1>10. Roots'
  BY <1>6, <1>9 DEF Roots, IsRoot
<1> QED BY <1>7, <1>10 DEF HistoryOK

LEMMA HistoryStep ==
  ASSUME OInv, HistoryOK, [Next]_vars
  PROVE  HistoryOK'
<1> USE DEF OInv, TInv
<1>1. CASE \E o \in Orders : PushStep(o) \/ RequestReads(o)
  BY <1>1, HistoryPush
<1>2. CASE \E s \in SalesOrders, i \in Items, n \in Names : ManagerEdits(s, i, n)
  BY <1>2, HistoryEdit
<1>3. CASE UNCHANGED <<log, zohoId>> /\ UNCHANGED push
  BY <1>3, HistoryFrame
<1>4. CASE Crash
  BY <1>4, HistoryFrame DEF Crash, rowVars, crmVars, NoPush
<1>5. CASE \E h \in Handlers : UpdateOrder(h)
  BY <1>3, <1>5 DEF UpdateOrder, Search, Load, Check, SetStatus, Begin, SelectForUpdate, Commit,
                    Leak, Stamp, Aborts, rowVars, crmVars
<1>6. CASE \E h \in Handlers, b \in Batches : Deliver(h, b)
  BY <1>3, <1>6 DEF Deliver, rowVars, crmVars
<1>7. CASE \E o \in Orders, s \in Statuses : ShopMoves(o, s)
  BY <1>3, <1>7 DEF ShopMoves, crmVars
<1>8. CASE UNCHANGED vars
  BY <1>3, <1>8 DEF vars, rowVars, crmVars
<1> QED BY <1>1, <1>2, <1>4, <1>5, <1>6, <1>7, <1>8 DEF Next, Environment

LEMMA LockedStep ==
  ASSUME OInv, LockedIsLinked, [Next]_vars
  PROVE  LockedIsLinked'
<1> USE DEF OInv, TInv
<1>1. Lasting
  BY LastingStep
<1>2. CASE \A o \in Orders : lock'[o] # Free => lock[o] # Free \/ zohoId[o] # NoId
  BY <1>1, <1>2 DEF LockedIsLinked, Lasting
<1>3. CASE \E h \in Handlers : SelectForUpdate(h) \/ Leak(h)
  <2>1. PICK h \in Handlers : SelectForUpdate(h) \/ Leak(h)
    BY <1>3
  <2>2. pc[h] \in {"lock", "tx"}
    BY <2>1 DEF SelectForUpdate, Leak
  <2>3. Hook(h).so = zohoId[Hook(h).order] /\ Hook(h).so \in DOMAIN log
    BY <2>2, HookType DEF HandlersMatch, IdsOK, Hook
  <2>4. zohoId[Hook(h).order] # NoId
    BY <2>3, LogType DEF NoId
  <2>5. \A o \in Orders : o # Hook(h).order => lock'[o] = lock[o]
    BY <2>1 DEF SelectForUpdate, Leak, TypeOK
  <2> QED BY <1>2, <2>4, <2>5
<1>4. CASE UNCHANGED lock
  BY <1>2, <1>4
<1>5. CASE Crash \/ \E h \in Handlers : Commit(h) \/ Aborts(h)
  BY <1>2, <1>5 DEF Crash, Commit, Aborts, TypeOK
<1>6. ASSUME NEW h \in Handlers, UpdateOrder(h) PROVE LockedIsLinked'
  BY <1>3, <1>4, <1>5, <1>6 DEF UpdateOrder, Search, Load, Check, SetStatus, Begin, Stamp, sqlVars
<1>7. CASE UNCHANGED vars
  BY <1>4, <1>7 DEF vars, sqlVars
<1>8. CASE \E o \in Orders : PushStep(o) \/ RequestReads(o)
  BY <1>4, <1>8 DEF PushStep, PollerReads, RequestReads, PushRead, PushSend, PushStamp, PushLink,
                    sqlVars
<1>9. CASE \/ \E h \in Handlers, b \in Batches : Deliver(h, b)
           \/ \E s \in SalesOrders, i \in Items, n \in Names : ManagerEdits(s, i, n)
           \/ \E o \in Orders, s \in Statuses : ShopMoves(o, s)
  BY <1>4, <1>9 DEF Deliver, ManagerEdits, ShopMoves, sqlVars
<1> QED BY <1>5, <1>6, <1>7, <1>8, <1>9 DEF Next, Environment

LEMMA EchoHandler ==
  ASSUME EInv, EchoInv, NEW h \in Handlers, UpdateOrder(h)
  PROVE  EchoInv'
<1> USE DEF EInv, OInv, TInv, EchoInv
<1>0. PICK m, i : m = Hook(h) /\ i = Head(job[h].todo)
  OBVIOUS
<1>1. /\ pc[h] # "idle" /\ UNCHANGED <<log, push, zohoId>>
      /\ \A g \in Handlers \ {h} : pc'[g] = pc[g] /\ job'[g] = job[g]
  BY HandlerAlone
<1>2. /\ m = log[i] /\ i \in DOMAIN log /\ i \in Nat /\ m.order \in Orders
      /\ m.time \in Nat /\ m.so \in DOMAIN log /\ m.so # NoId /\ m.so \in Nat
  BY <1>0, <1>1, HookType, LogType DEF Hook, IdsOK, Version, NoId
<1>3. /\ OwnCreates'
      /\ \A o \in Orders : push[o].at # "idle" => push[o].known = NoId /\ zohoId[o] = NoId
  BY <1>1 DEF OwnCreates, Creating, PushesKnow
<1>4. Creating' /\ StampCovers'
  <2>1. CASE stamp' = stamp
    BY <1>1, <2>1 DEF Creating, StampCovers
  <2>2. CASE stamp' # stamp
    <3>1. Stamp(h)
      BY <2>2 DEF UpdateOrder, Search, Load, Check, SetStatus, Begin, SelectForUpdate, Commit,
                  Leak, Aborts, rowVars
    <3>2. m.so = zohoId[m.order] /\ m.time # NoTime
      BY <1>0, <2>2, <3>1 DEF Stamp, HandlersMatch
    <3>3. \A o \in Orders : stamp'[o] = IF o = m.order THEN m.time ELSE stamp[o]
      BY <1>0, <2>2, <3>1 DEF Stamp, TypeOK
    <3>4. m.so <= m.time
      BY <1>2, <3>2 DEF HistoryOK, Created, OwnIsTimed, IsRoot
    <3>5. \A o \in Orders : push[o].at = "link" => o # m.order
      BY <1>2, <1>3, <3>2
    <3> QED BY <1>1, <3>2, <3>3, <3>4, <3>5 DEF Creating, StampCovers
  <2> QED BY <2>1, <2>2
<1>5. \A g \in Handlers \ {h} : pc[g] # "idle" => Hook(g)' = Hook(g)
  BY <1>1, HookKept
<1>6. pc'[h] \in {"status", "begin", "lock", "tx"} => ~Hook(h)'.own
  <2>1. \A l : Goto(h, l) => pc'[h] = l
    BY DEF Goto, TypeOK, HandlersOK
  <2>2. Fail(h) \/ Proceed(h) => pc'[h] \in {"idle", "search"}
    BY <2>1, AfterFail, AfterProceed
  <2>3. CASE Check(h)
    <3>1. CASE ~IsEcho(h) /\ UNCHANGED job
      <4>1. m.own => m.so = i /\ m.time = i
        BY <1>2 DEF OwnCreates, HistoryOK, OwnIsTimed
      <4>2. m.so = zohoId[m.order] /\ stamp[m.order] \in Nat
        BY <1>0, <1>2, <2>3 DEF Check, HandlersMatch, TypeOK
      <4>3. m.own => i <= stamp[m.order] /\ i # 0
        BY <1>2, <4>1, <4>2 DEF StampCovers, NoId
      <4>4. ~m.own
        BY <1>0, <1>2, <3>1, <4>1, <4>2, <4>3 DEF IsEcho, NoTime
      <4>5. Hook(h)' = m
        BY <1>0, <1>1, <3>1 DEF Hook
      <4> QED BY <4>4, <4>5
    <3>2. CASE Proceed(h)
      BY <2>2, <3>2
    <3> QED BY <2>3, <3>1, <3>2 DEF Check
  <2>4. CASE Begin(h) \/ SelectForUpdate(h)
    <3>1. UNCHANGED job /\ pc[h] \in {"begin", "lock"}
      BY <2>4 DEF Begin, SelectForUpdate
    <3>2. Hook(h)' = Hook(h)
      BY <1>1, <3>1 DEF Hook
    <3> QED BY <3>1, <3>2 DEF EchoNeverApplied
  <2>5. CASE Search(h) \/ Load(h) \/ SetStatus(h) \/ Commit(h) \/ Leak(h) \/ Stamp(h) \/ Aborts(h)
    BY <2>1, <2>2, <2>5 DEF Search, Load, SetStatus, Commit, Leak, Stamp, Aborts
  <2> QED BY <2>3, <2>4, <2>5 DEF UpdateOrder
<1>7. EchoNeverApplied'
  BY <1>1, <1>5, <1>6 DEF EchoNeverApplied
<1> QED BY <1>3, <1>4, <1>7

(* Handlers rest. *)
LEMMA EchoRest ==
  ASSUME EInv, EchoNeverApplied, Lasting, UNCHANGED <<pc, job>>
  PROVE  EchoNeverApplied'
<1>1. \A g \in Handlers : pc[g] # "idle" => Hook(g)' = Hook(g)
  BY HookKept DEF EInv, OInv, TInv, Lasting
<1> QED BY <1>1 DEF EchoNeverApplied

LEMMA EchoPush ==
  ASSUME EInv, EchoInv, NEW o \in Orders, PushStep(o), ~Spend("stamp")
  PROVE  EchoInv'
<1> USE DEF EInv, OInv, TInv, EchoInv
<1>1. UNCHANGED <<pc, job>> /\ [Next]_vars
  BY DEF PushStep, PollerReads, PushRead, PushSend, PushStamp, PushLink, Next
<1>2. EchoNeverApplied'
  BY <1>1, LastingStep, EchoRest
<1>3. /\ push \in [Orders -> PushRow] /\ stamp \in [Orders -> Nat] /\ zohoId \in [Orders -> Nat]
      /\ push[o] \in PushRow
  BY DEF TypeOK
<1>4. push[o].at # "idle" => push[o].known = NoId /\ zohoId[o] = NoId
  BY DEF Creating, PushesKnow
<1>5. CASE PollerReads(o)
  <2>1. UNCHANGED <<log, stamp, zohoId>> /\ zohoId[o] = NoId
    BY <1>5 DEF PollerReads, PushRead, rowVars, crmVars
  <2>2. \A q \in Orders \ {o} : push'[q] = push[q]
    BY <1>3, <1>5 DEF PollerReads, PushRead
  <2>3. push'[o].at = "send" /\ push'[o].known = NoId
    BY <1>3, <1>5 DEF PollerReads, PushRead, NoPush
  <2> QED BY <1>2, <2>1, <2>2, <2>3 DEF OwnCreates, Creating, StampCovers
<1>6. CASE PushSend(o)
  <2>0. PICK n, v : n = Len(log) + 1 /\ v = Sent(o)
    OBVIOUS
  <2>1. push[o].at = "send" /\ UNCHANGED <<stamp, zohoId>>
    BY <1>6 DEF PushSend, rowVars
  <2>2. v \in Version /\ v.so = n /\ v.time = n /\ n # NoId
    BY <1>4, <2>0, <2>1, SentType, LogType DEF Sent, NoId
  <2>3. UNCHANGED log \/ Store(v)
    BY <1>6, <2>0 DEF PushSend, crmVars
  <2>4. OwnCreates'
    <3>1. CASE Store(v)
      <4>1. /\ DOMAIN log' = DOMAIN log \cup {n} /\ log'[n] = v
            /\ \A i \in DOMAIN log : log'[i] = log[i]
        BY <1>1, <2>0, <2>2, <3>1, StoreType
      <4> QED BY <2>2, <4>1 DEF OwnCreates
    <3> QED BY <2>3, <3>1 DEF OwnCreates
  <2>5. \A q \in Orders \ {o} : push'[q] = push[q]
    BY <1>3, <1>6 DEF PushSend
  <2>6. \/ push'[o] = NoPush
        \/ push'[o] = [push[o] EXCEPT !.at = "stamp", !.so = v.so, !.time = v.time]
    BY <1>3, <1>6, <2>0 DEF PushSend
  <2>7. \/ push'[o].at = "idle"
        \/ /\ push'[o].at = "stamp" /\ push'[o].so = n /\ push'[o].time = n
           /\ push'[o].known = NoId
    <3>1. CASE push'[o] = NoPush
      BY <3>1 DEF NoPush
    <3>2. CASE push'[o] = [push[o] EXCEPT !.at = "stamp", !.so = v.so, !.time = v.time]
      <4>1. push[o].known = NoId
        BY <1>4, <2>1
      <4> QED BY <1>3, <2>2, <3>2, <4>1 DEF PushRow
    <3> QED BY <2>6, <3>1, <3>2
  <2>8. Creating'
    BY <2>1, <2>2, <2>5, <2>7 DEF Creating
  <2> QED BY <1>2, <2>1, <2>4, <2>8 DEF StampCovers
<1>7. CASE PushStamp(o)
  <2>1. push[o].at = "stamp" /\ UNCHANGED <<log, zohoId>>
    BY <1>7 DEF PushStamp, crmVars
  <2>2. zohoId[o] = NoId /\ lock[o] = Free
    BY <1>4, <2>1 DEF LockedIsLinked
  <2>3. stamp' = [stamp EXCEPT ![o] = push[o].time]
    BY <1>7, <2>2, ReverseAssumption DEF PushStamp, TimesOut, Free, Orphan
  <2>4. /\ \A q \in Orders \ {o} : push'[q] = push[q]
        /\ push'[o].at = "link" /\ push'[o].known = push[o].known /\ push'[o].so = push[o].so
        /\ push'[o].time = push[o].time
    BY <1>3, <1>7 DEF PushStamp, PushRow
  <2>5. \A q \in Orders : stamp'[q] = IF q = o THEN push[o].time ELSE stamp[q]
    BY <1>3, <2>3
  <2>6. push[o].time = push[o].so /\ push[o].so # NoId /\ push[o].known = NoId
    BY <2>1 DEF Creating
  <2>7. Creating'
    BY <2>4, <2>5, <2>6 DEF Creating
  <2> QED BY <1>2, <2>1, <2>2, <2>5, <2>7 DEF OwnCreates, StampCovers
<1>8. CASE PushLink(o)
  <2>1. push[o].at = "link" /\ UNCHANGED <<log, stamp>>
    BY <1>8 DEF PushLink, crmVars
  <2>2. \A q \in Orders : push'[q] = IF q = o THEN NoPush ELSE push[q]
    BY <1>3, <1>8 DEF PushLink
  <2>3. \A q \in Orders : zohoId'[q] = zohoId[q] \/ (q = o /\ zohoId'[q] = push[o].so)
    BY <1>3, <1>8 DEF PushLink
  <2>4. stamp[o] = push[o].so /\ push[o].so \in Nat
    BY <1>3, <2>1 DEF Creating, PushRow
  <2>5. NoPush.at = "idle"
    BY DEF NoPush
  <2> QED BY <1>2, <2>1, <2>2, <2>3, <2>4, <2>5 DEF OwnCreates, Creating, StampCovers
<1> QED BY <1>5, <1>6, <1>7, <1>8 DEF PushStep

LEMMA EchoStep ==
  ASSUME EInv, EchoInv, [Next]_vars, ~Spend("stamp"), ~Spend("push")
  PROVE  EchoInv'
<1> USE DEF EInv, OInv, TInv, EchoInv
<1>0. Lasting
  BY LastingStep
<1>1. CASE UNCHANGED <<log, push, stamp, zohoId, pc, job>>
  BY <1>0, <1>1, EchoRest DEF OwnCreates, Creating, StampCovers
<1>2. CASE \E h \in Handlers, b \in Batches : Deliver(h, b)
  <2>1. PICK h \in Handlers, b \in Batches : Deliver(h, b)
    BY <1>2
  <2>2. UNCHANGED <<log, push, stamp, zohoId>>
    BY <2>1 DEF Deliver, rowVars, crmVars
  <2>3. pc'[h] = "search" /\ \A g \in Handlers \ {h} : pc'[g] = pc[g] /\ job'[g] = job[g]
    BY <2>1 DEF Deliver, Goto, TypeOK, HandlersOK
  <2>4. \A g \in Handlers \ {h} : pc[g] # "idle" => Hook(g)' = Hook(g)
    BY <1>0, <2>3, HookKept DEF Lasting
  <2> QED BY <2>2, <2>3, <2>4 DEF OwnCreates, Creating, StampCovers, EchoNeverApplied
<1>3. CASE \E s \in SalesOrders, i \in Items, n \in Names : ManagerEdits(s, i, n)
  <2>0. PICK k : k = Len(log) + 1
    OBVIOUS
  <2>1. PICK s \in SalesOrders, i \in Items, n \in Names : ManagerEdits(s, i, n)
    BY <1>3
  <2>2. UNCHANGED <<push, stamp, zohoId, pc, job>> /\ \E v : ~v.own /\ log' = Append(log, v)
    BY <2>1 DEF ManagerEdits, rowVars, Store
  <2>3. PICK v : ~v.own /\ log' = Append(log, v)
    BY <2>2
  <2>4. /\ DOMAIN log' = DOMAIN log \cup {k} /\ log'[k] = v
        /\ \A j \in DOMAIN log : log'[j] = log[j]
    BY <2>0, <2>3, AppendProperties DEF TypeOK
  <2>5. OwnCreates'
    BY <2>3, <2>4 DEF OwnCreates
  <2> QED BY <1>0, <2>2, <2>5, EchoRest DEF Creating, StampCovers
<1>4. CASE Crash
  <2>1. UNCHANGED <<log, stamp, zohoId>> /\ \A h \in Handlers : pc'[h] = "idle"
    BY <1>4 DEF Crash, rowVars, crmVars
  <2>2. \A o \in Orders : push'[o].at = "idle"
    BY <1>4 DEF Crash, NoPush
  <2> QED BY <2>1, <2>2 DEF OwnCreates, Creating, StampCovers, EchoNeverApplied
<1>5. CASE \E o \in Orders, s \in Statuses : ShopMoves(o, s)
  BY <1>1, <1>5 DEF ShopMoves, crmVars
<1>6. CASE UNCHANGED vars
  BY <1>1, <1>6 DEF vars, rowVars, crmVars
<1>7. \A o \in Orders : ~RequestReads(o)
  BY DEF RequestReads
<1> QED BY <1>2, <1>3, <1>4, <1>5, <1>6, <1>7, EchoHandler, EchoPush DEF Next, Environment

LEMMA EStep == EInv /\ [Next]_vars => EInv'
<1> SUFFICES ASSUME EInv, [Next]_vars PROVE EInv'
  OBVIOUS
<1>1. OInv' /\ HistoryOK' /\ LockedIsLinked'
  BY OwnStep, HistoryStep, LockedStep DEF EInv
<1>2. Quiet' => Quiet /\ ~Spend("stamp") /\ ~Spend("push")
  BY UsedGrows, Kinds DEF Quiet, EInv, OInv, TInv
<1>3. Quiet' => EchoInv'
  BY <1>2, EchoStep DEF EInv
<1> QED BY <1>1, <1>3 DEF EInv

LEMMA EInit == Init => EInv
<1> SUFFICES ASSUME Init PROVE EInv
  OBVIOUS
<1>1. PushesKnow /\ HandlersMatch /\ OwnVersionsOnly
  BY DEF Init, PushesKnow, HandlersMatch, OwnVersionsOnly, NoPush
<1>2. OInv
  BY <1>1, InitType DEF OInv
<1>3. DOMAIN log = {}
  BY DEF Init
<1>4. HistoryOK /\ LockedIsLinked
  BY <1>3 DEF Init, HistoryOK, Created, Roots, OwnIsTimed, LockedIsLinked, NoPush
<1>5. EchoInv
  BY <1>3 DEF Init, EchoInv, OwnCreates, Creating, StampCovers, EchoNeverApplied, NoPush
<1> QED BY <1>2, <1>4, <1>5 DEF EInv

(* UpdateOrder: what a create of the connector wrote is never applied to the   *)
(* shop when it comes back, whatever managers save, in the same second or      *)
(* without a time, and however many handlers, failures and restarts there are: *)
(* as long as no stamp failed and no order was pushed once more, after which   *)
(* the stamp may be behind the version the connector wrote itself.            *)
THEOREM EchoesOfCreates == Spec => [](Quiet => EchoNeverApplied)
<1>1. EInv => (Quiet => EchoNeverApplied)
  BY DEF EInv, EchoInv
<1> QED BY <1>1, EInit, EStep, PTL DEF Spec

-----------------------------------------------------------------------------
(* What the shop shows, when one request is served at a time or the handlers   *)
(* stay apart                                                                 *)

Alone == \A g, h \in Handlers : g = h

Timed    == \A i \in DOMAIN log : log[i].time = i
NoOrphan == \A o \in Orders : lock[o] # Orphan

(* The stamp of a linked order is a version of its Sales Order ... *)
StampIsVersion == \A o \in Orders : zohoId[o] # NoId => stamp[o] \in Versions(o)

(* ... and covers every webhook that was answered, and every one of a batch    *)
(* that the handler has got past.                                             *)
Done(i) == log[i].so = zohoId[log[i].order] /\ i <= stamp[log[i].order]

AnsweredDone == \A i \in DOMAIN log \ outbox : Done(i)

Past(h) ==
  \A i \in job[h].sent : (\E k \in DOMAIN job[h].todo : job[h].todo[k] = i) \/ Done(i)

(* What a handler has read still holds, and what it writes is newer.           *)
InHand(h) ==
  /\ pc[h] \in {"status", "begin", "lock", "tx", "stamp"}
       => Head(job[h].todo) > stamp[Hook(h).order]
  /\ pc[h] = "check" => (job[h].same <=> items[Hook(h).order] = Hook(h).items)
  /\ pc[h] \in {"load", "check"} /\ used["move"] = 0 => job[h].snap = status[Hook(h).order]
  /\ pc[h] \in {"status", "stamp"} => items[Hook(h).order] = Hook(h).items
  /\ pc[h] = "stamp" /\ used["move"] = 0 /\ Hook(h).name \in DOMAIN StatusOf
       => status[Hook(h).order] = StatusOf[Hook(h).name]

(* While the stamp is the newest version, the shop shows it. *)
Shows(o) ==
  zohoId[o] # NoId /\ (\A i \in Versions(o) : i <= stamp[o]) /\ ~log[stamp[o]].own =>
    /\ items[o] = log[stamp[o]].items
    /\ log[stamp[o]].name \in DOMAIN StatusOf /\ used["move"] = 0
         => status[o] = StatusOf[log[stamp[o]].name]

XInv ==
  /\ Timed /\ NoOrphan /\ StampIsVersion /\ AnsweredDone
  /\ \A h \in Handlers : Past(h) /\ (pc[h] # "idle" => InHand(h))
  /\ \A o \in Orders : Shows(o)

(* Stamps of linked orders only grow. *)
StampGrows == \A o \in Orders : zohoId[o] # NoId => stamp[o] <= stamp'[o]

LEMMA DoneKept ==
  ASSUME TInv, Lasting, TypeOK', StampGrows, NEW i \in DOMAIN log, Done(i)
  PROVE  Done(i)'
<1>1. /\ log[i].order \in Orders /\ log[i].so \in DOMAIN log /\ log[i].so # NoId
      /\ log'[i] = log[i] /\ i \in Nat
  BY LogType DEF TInv, IdsOK, Version, NoId, Lasting
<1>2. stamp[log[i].order] \in Nat /\ stamp'[log[i].order] \in Nat
  BY <1>1 DEF TInv, TypeOK
<1> QED BY <1>1, <1>2 DEF Done, Lasting, StampGrows

(* The webhooks a handler has sent for are versions. *)
LEMMA SentDomain ==
  ASSUME TypeOK, NEW h \in Handlers
  PROVE  /\ job[h].sent \subseteq DOMAIN log
         /\ job[h].todo \in Seq(DOMAIN log)
BY DEF TypeOK, HandlersOK, JobRow

(* The handler is done with the webhook in hand. *)
LEMMA ProceedDone ==
  ASSUME TInv, UNCHANGED log, NEW h \in Handlers, pc[h] # "idle", Proceed(h),
         AnsweredDone, Past(h), NEW m, m = Head(job[h].todo), Done(m)',
         \A i \in DOMAIN log : Done(i) => Done(i)'
  PROVE  AnsweredDone' /\ Past(h)'
<1> USE DEF TInv
<1>0. PICK t, S : t = job[h].todo /\ S = job[h].sent
  OBVIOUS
<1>1. /\ t \in Seq(DOMAIN log) /\ t # <<>> /\ S \subseteq DOMAIN log
      /\ Len(t) \in Nat /\ Len(t) # 0 /\ DOMAIN t = 1..Len(t) /\ Head(t) = t[1]
  <2>1. t \in Seq(DOMAIN log) /\ t # <<>> /\ S \subseteq DOMAIN log
    BY <1>0, HookType, SentDomain
  <2>2. Len(t) \in Nat /\ DOMAIN t = 1..Len(t) /\ Head(t) = t[1]
    BY <2>1, LenProperties, HeadTailProperties
  <2>3. Len(t) # 0
    BY <2>1, EmptySeq
  <2> QED BY <2>1, <2>2, <2>3
<1>2. Done(t[1])'
  BY <1>0, <1>1 DEF Done
<1>3. \A i \in S : (\E k \in 1..Len(t) : t[k] = i) \/ Done(i)'
  BY <1>0, <1>1 DEF Past
<1>4. CASE Len(t) > 1
  <2>1. /\ job' = [job EXCEPT ![h] = [NoJob EXCEPT !.todo = Tail(t), !.sent = S]]
        /\ UNCHANGED outbox
    BY <1>0, <1>4 DEF Proceed
  <2>2. job'[h].todo = Tail(t) /\ job'[h].sent = S
    BY <2>1 DEF TypeOK, HandlersOK, NoJob
  <2>3. /\ DOMAIN Tail(t) = 1..(Len(t) - 1)
        /\ \A k \in 1..(Len(t) - 1) : Tail(t)[k] = t[k + 1]
    BY <1>1, HeadTailProperties, LenProperties
  <2>4. ASSUME NEW i \in S PROVE (\E k \in DOMAIN Tail(t) : Tail(t)[k] = i) \/ Done(i)'
    <3>1. CASE \E k \in 1..Len(t) : t[k] = i
      <4>1. PICK k \in 1..Len(t) : t[k] = i
        BY <3>1
      <4>2. CASE k = 1
        BY <1>2, <4>1, <4>2
      <4>3. CASE k # 1
        <5>1. k - 1 \in 1..(Len(t) - 1) /\ (k - 1) + 1 = k
          BY <1>1, <4>3
        <5>2. Tail(t)[k - 1] = i
          BY <2>3, <4>1, <5>1
        <5> QED BY <2>3, <5>1, <5>2
      <4> QED BY <4>2, <4>3
    <3> QED BY <1>3, <3>1
  <2>5. Past(h)'
    BY <2>2, <2>4 DEF Past, Done
  <2> QED BY <2>1, <2>5 DEF AnsweredDone, Done
<1>5. CASE ~(Len(t) > 1)
  <2>1. job'[h] = NoJob /\ outbox' = outbox \ S
    BY <1>0, <1>5 DEF Proceed, Leave, TypeOK, HandlersOK
  <2>2. \A i \in S : Done(i)'
    <3>1. Len(t) = 1
      BY <1>1, <1>5
    <3> QED BY <1>2, <1>3, <3>1
  <2>3. AnsweredDone'
    BY <2>1, <2>2 DEF AnsweredDone
  <2> QED BY <2>1, <2>3 DEF Past, NoJob
<1> QED BY <1>4, <1>5

LEMMA XHandler ==
  ASSUME Apart, EInv, Exact, XInv, TypeOK', NEW h \in Handlers, UpdateOrder(h),
         ~Spend("insert"), ~Spend("stamp")
  PROVE  XInv'
<1> USE DEF EInv, OInv, TInv
<1>0. PICK m, i, o : m = Hook(h) /\ i = Head(job[h].todo) /\ o = m.order
  OBVIOUS
<1>1. /\ pc[h] # "idle" /\ UNCHANGED <<log, push, zohoId>>
      /\ \A g \in Handlers \ {h} : pc'[g] = pc[g] /\ job'[g] = job[g]
      /\ pc \in [Handlers -> Labels] /\ job \in [Handlers -> JobRow]
  BY HandlerAlone DEF TypeOK, HandlersOK
<1>2. /\ m = log[i] /\ i \in DOMAIN log /\ i \in Nat /\ i # 0 /\ o \in Orders
      /\ m.so \in DOMAIN log /\ m.so # NoId /\ m.time = i /\ m.items \notin BadItems
  BY <1>0, <1>1, HookType, LogType DEF Hook, IdsOK, NoId, Exact, XInv, Timed
<1>3. pc[h] # "search" => m.so = zohoId[o] /\ zohoId[o] # NoId /\ i \in Versions(o)
  BY <1>0, <1>1, <1>2 DEF HandlersMatch, Versions
<1>4. Past(h) /\ InHand(h) /\ AnsweredDone
  BY <1>1 DEF XInv
<1>5. \A l : Goto(h, l) => pc'[h] = l
  BY <1>1 DEF Goto
<1>6. \/ stamp' = stamp
      \/ Stamp(h) /\ stamp' = [stamp EXCEPT ![o] = i]
  BY <1>0, <1>2 DEF UpdateOrder, Search, Load, Check, SetStatus, Begin, SelectForUpdate, Commit,
                    Leak, Stamp, Aborts, rowVars
<1>7. \A q \in Orders : stamp[q] \in Nat /\ stamp'[q] \in Nat
  BY DEF TypeOK
<1>8. pc[h] \in {"status", "begin", "lock", "tx", "stamp"} => i > stamp[o]
  BY <1>0, <1>4 DEF InHand
<1>9. StampGrows /\ Lasting
  <2>1. StampGrows
    <3>1. Stamp(h) => i > stamp[o]
      BY <1>8 DEF Stamp
    <3>2. stamp \in [Orders -> Nat]
      BY DEF TypeOK
    <3>3. \A q \in Orders : stamp[q] <= stamp'[q]
      BY <1>2, <1>6, <1>7, <3>1, <3>2
    <3> QED BY <3>3 DEF StampGrows
  <2> QED BY <1>1, <2>1 DEF Lasting
<1>10. \A j \in DOMAIN log : Done(j) => Done(j)'
  BY <1>9, DoneKept
<1>11. Timed' /\ NoOrphan'
  <2>1. ~Leak(h)
    BY <1>0, <1>2 DEF Leak
  <2>2. \A q \in Orders : lock'[q] \in {lock[q], h, Free}
    BY <1>2, <2>1 DEF UpdateOrder, Search, Load, Check, SetStatus, Begin, SelectForUpdate, Commit,
                      Stamp, Aborts, sqlVars, TypeOK
  <2> QED BY <1>1, <2>2, ReverseAssumption DEF XInv, Timed, NoOrphan, Orphan, Free
<1>12. StampIsVersion'
  <2>1. \A q : Versions(q)' = Versions(q)
    BY <1>1 DEF Versions
  <2>2. Stamp(h) => i \in Versions(o)
    BY <1>3 DEF Stamp
  <2> QED BY <1>1, <1>2, <1>6, <2>1, <2>2 DEF XInv, StampIsVersion, TypeOK
<1>13. AnsweredDone' /\ Past(h)'
  <2>1. CASE Fail(h)
    <3>1. job'[h] = NoJob /\ UNCHANGED outbox
      BY <1>1, <2>1 DEF Fail, Leave
    <3> QED BY <1>1, <1>4, <1>10, <3>1 DEF AnsweredDone, Past, NoJob
  <2>2. CASE Proceed(h) /\ ~Fail(h)
    <3>1. Done(i)'
      <4>1. CASE Check(h) /\ IsEcho(h)
        <5>1. i <= stamp[o] /\ m.so = zohoId[o]
          BY <1>0, <1>2, <1>3, <4>1 DEF Check, IsEcho
        <5> QED BY <1>0, <1>2, <1>10, <5>1 DEF Done
      <4>2. CASE Stamp(h)
        <5>1. lock[o] # Orphan /\ pc[h] = "stamp"
          BY <1>2, <4>2 DEF XInv, NoOrphan, Stamp
        <5>2. stamp' = [stamp EXCEPT ![o] = i]
          BY <1>0, <1>2, <4>2, <5>1 DEF Stamp, TimesOut, NoTime
        <5>3. stamp'[o] = i /\ m.so = zohoId'[o] /\ log'[i] = m
          BY <1>1, <1>2, <1>3, <5>1, <5>2 DEF TypeOK
        <5> QED BY <1>0, <1>2, <5>3 DEF Done
      <4>3. CASE ~Stamp(h) /\ ~(Check(h) /\ IsEcho(h))
        <5>1. pc'[h] \in {"search", "idle"}
          BY <1>5, <2>2, AfterProceed
        <5> QED BY <1>5, <2>2, <4>3, <5>1
                DEF UpdateOrder, Search, Load, Check, SetStatus, Begin, SelectForUpdate, Commit,
                    Leak, Aborts
      <4> QED BY <4>1, <4>2, <4>3
    <3> QED BY <1>0, <1>1, <1>4, <1>10, <2>2, <3>1, ProceedDone
  <2>3. CASE ~Fail(h) /\ ~Proceed(h)
    <3>1. UNCHANGED outbox /\ job'[h].todo = job[h].todo /\ job'[h].sent = job[h].sent
      BY <1>1, <2>3 DEF UpdateOrder, Search, Load, Check, SetStatus, Begin, SelectForUpdate,
                        Commit, Leak, Stamp, Aborts, crmVars, JobRow
    <3>2. job[h].sent \subseteq DOMAIN log
      BY SentDomain
    <3> QED BY <1>1, <1>4, <1>10, <3>1, <3>2 DEF AnsweredDone, Past
  <2> QED BY <2>1, <2>2, <2>3
<1>14. used'["move"] = used["move"]
  BY <1>1 DEF UpdateOrder, Search, Load, Check, SetStatus, Begin, SelectForUpdate, Commit, Leak,
              Stamp, Aborts, Spend, TypeOK, Disturbances
<1>15. job'[h].todo = job[h].todo => Hook(h)' = m
  BY <1>0, <1>1 DEF Hook
<1>16. pc'[h] # "idle" => InHand(h)'
  <2>1. CASE pc'[h] \in {"idle", "search"}
    BY <2>1 DEF InHand
  <2>2. CASE pc'[h] \notin {"idle", "search"}
    <3>0. ~Fail(h) /\ ~Proceed(h)
      BY <1>5, <2>2, AfterFail, AfterProceed
    <3>1. CASE Search(h)
      <4>1. job' = [job EXCEPT ![h].snap = status[o]] /\ pc'[h] = "load" /\ UNCHANGED status
        BY <1>0, <1>5, <3>0, <3>1 DEF Search, rowVars
      <4>2. job'[h].snap = status[o] /\ job'[h].todo = job[h].todo
        BY <1>1, <4>1 DEF JobRow
      <4> QED BY <1>0, <1>15, <4>1, <4>2 DEF InHand
    <3>2. CASE Load(h)
      <4>0. PICK b : b = (items[o] = m.items)
        OBVIOUS
      <4>1. /\ job' = [job EXCEPT ![h].same = b] /\ pc'[h] = "check"
            /\ UNCHANGED <<items, status>> /\ pc[h] = "load"
        BY <1>0, <1>5, <3>2, <4>0 DEF Load, rowVars
      <4>2. /\ job'[h].snap = job[h].snap /\ job'[h].todo = job[h].todo
            /\ job'[h].same = b
        BY <1>1, <4>1 DEF JobRow
      <4> QED BY <1>0, <1>4, <1>14, <1>15, <4>0, <4>1, <4>2 DEF InHand
    <3>3. CASE Check(h)
      <4>1. /\ pc[h] = "check" /\ UNCHANGED <<job, items, status, stamp>> /\ ~IsEcho(h)
            /\ pc'[h] = (IF ~job[h].same THEN "begin"
                         ELSE IF NewStatus(h) # job[h].snap THEN "status" ELSE "stamp")
        BY <1>5, <3>0, <3>3 DEF Check, rowVars
      <4>2. i > stamp[o]
        BY <1>0, <1>2, <1>7, <4>1 DEF IsEcho, NoTime
      <4>3. /\ job[h].same <=> items[o] = m.items
            /\ used["move"] = 0 => job[h].snap = status[o]
        BY <1>0, <1>4, <4>1 DEF InHand
      <4>4. NewStatus(h) = job[h].snap /\ m.name \in DOMAIN StatusOf
              => job[h].snap = StatusOf[m.name]
        BY <1>0 DEF NewStatus
      <4>5. Hook(h)' = m /\ job'[h].todo = job[h].todo
        BY <1>15, <4>1
      <4> QED BY <1>0, <1>14, <4>1, <4>2, <4>3, <4>4, <4>5 DEF InHand
    <3>4. CASE SetStatus(h)
      <4>1. /\ pc[h] = "status" /\ pc'[h] = "stamp" /\ UNCHANGED <<job, items, stamp>>
            /\ status' = [status EXCEPT ![o] = NewStatus(h)]
        BY <1>0, <1>5, <3>0, <3>4 DEF SetStatus
      <4>2. m.name \in DOMAIN StatusOf => status'[o] = StatusOf[m.name]
        BY <1>0, <1>2, <4>1 DEF NewStatus, TypeOK
      <4>3. Hook(h)' = m /\ job'[h].todo = job[h].todo
        BY <1>15, <4>1
      <4> QED BY <1>0, <1>4, <1>8, <4>1, <4>2, <4>3 DEF InHand
    <3>5. CASE Begin(h) \/ SelectForUpdate(h)
      <4>1. /\ pc[h] \in {"begin", "lock"} /\ pc'[h] \in {"lock", "tx"} /\ UNCHANGED <<job, stamp>>
        BY <1>5, <3>5 DEF Begin, SelectForUpdate, rowVars
      <4>2. Hook(h)' = m /\ job'[h].todo = job[h].todo
        BY <1>15, <4>1
      <4> QED BY <1>0, <1>8, <4>1, <4>2 DEF InHand
    <3>6. CASE Commit(h)
      <4>1. /\ pc[h] = "tx" /\ pc'[h] = "stamp" /\ UNCHANGED <<job, stamp>>
            /\ items' = [items EXCEPT ![o] = m.items]
            /\ status' = [status EXCEPT ![o] = NewStatus(h)]
        BY <1>0, <1>5, <3>0, <3>6 DEF Commit
      <4>2. /\ items'[o] = m.items
            /\ m.name \in DOMAIN StatusOf => status'[o] = StatusOf[m.name]
        BY <1>0, <1>2, <4>1 DEF NewStatus, TypeOK
      <4>3. Hook(h)' = m /\ job'[h].todo = job[h].todo
        BY <1>15, <4>1
      <4> QED BY <1>0, <1>8, <4>1, <4>2, <4>3 DEF InHand
    <3>7. ~Leak(h) /\ ~Aborts(h) /\ ~Stamp(h)
      BY <3>0 DEF Leak, Aborts, Stamp
    <3> QED BY <3>1, <3>2, <3>3, <3>4, <3>5, <3>6, <3>7 DEF UpdateOrder
  <2> QED BY <2>1, <2>2
<1>17. ASSUME NEW q \in Orders PROVE Shows(q)'
  <2>1. Shows(q) /\ Versions(q)' = Versions(q)
    BY <1>1 DEF XInv, Versions
  <2>2. CASE items'[q] = items[q] /\ status'[q] = status[q] /\ stamp'[q] = stamp[q]
    BY <1>1, <1>14, <2>1, <2>2 DEF Shows
  <2>3. CASE SetStatus(h) \/ Commit(h)
    <3>1. /\ pc[h] \in {"status", "tx"} /\ UNCHANGED stamp
          /\ q # o => items'[q] = items[q] /\ status'[q] = status[q]
      BY <1>0, <2>3 DEF SetStatus, Commit, TypeOK
    <3>2. i > stamp[o] /\ i \in Versions(o)
      BY <1>3, <1>8, <3>1
    <3>3. q = o => ~\A j \in Versions(q) : j <= stamp[q]
      BY <1>2, <1>7, <3>2
    <3> QED BY <2>1, <2>2, <3>1, <3>3 DEF Shows
  <2>4. CASE Stamp(h)
    <3>1. UNCHANGED <<items, status>> /\ pc[h] = "stamp"
      BY <2>4 DEF Stamp
    <3>2. CASE stamp' = [stamp EXCEPT ![o] = i] /\ q = o
      <4>1. stamp'[q] = i /\ log'[i] = m
        BY <1>1, <1>2, <3>2 DEF TypeOK
      <4>2. /\ items[o] = m.items
            /\ used["move"] = 0 /\ m.name \in DOMAIN StatusOf => status[o] = StatusOf[m.name]
        BY <1>0, <1>4, <3>1 DEF InHand
      <4> QED BY <1>14, <3>1, <3>2, <4>1, <4>2 DEF Shows
    <3>3. CASE stamp' = stamp \/ q # o
      <4>1. stamp'[q] = stamp[q]
        BY <1>6, <3>3 DEF TypeOK
      <4> QED BY <2>2, <3>1, <4>1
    <3> QED BY <1>6, <3>2, <3>3
  <2>5. CASE ~SetStatus(h) /\ ~Commit(h) /\ ~Stamp(h)
    BY <2>2, <2>5 DEF UpdateOrder, Search, Load, Check, Begin, SelectForUpdate, Leak, Aborts, rowVars
  <2> QED BY <2>3, <2>4, <2>5
<1>18. ASSUME NEW g \in Handlers, g # h PROVE Past(g)' /\ (pc'[g] # "idle" => InHand(g)')
  <2>0. PICK q : q = Hook(g).order
    OBVIOUS
  <2>1. Past(g) /\ job[g].sent \subseteq DOMAIN log /\ (pc[g] # "idle" => InHand(g))
    BY SentDomain DEF XInv
  <2>2. Past(g)'
    BY <1>1, <1>10, <1>18, <2>1 DEF Past
  <2>3. CASE pc[g] \in {"idle", "search"}
    BY <1>1, <1>18, <2>2, <2>3 DEF InHand
  <2>4. CASE pc[g] \notin {"idle", "search"}
    <3>1. q \in Orders /\ Hook(g)' = Hook(g)
      BY <1>1, <1>18, <2>0, <2>4, HookType, HookKept
    <3>2. /\ items'[q] = items[q] /\ status'[q] = status[q] /\ stamp'[q] = stamp[q]
      <4>1. CASE pc[h] = "search"
        BY <4>1 DEF UpdateOrder, Search, Load, Check, SetStatus, Begin, SelectForUpdate, Commit,
                    Leak, Stamp, Aborts, rowVars
      <4>2. CASE pc[h] # "search"
        <5>1. q # o
          BY <1>0, <1>1, <1>18, <2>0, <2>4, <4>2 DEF Apart
        <5>2. stamp'[q] = stamp[q]
          BY <1>6, <3>1, <5>1 DEF TypeOK
        <5>3. items'[q] = items[q] /\ status'[q] = status[q]
          BY <1>0, <3>1, <5>1
          DEF UpdateOrder, Search, Load, Check, SetStatus, Begin, SelectForUpdate, Commit,
              Leak, Stamp, Aborts, rowVars, TypeOK
        <5> QED BY <5>2, <5>3
      <4> QED BY <4>1, <4>2
    <3> QED BY <1>1, <1>14, <1>18, <2>0, <2>1, <2>2, <2>4, <3>1, <3>2 DEF InHand
  <2> QED BY <2>3, <2>4
<1> QED BY <1>11, <1>12, <1>13, <1>16, <1>17, <1>18 DEF XInv

(* The rows and the handlers rest; a version may be stored. *)
LEMMA XRest ==
  ASSUME EInv, XInv, UNCHANGED <<items, status, stamp, zohoId, pc, job>>,
         used'["move"] = used["move"], NoOrphan',
         UNCHANGED crmVars
           \/ \E v \in Version : v.time = Len(log) + 1 /\ Store(v)
  PROVE  XInv'
<1> USE DEF EInv, OInv, TInv
<1>0. PICK n : n = Len(log) + 1
  OBVIOUS
<1>1. /\ n \in Nat /\ \A i \in DOMAIN log : i \in Nat /\ i < n
      /\ DOMAIN log \subseteq DOMAIN log'
      /\ \A i \in DOMAIN log : log'[i] = log[i]
      /\ \A i \in DOMAIN log' \ DOMAIN log : i = n /\ log'[i].time = i /\ i \in outbox'
      /\ outbox \subseteq outbox'
  <2>1. CASE UNCHANGED crmVars
    BY <1>0, <2>1, LogType DEF crmVars
  <2>2. ASSUME NEW v \in Version, v.time = Len(log) + 1, Store(v)
        PROVE  /\ DOMAIN log' = DOMAIN log \cup {n} /\ log'[n] = v /\ v.time = n
               /\ \A i \in DOMAIN log : log'[i] = log[i]
               /\ outbox' = outbox \cup {n}
    BY <1>0, <2>2, StoreType DEF Store
  <2>3. n \in Nat /\ \A i \in DOMAIN log : i \in Nat /\ i < n
    BY <1>0, LogType
  <2> QED BY <2>1, <2>2, <2>3
<1>2. Timed' /\ \A i \in DOMAIN log : Done(i) => Done(i)'
  BY <1>1 DEF XInv, Timed, Done
<1>3. AnsweredDone'
  BY <1>1, <1>2 DEF XInv, AnsweredDone
<1>4. ASSUME NEW q \in Orders, zohoId[q] # NoId
      PROVE  stamp[q] \in Versions(q) /\ Versions(q) \subseteq Versions(q)'
             /\ stamp[q] \in DOMAIN log
             /\ Versions(q)' \subseteq Versions(q) \cup {n}
  BY <1>1, <1>4 DEF XInv, StampIsVersion, Versions
<1>5. StampIsVersion'
  BY <1>4 DEF StampIsVersion
<1>6. ASSUME NEW h \in Handlers PROVE Past(h)' /\ (pc'[h] # "idle" => InHand(h)')
  <2>1. Past(h) /\ job[h].sent \subseteq DOMAIN log
    BY SentDomain DEF XInv
  <2>2. Past(h)'
    BY <1>2, <2>1 DEF Past
  <2>3. pc[h] # "idle" => Hook(h)' = Hook(h) /\ InHand(h)
    BY <1>1, HookKept DEF XInv
  <2> QED BY <2>2, <2>3 DEF InHand
<1>7. ASSUME NEW q \in Orders PROVE Shows(q)'
  <2>1. CASE zohoId[q] = NoId
    BY <2>1 DEF Shows
  <2>2. CASE zohoId[q] # NoId
    <3>1. stamp[q] < n /\ stamp[q] \in Nat /\ log'[stamp[q]] = log[stamp[q]]
      BY <1>1, <1>4, <2>2
    <3>2. n \in Versions(q)' => ~\A i \in Versions(q)' : i <= stamp[q]
      BY <1>1, <3>1
    <3>3. n \notin Versions(q)' => Versions(q)' = Versions(q)
      BY <1>4, <2>2
    <3>4. Shows(q)
      BY DEF XInv
    <3> QED BY <3>1, <3>2, <3>3, <3>4 DEF Shows
  <2> QED BY <2>1, <2>2
<1> QED BY <1>2, <1>3, <1>5, <1>6, <1>7 DEF XInv

LEMMA XPush ==
  ASSUME EInv, EchoInv, Exact, XInv, NEW o \in Orders, PushStep(o), ~Spend("stamp")
  PROVE  XInv'
<1> USE DEF EInv, OInv, TInv, EchoInv
<1>1. UNCHANGED <<items, status, lock, pc, job>> /\ used'["move"] = used["move"]
  BY DEF PushStep, PollerReads, PushRead, PushSend, PushStamp, PushLink, rowVars, sqlVars, Spend,
         TypeOK, Disturbances
<1>2. NoOrphan' /\ lock[o] # Orphan
  BY <1>1 DEF XInv, NoOrphan
<1>3. /\ push \in [Orders -> PushRow] /\ stamp \in [Orders -> Nat] /\ zohoId \in [Orders -> Nat]
  BY DEF TypeOK
<1>4. push[o].at # "idle" => push[o].known = NoId /\ zohoId[o] = NoId
  BY DEF Creating, PushesKnow
<1>5. CASE PollerReads(o)
  BY <1>1, <1>2, <1>5, XRest DEF PollerReads, PushRead, rowVars
<1>6. CASE PushSend(o)
  <2>1. Sent(o) \in Version /\ Sent(o).time = Len(log) + 1
    BY SentType DEF Sent
  <2>2. UNCHANGED crmVars \/ \E v \in Version : v.time = Len(log) + 1 /\ Store(v)
    BY <1>6, <2>1 DEF PushSend
  <2> QED BY <1>1, <1>2, <1>6, <2>2, XRest DEF PushSend, rowVars
<1>7. CASE /\ UNCHANGED <<log, outbox>> /\ zohoId[o] = NoId
           /\ \A q \in Orders \ {o} : stamp'[q] = stamp[q] /\ zohoId'[q] = zohoId[q]
           /\ zohoId'[o] # NoId
                => zohoId'[o] = stamp'[o] /\ IsRoot(stamp'[o], o)
                   /\ stamp'[o] \in DOMAIN log
  <2>0. \A i \in DOMAIN log : log[i].order \in Orders /\ log[i].so # NoId
    BY LogType DEF IdsOK, NoId, Version
  <2>1. \A i \in DOMAIN log : Done(i) => Done(i)'
    BY <1>7, <2>0 DEF Done
  <2>2. Timed' /\ AnsweredDone'
    BY <1>7, <2>1 DEF XInv, Timed, AnsweredDone
  <2>3. \A q \in Orders \ {o} : Versions(q)' = Versions(q)
    BY <1>7 DEF Versions
  <2>4. StampIsVersion'
    <3>1. zohoId'[o] # NoId => stamp'[o] \in Versions(o)'
      BY <1>7 DEF Versions, IsRoot
    <3> QED BY <1>7, <2>3, <3>1 DEF XInv, StampIsVersion
  <2>5. ASSUME NEW h \in Handlers PROVE Past(h)' /\ (pc'[h] # "idle" => InHand(h)')
    <3>1. Past(h)'
      <4>1. Past(h) /\ job[h].sent \subseteq DOMAIN log
        BY SentDomain DEF XInv
      <4> QED BY <1>1, <2>1, <4>1 DEF Past
    <3>2. CASE pc[h] \notin {"idle", "search"}
      <4>0. PICK r : r = Hook(h).order
        OBVIOUS
      <4>1. Hook(h)' = Hook(h) /\ InHand(h)
        BY <1>1, <1>7, <3>2 DEF XInv, Hook
      <4>2. Hook(h).so = zohoId[r] /\ Hook(h).so \in DOMAIN log /\ r \in Orders
        BY <3>2, <4>0, HookType DEF HandlersMatch, IdsOK, Hook
      <4>3. r \in Orders \ {o}
        BY <1>7, <4>2, LogType DEF NoId
      <4>4. stamp'[r] = stamp[r]
        BY <1>7, <4>3
      <4> QED BY <1>1, <3>1, <4>0, <4>1, <4>4 DEF InHand
    <3>3. CASE pc[h] \in {"idle", "search"}
      BY <1>1, <3>1, <3>3 DEF InHand
    <3> QED BY <3>2, <3>3
  <2>6. ASSUME NEW q \in Orders PROVE Shows(q)'
    <3>1. CASE q = o
      BY <1>7, <3>1 DEF Shows, IsRoot
    <3>2. CASE q # o
      BY <1>1, <1>7, <2>3, <3>2 DEF XInv, Shows
    <3> QED BY <3>1, <3>2
  <2> QED BY <1>2, <2>2, <2>4, <2>5, <2>6 DEF XInv
<1>8. CASE PushStamp(o)
  <2>1. push[o].at = "stamp" /\ UNCHANGED <<log, outbox, zohoId>>
    BY <1>8 DEF PushStamp, crmVars
  <2>2. \A q \in Orders \ {o} : stamp'[q] = stamp[q]
    BY <1>3, <1>8 DEF PushStamp
  <2> QED BY <1>4, <1>7, <2>1, <2>2
<1>9. CASE PushLink(o)
  <2>1. push[o].at = "link" /\ UNCHANGED <<log, outbox, stamp>>
    BY <1>9 DEF PushLink, crmVars
  <2>2. \A q \in Orders \ {o} : zohoId'[q] = zohoId[q]
    BY <1>3, <1>9 DEF PushLink
  <2>3. zohoId'[o] = zohoId[o] \/ zohoId'[o] = push[o].so
    BY <1>3, <1>9 DEF PushLink
  <2>4. /\ stamp[o] = push[o].so /\ push[o].so # NoId /\ IsRoot(push[o].so, o)
        /\ push[o].so \in DOMAIN log
    BY <2>1 DEF Creating, HistoryOK, Roots, IdsOK, Known
  <2>5. IsRoot(stamp'[o], o) /\ stamp'[o] = stamp[o]
    BY <2>1, <2>4
  <2> QED BY <1>4, <1>7, <2>1, <2>2, <2>3, <2>4, <2>5
<1> QED BY <1>5, <1>6, <1>8, <1>9 DEF PushStep

LEMMA XStep ==
  ASSUME Apart, EInv, TypeOK', Exact, XInv, [Next]_vars,
         \A k \in {"stamp", "push", "second", "undated", "insert"} : ~Spend(k)
  PROVE  XInv'
<1> USE DEF EInv, OInv, TInv
<1>0. EchoInv
  BY DEF Exact
<1>1. CASE UNCHANGED <<rowVars, lock, crmVars, pc, job>> /\ used'["move"] = used["move"]
  BY <1>1, XRest DEF rowVars, XInv, NoOrphan
<1>2. ASSUME NEW h \in Handlers, UpdateOrder(h) PROVE XInv'
  BY <1>2, XHandler
<1>3. ASSUME NEW o \in Orders, PushStep(o) PROVE XInv'
  BY <1>0, <1>3, XPush
<1>4. ASSUME NEW h \in Handlers, NEW b \in Batches, Deliver(h, b) PROVE XInv'
  <2>1. /\ UNCHANGED <<items, status, stamp, zohoId, lock, log, outbox>>
        /\ used'["move"] = used["move"]
    BY <1>4 DEF Deliver, rowVars, sqlVars, crmVars, Spend, TypeOK, Disturbances
  <2>2. /\ pc'[h] = "search"
        /\ job'[h] = [NoJob EXCEPT !.todo = b, !.sent = {b[i] : i \in DOMAIN b}]
        /\ \A g \in Handlers \ {h} : pc'[g] = pc[g] /\ job'[g] = job[g]
    BY <1>4 DEF Deliver, Goto, TypeOK, HandlersOK
  <2>3. job'[h].todo = b /\ job'[h].sent = {b[i] : i \in DOMAIN b}
    BY <2>2 DEF NoJob
  <2>4. Past(h)' /\ InHand(h)'
    BY <2>2, <2>3 DEF Past, InHand
  <2>5. /\ Timed' /\ NoOrphan' /\ AnsweredDone' /\ StampIsVersion'
        /\ \A q \in Orders : Shows(q)'
    BY <2>1 DEF XInv, Timed, NoOrphan, AnsweredDone, Done, StampIsVersion, Shows, Versions
  <2>6. ASSUME NEW g \in Handlers \ {h} PROVE Past(g)' /\ (pc'[g] # "idle" => InHand(g)')
    <3>1. Past(g)' /\ (pc[g] # "idle" => InHand(g))
      BY <2>1, <2>2 DEF XInv, Past, Done
    <3>2. pc[g] # "idle" => Hook(g)' = Hook(g)
      BY <2>1, <2>2, HookKept
    <3> QED BY <2>1, <2>2, <3>1, <3>2 DEF InHand
  <2> QED BY <2>4, <2>5, <2>6 DEF XInv
<1>5. ASSUME NEW s \in SalesOrders, NEW i \in Items, NEW n \in Names, ManagerEdits(s, i, n)
      PROVE  XInv'
  <2>1. UNCHANGED <<items, status, stamp, zohoId, lock, pc, job>> /\ used' = used
        /\ \E v : v = [order |-> log[s].order, so |-> s, items |-> i, name |-> n,
                       time |-> Len(log) + 1, own |-> FALSE] /\ Store(v)
    BY <1>5 DEF ManagerEdits, rowVars, sqlVars
  <2>2. s \in DOMAIN log
    BY DEF SalesOrders, IdsOK
  <2>3. log[s].order \in Orders /\ s \in Nat /\ Len(log) + 1 \in Nat
    BY <2>2, LogType DEF Version
  <2>4. \E v \in Version : v.time = Len(log) + 1 /\ Store(v)
    BY <2>1, <2>3 DEF Version
  <2>5. NoOrphan'
    BY <2>1 DEF XInv, NoOrphan
  <2> QED BY <2>1, <2>4, <2>5, XRest
<1>6. CASE Crash
  <2>1. /\ UNCHANGED <<items, status, stamp, zohoId, log, outbox>>
        /\ \A h \in Handlers : pc'[h] = "idle" /\ job'[h] = NoJob
        /\ \A o \in Orders : lock'[o] # Orphan
        /\ used'["move"] = used["move"]
    BY <1>6 DEF Crash, rowVars, crmVars, Spend, TypeOK, Disturbances, Free, Orphan
  <2>2. \A h \in Handlers : Past(h)'
    BY <2>1 DEF Past, NoJob
  <2>3. /\ Timed' /\ NoOrphan' /\ AnsweredDone' /\ StampIsVersion'
        /\ \A q \in Orders : Shows(q)'
    BY <2>1 DEF XInv, Timed, NoOrphan, AnsweredDone, Done, StampIsVersion, Shows, Versions
  <2> QED BY <2>1, <2>2, <2>3 DEF XInv
<1>7. ASSUME NEW o \in Orders, NEW s \in Statuses, ShopMoves(o, s) PROVE XInv'
  <2>1. /\ UNCHANGED <<items, stamp, zohoId, lock, log, outbox, pc, job>>
        /\ used'["move"] # 0
    BY <1>7 DEF ShopMoves, sqlVars, crmVars, Spend, TypeOK, Disturbances
  <2>2. \A h \in Handlers : Hook(h)' = Hook(h)
    BY <2>1 DEF Hook
  <2>3. \A h \in Handlers : Past(h)' /\ (pc'[h] # "idle" => InHand(h)')
    BY <2>1, <2>2 DEF XInv, Past, Done, InHand
  <2>4. /\ Timed' /\ NoOrphan' /\ AnsweredDone' /\ StampIsVersion'
    BY <2>1 DEF XInv, Timed, NoOrphan, AnsweredDone, Done, StampIsVersion, Versions
  <2>5. \A q \in Orders : Shows(q)'
    BY <2>1 DEF XInv, Shows, Versions
  <2> QED BY <2>3, <2>4, <2>5 DEF XInv
<1>8. CASE UNCHANGED vars
  BY <1>1, <1>8 DEF vars, sqlVars
<1>9. \A o \in Orders : ~RequestReads(o)
  BY DEF RequestReads
<1> QED BY <1>2, <1>3, <1>4, <1>5, <1>6, <1>7, <1>8, <1>9 DEF Next, Environment

LEMMA ExactBefore ==
  ASSUME OInv, [Next]_vars, Exact'
  PROVE  /\ Exact
         /\ \A k \in {"stamp", "push", "second", "undated", "insert"} : ~Spend(k)
<1>1. Lasting
  BY LastingStep
<1>2. \A k \in {"stamp", "push", "second", "undated", "insert"} : used[k] = 0 /\ ~Spend(k)
  BY UsedGrows, Kinds DEF Exact, Quiet, OInv, TInv
<1> QED BY <1>1, <1>2 DEF Exact, Quiet, Lasting

(* Where every webhook of an order was answered, the stamp is the newest       *)
(* version and the shop shows it.                                             *)
LEMMA XCaughtUp ==
  ASSUME EInv, Exact, XInv
  PROVE  CaughtUp
<1> SUFFICES ASSUME NEW o \in Orders, Settled(o), zohoId[o] # NoId, ~Newest(o).own
             PROVE  /\ items[o] = Newest(o).items
                    /\ Newest(o).name \in DOMAIN StatusOf /\ used["move"] = 0
                         => status[o] = StatusOf[Newest(o).name]
  BY DEF CaughtUp, Reflected
<1>0. PICK s : s = stamp[o]
  OBVIOUS
<1>1. s \in Versions(o) /\ \A i \in Versions(o) : i \in Nat
  BY <1>0, LogType DEF XInv, StampIsVersion, Versions, EInv, OInv, TInv
<1>2. ASSUME NEW i \in Versions(o) PROVE i <= s
  <2>1. i \in DOMAIN log /\ log[i].so = zohoId[o] /\ i \notin outbox
    BY DEF Versions, Settled
  <2>2. log[i].order = o
    BY <2>1 DEF EInv, HistoryOK, Created, Roots, IsRoot
  <2> QED BY <1>0, <2>1, <2>2 DEF XInv, AnsweredDone, Done
<1>3. \A c \in Versions(o) : (\A k \in Versions(o) : k <= c) => c = s
  BY <1>1, <1>2
<1>4. Newest(o) = log[s]
  BY <1>1, <1>2, <1>3 DEF Newest
<1>5. Shows(o)
  BY DEF XInv
<1> QED BY <1>0, <1>2, <1>4, <1>5 DEF Shows

(* UpdateOrder with any number of handlers: as long as no two of them are at   *)
(* work on one order, an order all of whose webhooks were answered, in         *)
(* whatever order they came, failed, were cut short and repeated, shows the    *)
(* newest version of its Sales Order, provided no stamp failed, no order was   *)
(* pushed once more, no two versions shared a second or lacked a time, and no  *)
(* transaction was abandoned.  Each of these can bring an older version back.  *)
THEOREM ShopCatchesUpApart == Spec => CaughtUpApart
<1>1. Init => (Exact => XInv)
  <2> SUFFICES ASSUME Init PROVE XInv
    OBVIOUS
  <2>1. DOMAIN log = {} /\ \A h \in Handlers : job[h].sent = {}
    BY DEF Init, NoJob
  <2> QED BY <2>1, ReverseAssumption
          DEF Init, XInv, Timed, NoOrphan, StampIsVersion, AnsweredDone, Past, Shows, Free, Orphan
<1>2. EInv /\ EInv' /\ Apart /\ (Exact => XInv) /\ [Next]_vars => (Exact => XInv)'
  <2> SUFFICES ASSUME EInv, EInv', Apart, Exact => XInv, [Next]_vars, Exact' PROVE XInv'
    OBVIOUS
  <2>1. Exact /\ \A k \in {"stamp", "push", "second", "undated", "insert"} : ~Spend(k)
    BY ExactBefore DEF EInv
  <2> QED BY <2>1, XStep DEF EInv, OInv, TInv
<1>3. EInv /\ (Exact => XInv) => (Exact => CaughtUp)
  BY XCaughtUp
<1> QED BY <1>1, <1>2, <1>3, EInit, EStep, PTL DEF Spec, CaughtUpApart

(* With requests served one at a time that holds without the proviso: a second *)
(* handler at work on the same order is what it takes.                        *)
THEOREM ShopCatchesUp == Alone => (Spec => [](Exact => CaughtUp))
<1> SUFFICES ASSUME Alone PROVE Spec => [](Exact => CaughtUp)
  OBVIOUS
<1>2. Init => Apart
  BY DEF Alone, Apart
<1>3. [Next]_vars => Apart'
  BY DEF Alone, Apart
<1> QED BY <1>2, <1>3, ShopCatchesUpApart, PTL DEF Spec, CaughtUpApart

-----------------------------------------------------------------------------
(* The abstract specification *)

Seen == <<rowVars, crmVars>>

(* The row of its order names the Sales Order of version i. *)
Named(i) == log[i].so = zohoId[log[i].order]

(* The webhooks of a request that the handler has got past are about such.    *)
Through(h) ==
  \A i \in job[h].sent : (\E k \in DOMAIN job[h].todo : job[h].todo[k] = i) \/ Named(i)

(* A push that is to be stamped has written the version of its time. *)
Stamping ==
  \A o \in Orders : push[o].at = "stamp" =>
    \E i \in DOMAIN log : /\ i = push[o].time /\ i # NoTime
                          /\ log[i].time = i /\ log[i].order = o /\ log[i].so = push[o].so

SInv == EInv /\ Stamping /\ \A h \in Handlers : Through(h)

LEMMA NamedKept ==
  ASSUME TInv, Lasting, NEW i \in DOMAIN log, Named(i)
  PROVE  Named(i)'
<1>1. /\ log[i].order \in Orders /\ log[i].so \in DOMAIN log /\ log[i].so # NoId
      /\ log'[i] = log[i]
  BY LogType DEF TInv, IdsOK, Version, NoId, Lasting
<1> QED BY <1>1 DEF Named, Lasting

(* The request is taken further, or answered for all it was sent for. *)
LEMMA ProceedThrough ==
  ASSUME TInv, UNCHANGED <<log, zohoId>>, NEW h \in Handlers, pc[h] # "idle", Proceed(h),
         Through(h), Named(Head(job[h].todo))
  PROVE  /\ Through(h)'
         /\ \E S \in SUBSET outbox : (\A i \in S : Named(i)) /\ outbox' = outbox \ S
<1> USE DEF TInv
<1>0. PICK t, S : t = job[h].todo /\ S = job[h].sent
  OBVIOUS
<1>1. /\ t \in Seq(DOMAIN log) /\ t # <<>> /\ S \subseteq DOMAIN log
      /\ Len(t) \in Nat /\ Len(t) # 0 /\ DOMAIN t = 1..Len(t) /\ Head(t) = t[1]
  <2>1. t \in Seq(DOMAIN log) /\ t # <<>> /\ S \subseteq DOMAIN log
    BY <1>0, HookType, SentDomain
  <2>2. Len(t) \in Nat /\ DOMAIN t = 1..Len(t) /\ Head(t) = t[1]
    BY <2>1, LenProperties, HeadTailProperties
  <2>3. Len(t) # 0
    BY <2>1, EmptySeq
  <2> QED BY <2>1, <2>2, <2>3
<1>2. Named(t[1]) /\ \A i : Named(i)' <=> Named(i)
  BY <1>0, <1>1 DEF Named
<1>3. \A i \in S : (\E k \in 1..Len(t) : t[k] = i) \/ Named(i)
  BY <1>0, <1>1 DEF Through
<1>4. CASE Len(t) > 1
  <2>1. /\ job' = [job EXCEPT ![h] = [NoJob EXCEPT !.todo = Tail(t), !.sent = S]]
        /\ UNCHANGED outbox
    BY <1>0, <1>4 DEF Proceed
  <2>2. job'[h].todo = Tail(t) /\ job'[h].sent = S
    BY <2>1 DEF TypeOK, HandlersOK, NoJob
  <2>3. /\ DOMAIN Tail(t) = 1..(Len(t) - 1)
        /\ \A k \in 1..(Len(t) - 1) : Tail(t)[k] = t[k + 1]
    BY <1>1, HeadTailProperties, LenProperties
  <2>4. ASSUME NEW i \in S PROVE (\E k \in DOMAIN Tail(t) : Tail(t)[k] = i) \/ Named(i)
    <3>1. CASE \E k \in 1..Len(t) : t[k] = i
      <4>1. PICK k \in 1..Len(t) : t[k] = i
        BY <3>1
      <4>2. CASE k = 1
        BY <1>2, <4>1, <4>2
      <4>3. CASE k # 1
        <5>1. k - 1 \in 1..(Len(t) - 1) /\ (k - 1) + 1 = k
          BY <1>1, <4>3
        <5>2. Tail(t)[k - 1] = i
          BY <2>3, <4>1, <5>1
        <5> QED BY <2>3, <5>1, <5>2
      <4> QED BY <4>2, <4>3
    <3> QED BY <1>3, <3>1
  <2>5. Through(h)'
    BY <1>2, <2>2, <2>4 DEF Through
  <2> QED BY <2>1, <2>5
<1>5. CASE ~(Len(t) > 1)
  <2>1. job'[h] = NoJob /\ outbox' = outbox \ S
    BY <1>0, <1>5 DEF Proceed, Leave, TypeOK, HandlersOK
  <2>2. \A i \in S : Named(i)
    <3>1. Len(t) = 1
      BY <1>1, <1>5
    <3> QED BY <1>2, <1>3, <3>1
  <2>3. (S \cap outbox) \in SUBSET outbox /\ outbox' = outbox \ (S \cap outbox)
        /\ \A i \in S \cap outbox : Named(i)
    BY <2>1, <2>2
  <2>4. Through(h)'
    BY <2>1 DEF Through, NoJob
  <2> QED BY <2>3, <2>4
<1> QED BY <1>4, <1>5

LEMMA ThroughStep ==
  ASSUME SInv, [Next]_vars, NEW g \in Handlers
  PROVE  Through(g)'
<1> USE DEF SInv, EInv, OInv, TInv
<1>1. Lasting
  BY LastingStep
<1>2. Through(g) /\ job[g].sent \subseteq DOMAIN log
  BY SentDomain
<1>3. ASSUME job'[g].todo = job[g].todo, job'[g].sent = job[g].sent PROVE Through(g)'
  BY <1>1, <1>2, <1>3, NamedKept DEF Through
<1>4. ASSUME job'[g].sent = {} PROVE Through(g)'
  BY <1>4 DEF Through
<1>5. ASSUME UpdateOrder(g) PROVE Through(g)'
  <2>1. pc[g] # "idle" /\ UNCHANGED <<log, push, zohoId>>
    BY <1>5, HandlerAlone
  <2>2. CASE Fail(g)
    BY <1>4, <2>2 DEF Fail, Leave, NoJob, TypeOK, HandlersOK
  <2>3. CASE Proceed(g) /\ pc[g] # "search"
    <3>1. Named(Head(job[g].todo))
      BY <2>1, <2>3 DEF HandlersMatch, Hook, Named
    <3> QED BY <1>2, <2>1, <2>3, <3>1, ProceedThrough
  <2>4. CASE ~Fail(g) /\ ~(Proceed(g) /\ pc[g] # "search")
    <3>1. job'[g].todo = job[g].todo /\ job'[g].sent = job[g].sent
      BY <1>5, <2>4 DEF UpdateOrder, Search, Load, Check, SetStatus, Begin, SelectForUpdate,
                        Commit, Leak, Stamp, Aborts, JobRow, TypeOK, HandlersOK
    <3> QED BY <1>3, <3>1
  <2> QED BY <2>2, <2>3, <2>4
<1>6. ASSUME NEW b \in Batches, Deliver(g, b) PROVE Through(g)'
  <2>1. job'[g] = [NoJob EXCEPT !.todo = b, !.sent = {b[i] : i \in DOMAIN b}]
    BY <1>6 DEF Deliver, TypeOK, HandlersOK
  <2>2. job'[g].todo = b /\ job'[g].sent = {b[i] : i \in DOMAIN b}
    BY <2>1 DEF NoJob
  <2> QED BY <2>2 DEF Through
<1>7. ASSUME NEW h \in Handlers, h # g, UpdateOrder(h) PROVE Through(g)'
  BY <1>3, <1>7, HandlerAlone
<1>8. ASSUME NEW h \in Handlers, h # g, NEW b \in Batches, Deliver(h, b) PROVE Through(g)'
  BY <1>3, <1>8 DEF Deliver, TypeOK, HandlersOK
<1>9. CASE Crash
  BY <1>4, <1>9 DEF Crash, NoJob
<1>10. CASE UNCHANGED job
  BY <1>3, <1>10
<1> QED
  BY <1>5, <1>6, <1>7, <1>8, <1>9, <1>10
  DEF Next, Environment, vars, PushStep, PollerReads, RequestReads, PushRead, PushSend, PushStamp,
      PushLink, ManagerEdits, ShopMoves

LEMMA StampingStep ==
  ASSUME SInv, [Next]_vars
  PROVE  Stamping'
<1> USE DEF SInv, EInv, OInv, TInv
<1>1. Lasting
  BY LastingStep
<1>2. \A o \in Orders : push[o].at = "stamp" /\ push'[o] = push[o] =>
        \E i \in DOMAIN log' : /\ i = push'[o].time /\ i # NoTime
                               /\ log'[i].time = i /\ log'[i].order = o /\ log'[i].so = push'[o].so
  BY <1>1 DEF Stamping, Lasting
<1>3. CASE \A o \in Orders : push'[o] = push[o] \/ push'[o].at # "stamp"
  BY <1>2, <1>3 DEF Stamping
<1>4. ASSUME NEW o \in Orders, PushStep(o) \/ RequestReads(o) PROVE Stamping'
  <2>1. \A q \in Orders \ {o} : push'[q] = push[q]
    BY <1>4 DEF PushStep, PollerReads, RequestReads, PushRead, PushSend, PushStamp, PushLink, TypeOK
  <2>2. CASE push'[o].at # "stamp"
    BY <1>3, <2>1, <2>2
  <2>3. CASE push'[o].at = "stamp"
    <3>0. /\ push' # [push EXCEPT ![o] = NoPush]
          /\ \A r : r.at # "stamp" => push' # [push EXCEPT ![o] = r]
      BY <2>3 DEF NoPush, TypeOK
    <3>1. PushSend(o)
      <4>1. ~PollerReads(o) /\ ~RequestReads(o)
        <5>1. [NoPush EXCEPT !.at = "send", !.known = zohoId[o], !.items = items[o]].at # "stamp"
          BY DEF NoPush
        <5> QED BY <3>0, <5>1 DEF PollerReads, RequestReads, PushRead
      <4>2. ~PushStamp(o)
        BY <2>3 DEF PushStamp, TypeOK, PushRow
      <4>3. ~PushLink(o)
        BY <3>0 DEF PushLink
      <4> QED BY <1>4, <4>1, <4>2, <4>3 DEF PushStep
    <3>2. PICK n, v : n = Len(log) + 1 /\ v = Sent(o)
      OBVIOUS
    <3>3. /\ v \in Version /\ v.time = n /\ v.order = o
          /\ n \in Nat /\ n # NoTime
      BY <3>2, SentType, LogType DEF Sent, NoTime
    <3>4. /\ Store(v) /\ UNCHANGED <<pc, job>>
          /\ push' = [push EXCEPT ![o].at = "stamp", ![o].so = v.so, ![o].time = v.time]
      BY <3>0, <3>1, <3>2 DEF PushSend
    <3>5. push'[o].so = v.so /\ push'[o].time = n
      BY <3>3, <3>4 DEF TypeOK, PushRow
    <3>6. DOMAIN log' = DOMAIN log \cup {n} /\ log'[n] = v
      BY <3>2, <3>3, <3>4, StoreType
    <3>7. \A q \in Orders \ {o} : push'[q] = push[q] \/ push'[q].at # "stamp"
      BY <2>1
    <3> QED BY <1>2, <2>1, <3>3, <3>5, <3>6 DEF Stamping
  <2> QED BY <2>2, <2>3
<1>5. CASE Crash
  BY <1>3, <1>5 DEF Crash, NoPush
<1>6. CASE UNCHANGED push
  BY <1>3, <1>6
<1>7. ASSUME NEW h \in Handlers, UpdateOrder(h) PROVE Stamping'
  BY <1>6, <1>7, HandlerAlone
<1> QED
  BY <1>4, <1>5, <1>6, <1>7 DEF Next, Environment, vars, Deliver, ManagerEdits, ShopMoves

LEMMA SInit == Init => SInv
<1> SUFFICES ASSUME Init PROVE SInv
  OBVIOUS
<1>1. Stamping /\ \A h \in Handlers : Through(h)
  BY DEF Init, Stamping, Through, NoJob, NoPush
<1> QED BY <1>1, EInit DEF SInv

LEMMA SStep == SInv /\ [Next]_vars => SInv'
BY StampingStep, ThroughStep, EStep DEF SInv

-----------------------------------------------------------------------------
(* Each step is one of the contract or a stutter *)

LEMMA HandlerMaps ==
  ASSUME SInv, NEW h \in Handlers, UpdateOrder(h)
  PROVE  Contract!Next \/ UNCHANGED Seen
<1> USE DEF SInv, EInv, OInv, TInv
<1>0. PICK m, i, o : m = Hook(h) /\ i = Head(job[h].todo) /\ o = m.order
  OBVIOUS
<1>1. pc[h] # "idle" /\ UNCHANGED <<log, zohoId>>
  BY HandlerAlone
<1>2. /\ m = log[i] /\ i \in DOMAIN log /\ o \in Orders
      /\ pc[h] # "search" => Named(i) /\ job[h].snap \in Statuses
  BY <1>0, <1>1, HookType DEF Hook, HandlersMatch, Named, TypeOK, HandlersOK
<1>3. pc[h] # "search" => NewStatus(h) \in Statuses
  BY <1>2, StatusType
<1>4. Proceed(h) /\ pc[h] # "search" =>
        \E S \in SUBSET outbox : (\A k \in S : Named(k)) /\ outbox' = outbox \ S
  BY <1>0, <1>1, <1>2, ProceedThrough
<1>5. CASE Check(h)
  <2>1. UNCHANGED rowVars /\ pc[h] # "search" /\ (UNCHANGED outbox \/ Proceed(h))
    BY <1>5 DEF Check
  <2>2. CASE UNCHANGED outbox
    BY <1>1, <2>1, <2>2 DEF Seen, crmVars
  <2>3. CASE Proceed(h)
    <3>1. Contract!Answers
      BY <1>4, <2>1, <2>3 DEF Contract!Answers, Contract!Linked, Named
    <3> QED BY <1>1, <2>1, <3>1 DEF Contract!Answer, Contract!Next, rowVars
  <2> QED BY <2>1, <2>2, <2>3
<1>6. CASE SetStatus(h)
  <2>1. UNCHANGED <<items, stamp, outbox>> /\ status' = [status EXCEPT ![o] = NewStatus(h)]
        /\ pc[h] # "search"
    BY <1>0, <1>6 DEF SetStatus, Fail
  <2>2. Contract!Move(o)
    BY <1>1, <1>3, <2>1 DEF Contract!Move
  <2> QED BY <1>2, <2>2 DEF Contract!Next
<1>7. CASE Commit(h)
  <2>1. /\ UNCHANGED <<stamp, outbox>> /\ m.items \notin BadItems /\ pc[h] # "search"
        /\ items' = [items EXCEPT ![o] = m.items]
        /\ status' = [status EXCEPT ![o] = NewStatus(h)]
    BY <1>0, <1>7 DEF Commit, Fail
  <2>2. m.name \in DOMAIN StatusOf => NewStatus(h) = StatusOf[m.name]
    BY <1>0 DEF NewStatus
  <2>3. Contract!Linked(i)
    BY <1>2, <2>1 DEF Named, Contract!Linked
  <2>4. Contract!Show(o)
    BY <1>0, <1>1, <1>2, <1>3, <2>1, <2>2, <2>3 DEF Contract!Show
  <2> QED BY <1>2, <2>4 DEF Contract!Next
<1>8. CASE Stamp(h)
  <2>1. UNCHANGED <<items, status>> /\ Proceed(h) /\ pc[h] # "search"
    BY <1>8 DEF Stamp
  <2>2. Contract!Answers
    BY <1>4, <2>1 DEF Contract!Answers, Contract!Linked, Named
  <2>3. CASE stamp' = stamp
    BY <1>1, <2>1, <2>2, <2>3 DEF Contract!Answer, Contract!Next
  <2>4. CASE stamp' # stamp
    <3>1. m.time # NoTime /\ stamp' = [stamp EXCEPT ![o] = m.time]
      BY <1>0, <1>8, <2>4 DEF Stamp
    <3>2. zohoId[o] \in {NoId, log[i].so}
      BY <1>0, <1>2, <2>1 DEF Named
    <3>3. Contract!Mark(o)
      BY <1>0, <1>1, <1>2, <2>1, <2>2, <3>1, <3>2 DEF Contract!Mark
    <3> QED BY <1>2, <3>3 DEF Contract!Next
  <2> QED BY <2>3, <2>4
<1>9. CASE Search(h) \/ Load(h) \/ Begin(h) \/ SelectForUpdate(h) \/ Leak(h) \/ Aborts(h)
  BY <1>9 DEF Search, Load, Begin, SelectForUpdate, Leak, Aborts, Fail, Seen, crmVars
<1> QED BY <1>5, <1>6, <1>7, <1>8, <1>9 DEF UpdateOrder

LEMMA StoreMaps ==
  ASSUME TInv, NEW v \in Version, Store(v), UNCHANGED <<rowVars, pc, job>>,
         (v.so = Len(log) + 1 /\ v.own)
           \/ (\E i \in DOMAIN log : log[i].so = v.so /\ log[i].order = v.order)
  PROVE  Contract!Next
<1>0. PICK n : n = Len(log) + 1
  OBVIOUS
<1>1. n \notin DOMAIN log /\ v.order \in Orders
  BY <1>0, LogType DEF TInv, Version
<1>2. DOMAIN log' = DOMAIN log \cup {n} /\ log'[n] = v
  BY <1>0, StoreType DEF TInv
<1>3. log' = Append(log, log'[n]) /\ outbox' = outbox \cup {n} /\ n \in DOMAIN log' \ DOMAIN log
  BY <1>0, <1>1, <1>2 DEF Store
<1>4. Contract!Save
  BY <1>0, <1>1, <1>2, <1>3 DEF Contract!Save, rowVars
<1> QED BY <1>4 DEF Contract!Next

LEMMA PushMaps ==
  ASSUME SInv, NEW o \in Orders, PushStep(o) \/ RequestReads(o)
  PROVE  Contract!Next \/ UNCHANGED Seen
<1> USE DEF SInv, EInv, OInv, TInv
<1>1. CASE PollerReads(o) \/ RequestReads(o)
  BY <1>1 DEF PollerReads, RequestReads, PushRead, Seen
<1>2. CASE PushSend(o)
  <2>0. PICK v : v = Sent(o)
    OBVIOUS
  <2>1. UNCHANGED <<rowVars, pc, job>> /\ (Store(v) \/ UNCHANGED crmVars)
    BY <1>2, <2>0 DEF PushSend
  <2>2. /\ v \in Version /\ v.own /\ v.order = o
        /\ v.so = IF push[o].known = NoId THEN Len(log) + 1 ELSE push[o].known
    BY <2>0, SentType DEF Sent
  <2>3. push[o].known = zohoId[o] /\ zohoId[o] \in Known
    BY <1>2 DEF PushSend, PushesKnow, IdsOK
  <2>4. push[o].known # NoId => /\ push[o].known \in DOMAIN log
                                /\ log[push[o].known].so = push[o].known
                                /\ log[push[o].known].order = o
    BY <2>3 DEF Known, HistoryOK, Roots, IsRoot
  <2>5. CASE Store(v)
    BY <2>1, <2>2, <2>4, <2>5, StoreMaps
  <2> QED BY <2>1, <2>5 DEF Seen
<1>3. CASE PushStamp(o)
  <2>1. push[o].at = "stamp" /\ UNCHANGED <<items, status, zohoId, log, outbox>>
    BY <1>3 DEF PushStamp, crmVars
  <2>2. CASE stamp' = stamp
    BY <2>1, <2>2 DEF Seen, rowVars, crmVars
  <2>3. CASE stamp' # stamp
    <3>1. stamp' = [stamp EXCEPT ![o] = push[o].time]
      BY <1>3, <2>3 DEF PushStamp
    <3>2. PICK i \in DOMAIN log : /\ i = push[o].time /\ i # NoTime
                                  /\ log[i].time = i /\ log[i].order = o /\ log[i].so = push[o].so
      BY <2>1 DEF Stamping
    <3>3. zohoId[o] \in {NoId, log[i].so}
      BY <2>1, <3>2 DEF PushesKnow
    <3>4. Contract!Answers
      BY <2>1 DEF Contract!Answers
    <3>5. Contract!Mark(o)
      BY <2>1, <3>1, <3>2, <3>3, <3>4 DEF Contract!Mark
    <3> QED BY <3>5 DEF Contract!Next
  <2> QED BY <2>2, <2>3
<1>4. CASE PushLink(o)
  <2>1. push[o].at = "link" /\ UNCHANGED <<items, status, stamp, log, outbox>>
    BY <1>4 DEF PushLink, crmVars
  <2>2. CASE zohoId' = zohoId
    BY <2>1, <2>2 DEF Seen, rowVars, crmVars
  <2>3. CASE zohoId' # zohoId
    <3>1. push[o].so # push[o].known /\ zohoId' = [zohoId EXCEPT ![o] = push[o].so]
      BY <1>4, <2>3 DEF PushLink
    <3>2. push[o].known = NoId /\ zohoId[o] = NoId
      BY <2>1, <3>1 DEF PushesKnow
    <3>3. IsRoot(push[o].so, o) /\ push[o].so \in DOMAIN log
      BY <3>1, <3>2 DEF HistoryOK, Roots, IdsOK, Known
    <3>4. Contract!Bind(o)
      BY <2>1, <3>1, <3>2, <3>3 DEF Contract!Bind, IsRoot
    <3> QED BY <3>4 DEF Contract!Next
  <2> QED BY <2>2, <2>3
<1> QED BY <1>1, <1>2, <1>3, <1>4 DEF PushStep

LEMMA ShopStepMaps ==
  ASSUME SInv, [Next]_vars
  PROVE  Contract!Next \/ UNCHANGED Seen
<1> USE DEF SInv, EInv, OInv, TInv
<1>1. ASSUME NEW s \in SalesOrders, NEW i \in Items, NEW n \in Names, ManagerEdits(s, i, n)
      PROVE  Contract!Next
  <2>1. /\ s \in DOMAIN log /\ log[s].so = s
        /\ log[s] \in Version /\ log[Len(log)] \in Version
    BY LogType DEF SalesOrders, IdsOK, HistoryOK, Created, IsRoot
  <2>2. PICK t \in {Len(log) + 1, log[Len(log)].time, NoTime} :
          Store([order |-> log[s].order, so |-> s, items |-> i, name |-> n,
                 time |-> t, own |-> FALSE])
    BY <1>1 DEF ManagerEdits
  <2>3. t \in Nat /\ s \in Nat /\ log[s].order \in Orders
    BY <2>1, LogType DEF Version, NoTime
  <2>4. PICK v : v = [order |-> log[s].order, so |-> s, items |-> i, name |-> n,
                      time |-> t, own |-> FALSE]
    OBVIOUS
  <2>5. v \in Version /\ Store(v) /\ v.so = s /\ v.order = log[s].order
    BY <2>2, <2>3, <2>4 DEF Version
  <2> QED BY <1>1, <2>1, <2>5, StoreMaps DEF ManagerEdits
<1>2. ASSUME NEW o \in Orders, NEW s \in Statuses, ShopMoves(o, s) PROVE Contract!Next
  BY <1>2 DEF ShopMoves, crmVars, Contract!Move, Contract!Next
<1>3. CASE UNCHANGED vars \/ Crash \/ \E h \in Handlers, b \in Batches : Deliver(h, b)
  BY <1>3 DEF vars, Crash, Deliver, Seen
<1> QED BY <1>1, <1>2, <1>3, HandlerMaps, PushMaps DEF Next, Environment

(* The reverse direction as a whole, for any orders, handlers, batches and     *)
(* interleavings, with failures, lost stamps and answers, restarts, webhooks   *)
(* late or twice: an order is linked once, to a Sales Order created for it; it *)
(* takes contents and status of one version of that at once and none it cannot *)
(* show in full; its stamp is the time of such a version; and no webhook is    *)
(* answered as a success whose Sales Order the row does not name.              *)
THEOREM ShopImplementsContract == Spec => ImplementsContract
<1>1. Init => Contract!Init
  BY DEF Init, Contract!Init
<1>2. SInv /\ [Next]_vars => [Contract!Next]_(Contract!vars)
  BY ShopStepMaps DEF Seen, rowVars, crmVars, Contract!vars
<1> QED BY <1>1, <1>2, SInit, SStep, PTL DEF Spec, ImplementsContract, Contract!Spec
=============================================================================
