----------------------------- MODULE ReverseSync -----------------------------
(***************************************************************************)
(* The reverse direction of the connector: what managers change on a Sales *)
(* Order comes back as webhooks and is applied to the OpenCart order.  The *)
(* goroutines that serve POST /zoho/webhook/order (Handlers) run beside    *)
(* the pushes that create and update Sales Orders; all of them share the   *)
(* order row, and a step ends wherever a statement or a remote call is     *)
(* sent.                                                                   *)
(*                                                                         *)
(* log lists the versions of the Sales Orders in Zoho, and a webhook is    *)
(* the position of the version it carries.  The caller sends a webhook     *)
(* until it is answered without an error, in any order.                    *)
(***************************************************************************)
EXTENDS Integers, Sequences, FiniteSets, Functions

CONSTANTS
  Orders,       \* oc_order.order_id values
  Handlers,     \* goroutines serving webhook requests
  Statuses,     \* oc_order_status ids
  Names,        \* status names a Sales Order can carry
  StatusOf,     \* the names Core.statuses knows, and their ids
  OwnName,      \* the name every push writes ("Нове")
  Items,        \* contents of an order: its products and quantities
  BadItems,     \* contents with a product the shop does not have
  FirstItems,   \* what the orders were placed with
  MaxBatch,     \* webhooks sent in one request
  MaxConns,     \* connections in the pool (SetMaxOpenConns)
  MaxLog,       \* versions Zoho keeps in all (bounds the model)
  Budget,       \* Budget[k]: how often the environment does k (bounds the model)
  MaxTotal      \* how often it does anything at all (bounds the model)

NoId   == 0             \* no zoho_id
NoTime == 0             \* NULL, or a Modified_Time that cannot be read
Free   == "free"        \* nobody holds the row lock
Orphan == "orphan"      \* a transaction nobody will end holds it

Disturbances == {"fault", "insert", "stamp", "crash", "push", "move", "again", "second", "undated"}

ASSUME ReverseAssumption ==
  /\ BadItems \subseteq Items /\ FirstItems \in Items \ BadItems
  /\ OwnName \in Names
  /\ DOMAIN StatusOf \subseteq Names /\ \A n \in DOMAIN StatusOf : StatusOf[n] \in Statuses
  /\ Free \notin Handlers /\ Orphan \notin Handlers
  /\ MaxBatch \in Nat \ {0} /\ MaxConns \in Nat \ {0} /\ MaxLog \in Nat
  /\ Budget \in [Disturbances -> Nat] /\ MaxTotal \in Nat

VARIABLES
  items,        \* the order_product rows
  status,       \* oc_order.order_status_id
  stamp,        \* oc_order.zoho_modified_time
  zohoId,       \* oc_order.zoho_id: the version that created the Sales Order
  lock,         \* who holds the lock on the oc_order row
  leaked,       \* connections kept by transactions nobody will end
  log,          \* versions: [order, so, items, name, time, own]
  outbox,       \* webhooks not yet answered without an error
  pc, job,      \* each handler: where it is, its batch and what it has read
  push,         \* each order: where a push of it is, and what it carries
  used          \* disturbances so far

rowVars == <<items, status, stamp, zohoId>>
sqlVars == <<lock, leaked>>
crmVars == <<log, outbox>>
vars    == <<rowVars, sqlVars, crmVars, pc, job, push, used>>

-----------------------------------------------------------------------------
(* Shared vocabulary *)

NoJob  == [todo |-> <<>>, sent |-> {}, snap |-> 0, same |-> FALSE]
NoPush == [at |-> "idle", known |-> NoId, items |-> FirstItems, so |-> NoId, time |-> NoTime]

(* The webhook a handler is at. *)
Hook(h) == log[Head(job[h].todo)]

(* The known status name decides; otherwise the status read before is kept.   *)
NewStatus(h) == LET n == Hook(h).name IN
  IF n \in DOMAIN StatusOf THEN StatusOf[n] ELSE job[h].snap

InTransaction == {"lock", "tx"}
FreeConn == leaked + Cardinality({h \in Handlers : pc[h] \in InTransaction}) < MaxConns

(* A statement that writes the order row. *)
CanWrite(o) == FreeConn /\ lock[o] = Free
TimesOut(o) == FreeConn /\ lock[o] = Orphan

Spent == FoldFunction(+, 0, used)
Spend(k) == /\ used[k] < Budget[k] /\ Spent < MaxTotal
            /\ used' = [used EXCEPT ![k] = @ + 1]

Goto(h, l) == pc' = [pc EXCEPT ![h] = l]
Leave(h)   == Goto(h, "idle") /\ job' = [job EXCEPT ![h] = NoJob]

(* Mutant: the request is answered as if it had succeeded. *)
FailSilently(h) == Leave(h) /\ outbox' = outbox \ job[h].sent

(* UpdateOrder returned an error: the request is answered with it at once.    *)
Fail(h) == Leave(h) /\ UNCHANGED outbox

(* UpdateOrder returned nil: the next webhook of the request, or the answer.  *)
Proceed(h) ==
  IF Len(job[h].todo) > 1
    THEN /\ job' = [job EXCEPT ![h] = [NoJob EXCEPT !.todo = Tail(job[h].todo),
                                                    !.sent = job[h].sent]]
         /\ Goto(h, "search") /\ UNCHANGED outbox
    ELSE Leave(h) /\ outbox' = outbox \ job[h].sent

(* Zoho stores a version and queues its webhook. *)
Store(v) == log' = Append(log, v) /\ outbox' = outbox \cup {Len(log) + 1}

-----------------------------------------------------------------------------
Init ==
  /\ items = [o \in Orders |-> FirstItems]
  /\ status \in [Orders -> Statuses]
  /\ stamp = [o \in Orders |-> NoTime]
  /\ zohoId = [o \in Orders |-> NoId]
  /\ lock = [o \in Orders |-> Free] /\ leaked = 0
  /\ log = <<>> /\ outbox = {}
  /\ pc = [h \in Handlers |-> "idle"] /\ job = [h \in Handlers |-> NoJob]
  /\ push = [o \in Orders |-> NoPush]
  /\ used = [k \in Disturbances |-> 0]

-----------------------------------------------------------------------------
(* POST /zoho/webhook/order *)

Batches == {b \in UNION {[1..n -> DOMAIN log] : n \in 1..MaxBatch} :
              \A i, k \in DOMAIN b : b[i] = b[k] => i = k}

(* A request with unanswered webhooks, or with some that are sent once more. *)
Deliver(h, b) ==
  /\ pc[h] = "idle"
  /\ \/ (\A i \in DOMAIN b : b[i] \in outbox) /\ UNCHANGED used
     \/ (\E i \in DOMAIN b : b[i] \notin outbox) /\ Spend("again")
  /\ job' = [job EXCEPT ![h] = [NoJob EXCEPT !.todo = b, !.sent = {b[i] : i \in DOMAIN b}]]
  /\ Goto(h, "search")
  /\ UNCHANGED <<rowVars, sqlVars, crmVars, push>>

(* Mutant: the row is found by its order id, whichever Sales Order it names. *)
SearchByOrder(h) ==
  LET o == Hook(h).order IN
  /\ pc[h] = "search" /\ FreeConn
  /\ zohoId[o] # NoId
  /\ job' = [job EXCEPT ![h].snap = status[o]]
  /\ Goto(h, "load")
  /\ UNCHANGED <<rowVars, sqlVars, crmVars, push, used>>

(* OrderSearchByZohoId, the last of its five attempts: the order row ...      *)
Search(h) ==
  LET o == Hook(h).order IN
  /\ pc[h] = "search" /\ FreeConn
  /\ IF zohoId[o] = Hook(h).so
       THEN /\ job' = [job EXCEPT ![h].snap = status[o]]
            /\ Goto(h, "load") /\ UNCHANGED outbox
       ELSE Fail(h)
  /\ UNCHANGED <<rowVars, sqlVars, log, push, used>>

(* ... and, in a query of its own, the products (itemsUnchanged).             *)
Load(h) ==
  /\ pc[h] = "load" /\ FreeConn
  /\ job' = [job EXCEPT ![h].same = (items[Hook(h).order] = Hook(h).items)]
  /\ Goto(h, "check")
  /\ UNCHANGED <<rowVars, sqlVars, crmVars, push, used>>

(* Mutant: an equal time is let through. *)
IsOlder(h) == LET m == Hook(h) IN
  m.time # NoTime /\ stamp[m.order] # NoTime /\ m.time < stamp[m.order]

(* Echo suppression, then the choice between status only and a full rewrite.  *)
IsEcho(h) ==
  LET m == Hook(h) IN
  m.time # NoTime /\ stamp[m.order] # NoTime /\ m.time <= stamp[m.order]

(* Mutant: the time is stored before what it stands for is written. *)
CheckAndStamp(h) ==
  LET m == Hook(h) IN
  /\ pc[h] = "check" /\ CanWrite(m.order)
  /\ \/ IsEcho(h) /\ Proceed(h) /\ UNCHANGED stamp
     \/ /\ ~IsEcho(h)
        /\ stamp' = [stamp EXCEPT ![m.order] = m.time]
        /\ Goto(h, IF ~job[h].same THEN "begin"
                   ELSE IF NewStatus(h) # job[h].snap THEN "status" ELSE "stamp")
        /\ UNCHANGED <<job, outbox>>
  /\ UNCHANGED <<items, status, zohoId, sqlVars, log, push, used>>

Check(h) ==
  /\ pc[h] = "check" /\ FreeConn
  /\ \/ IsEcho(h) /\ Proceed(h)
     \/ /\ ~IsEcho(h)
        /\ Goto(h, IF ~job[h].same THEN "begin"
                   ELSE IF NewStatus(h) # job[h].snap THEN "status" ELSE "stamp")
        /\ UNCHANGED <<job, outbox>>
  /\ UNCHANGED <<rowVars, sqlVars, log, push, used>>

(* ChangeOrderStatus: the row, then the history record, which may fail.       *)
SetStatus(h) ==
  LET o == Hook(h).order IN
  /\ pc[h] = "status" /\ CanWrite(o)
  /\ status' = [status EXCEPT ![o] = NewStatus(h)]
  /\ \/ Goto(h, "stamp") /\ UNCHANGED <<job, outbox, used>>
     \/ Spend("fault") /\ Fail(h)
  /\ UNCHANGED <<items, stamp, zohoId, sqlVars, log, push>>

(* UpdateOrderWithTransaction: a connection of its own, the row lock, the end *)
Begin(h) ==
  /\ pc[h] = "begin" /\ FreeConn
  /\ Goto(h, "lock")
  /\ UNCHANGED <<rowVars, sqlVars, crmVars, job, push, used>>

(* Mutant: SELECT without FOR UPDATE. *)
SelectOnly(h) ==
  /\ pc[h] = "lock"
  /\ Goto(h, "tx")
  /\ UNCHANGED <<rowVars, sqlVars, crmVars, job, push, used>>

SelectForUpdate(h) ==
  LET o == Hook(h).order IN
  /\ pc[h] = "lock" /\ lock[o] = Free
  /\ lock' = [lock EXCEPT ![o] = h]
  /\ Goto(h, "tx")
  /\ UNCHANGED <<rowVars, leaked, crmVars, job, push, used>>

(* The answer to the COMMIT may be lost. *)
Commit(h) ==
  LET o == Hook(h).order IN
  /\ pc[h] = "tx" /\ Hook(h).items \notin BadItems
  /\ items' = [items EXCEPT ![o] = Hook(h).items]
  /\ status' = [status EXCEPT ![o] = NewStatus(h)]
  /\ lock' = [lock EXCEPT ![o] = Free]
  /\ \/ Goto(h, "stamp") /\ UNCHANGED <<job, outbox, used>>
     \/ Spend("fault") /\ Fail(h)
  /\ UNCHANGED <<stamp, zohoId, leaked, log, push>>

(* An INSERT fails, or finds no such product.  The error is declared anew in  *)
(* the loop, so the deferred Rollback, which looks at the outer err, is not   *)
(* called: the transaction stays open on its connection.                      *)
Leak(h) ==
  LET o == Hook(h).order IN
  /\ pc[h] = "tx"
  /\ \/ Hook(h).items \in BadItems /\ UNCHANGED used
     \/ Hook(h).items \notin BadItems /\ Spend("insert")
  /\ lock' = [lock EXCEPT ![o] = Orphan] /\ leaked' = leaked + 1
  /\ Fail(h)
  /\ UNCHANGED <<rowVars, log, push>>

(* SetOrderZohoModifiedTime: blind, and its failure is only logged.           *)
Stamp(h) ==
  LET m == Hook(h) IN
  /\ pc[h] = "stamp"
  /\ \/ m.time = NoTime /\ UNCHANGED <<stamp, used>>
     \/ /\ m.time # NoTime /\ CanWrite(m.order)
        /\ stamp' = [stamp EXCEPT ![m.order] = m.time] /\ UNCHANGED used
     \/ m.time # NoTime /\ TimesOut(m.order) /\ UNCHANGED <<stamp, used>>
     \/ m.time # NoTime /\ Spend("stamp") /\ UNCHANGED stamp
  /\ Proceed(h)
  /\ UNCHANGED <<items, status, zohoId, sqlVars, log, push>>

(* Mutant: no lock wait timeout. *)
AbortsWithoutTimeout(h) ==
  /\ pc[h] \in {"search", "load", "check", "status", "begin", "lock", "tx"} /\ Spend("fault")
  /\ lock' = [o \in Orders |-> IF lock[o] = h THEN Free ELSE lock[o]]
  /\ Fail(h)
  /\ UNCHANGED <<rowVars, leaked, log, push>>

(* Any other statement fails, or waits for a row lock for too long; where a   *)
(* transaction is open it is rolled back.                                     *)
Aborts(h) ==
  /\ \/ pc[h] \in {"search", "load", "check", "status", "begin", "lock", "tx"} /\ Spend("fault")
     \/ pc[h] = "status" /\ TimesOut(Hook(h).order) /\ UNCHANGED used
     \/ pc[h] = "lock" /\ lock[Hook(h).order] = Orphan /\ UNCHANGED used
  /\ lock' = [o \in Orders |-> IF lock[o] = h THEN Free ELSE lock[o]]
  /\ Fail(h)
  /\ UNCHANGED <<rowVars, leaked, log, push>>

-----------------------------------------------------------------------------
(* Pushes: the order worker creates, GET /zoho/push/order/{id} updates too    *)

PushRead(o) ==
  /\ push[o].at = "idle" /\ FreeConn
  /\ push' = [push EXCEPT ![o] = [NoPush EXCEPT !.at = "send", !.known = zohoId[o],
                                                !.items = items[o]]]
  /\ UNCHANGED <<rowVars, sqlVars, crmVars, pc, job>>

PollerReads(o) == zohoId[o] = NoId /\ PushRead(o) /\ UNCHANGED used
RequestReads(o) == zohoId[o] # NoId /\ Spend("push") /\ PushRead(o)

Sent(o) ==
  LET p == push[o] IN
  [order |-> o, so |-> IF p.known = NoId THEN Len(log) + 1 ELSE p.known,
   items |-> p.items, name |-> OwnName, time |-> Len(log) + 1, own |-> TRUE]

(* CreateOrder or UpdateOrder of the Zoho service; the answer may be lost.    *)
PushSend(o) ==
  /\ push[o].at = "send" /\ Len(log) < MaxLog
  /\ \/ /\ Store(Sent(o)) /\ UNCHANGED used
        /\ push' = [push EXCEPT ![o].at = "stamp", ![o].so = Sent(o).so,
                                ![o].time = Sent(o).time]
     \/ /\ Spend("fault") /\ (Store(Sent(o)) \/ UNCHANGED crmVars)
        /\ push' = [push EXCEPT ![o] = NoPush]
  /\ UNCHANGED <<rowVars, sqlVars, pc, job>>

PushStamp(o) ==
  /\ push[o].at = "stamp"
  /\ \/ CanWrite(o) /\ stamp' = [stamp EXCEPT ![o] = push[o].time] /\ UNCHANGED used
     \/ TimesOut(o) /\ UNCHANGED <<stamp, used>>
     \/ Spend("stamp") /\ UNCHANGED stamp
  /\ push' = [push EXCEPT ![o].at = "link"]
  /\ UNCHANGED <<items, status, zohoId, sqlVars, crmVars, pc, job>>

(* ChangeOrderZohoId, after a create. *)
PushLink(o) ==
  LET p == push[o] IN
  /\ p.at = "link"
  /\ \/ p.so # p.known /\ CanWrite(o) /\ zohoId' = [zohoId EXCEPT ![o] = p.so] /\ UNCHANGED used
     \/ p.so # p.known /\ Spend("fault") /\ UNCHANGED zohoId
     \/ p.so = p.known /\ UNCHANGED <<zohoId, used>>
  /\ push' = [push EXCEPT ![o] = NoPush]
  /\ UNCHANGED <<items, status, stamp, sqlVars, crmVars, pc, job>>

-----------------------------------------------------------------------------
(* The environment: managers, the shop, the process *)

SalesOrders == {log[i].so : i \in DOMAIN log}

(* A manager saves the Sales Order; Modified_Time counts whole seconds.       *)
ManagerEdits(s, i, n) ==
  /\ Len(log) < MaxLog
  /\ \E t \in {Len(log) + 1, log[Len(log)].time, NoTime} :
       /\ \/ t = Len(log) + 1 /\ UNCHANGED used
          \/ t = NoTime /\ Spend("undated")
          \/ t \notin {Len(log) + 1, NoTime} /\ Spend("second")
       /\ Store([order |-> log[s].order, so |-> s, items |-> i, name |-> n,
                 time |-> t, own |-> FALSE])
  /\ UNCHANGED <<rowVars, sqlVars, pc, job, push>>

ShopMoves(o, s) ==
  /\ lock[o] = Free /\ s # status[o] /\ Spend("move")
  /\ status' = [status EXCEPT ![o] = s]
  /\ UNCHANGED <<items, stamp, zohoId, sqlVars, crmVars, pc, job, push>>

(* The process dies and is started again; MySQL rolls back what it left open. *)
Crash ==
  /\ Spend("crash")
  /\ lock' = [o \in Orders |-> Free] /\ leaked' = 0
  /\ pc' = [h \in Handlers |-> "idle"] /\ job' = [h \in Handlers |-> NoJob]
  /\ push' = [o \in Orders |-> NoPush]
  /\ UNCHANGED <<rowVars, crmVars>>

-----------------------------------------------------------------------------
UpdateOrder(h) ==
  \/ Search(h) \/ Load(h) \/ Check(h) \/ SetStatus(h)
  \/ Begin(h) \/ SelectForUpdate(h) \/ Commit(h) \/ Leak(h)
  \/ Stamp(h) \/ Aborts(h)

PushStep(o) == PollerReads(o) \/ PushSend(o) \/ PushStamp(o) \/ PushLink(o)

Environment ==
  \/ \E s \in SalesOrders, i \in Items, n \in Names : ManagerEdits(s, i, n)
  \/ \E o \in Orders, s \in Statuses : ShopMoves(o, s)
  \/ \E o \in Orders : RequestReads(o)
  \/ Crash

Next ==
  \/ \E h \in Handlers : UpdateOrder(h) \/ \E b \in Batches : Deliver(h, b)
  \/ \E o \in Orders : PushStep(o)
  \/ Environment

Spec == Init /\ [][Next]_vars

(* Goroutines run; one that waits for a connection or for a row lock gets it  *)
(* some time, however often others get it first (the pool and InnoDB serve    *)
(* their waiters).                                                            *)
ServedSpec == Spec /\ \A h \in Handlers : SF_vars(UpdateOrder(h))

(* Pushes run likewise, and the caller repeats a webhook that was refused, as *)
(* the handler expects it to.                                                 *)
FairSpec ==
  /\ ServedSpec
  /\ \A o \in Orders : SF_vars(PushStep(o))
  /\ \A i \in 1..MaxLog : SF_vars(i \in outbox /\ \E h \in Handlers : Deliver(h, <<i>>))

-----------------------------------------------------------------------------
(* Types *)

Version == [order : Orders, so : Nat, items : Items, name : Names, time : Nat, own : BOOLEAN]
JobRow  == [todo : Seq(DOMAIN log), sent : SUBSET DOMAIN log,
            snap : Statuses \cup {0}, same : BOOLEAN]
PushRow == [at : {"idle", "send", "stamp", "link"}, known : Nat, items : Items,
            so : Nat, time : Nat]
Labels  == {"idle", "search", "load", "check", "status", "begin", "lock", "tx", "stamp"}

HandlersOK ==
  /\ pc \in [Handlers -> Labels]
  /\ job \in [Handlers -> JobRow]
  /\ \A h \in Handlers : /\ pc[h] # "idle" => job[h].todo # <<>>
                         /\ pc[h] \notin {"idle", "search"} => job[h].snap \in Statuses

(* Every column, version and local variable holds a value of its type, and a  *)
(* handler that is not idle has a webhook in hand.                            *)
TypeOK ==
  /\ items \in [Orders -> Items] /\ status \in [Orders -> Statuses]
  /\ stamp \in [Orders -> Nat] /\ zohoId \in [Orders -> Nat]
  /\ lock \in [Orders -> Handlers \cup {Free, Orphan}] /\ leaked \in Nat
  /\ log \in Seq(Version) /\ outbox \subseteq DOMAIN log
  /\ HandlersOK
  /\ push \in [Orders -> PushRow]
  /\ used \in [Disturbances -> Nat]

-----------------------------------------------------------------------------
(* Safety *)

WorksOn(h, o) == pc[h] # "idle" /\ \E i \in job[h].sent : log[i].order = o

(* The newest version of the Sales Order the row names. *)
Versions(o) == {i \in DOMAIN log : log[i].so = zohoId[o]}
Newest(o)   == log[CHOOSE i \in Versions(o) : \A k \in Versions(o) : k <= i]

(* The shop shows what a manager last saved: items always, the status if the  *)
(* name is known and the shop has not moved it itself.                        *)
Reflected(o) ==
  zohoId[o] # NoId /\ ~Newest(o).own =>
    /\ items[o] = Newest(o).items
    /\ Newest(o).name \in DOMAIN StatusOf /\ used["move"] = 0
         => status[o] = StatusOf[Newest(o).name]

Settled(o) ==
  /\ \A i \in outbox : log[i].so # zohoId[o]
  /\ \A h \in Handlers : ~WorksOn(h, o)
  /\ push[o].at = "idle"

(* Once every webhook of an order has been answered, in whatever order they   *)
(* came, failed and were repeated, the shop shows the newest version.         *)
CaughtUp == \A o \in Orders : Settled(o) => Reflected(o)

(* No two handlers are at work on webhooks of one order, from the query that   *)
(* reads its row to the answer.                                               *)
Apart ==
  \A g, h \in Handlers :
    g # h /\ {pc[g], pc[h]} \cap {"idle", "search"} = {} => Hook(g).order # Hook(h).order

(* No stamp has failed and no update been pushed ... *)
Quiet == used["stamp"] = 0 /\ used["push"] = 0

(* ... versions carry times of their own, and no transaction is abandoned. *)
Exact ==
  /\ Quiet
  /\ used["second"] = 0 /\ used["undated"] = 0 /\ used["insert"] = 0
  /\ \A i \in DOMAIN log : log[i].items \notin BadItems

(* Any number of handlers catch up as one does, as long as they stay apart:    *)
(* what one of them has read of an order and its stamp is still so when it     *)
(* writes, whatever the others do to other orders, and however requests fail,  *)
(* are cut short by a restart, come late and again.                           *)
CaughtUpApart == []Apart => [](Exact => CaughtUp)

(* A write of the connector's own is never applied to the shop when it comes  *)
(* back as a webhook: it would undo the status the shop has reached since.    *)
EchoNeverApplied ==
  \A h \in Handlers : pc[h] \in {"status", "begin", "lock", "tx"} => ~Hook(h).own

(* What the shop shows comes from the Sales Order the row names, and never    *)
(* from one whose id was lost.                                                *)
OwnVersionsOnly ==
  \A o \in Orders : \/ items[o] = FirstItems
                    \/ \E i \in Versions(o) : items[o] = log[i].items

(* The row lock belongs to the transaction that is rewriting that order, and  *)
(* a handler that is done, failed or restarted holds none.                    *)
LockIsHeldInTransaction ==
  \A o \in Orders, h \in Handlers :
    lock[o] = h <=> pc[h] = "tx" /\ Hook(h).order = o

(* An abandoned transaction keeps its row locked, so the next one cannot get  *)
(* far enough to be abandoned: an order costs the pool one connection at most.*)
LeakOncePerOrder == leaked = Cardinality({o \in Orders : lock[o] = Orphan})

(* What UpdateOrderWithTransaction promises: a transaction that does not      *)
(* succeed is rolled back, so no lock outlives the request that took it.      *)
NoAbandonedLock == \A o \in Orders : lock[o] # Orphan

-----------------------------------------------------------------------------
(* Liveness *)

(* Every request is answered. *)
Answered == \A h \in Handlers : pc[h] # "idle" ~> pc[h] = "idle"

(* When the managers are done the shop comes to show their last version, and  *)
(* keeps it, although requests fail, race with a create and are repeated.     *)
EventuallyReflected == \A o \in Orders : <>[]Reflected(o)

-----------------------------------------------------------------------------
(* The abstract specification *)

Contract == INSTANCE ShopContract WITH
  Unknown  <- BadItems, Placed <- FirstItems,
  versions <- log, due <- outbox, link <- zohoId, content <- items

(* Every step of handlers, pushes, managers and the process keeps what the     *)
(* reverse direction promises: a row names one Sales Order created for it, and *)
(* shows contents and status of one version of that at a time; a webhook whose *)
(* Sales Order the row does not name is refused, so that it comes again.       *)
ImplementsContract == Contract!Spec

=============================================================================
