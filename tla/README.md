# Verification of zoho-client

TLA+ models of the service that keeps an OpenCart shop and Zoho CRM in step,
TLC configurations that check them on small instances, and proofs checked by
TLAPS. Source paths are relative to the repository; `orders.go` is
`src/impl/core/orders.go`, `api-order.go` is `src/impl/core/api-order.go`,
`sql-client.go` and `statements.go` are in `src/internal/database/sql/`,
`zoho-service.go` is in `src/internal/services/`.

## 1. The system

Three kinds of goroutine share one MySQL database (OpenCart's own, with a few
columns added by `NewSQLClient`), one Zoho account and one MongoDB:

| part | code | state it keeps | operations |
|---|---|---|---|
| order worker (ticker) | `core.go` `Start`, `orders.go` `ProcessOrders` | `oc_order.zoho_id`, `zoho_modified_time`, `product.zoho_id`; Sales Orders in Zoho | fetch per status, mark wholesale orders, `processOrder`, store the id |
| payments (same ticker) | `orders.go` `createZohoPayment`, `ProcessPendingPayments`, `ProcessPaymentUpdates` | `zoho_payment_id`, `zoho_payment_status`; Payments in Zoho | create, mark as rejected, advance the status |
| push handlers (HTTP) | `orders.go` `PushOrderToZoho` | the same columns | read, `processOrder` as create or update, write back |
| order webhook (HTTP) | `handlers/order/update.go`, `api-order.go` `UpdateOrder` | `order_product`, `order_total`, `order_status_id`, `zoho_modified_time`; a pool of 50 connections | echo suppression, recomputation, one transaction, stamp |
| totals of a webhook | `api-order.go` `computeReverseTotals`, `entity/checkout-params.go` `VatRate` | the rows the last webhook left | rebuild rows from the subform |
| customer worker (ticker) | `customers.go` `ProcessCustomers` | `oc_customer.zoho_id`; Contacts in Zoho | fetch 100, upsert, store id or `[ERR]` |
| order versions | `database/mongo/mongo.go` | one document per order | append a version, delete old documents |
| B2B webhook | `b2b-webhook.go` | Deals and Goods in Zoho | resolve, contact, create |
| token cache | `zoho-service.go` `RefreshToken`, `doRequest` | token, expiry, API domain | refresh when expired, before every call |
| figures of an order | `orders.go` `buildZohoOrder`, `buildOrderedItem` | - | discount, list prices, carriage, VAT |
| backfill (own process) | `backfill.go` | subform rows in Zoho, the stamp | compare, rewrite rows, stamp |
| start and stop | `cmd/zoho/main.go`, `statements.go` | goroutines, `stopCh`, prepared statements and their mutex | drain, stop the loops, close statements and database |
| SmartSender | `smartsender.go` | - | dead code: never started (`core.go:288`) |

They interact by the rows they share. There is no lock between a row being read
and the outcome of a Zoho call being stored, and a Zoho call that times out may
have taken effect. Zoho answers every change of a Sales Order with a webhook, the
service's own changes included. Other actors write too: the shop moves
`order_status_id`, wfsync writes `wf_payment_status`, managers edit and delete in
Zoho.

What is hard here: read-then-call-then-store sequences that interleave and crash;
at-least-once webhooks, late and overlapping; queries with a LIMIT whose rows may
never leave; a transaction whose rollback depends on a variable that is
shadowed; rows each webhook recomputes from what the previous one left; amounts rounded on
both sides that have to come back as they went; a token that is written by every goroutine without a lock; a mutex held
while a connection is waited for.
`PROJECT.json` lists the hazards line by line.

## 2. Modules

Each component is a module; an `MC...` module instantiates it for TLC, and a `..._proofs`
module holds its theorems. They build on one another like this:

```
OrderContract  <-- implemented by --  OrderSync
ShopContract   <-- implemented by --  ReverseSync
ReverseTotals  <-- EXTENDS -- ForwardTotals <-- EXTENDS -- Backfill
CustomerSync   OrderVersions   B2BDeals   TokenCache   Lifecycle
```

Operators named in a "Mutant:" comment are faulty variants of the definition below them. They are
used by no specification: each stands for a plausible bug that the property it is paired
with detects.

### OrderSync - worker, pushes, payments

State: the columns (`status`, `zohoId`, `age` of `date_modified`, `modTime`, `wf`, `payId`, `payStatus`), the
products with a known Zoho id, the records Zoho holds (`crm`, `pays`; an id is the position of
the record), and per process `pc` and `job` - the local variables of `processOrder`. One
process is the ticker goroutine, the others are push handlers. Each call of the code
is a step: `ScanStatus` (one query per status), `MarkB2B`, `NextOrder`, `Contact`,
`ResolveProducts`, `SendOrder`/`SendFails`/`SendNothing`, `PayCreate`, `PayRecord`, `PayMark`, `Stamp`, `Link`,
then `PendingScan`, `PendingNext`, `UpdateScan`, `UpdateNext`, `PushStatus`, `StoreStatus`. Environment:
`ShopMoves`, `DaysPass`, `WfReports`, `CatalogAdds`, `ManagerDeletes`, `Crash`, `PushBegin`. `age` has three values, since the queries ask for two limits:
the worklist for 30 days (`statements.go:90`), the payment updates for 60 (`statements.go:382`); `Refresh` is what `stmtUpdateOrderStatus` and
`stmtUpdateOrderZohoId` do to it, and the shop when it writes a row. A failing call either
had no effect or had it and lost the answer. `used` counts what the environment has done;
`Excuses`, the part of it that may cost a duplicate, is what `DuplicatesAccounted` compares with.

### OrderContract - what the order sync promises

The abstract specification: Sales Orders and Payments in Zoho and the two id columns, with
no goroutines, queries, retries or crashes. A Sales Order is made for one order (`Sell`), never for a
wholesale one; a row comes to name only records made for it (`Bind`, `Book`) and
never becomes empty again, except that a wholesale row may lose its mark (`Mark`); a payment is made for
a Sales Order of its order (`Pay`). `OrderSync` implements it under the mapping of its last section: `sales` are the
writes of `crm` that created a record.

### ReverseSync - the order webhook

State: the row of the order (items, status, stamp), the versions of every Sales Order in
Zoho, webhooks not yet answered, per handler its batch and locals, the row locks with their owner (a
handler, or `Orphan` for a transaction nobody will end), pushes under way. A handler
goes through search, load, check (echo suppression, status, unchanged items), begin,
select for update, commit or leak or abort, stamp, next update of the batch. A webhook that is
answered with an error is delivered again. `FreeConn` counts the
connections of the pool; a handler that needs one and finds none waits, as `database/sql` does.
An order has one push at a time here: pushes that overlap are the subject of `OrderSync`.

### ShopContract - what the order webhook promises

The abstract specification of the way back: versions of Sales Orders, the ones whose webhook is due, and of each row the Sales
Order it names, its contents, status and stamp; no handlers, batches, locks, transactions, restarts. A row is
linked once, to a Sales Order created for it (`Bind`). It takes contents and status of one version of that Sales Order at
once, never of one with a product the shop does not have (`Show`); the status alone may change at any time (`Move`),
since the shop moves it and a webhook of an unchanged subform sets nothing else. The stamp is the time of a version of the Sales Order the row names or is
about to name (`Mark`). A webhook leaves `due` only if its Sales Order is the one the row of its order names (`Answers`).
`ReverseSync` implements it (`ImplementsContract`).

### ReverseTotals, ForwardTotals, Backfill - the money, there and back

`ReverseTotals` is one order under successive webhooks. Amounts are integers: cents, and unit
prices in 1/100 cent ("mils": OpenCart keeps 4 decimals). `Totals`, `SplitReductions`, `PaidUnits`, `VatRates`
and `ItemsUnchanged` are the functions of the code; the loop over the subform lines
is the action `AddLine`, so that no recursion is needed; `Commit` writes only
the `order_total` rows that exist (`Present`). Which webhook arrives is a parameter of `Receive`: the
theorems hold for any set `Payloads`. The rows of the order have keys of their own, so that a product may have several, at different prices; a
webhook makes one row of them, at the price of one (`PaidUnits`) and with the quantity of all.

`ForwardTotals` adds the other direction, as operators: `OrderDiscount` (the share of the sub
total that was not charged), `OrderedItem` (one discount of 2 decimals per line, and the list price that makes up for
the rest), `AllItems` with the carriage as a product, `FirstChunk`, `VatPercent`; and what Zoho makes of
it: `RowTotal`, `GrandTotal`, and the `Payload` that comes back after `mergeItemsByZohoID`.

`Backfill` closes the circle: one order, its Sales Order row by row, the outbox of webhooks in any order,
managers who edit rows, pushes, and the one-off command as a second process: `LoadSynced`,
`BackfillGet` (compare), `BackfillPut` (rewrite rows by id), `BackfillStamp`. Anything may happen between these. The order may
have been sent with the discount computed as before the fix (`SentBefore`), which is what the command is for.
Its `Payloads` is empty, since every webhook comes from the Sales Order.

### CustomerSync - contacts

The worker (fetch, upsert, store) and, beside it, the contacts
`processOrder` upserts for orders. `Upsert` is what Zoho does with
`duplicate_check_fields`: create, update the one match, or name one of several.

### OrderVersions - the history

Savers that search, then insert or push, and a cleanup that deletes between the two.

### B2BDeals - the wholesale webhook

Handlers that resolve the products of an order one by one (`ResolveItem`: the shop's row, else the product
repository), resolve the contact, create the Deal and send its Goods chunk by chunk. Nothing records which orders were handled,
and a handler that fails leaves what it made. `AddChunk` answers per record, and the code reads the first answer only.

### TokenCache - the OAuth token

Every call of Zoho reads and refreshes `refreshToken`, `tokenExpiry` and `crmUrl` without a lock. A Go string is two words, stored one
after the other, in either order (`StoreToken`/`FinishToken`, `StoreUrl`/`FinishUrl`): a data race whose outcomes are exactly
the mixtures a reader can see. A string with a length and no bytes is a panic. Time is a `Tick` of 30 s,
the HTTP timeout and the pause between attempts; the bytes of a token are
represented by the ticks Zoho will still accept it. The three attempts are made by each caller for itself.

### Lifecycle - pool, statements, shutdown

Requests and polling loops run statements through `prepareStmt` (mutex, then a connection if the
statement is new) and the pool. `OrderSearchId` and `OrderSearchByZohoId` keep a connection while the next statement wants one
(`RowsOpen`); `Abandon` loses one for good. `main` drains the server for 30 s at most, closes the stop
channel, closes the statements under the mutex, closes the database, ends.

## 3. Runs

| run | question | instance |
|---|---|---|
| `OrderSync_restart` | are stored ids never replaced, are payments linked to the sale the row names, does every paid order get its payment and does it follow wfsync | 3 orders (one whose product has no UID, a healthy one, a wholesale one), one status of the shop and two of wfsync, LIMIT 2; up to 2 crashes, 2 wfsync reports and 2 times 30 days without a write |
| `OrderSync_race` | does the sync implement its contract, does no value stray, is every duplicate accounted for, do healthy and wholesale orders settle | 5 orders: one whose product has no UID, one Zoho refuses, a wholesale one and 2 healthy ones; LIMIT 3; 3 statuses of which the worker asks for two; pushes beside the worker; failing calls, a crash, a status change, a deletion, wfsync, 30 days without a write: any 2 |
| `Backfill_edits` | do both sides agree on products, quantities and amounts over round trips | 2 products, 6 stored orders (coupon, discount, shipping, none; one with a product in two rows at two prices), `ChunkSize` 2; edits, a repeated push, a run, a fault: any 3 |
| `Backfill_repush` | *violation*: "overwrite the existing Sales Order" | the same, one repeated push |
| `ReverseSync_serial` | does the last version win, are echoes ignored, edits reflected | 1 handler, 1 order, batches of up to 2, 3 versions; any 2 of a fault, a crash, a redelivery, a change of the shop |
| `ReverseSync_parallel` | does the webhook implement its contract, do handlers that stay apart catch up, is every request answered while a connection is left | 2 handlers, 2 connections, 1 order, 2 statuses; any one disturbance |
| `ReverseSync_abandoned_lock` | *violation*: "either all changes succeed or all are rolled back" | 1 handler, no disturbance |
| `CustomerSync_all` | one contact per address, nothing blanked, everyone decided | 4 customers that share an email or a phone, LIMIT 1; any 3 disturbances |
| `OrderVersions_parallel` | what overlapping saves and the cleanup do to the history | 3 savers (symmetric), 4 saves, a fault, a crash, a cleanup |
| `B2BDeals_webhooks` | is there one Deal per delivery at most, are Goods complete where success was answered, is every half Deal accounted for | 2 handlers, 2 orders that share a product, one of two chunks; each delivered twice; any 2 of a fault, a refused line, a crash |
| `TokenCache_calls` | does a request ever go out with no token or half of one, is the expiry honest, are calls bounded in time, does service resume | a poller and a handler, a token of 3 ticks, 3 attempts; any 2 of failed, empty or bare answers and a revoked token |
| `Lifecycle_stop` | are requests answered, is the database closed under nobody, does the process end | 2 requests, 1 loop, 4 connections, one abandoned transaction, one failing statement |

Every type invariant is proved (section 4), so none is spent a run on.

Bounds. `Budget[k]` limits how often the environment does `k` and `MaxTotal` how often it
does anything; `MaxLog` limits the versions Zoho keeps, `MaxSaves` the saves, `MaxTries` the deliveries of a B2B
order, `MaxLeaks` the abandoned transactions and `MaxFaults` the failing statements. None cuts a step of the
program short. The faults are local - they live in one read-call-store sequence - so two processes on one order show every
interleaving of it, and a second order shows values that stray. In `OrderSync_race` two orders that can never be sent take two of the three places
of the worklist for ever, so the healthy and the wholesale ones have to take turns in the one that is left. An order of two products with carriage exceeds `ChunkSize` 2, one without does not; an order of three
items makes two chunks of Goods, the second not full. The life of a token, 3 ticks, is longer than a request and shorter than a
call with all its attempts. `MaxConns` of `Lifecycle` is one more than the requests and the leak can hold at a time.
Fairness and symmetry are never combined.

`CHECK_DEADLOCK FALSE` is set for `ReverseSync`, `CustomerSync`, `OrderVersions`, `B2BDeals`, `Backfill` and `Lifecycle`:
they are at rest once all bounded disturbances are spent and nothing is left to do; `Lifecycle` ends with its process, and
`ReverseSync` really may stop when its pool is exhausted. `OrderSync` and `TokenCache` never stop.

### Disagreements

The two violation runs are the findings of `PROJECT.json`. The models show more, reached by
widening a bound or dropping a condition of a passing run; these are noted here and not run:

- a crash between the create and the store of its id duplicates the Sales Order
  (`orders.go:221`), so does a status that changes between two of the status queries (`sql-client.go:160`), and so
  does a push of an order the worker has already fetched, though `orders.go:38` says that "re-pushing an order must not duplicate it".
  `DuplicatesAccounted` counts all three as excuses;
- a push replaces the `[B2B]` mark by an empty id (`orders.go:53`). `NeverRelinked` is checked
  without pushes for this reason; `WholesaleSettles` shows that the mark comes back;
- an order nobody wrote to for 30 days is not fetched any more (`statements.go:90`), though `orders.go:194` says that orders with missing product data are
  "skipped until the missing data is available"; its payment status is not pushed after 60 days (`statements.go:382`). Nor is an order in a status the worker does not
  ask for (`sql-client.go:148`) fetched. A wholesale order that is pushed in such a status loses `[B2B]` for good; the push itself writes `date_modified`, so an old one that is pushed in
  a status the worker asks for is marked again. An order whose payment was recorded before a crash and its id was not, and which then waits 30 days, stays without id, and
  its payment without updates. `HealthyOrderLinked`, `WholesaleSettles` and `PaymentConverges` ask for the orders that stay within the queries;
- ten orders that cannot be sent, or ten paid orders whose payment cannot be created without
  being rejected, fill the LIMIT of their query for good (`statements.go:91`, `:339`). The instances have
  fewer of them than LIMIT;
- if wfsync reports a status, its push succeeds, and its store is lost after wfsync has gone back to the
  old one, the payment in Zoho keeps the newer one (`orders.go:316`). `PaymentConverges` is checked
  with crashes and two reports, not with failing stores;
- a customer whose upsert fails for a passing reason is marked `[ERR]` and never tried again (`customers.go:48`), where `customers.go:15`
  says such customers "stay unmarked and will be retried";
- rows exceed the grand total when there is neither coupon nor discount to book a reduction
  on (`api-order.go:378`), as `RowsReconcile` says, and stop adding up when the order lacks a row
  (`sql-client.go:977` updates only): `EveryRow` is an assumption of the theorem for that reason;
- an order with two rows of one product at two prices is written back, at the first webhook that changes its subform, with one row at the price of the row read
  last, in a query that states no order, and with the quantity of both (`api-order.go:255-259`, `325-330`): the price of the pieces in the other row is lost. `PaidPriceKept` asks
  for a price the product was sold at, which keeps the price of every product that has one;
- the VAT rate is read from the rounded tax of a line and drifts over edits (`checkout-params.go:117`);
  without any tax it is 0, where the project's own README says 23 percent. A cheap line whose tax has been rounded to
  cents gives a rate of 20 percent; the backfill leaves the VAT field alone and
  Zoho then asks for more than was charged. `WorthCharged` asks for the amount only where the VAT field is the rate to the cent (`WholeVat`);
- lines beyond `ChunkSize` are never sent, the call being commented out (`orders.go:149`), and the order is linked as complete.
  `WorthCharged` holds where the subform is the whole order;
- `backfill.go:12-13` says that Zoho keeps `List_Price` with 4 decimals, which `buildOrderedItem` relies on, while `api-order.go:354-358` and `api-order_test.go:25-30` speak of 2 and of a drift of
  a few groszy on long orders. The models take the former: `WorthCharged` and `ChargeAlwaysWorth` rest on it, and with 2 decimals neither would hold to the cent;
- a backfill interleaves with the running service, where `docs/backfill.md:9` says that nothing can (the run does not start the worker and the server, but the service
  and the managers go on beside it): an edit or a webhook between its reading and its stamp may leave both sides with different quantities. `SidesAgree` excludes runs that had the order
  changed under them (`overlap`) and shows that nothing else does it;
- a backfill takes an edit of prices or discounts alone for a wrong figure and overwrites it (`backfill.go:92`), where `backfill.go:35` says of an
  order a manager has edited that it is "reported and left alone": only row count, products and quantities are compared;
- a free line (100 percent off) makes the webhook invalid, since its total must be greater than 0 (`src/entity/api-order.go:23`, `Valid`): it is
  answered with an error however often it comes (`Accepted`), and the order is never updated while the line is there;
- two overlapping webhooks of one order may leave the older version (`api-order.go:68`); a lost stamp lets an old webhook
  through (`api-order.go:190`); two edits within one second look the same (`api-order.go:422`). `CaughtUp` is checked with one handler and `CaughtUpApart` with handlers
  that are never at work on one order at the same time, both without lost stamps and with distinct seconds;
- a request may carry several orders and all of them are applied (`update.go:69`), where the repository's `README.md:135` says that "Only the first order in the `data` array is
  processed". The models follow the code: the batches of `ReverseSync_serial` have up to two;
- an order without a name sends `?` for it (`zoho-service.go:153-158`), which replaces a name Zoho knows. `NothingBlanked` is about empty fields only;
- the echo of a push may arrive before its stamp (`orders.go:174`) and reset the status when a push is a
  repeated one. `EchoNeverApplied` is checked without `RequestReads`;
- a failing insert per order exhausts a pool as large as the number of orders; `Answered` is checked with a
  connection to spare. With `MaxConns = 3` requests that hold a connection while they wait for one, or for the statement mutex, wait for
  ever, and the process does not end (`sql-client.go:413`, `statements.go:18`);
- overlapping saves number two versions alike or insert two documents (`mongo.go:88`), and the cleanup may
  delete the document a push was about to extend, which is not reported (`mongo.go:142`);
- a B2B webhook that is delivered again makes a second Deal (`b2b-webhook.go:43`); a line refused beside an accepted one is missing from a Deal that
  "Success" was answered for (`zoho-service.go:544`). `AnsweredInFull` names the refused lines as the only exception;
- an empty token is stored before it is checked (`zoho-service.go:116`) and a 401 does not clear the cache: requests
  go out in vain until the expiry passes.

### Fairness

- `OrderSync`, `CustomerSync`: weak fairness of the worker. Its goroutine loops on a
  ticker, and every call it makes is taken to return. The Zoho client has a timeout; the product repository is called by
  `http.DefaultClient` (`product-repo.go:54`) and MySQL by a DSN without a timeout, so for these two it is an assumption about the other side. Pushes are not
  assumed fair: nobody has to push. No disturbance is fair.
- `ReverseSync`: weak fairness would let a handler lose the race for a connection for ever;
  `database/sql` serves waiting requests and InnoDB queues lock waiters, which is
  strong fairness of every handler's step (`ServedSpec`) and every push's. Redelivery of a webhook that was answered
  with an error is fair too in `FairSpec`: Zoho's function is retried until it is answered.
- `B2BDeals`: weak fairness of each handler; the portal has to deliver nothing.
- `TokenCache`: weak fairness of each goroutine's steps, time goes on (`[]<><<Tick>>`), and the poller calls Zoho again and again. Neither failures nor recoveries of
  Zoho are fair; they are bounded.
- `Lifecycle`: strong fairness of each goroutine's statement and of `main`: the mutex and the pool are served in turn. The signal
  need not come.

## 4. Proofs

`OrderSync_proofs` proves, for every number of orders, statuses, products, pushers and
disturbances:

- `TypeCorrect`: `Spec => []TypeOK`. `TypeOK` includes `ControlOK`, which ties `pc` of the worker to its
  batch and the order in hand; without it a job's fields could not be shown to be in
  range.
- `OrdersNeverMixed`: `Spec => []RecordsBelong`: the Sales Order an order stores was made
  for that order, its payment too, and a payment is linked to a Sales Order of the order it is for.
- `LocalsNeverMixed`: `Spec => []JobsBelong`: the same of the local variables and of fetched
  rows.

The last two are not inductive alone: what is stored comes from a job, and what a job holds comes
from columns. The inductive invariant is `IInv == TypeOK /\ RecordsBelong /\ JobsBelong`. The argument has
three parts: records are only appended (`Growth`), so what belonged to an order still does
(`JobsKept`, `RecordsKept`); a record that is appended carries the order of the job that sent it (`SendBelongs`, `PayBelongs`); a
column is only set from the job of its own order (`ColumnStep`). The assumptions are those the module declares on its constants.

- `SyncImplementsContract`: `Spec => ImplementsContract`, the refinement of `OrderContract`.   Each step that writes `crm`, `pays` or one of the two id columns is matched with a step of the contract, every other with a
  stutter. That an id in hand is one of the order's own is `IInv` above; in addition `Held` says that a goroutine past the call to Zoho has
  a Sales Order in hand, without which a `Link` could empty a row. `RInv` is `IInv` with `Held`.
- `OneForOne`: `Spec => []DuplicatesAccounted`: each Sales Order and each Payment beyond the first of an order is the price of one
  lost call, restart, push request or change of status (`Excuses`). Counting records alone is not inductive, since a send that is under way
  or a row that was fetched adds one later without paying. `Account(o)` counts the records of an order, the sends in hand, its
  rows on the worklist, and the one that is still due if none of these is there, and bounds the sum by `1 + Excuses`. A step then
  either trades one of these for another (fetched row, job in hand, record, nothing due any more) or pays. For that the worklist must hold at most one
  row of an order per status (`Worklist`), nothing be sent for a wholesale order (`NothingWholesale`), and the worker pay
  only for linked orders (`Settled`).
- `LinkedForGood` and `RelinkNeedsPushOrMove`, of `NeverRelinked`: a stored `zoho_id` is only ever replaced by another after a push request or a
  change of status, whatever fails, restarts or is deleted. A push may overtake the worker, and an order that moves between two scans is fetched
  twice; both do happen in the model. `CalmInv` is the invariant: until then a row on the worklist is of an order without `zoho_id`, under the status
  the order still has.
- `PaymentFollowsSale`: `Spec => [](Quiet => PaymentOnItsSale)`, where `Quiet` means that in addition no call failed. A lost answer makes
  a second Sales Order while the payment of the first may be stored, which is why it is needed; restarts, deletions and reports of wfsync
  are all allowed. `QInv` adds to the above that a row with a payment had payment data when the worker read it (`QuietInv`): an order that is
  sent again after a restart is paid for again before its new id is stored.

`Backfill_proofs` proves of `ReverseTotals`, for every set of products, stored orders and payloads (`Spec`), and of `Backfill` (`SpecAll`), where
the webhooks are those Zoho makes of a subform that pushes, managers and the command change. One step lemma serves both: `Turn` is a step of any
webhook of amounts. That every step of `Backfill` is one (`StepIsTurn`) is the invariant `AmountsOK`: the figures of rows are whole, and a
webhook the validator lets through carries a natural carriage within a positive grand total and items of positive quantity (`HookOK`). The sums over
rows are folds over finite sets; `SumsExist`, `SumsCompare` and `SumsNat` prove what is needed of them by induction on the subsets of a set.

- `TypeCorrect`: `Spec => []TypeOK`, and `AllTypeCorrect`: `SpecAll => []TypeOK`. With `TypeOK`, `Rested` (nothing is left
  over between webhooks) is inductive.
- `RowsAlwaysReconcile`: `EveryRow => (Spec => RowsReconcile)`, and `AllRowsReconcile` of `SpecAll`: after every webhook the rows sum to the grand
  total, or exceed it and there is no reduction row. `EveryRow` says the order has all the rows `computeReverseTotals` sets.
  The argument: `SplitSum` (coupon and discount share a reduction without a cent of rest, as
  `PartIsPart` bounds the rounded share by the whole) and `TotalsSum` (the gap is either put into the tax or is the reduction).
- `SignsAlwaysKept`: `StoredSigns => (Spec => []SignsKept)`, and `AllSignsKept` of `SpecAll`: if the shop's own rows have
  the right signs, every webhook keeps them.
- `PaidPriceAlwaysKept`: `Spec => PaidPriceKept`, and `AllPaidPriceKept` of `SpecAll`: each row of a product the customer bought has a unit price that product
  was sold at, but for its rounding (`CentsClose`); of several prices one wins.
  The invariant behind it, `BuiltPaid`, says the rows built so far already carry the price paid.

and of `Backfill`, for every catalogue, chunk size, and set of quantities, prices and discounts a manager may set:

- `SidesAlwaysAgree`: `WholeOrders => (SpecAll => []SidesAgree)`: once every webhook is answered, OpenCart and Zoho hold the same
  products in the same quantities, whichever order the webhooks and the steps of a run come in. `SidesAgree` sets aside orders that changed under a
  run or were pushed again, both of which do break it. `WholeOrders` (an order has no more lines than `ChunkSize`) is needed because
  lines beyond it are never sent (`orders.go:149`); the carriage may still be cut off.
  The inductive invariant `SidesInv` says, of an order in Zoho that was left alone so far (`Steady`): no two rows have the same id (`Distinct`), so that
  rows are patched one by one; the newest version is on its way until it is
  dealt with, and if the stamp is that of the newest version the two sides agree (`Current`); the backfill has in hand the
  order as it is (`RunOK`). The two ends of the round trip are lemmas: the chunk that is sent has each line of the order once (`ItemsFacts`,
  `ChunkOfOrder`), and rows that correspond one to one hold as many pieces of each product, in whichever order the sums are taken (`MatchedPieces`, on `SumsUnique`), so
  that what comes back merged by product is the order (`OfOrder`), however many rows a product has.
- `ChargeAlwaysWorth`: `StoredWorth => (SpecAll => [](Precise => WorthCharged))`: Zoho asks for what the customer was charged, to the cent, through every
  push, edit, webhook and run. `StoredWorth` says of the shop's orders that they have a total, a sub total that is not negative, and a
  carriage within the total; webhooks keep that (`WorthStep`).
  The argument follows the money. The quotient worked out digit by digit is the quotient rounded once (`QuotientRounds`), so the discount leaves
  what was charged but for half a millionth (`DiscountClose`); the net price of a piece, its list price, its discount and the total of its
  row are each rounded (`NetClose`, `ListClose`, `RowTotalClose`, together `LineClose`), and the rows are summed (`RowsClose`); the carriage comes through exactly
  (`CarriageExact`); VAT and the rounding of the grand total come last (`NotMore`, `NotLess`, `GrandClose`). In all
  2 * 10^8 * (|gap| - 1) <= (100 + VAT) * `Spread`, where `Spread` is 100 * (101 * pieces + 100) summed over the rows, 20000 for
  each mil the sub total in cents is off what was paid, and the sub total in cents. `Precise` says that the right side is
  less than 2 * 10^8, which leaves less than 2 cents, hence one; and that no line with a discount of 100 percent
  still has a net price, as the rounding of a discount of 99.996 percent gives it. An order of ten lines of five pieces, worth 5000.00, is precise at 23 percent if its sub total is
  exact. One whose sub total is a whole cent off its lines, of more than some 150 pieces, or worth more than some 16000.00, is not, and nothing is promised for
  it: its roundings may add up to a second cent.
  Of the states of `Backfill_edits` in which the subform is what the order asks for and the VAT a whole percent, only those are not precise where a webhook has rounded the
  unit price of two pieces (1.3549 to 1.35, beside a sub total of 2.71); TLC checks `WorthCharged` in these too.

`ReverseSync_proofs` proves, for every number of orders and handlers, every batch size and every
disturbance:

- `TypeCorrect`: `Spec => []TypeOK`, with `IdsOK` (an id in a row, a version or a push names a
  version) as the strengthening: a manager's edit copies from the version its Sales Order id names.
- `LockDiscipline`: `Spec => []LockIsHeldInTransaction`, inductive with the types. The steps fall into three kinds: those
  that touch no transaction (`LockFrame`, `LockElsewhere`), the one that takes the lock, and those that end
  the transaction and pass the lock on (`LockPasses`).
- `LeaksBounded`: `IsFiniteSet(Orders) => (Spec => []LeakOncePerOrder)`, on top of the lock discipline: whoever abandons a
  transaction held the lock itself, so the order was not counted before.
- `OwnVersions`: `Spec => []OwnVersionsOnly`. Its invariant `OInv` adds that a push under way knows the id of
  its row (`PushesKnow`) and that a handler past the search has a version of the Sales Order its row
  names (`HandlersMatch`); both rest on `Lasting`: rows keep their id and versions are only added.
- `EchoesOfCreates`: `Spec => [](Quiet => EchoNeverApplied)`, for any number of handlers: until a stamp fails to be stored or an update is
  pushed, no webhook about a version the service created is applied. Managers may save in the same second or
  without a time, and webhooks come late, twice and side by side. `EInv` says why: what the service writes has a time of its own and nothing
  after it an earlier one (`OwnIsTimed`), all of it creates a Sales Order (`OwnCreates`), and a row that is linked has a stamp as new as that
  (`StampCovers`), because the stamp is stored before the id (`orders.go:174`). After a failed stamp or an update push, whose stamp
  follows the write, the stamp may be behind the version the service wrote.
- `ShopCatchesUpApart`: `Spec => CaughtUpApart`, which is `[]Apart => [](Exact => CaughtUp)`: an order all of whose webhooks were answered shows the newest version of
  its Sales Order, whatever order they came in and however often they failed, were cut short or repeated. `Apart` says that no two handlers
  that are past the search are at work on one order; any number may be at work on different ones.
  `Exact` is `Quiet`, every version with a second of its own, and no transaction abandoned. None of it can be dropped: a failed stamp, the blind
  stamp of an update push, a shared second, a version without time, a row locked by an abandoned transaction, and a second
  handler on the same order can each leave an older version in the shop (Disagreements, above). `XInv` ties the stamp to what was answered: a webhook that left the
  outbox or that a batch is past is covered by the stamp (`AnsweredDone`, `Past`), what a handler has read still holds (`InHand`), and while the
  stamp is the newest version the shop shows it (`Shows`).
- `ShopCatchesUp`: `Alone => (Spec => [](Exact => CaughtUp))`, its corollary for one handler (`Alone`), who is always apart.
- `ShopImplementsContract`: `Spec => ImplementsContract`, the refinement of `ShopContract`. The commit of a transaction is the `Show` of the contract, a
  batch that is answered its `Answer`, a stamp its `Mark`; everything else is a `Save`, a `Bind`, a `Move` or a stutter. `SInv` is `EInv` with what these need: a
  push that is about to stamp wrote the version of that time (`Stamping`), and what a handler is done with of its batch was about Sales Orders
  that rows name (`Through`).

`OrderVersions_proofs` proves, for every set of savers and any number of saves and disturbances:

- `TypeCorrect`: `Spec => []TypeOK`: no document is ever empty, and its versions come from saves that were begun.
- `DocumentsBounded`: `IsFiniteSet(Savers) => (Spec => []DocumentPerSaver)`. `Counted` adds that the
  documents are finitely many. A saver enters `insert` only when there is no document at all, so
  the savers already there are all that counts; an insert trades one of them for a document, and a push replaces one.
- `SavesRecordedOnce`: `Spec => []SavedOnce`. `Fresh` makes it inductive: what a saver has in hand is in no document
  yet and in nobody else's hands. Every write ends the save it writes, whether its answer arrives or not.
- `ReportedSavesKept`: `Spec => []SavedIsKept`: a save reported as done is in a document, as long as the cleanup deleted none. `KeptInv` adds
  that a saver about to push then has a document to push to: a push that matches nothing is reported as done all the same.

`B2BDeals_proofs` proves, for every set of orders and handlers, every chunk size and all disturbances:

- `TypeCorrect`: `Spec => []TypeOK`, and `ChunksAlwaysInTurn`: `Spec => []ChunksInTurn`. The invariant `IInv` adds `Sending` (a handler that sends Goods is the
  only one at its Deal, and the chunks before its own went through) and `Finished` (an answered Deal has all its chunks and is left alone). `BuiltKept` is the
  frame: what one Deal has is not touched by a call for another.
- `AnsweredAlwaysInFull`: `Spec => []AnsweredInFull`, from `Finished`: the calls of a Deal are counted by their chunks (`CallsCounted`), and the
  chunks cover the order (`ChunkFacts`).
- `DealsAlwaysAccounted`: `IsFiniteSet(Handlers) => (Spec => []DealsAccounted)`: a Deal takes the place of the handler that made it among those that may still make
  one (`CreateCounts`), and only a delivery adds to these (`DeliverCounts`).
- `AbandonedAlwaysAccounted`: `IsFiniteSet(Handlers) => (Spec => []AbandonedAccounted)`: a Deal left without all its Goods is the price of one failed
  call, one refusal, or a restart for each handler. A Deal whose chunk came back short is not abandoned yet but will be, so the
  invariant `Owed` counts both (`Owing`): each comes to be in the step that pays for it (`CreatePays`, `AddPays`, `CrashPays`).

`CustomerSync_proofs` proves, for every set of customers, whatever addresses they share:

- `TypeCorrect`: `Spec => []TypeOK`. `Filled` names what a field of a contact may hold.
- `AddressesUnique`: `Spec => []OneContactPerAddress`: whether worker or order upserts, no two contacts share an address. A contact is made
  only when none has the email or the phone, changed only when it is the one that matches, and several matches change nothing.
- `FieldsNeverBlanked`: `Spec => NothingBlanked`: no upsert empties a field a contact had.

`TokenCache_proofs` proves, for every set of goroutines, every life of a token, time-out, pause and number of attempts:

- `TypeCorrect`, `ExpiryAlwaysHonest`, `EmptyAlwaysAccounted` and `CallsAlwaysBounded`, of `TypeOK`, `ExpiryHonest`, `EmptyAccounted` and `CallBounded`. One invariant gives them
  all: `Kept` relates the token and the expiry in the cache, and `Fits` relates each caller, by itself, to the cache: what it has in hand (`InHand`), how
  late it may be (`Timely`), how old the token it holds or has stored one word of may be (`Fresh`), and that without an empty answer
  whoever has stored a word leaves that word in place (`Whole`). No caller is related to another, so any number of them is covered.

`Lifecycle_proofs` proves, for every set of handlers and loops and every pool:

- `TypeCorrect`: `Spec => []TypeOK`, which says who holds the mutex: the one goroutine that prepares a statement, or main while it closes them.
- `ClosedAfterRequests`: `Spec => []ClosedUnderNobody`. `WaitedFor` extends it back to the moment the requests were waited for: from then on nobody accepts one.

Only model-checked: everything under fairness (`HealthyOrderLinked`, `WholesaleSettles`, `PaidOrderGetsPayment`, `PaymentConverges`,
`EventuallyReflected`, `Answered`, `EveryoneDecided`, `WebhookMakesDeal`, `ServiceResumes`, `RequestsEnd`, `ShutdownEnds`: liveness is beyond the prover);
and `WorthCharged` of orders that are not `Precise`. It cannot hold of all: list prices are rounded to 1/100 cent before they are multiplied by
the quantity, so what the roundings come to grows with the order.

## 5. Not modelled

- SmartSender (`smartsender.go`, `smartsender-service.go`): never started (`core.go:288`). `buildZohoOrderB2B` is called by nothing.
- HTTP routing, authentication, Telegram, logging, configuration, the wording of errors: no state of the sync depends on them.
- Schema changes at start: plain SQL, before any goroutine runs. The structure map of `table-structure.go:103` is filled by concurrent handlers
  without a lock; the runtime ends the process when it notices, which is the `Crash` of the other modules.
- Currencies, names, addresses and other text of `buildZohoOrder`; amounts of Deals and Goods.
- A request to the product repository that is never answered (`product-repo.go:54`): see Fairness.
- Several orders in one backfill: runs take the orders one after the other and share nothing between them.

Zoho, MySQL, InnoDB, OpenCart, wfsync and the wholesale portal are external: modelled by what the
code relies on, and marked so in the map.

## 6. Plan

Done: every component above but those of section 5; the order sync and the order webhook shown to implement their contracts; every
safety property the runs check proved, `WorthCharged` under the condition `Precise`.

Next:

1. A contract of the history, as `OrderContract` is one (an append-only list of saves), and the refinement proved.
2. The orders of some hundreds of pieces that are not `Precise`: which of them do ask for a cent too much.
