# TLA+ models of the nascrystal API

The repository is the backend of a shop: FastAPI handlers and two background
tasks in **one** process (`Dockerfile`: `--workers 1`), SQLAlchemy over SQLite in
DEV and MySQL in production (`README.md:3`), and three providers: MoySklad
(catalog and stock), YooKassa (payments), CDEK (delivery). Nothing runs in
parallel on threads; everything interleaves at `await`, and every hard problem of
the code is of that kind: state read, a provider called, state written, while
another handler, the background task, a notification or a restart comes between.

## 1. Inventory

| Part | State | Operations | Interacts with |
| --- | --- | --- | --- |
| MoySklad inbound queue: `services/moysklad_webhook.py`, `moysklad_sync.py` | `sync_tasks` (one row per entity or stock report), the coroutine `run_moysklad_sync` | upsert by webhook; select, claim, synchronize, finish or fail; recovery; expiry; daily reconciliation | MoySklad, catalog tables, manual import |
| Manual import: `api/moysklad.py`, `services/moysklad_import.py` | catalog tables | read the assortment, match identities, write, archive what is missing | the same tables as the queue |
| Purchases and payments: `api/purchases.py`, `api/payments.py`, `api/yookassa.py`, `services/payment_sync.py`, `services/yookassa.py` | `purchases`, `payments` | create (with Idempotency-Key), pay again by uuid, poll, webhook, edit, deliver, finish | YooKassa, customers, staff, shipments, outbound orders |
| CDEK shipments: `services/cdek.py`, `cdek_client.py`, `cdek_webhooks.py`, `api/delivery.py` | `delivery_shipments`, `purchases.delivery`, the coroutine `run_cdek_sync` | create, retry, refresh, edit, cancel, print, pickup, dispatch | CDEK, purchases |
| Outbound orders: `services/purchase_sync.py` | `purchase_submissions` | create or PATCH a customer order, set its status | MoySklad; off by default |
| Paid items: `services/paid_items.py`, receipts in `api/purchases.py` | `payments.request_payload` | build a receipt, match it with the purchase when a shipment is declared | catalog, CDEK, YooKassa |
| Storefront: `services/product_service.py`, `api/stock.py` | catalog tables | filtered list, facets, pages, page of a product | the rows the import leaves |
| MoySklad webhook registration: `services/moysklad_webhook_registration.py` | MoySklad's subscriptions, a lock of the process | list, create, update | MoySklad, start of the process, administrators |
| Server settings: `services/server_settings.py`, `api/settings.py` | `settings`, a cache of the process | load, read, update | every handler |
| Container: `Dockerfile`, `docker-compose.yml`, `alembic/` | schema and rows of MySQL, `alembic_version` | upgrade, serve, restart | every table |
| Integrations configuration | `integration_configs` | read, update | CDEK |
| CDEK routing, locations, widget | TTL caches | look up | CDEK |
| Catalog queries, images, static pages, translations, feedback, authentication, logging | their tables | single transactions | - |

What makes each part correct, and is hard to test (the list with its lines is
`hazards` in `PROJECT.json`):

* **Queue.** No notification is lost when it arrives during the processing of the
  same row; nothing stays in `processing` after a crash or a failure of the
  database; a task that fails for ever does not starve the others; the projection
  never goes back.
* **Payments.** The customer is charged once, for the right amount, also when a handler
  knows the payment as it was before it had the lock; a confirmed
  payment stays confirmed although three handlers write it without a lock; a
  notification for a replaced payment does nothing; a paid purchase moves on
  after a crash between its two transactions.
* **Shipments.** One order at CDEK whatever answer is lost; edits and
  cancellations exclude each other across the gap between reservation and answer;
  a late answer does not undo a newer refresh; the purchase follows the parcel.
* **Outbound orders.** One order at MoySklad although the answer to POST may be
  lost; a payment only for a purchase that has one; what was paid is told in the end.
* **Catalog.** Identifiers move between records and rows are taken over: the
  storefront must sell what MoySklad offers, never something archived, and no two
  records may end in one row.
* **Receipts.** What is declared to CDEK is what was paid, not what the catalog
  says today, and what was paid can be declared.
* **Container.** A migration that is interrupted runs again from its beginning over
  what MySQL has already committed; a delivery is never lost between two columns.

## 2. Modules

| Module | Contents |
| --- | --- |
| `SyncQueue` | the inbound queue, the worker, reconciliation, manual import, crashes, with its properties |
| `CatalogMirror` | the abstract specification: a local projection that only moves forward, never past MoySklad |
| `Payments`, `PaymentsProperties` | one purchase with its payments; what is promised |
| `Shipment`, `ShipmentProperties` | one purchase with its CDEK shipment; what is promised |
| `OutboundOrder` | a purchase, its payment and its order at MoySklad, with `MOYSKLAD_CHECKOUT_SYNC_ENABLED` |
| `CatalogImport` | the catalog tables as the queue and the manual import write them |
| `Storefront` | list, facets, pages and page of a product over the rows of `CatalogImport` |
| `Checkout` | items, totals, receipts and declared items of a purchase under a changing catalog |
| `Migrations` | every upgrade over a schema, statement by statement, in a container that may stop |
| `WebhookRegistration`, `ServerSettings` | the subscriptions at MoySklad; the settings and their cache |
| `Deployment` | the composition of the last three: a container migrates, starts and serves |
| `SyncQueueProofs`, `PaymentsProofs`, `ShipmentProofs`, `OutboundOrderProofs`, `CatalogProofs`, `CheckoutProofs`, `MigrationProofs`, `DeploymentProofs` | theorems about the modules above, for every value of their constants (section 4) |
| `MCSyncQueue`, `MCPayments`, `MCShipment`, `MCOutboundOrder`, `MCCatalog`, `MCCheckout`, `MCDeployment` | instances for TLC: scopes, looks, names and prices, the symmetry of request slots |

### SyncQueue

`remote[t]` and `local[t]` are versions of an entity at MoySklad and in the
catalog tables. A catalog task is a row per entity; a stock task is a row per
`requestId` and stands for the one change its report announces. Every
transaction is one step: `Receive` (the upsert), `Select` (selection with the
expiry of overdue stock tasks), `Claim` (the conditional update), `Write` (the
projection and `WHERE status = 'processing'` in one commit), `MarkFailed`,
`Recover`, `ReconcileWrite`, `ImportWrite`. The reads from MoySklad in between
(`Fetch`, `ReconcileFetch`, `ImportFetch`) are steps of their own. `older` is the
order of `sync_tasks.updated`, which `onupdate` sets at every UPDATE and which
the selection sorts by; ties and the order inside a batch are left open.
`Scope[t]` is what synchronizing `t` rewrites.

`MirrorHolds` and the run `SyncQueue_safety` say that the queue implements
`CatalogMirror`.

Abstractions: the several GETs of one synchronization are one read; refreshing
stock as a by-product of a catalog write is ignored; MoySklad's giving up on a
notification for ever is not modelled (fairness says it delivers);
`customerorder` tasks are stored and never processed by the code, so they are
left out.

### Payments

Handlers run in `Requests`, the slots of the event loop. `req[r]` is what the
session of a handler holds: the rows as loaded (`base`), as changed in memory
(`row`, `order`) and where it is. With `expire_on_commit=False` a session never
notices what others commit unless it refreshes; a flush writes the attributes that
differ from the loaded ones (`Flush`), so two sessions can overwrite each other
attribute by attribute. `lock_purchase` is `Locked`; it reads the purchase
anew. `Call` has the three outcomes of a call: accepted, refused (`JSRError`,
committed as failed), no answer (an exception that rolls back, whether or not
YooKassa has created the payment). The row that `_cancel_payment_for_purchase`
marks as canceled is a second one of the session (`dropped`), saved by the commit
that saves the new payment.

A price stands for the items, too. YooKassa captures at once (`capture: true`),
so `paid` and `status = succeeded` coincide. The module describes a purchase
without CDEK delivery with `MOYSKLAD_CHECKOUT_SYNC_ENABLED` at its default FALSE
(`core/config.py:38`).

*Isolation.* The code sets no isolation level (`core/database.py:60-71`). On MySQL
it is REPEATABLE READ: the first read of a transaction fixes what its later reads
see. `lock_purchase` touches the purchase by its UPDATE (`onupdate` of `updated`), so
the SELECT after it sees the latest purchase; the rows of other tables are those of
the first read, which is the staff dependency's (`update_purchase`) or the look for
the Idempotency-Key (`create_purchase`). `PastReaders` says which handlers have read
before the lock, and `snap` what they saw; `Seen` is the payment they find under the
lock. With `PastReaders = {}` the module is SQLite. One case is left out: two UPDATEs
of one purchase within a second leave `updated` as it is, MySQL writes nothing, and
the purchase, too, is that of the first read. `AllReadLatest` is `Spec` without the
behaviours in which somebody gets the lock with an older payment; a property that
needs it says so.

### Shipment

The same kind of sessions and lock, with the protocol of `services/cdek.py`:
`Reserve` commits the reservation and with it releases the lock, a call of CDEK
follows without it (`PostOrder`, `PatchOrder`, `CallOperation`: performed,
refused, or ambiguous), `Store` commits the answer attribute by attribute.
`Refreshed` is `_refresh_shipment`: what it copies from CDEK, what it protects
(an open edit without saved changes), the reset of the print jobs, the polling of
documents. `cdek` is what CDEK holds: the order, the list of its UPDATE requests
and the DELETE request. Every handler reads `integration_configs` or the user before
`lock_purchase`, so on MySQL it works on the shipment as it was at that read (see
*Isolation* above): a handler of a kind in `PastReaders` begins with that read
(`Begin`, `snap`) and gets the lock later (`Lock`), the others get both at once
(`Enter`). The webhook is always in `PastReaders`, at every isolation level: its
session has the object loaded before the lock. The purchase is the latest one, with
the same exception for two UPDATEs in a second. `RetriesReadLatest`,
`ReserversReadLatest` and `AllReadLatest` are `Spec` without the behaviours in which a
retry, a retry or an edit or a cancellation, or anybody gets the lock with an older
row; which of them a property needs is said in its comment.

`Patch`, `Pay` and `Finish` are the writers of the purchase's status outside
`services/cdek.py`, a transaction each: the PATCH of products or contact, which asks
for payment again whatever has become of the purchase and its shipment
(`purchases.py:540`), the application of a payment, and staff who finish. So a
purchase that is delivering or finished can go back to `awaiting_payment` and
`assembling`, and stays there if CDEK has delivered already: the poller does not
watch such a shipment. `OnlyPatchTakesBack` says that nothing else takes it back.

Saving a delivery without a row, or with a rejected one,
is `create` or `retry`; `save` is the edit of a registered shipment from the
purchase's form, which also carries the selection.

Abstractions: payloads are versions; one kind of document; the waybill number
comes with the registration; the account does not change; recipient and cost that
CDEK confirms (`cdek.py:260-288`) are part of the version; pickup and
NOT_DELIVERED are left out. Only the number of a second order is kept.

### OutboundOrder

The sessions of `Payments` again, for the five handlers that call
`services/purchase_sync.py`. `sync_purchase` is `Look` (the committed submission,
then a search by syncId), `Send` (POST or PATCH, with or without an answer) and
what follows it; `Flushes` is the submission written in the same transaction as
the payment. `sync_purchase_status` is `StatusGet`, then `StatusPut`: the
description is read, lines are added, and it is written back. `RemoteEdit` is a
user of MoySklad. Not promised by the code, so no property says it: an edit that
is rolled back after its PATCH leaves MoySklad newer than the purchase until the
next edit (`POST /sync` creates and does not patch); a PATCH writes a description
without the line that says what was paid, which only the next status brings back.
A POST that MoySklad performs after the retry has already searched is not modelled.

### CatalogImport and Storefront

`up*` is MoySklad, `products` and `variants` are the tables, with offers,
attributes and options folded into the variant (`look`, `active`). `Loaded` is
the matching of `_identity_match` (a row that shares uuid, code or external code;
more than one raises) followed by the writes; `Flushable` is MySQL's unique keys.
A synchronization is one step, since the queue works on one task at a time and its
versions are the matter of `SyncQueue`; `pending` are the entities whose last
change has not been synchronized. `MCCatalog` puts `Storefront` over the same rows
and asks for every filter and page.

Identifiers are unique at MoySklad at any moment (two records with one external
code would be merged silently), but they move: a code may be given to another
record. Two records that swap their codes, or one that takes the code of an
archived row, conflict for ever (`Flushable` fails); a new variant with the former
code of a renamed one may take over its row, depending on the order. An archived
product with variants that are not archived stops the manual import. Filter values
with a comma cannot be asked for. Renaming of categories by staff is left out.

### Checkout

Each handler is one step from the commit it ends with (`Payments` has what lies
between), and data are what count: quantities, prices in half rubles, names,
`receipt_item_variant_ids`. `sold` is a history variable: what the customer
ordered, whether or not the row says it. `Older` is a purchase paid before the ids
were stored, whose receipt comes from YooKassa. The ids and the lines of a receipt
follow the order in which the purchase keeps its variants (`Ordered`: some order,
the same for the same variants).

Variants have first names and may be renamed. They may come to have the same name,
also one that was another's first; in the instance the second variant can get the
first name of the first. They do not exchange first names, neither two of them nor
several in a circle (`CheckoutAssumption`), which is how a receipt without ids could
be matched with the wrong variant under names that are all unique.

Reachable, and excluded in the properties by name: a quantity above 999 can be
paid (the schemas do not bound it) and never declared (`ShipLimit`); an older
receipt whose variants exchange names, or whose purchase is edited to a variant of
the same name and price, may be matched with the wrong variant. Not modelled as
answers: the staff's list and answers are 400 as soon as the offer of any listed
purchase is inactive (`_serialize_purchase` uses `_primary_offer`), also after a
commit; a unit price with kopecks can be bought if the total is whole, but not
shown or edited; a customer cannot pay again after a price change until staff
edit the purchase.

### Migrations, WebhookRegistration, ServerSettings, Deployment

A schema is a set of facts: a table exists, has a column, index or enum member,
references another table. A migration is a sequence of statements computed from
the schema it finds, each with what it needs, what it must not find, what it adds
and removes. On MySQL each DDL statement commits, with the rows written before it
(`db` against `now`); the revision is written with the last rows (`Stamp`). `Stop`
may come before any statement, and the container starts again, with the same image
or one that knows more revisions (`Deploy`). `Write` stands for the rows that are
committed while a container serves which does not know `4b91c7d8e205`, the revision
that simplifies the delivery: from that revision on the code writes `details` and
no request, so there is nothing left to convert.

`OnlyInterruptedFails` lists the nine migrations (`Fragile`) that cannot be
repeated once begun, since they create without looking: an interruption there is
a restart loop until somebody repairs the schema by hand. The list is exact: with
any of the nine left out TLC finds the interruption. `HeadSchema` compares what
migrations leave with the tables of `src/models`. Tables `users`, `feedbacks`,
`static_pages`, their translations and `locale_overrides` are created by no migration
and by no `create_all` (`README.md:30` runs `alembic upgrade head` alone), so they
are not in `ModelSchema`; `product_images` has no model any more; the unique index
of `models/locale_overrides.py:16` is one that revision `4127d08610dd` drops.
A statement fails by the schema alone. What the rows can make fail is outside: the
unique index of `b1f7c52d4d8a` (lines 30-35) over two overrides of one locale and key,
or JSON that `4b91c7d8e205` cannot read; such a failure repeats at every start.
Downgrades are run by hand and not modelled (on MySQL two of them drop an index a
foreign key needs before the key). Two containers at once are not modelled: the
compose file has one, with one worker.

`WebhookRegistration` is `manage_webhooks`: a list, its requests in any order, the
next list. Requests fail before or after MoySklad performs them, which ends the
operation; a POST performed after the next list is not modelled. The account may
have a webhook from the start, an identifier is never used again, and `MaxOutside`
bounds the changes by users and the failed requests together. `ServerSettings`
has rows without a unique key, as the table: two first writes of a key at once
make two rows, later edits change the first and everyone is shown the last, and
two updates at once may leave either value in the cache. `CacheIsShown` is the
promise that is left: without an overlap or a failure after the commit (`faithful`).

The three share nothing but the phase of the container. In `Deployment` a
behaviour exercises one of them (`part`), so that TLC adds their states instead of
multiplying them.

## 3. Runs

| Run | Question | Bounds |
| --- | --- | --- |
| `SyncQueue_safety` | types, `QuietIsCurrent`, `NoOrphan`, refinement of `CatalogMirror` | product, variant, stock; 2 versions, batches of 2, 1 duplicate, 1 fault, no import |
| `SyncQueue_live` | `EventuallyCurrent`: no starvation by a task that always fails; `NotificationServed` with a racing import | 1 entity, 1 poisoned report, 2 versions, batch of 1 (the code: 5), 1 import, 1 fault |
| `Payments_handlers` | `PendingIsRegistered`, `ConfirmedIsFinal`, `AdvanceOnlyWhenPaid`, types, over all handlers | 2 slots, 2 prices, 2 payments, 1 crash |
| `Payments_notified` | `PaidIsApplied` by notification | 2 slots, 1 price, 2 payments, no crash |
| `Payments_charged` | `ChargedAtMostOnce`, `OfferMatchesPrice` without the unlocked repayment and manual status changes, if the latest payment is read (`AllReadLatest`) | 2 slots, 2 prices, 2 payments, 1 crash |
| `Shipment_lifecycle` | `OneOrder`, `OnlyPatchTakesBack`, types; `DeliveredIsFinished` by the poller; on MySQL but for retries, dispatch and prints | 2 slots, 1 fault, six handlers, three other writers |
| `Shipment_edits` | `DetailsAreConfirmed`, `NoCancelDuringEdit`, `NoEditDuringCancel`, if the latest row is read (`AllReadLatest`) | 2 slots, 2 payloads, 1 UPDATE request, 1 fault |
| `Shipment_lost_edit` | `EditIsReconciled`: violated | 2 slots, 2 payloads, 1 UPDATE request, 1 fault |
| `OutboundOrder_sync` | `OneOrder`, `PaymentHasOrder`, `EditReachesMoySklad`; `PaidReachesMoySklad` by polling, after a crash | 2 slots, 2 versions of the purchase |
| `Catalog_import` | `QuietIsMirror`, `ImportMirrors`, `ArchivedIsNotSold`, `RowsAreApart`, `FacetsAreReachable`, `PagesPartition` | 2 products, 3 variants, 2 categories, the changes of `Catalog_import.cfg` |
| `Checkout_paid` | `OfferIsForOrder`, `DeclaredIsPaid`, `PaidIsDeclarable` | the variants, quantities and changes of `Checkout_paid.cfg`; the limit 999 is 1 |
| `Deployment` | `OnlyInterruptedFails`, `HeadSchema`, `DeliveryIsKept`, `Recovers`; `OneHook`, `OperationDone`; `CacheIsShown` | six images, 1 stop (2 pass as well), 3 webhooks, 2 requests, 3 failures or changes by users, 2 rows, 3 updates |

Types are part of the run's first invariant where there is no `TypeOK` of its own:
`PaymentHasOrder`, `RowsAreApart`, `OfferIsForOrder`, `OnlyInterruptedFails`,
`OneHook`.

`Shipment_lifecycle` has no `webhook`: a refresh that works on the row as of before the
lock does all that a webhook does, and more. The retries it has read the latest row, so
it is an instance of `RetriesReadLatest`; its `waybill`, `document` and `deliver` read the
latest row to keep the run short. `Shipment_edits` has no past reader at all: there
`Spec` and `AllReadLatest` have the same behaviours.

Two slots are enough for every race found so far: each is between a handler that
has read and one that writes in between. A batch of one in `SyncQueue_live` is
the worst case for starvation: one failing task fills the batch. Batches of two
in `SyncQueue_safety` let a row change between selection and claim. Faults are
bounded, so "in the end" means after the last fault. At the bound of payments a
call has no answer, at the bound of UPDATE requests it is refused: both are
outcomes the code handles anyway. The six images of `Deployment` are those between
which rows are written that a later migration converts, and the two newest. Symmetry is used only in runs of safety
properties.

`Payments_notified` has no crash: a process that stops between the commit of an edit
and what follows it, after the notification has been answered with 200, leaves a paid
purchase to the next poll, and `PaidIsApplied` false of notifications alone
(`PaidReachesMoySklad` is the same question with polls and crashes).

Fairness. *Queue:* the worker task goes on (`WF`), MoySklad repeats a
notification until it is stored (`WF` of `Receive`), days pass, and a read that is
tried again and again succeeds (`SF`), except for `Poison`. *Payments:* handlers go
on, a waiter for the row lock gets it (InnoDB queues them: `SF`), and YooKassa
repeats a notification until it is answered with 200. *Shipment:* the same for handlers;
`run_cdek_sync` refreshes every row its query selects, and CDEK settles what it
has accepted. *Outbound orders:* handlers go on and get the lock, and the storefront
polls the payment. *Container:* an upgrade goes on, the process starts, and the
runtime restarts what has ended (`restart: unless-stopped`).

Every property has a mutant of the code in the module (operators marked
"(mutant)") that TLC finds to violate it.

### Disagreements between the code and what it says

`Shipment_lost_edit` is a run that TLC ends with a counterexample; `findings` in
`PROJECT.json` quotes the line. An edit with a lost answer is never reconciled and
blocks the shipment.

Six more were found with the same models and are described here only. The first four
are what `lock_purchase` is to ensure, on MySQL at its default isolation level: a
handler that has waited for the lock sees the purchase as it is, and the shipment or
the payment as it was before the lock. Each property holds, and is proved (section 4),
where the row is read as it is when the lock is granted: on SQLite, or with READ
COMMITTED. To see the counterexample, give the run `SPECIFICATION Spec` and put the
handlers named here into its `PastReaders`.

* Two retries of a refused registration send an order each (`cdek.py:179-182`):
  `OneOrder`, with `retry`. "durable write reservations prevent duplicate waybills"
  (`cdek.py:1`) is not true there.
* A cancellation is sent during an edit that was reserved while it waited for the lock
  (`cdek.py:428-439`): `NoCancelDuringEdit`, with `cancel`.
* An edit is sent during a cancellation that was reserved while it waited
  (`cdek.py:223, 327`): `NoEditDuringCancel`, with `save`.
* An edit of the purchase that began before a notification was stored finds the purchase
  in assembly and its payment open, skips the checks (`purchases.py:769-777`) and makes
  a second payment (`478-515`): `ChargedAtMostOnce`, with `patch`. A repeated creation
  beside an edit of the price does the same, with `create`.
* Editing a purchase in assembly changes the price of what is paid: the refusal
  "Cannot change payment details for an already paid purchase"
  (`purchases.py:775`) looks only at `awaiting_payment` (`purchases.py:769`). What
  protects the delivery then is `paid_items`: `DeclaredIsPaid`.
* Two payment requests by uuid act on a status read before their calls to YooKassa
  and without the lock (`purchases.py:661-669`); the later commit replaces the paid
  payment of a purchase that is in assembly by then.

Three properties are stated so that they leave out what the code does not
guarantee; TLC shows each of these behaviours when the exception is removed:

* With webhooks (off by default) a cancellation can pass while an edit is being
  sent: `cdek_webhooks.receive` loads the row before the lock, and its refresh
  writes the older `editing` over the reservation, at every isolation level.
  `Shipment_edits` has no webhooks.
* A cancellation that repeats a refused one is not protected from an edit: the
  refresh inside `update_shipment` writes the old refusal over its reservation
  (`cdek.py:241-242` protects open edits alone). `CancelUnderWay` leaves it out.
* A print task that is requested before an edit and answered after the edit was
  confirmed survives the reset of the print jobs (`README.md:57`) and prints the
  old waybill.

Two more dead ends are reachable and contradict no document: a row left in
`submitting` whose POST never reached CDEK, and a registration CDEK refused after
it had accepted it (`rejected` with a `remote_uuid`). Both need staff.

## 4. Proofs

Every theorem is about the specification that the runs check, for every value of the
constants that satisfies the module's assumption: any number of request slots,
payments, prices, variants, subscriptions, faults and restarts. A hypothesis is
stated in the theorem and given here. For each component there is one inductive
invariant; TLC has checked each of them on the instance of its run (of
`MigrationInv` all but `Runs`, whose witness is a set of sequences). The
proof that a step preserves it has a lemma per action or group of actions, and the
theorem about the property follows from the invariant.

**`SyncQueueProofs`**, from `TasksAssumption` and `BoundsAssumption`:

* `TypeCorrect`: `Spec => []TypeOK`.
* `NoOrphanHolds`: `NoOrphan` is strengthened by where the worker holds a task
  (only between claim and finish), and by: a worker that is not recovering has
  nobody else's row in `processing`.
* `QuietIsCurrentHolds` (`MaxImports = 0`): a notification counter argument. For
  each entity either its version at MoySklad is shown, or a notification is on its
  way, or its row is not synced; while a row is in processing, what the worker has
  read is either current or the row was put back to pending by `Receive`.
* `MirrorHolds` (`MaxImports = 0`): what the worker holds is between `local` and
  `remote`, so every write is a `CatchUp`, every other step a `Change` or a
  stutter.

The condition `MaxImports = 0` is needed: a manual import may write older data
over newer ones. What a run with an import still guarantees is
`NotificationServed`.

**`PaymentsProofs`**: `PaymentsTypes`, `OpenIsRegistered` (`PendingIsRegistered`),
`ConfirmedStays` (`ConfirmedIsFinal`), `AdvanceIsPaid` (`AdvanceOnlyWhenPaid`), with no
hypothesis. Three handlers write payment rows without a lock, so no invariant can
say that a session's copy is the row. `PaymentsInv` says instead that every copy is
`Truthful`: amounts, URLs and final states do not change at YooKassa, so an old copy
says nothing wrong of YooKassa's payment, and a flush of the attributes in which it
differs from what was loaded leaves a row that says nothing wrong either
(`ProviderGrows`, `PaymentsGrow`: a stored payment only becomes more definite).

On top of `PaymentsInv`, about money:

* `OfferIsThePrice` (`OfferMatchesPrice`, if `"repay" \notin Kinds`): `OfferInv`, a
  session about to commit holds a payment for the price of its purchase.
* `OneCharge` (`ChargedAtMostOnce`, if `Kinds` is within creation, polling,
  notification and edit), of `AllReadLatest`: `ChargeInv`, the only payment a customer
  can still pay is the current one, and a row never has another row's key. A session
  that gets the lock knows the payment as it is; this is what `AllReadLatest` says, and
  where the proof needs it.

The properties are false without these hypotheses: repayment by uuid works without the
lock, staff may set any status by hand, and on MySQL an edit may know an older payment
(section 3). The other theorems are about `Spec`, with any `PastReaders`; so
`OfferMatchesPrice`, which the run `Payments_charged` checks where the latest payment
is read, is proved for MySQL, too.

**`ShipmentProofs`**, with any `PastReaders`:

* `ShipmentTypes`, `OrderIsOne` (`OneOrder`), `PurchaseGoesForward`
  (`OnlyPatchTakesBack`), of `RetriesReadLatest`: `RegistrationInv` says that at most one session is registering;
  while CDEK has no order, its row is `submitting` and offered to nobody (`Sends`);
  a session that may register after its lock works on a row that may be registered
  now (`Knows`).
* `EditWaits` (`NoEditDuringCancel`), of `ReserversReadLatest`: `CancelInv` says that a first cancellation under
  way is the only one, stands in the row, and is seen by every session that holds the
  lock and may send something. A refresh or a webhook may hold an older row, but it
  sends nothing and does not write the cancellation until CDEK has one.
* `DetailsAgree` (`DetailsAreConfirmed`), `CancelWaits` (`NoCancelDuringEdit`), of
  `AllReadLatest`: `EditInv` relates the open edit of the row to
  CDEK's list of UPDATE requests (`Tells`), for the row and for what every session is
  about to store, and says that a session decides by the row as it is or sees an edit
  that is being sent.

Of `Spec` `OneOrder`, `NoCancelDuringEdit` and `NoEditDuringCancel` are false (section
3). `AllReadLatest` excludes also webhooks that have loaded an older
row; they write an old edit back, and with them TLC finds `DetailsAreConfirmed` and
`NoCancelDuringEdit` violated. The other hypotheses leave webhooks, refreshes, prints
and dispatch free to read the past.

**`OutboundOrderProofs`**: `OrderIsOne` (`OneOrder`), `PaidHasOrder`
(`PaymentHasOrder`), `EditIsTold` (`EditReachesMoySklad`), with no hypothesis.
`OutboundInv` has two parts for a session: what it relies on before it has the lock
(`Opened`, which no other session's step can disturb), and what the holder relies on
(`Holding`, which only the holder can): a search by syncId before a POST has found
all there is, since nobody else sends while the lock is held.

**`CheckoutProofs`**: `OfferHolds` (`OfferIsForOrder`), `DeclaredHolds`
(`DeclaredIsPaid`), `DeclarableHolds` (`PaidIsDeclarable`), from `CheckoutAssumption`.
`CheckoutInv` says that every receipt adds up to its payment and lists what was sold
(`Sound`), that an open payment is for what the purchase contains (`IsFor`), and that
what was declared is the purchase's settled payment. For a receipt without ids
`SameOrder` shows that the ids found by name are those of what was sold: the variants
that were not found in their own place would have exchanged first names. This is
where the assumption about circles of names comes from; with it stated for pairs only,
three variants that exchange them in a circle refute the property.

**`CatalogProofs`**, from `CatalogAssumption` and `StorefrontAssumption` (finitely many
entities, a category and a look to start with, `Facets` without the category, page
sizes of at least 1):

* `SoldIsOffered` (`QuietIsMirror`), `ImportIsMirror` (`ImportMirrors`), `RowsApart`
  (`RowsAreApart`), `ArchivedNotSold` (`ArchivedIsNotSold`). `CatalogInv` has four
  parts. `Upstream`: MoySklad's identifiers are unique among what exists. `Tables`: no
  two rows share an identifier, a product never loses its row, and a row of a variant
  belongs to the row of its product. `OnSale`: nothing archived has an active offer.
  `Current`: a variant without a task, of its own or of its product, is shown as
  MoySklad offers it (`Mirrored`). `QuietIsMirror` alone is not inductive: it says
  nothing while one task waits.
* The argument is about `Placed`, which matches one record after the other and lets
  rows be taken over: `PlacedIs` says that every record has a row afterwards, that the
  other rows are as they were, and that a row that was taken over shared an identifier
  with its record. A variant that is not synchronized and is current therefore keeps
  its row: its identifiers are those of MoySklad, where nobody else has them.
  `PlacedIs` is an induction over the records, by the least number for which it fails
  (`LeastNumber`), since the induction theorems of the library have an operator as
  parameter.
* `FacetsReachable` (`FacetsAreReachable`) and `PagesPartitionList` (`PagesPartition`)
  for every choice of filters and every page size. `OrderIs` shows that `InOrder` is
  what it stands for: every id once, in increasing order.

**`DeploymentProofs`**, with no hypothesis:

* `CacheHolds` (`CacheIsShown`): as long as `faithful` holds, updates have come one
  after the other (`Serial`), so there is one row at most and the copy that is cached
  is the row (`SettingsInv`).
* `HookIsOne` (`OneHook`), `OperationsKeepTheirPromise` (`OperationDone`): `WebhookInv`
  says what the requests of an operation are still right for, a POST only where there
  is no webhook, one PUT for a webhook (`Queue`); until a user intervenes, every webhook
  the operation has listed is as wanted or has the PUT that makes it so (`Progress`).

* `OnlyInterrupted` (`OnlyInterruptedFails`), `NewestSchema` (`HeadSchema`),
  `DeliverySurvives` (`DeliveryIsKept`), from `MigrationAssumption`: for every set of
  images, every order of deployments and any number of stops, at any statement of any
  migration, repeatedly. `MigrationInv` has three parts: types (`DeployType`), the
  schema and what is left to do (`Upgradable`), the rows (`Kept`).

**`MigrationProofs`** is what the last three rest on: lemmas about the statements of
all the revisions, none of them about a state of the container.

* What a schema can be. An interrupted migration has left a part of its work, and
  several may have been interrupted, one after the other. `Good(A, B)` is the set of
  schemas for the applied revisions `A` and those begun, `B`: what `A` has made is there
  unless something in `B` takes it away (`Owed`), nothing is there that `B` has not made
  or that `A` has taken away (`Allowed`), and whatever a table mentions exists
  (`Consistent`). None of the three properties is inductive without it: they say
  nothing of the schemas on the way.
* What a migration does. `Runs(t, s, P, Q, strict)` says that the statements `t`, one
  after the other from the schema `s`, stay in `P` and end in `Q`, and that none is
  refused if `strict`. It is the existence of a set closed under doing the first
  statement, not a recursion, so that it can be composed without induction over the
  sequence (`RunsThen`, `RunsAlong`). `StatementsRun`, a lemma per revision before it:
  from every schema in `Good(A, B)` the statements of the next revision run through such
  schemas to one with the revision applied; none is refused, unless the revision is one
  of the nine and had begun before.
* The order of the revisions. `Known` is a recursive function over `Down`; `Rank`
  numbers the layers of the revisions, and `KnownIsUp` shows, layer by layer, that a
  container knows exactly those below its own. So nothing is pending only when all it
  knows is applied (`NonePending`), and the newest knows all.
* What becomes of the rows. `Simplifying` says how far the 22 statements of
  `4b91c7d8e205` are: the new columns are filled by the tenth and the eleventh, and the
  old ones go only after a statement on the schema has committed that.

`Write` was found too generous by this proof: it let containers that know
`4b91c7d8e205`, but not the last revision, write rows of before, which no such container
does.

Stays with TLC:

* Everything under fairness (`EventuallyCurrent`, `NotificationServed`,
  `PaidIsApplied`, `DeliveredIsFinished`, `PaidReachesMoySklad`, `Recovers`): liveness
  is out of the prover's reach.
* What a sum is, for every number of lines (induction over data). `CheckoutProofs`
  needs only that equal receipts have equal sums.

## 5. Plan

1. Done: `SyncQueue`, `CatalogMirror`; `Payments`; `Shipment`; `OutboundOrder`;
   `CatalogImport` and `Storefront`; `Checkout`; `Migrations`,
   `WebhookRegistration`, `ServerSettings` and `Deployment`. Proved: every safety
   property of the queue, payments, shipments, outbound orders, the catalog, receipts,
   webhooks, settings and migrations.
2. `OrderLifecycle`: an abstract specification of the status of a purchase, which
   `Payments`, `Shipment` and `OutboundOrder` implement.
3. The TTL caches of the CDEK lookups, the images of products and the script that
   optimises them in S3.

### Not modelled

Authentication (stateless tokens and roles), static pages, translations, feedback
and the log of changes (single transactions whose states do not interact), logging
and middleware, the page for development, the schemas (pure validation), the
integrations' configuration (one document, validated and stored), lookups of
tariffs and places at CDEK (read-only, with caches), courier pickup and the
subscription to CDEK's webhooks, files of images.

## 6. Running

    tlc -workers 2 -config SyncQueue_safety.cfg MCSyncQueue
    tlapm SyncQueueProofs.tla

Runs of `SyncQueue_*`, `Payments_*` and `Shipment_*` use `MCSyncQueue`, `MCPayments`
and `MCShipment`, the others `MCOutboundOrder`, `MCCatalog`, `MCCheckout` and
`MCDeployment`. The longest takes about three minutes on two cores. The
proof modules are checked one by one, from nothing in some minutes each;
`DeploymentProofs` uses `MigrationProofs`.
