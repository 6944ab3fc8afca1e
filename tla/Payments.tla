------------------------------ MODULE Payments ------------------------------
(***************************************************************************)
(* One purchase and its YooKassa payments: the handlers of                 *)
(* api/purchases.py, api/payments.py and api/yookassa.py with              *)
(* services/payment_sync.py, run concurrently by the request slots of the  *)
(* event loop.  A handler is split where it awaits the provider or another *)
(* transaction, so it acts on what its session read before.                *)
(*                                                                         *)
(* The module describes a purchase without a CDEK delivery, with           *)
(* MOYSKLAD_CHECKOUT_SYNC_ENABLED at its default FALSE (every call to      *)
(* MoySklad returns at once).  Prices stand for the whole list of items;   *)
(* YooKassa captures at once, so paid is the same as status = "succeeded". *)
(*                                                                         *)
(* The code sets no isolation level.  The purchase is the latest committed *)
(* one after lock_purchase, whose UPDATE touches it (but for two UPDATEs   *)
(* in one second, when MySQL writes nothing: not described); the payment   *)
(* is then the one of the transaction's first read.                        *)
(***************************************************************************)
EXTENDS Naturals, FiniteSets

CONSTANTS
  Requests,     \* request slots: handlers in progress at the same time
  NoRequest,    \* nobody holds the row lock of the purchase
  Kinds,        \* which handlers clients, staff and YooKassa call
  PastReaders,  \* which handlers read, under the row lock, what was committed at
                \* their first read: both that lock before they read the payment,
                \* in production (MySQL REPEATABLE READ), none in DEV (SQLite)
  Prices,       \* order totals
  MaxPayments,  \* bound: rows of the payments table
  MaxCrashes    \* bound: restarts of the process

AllKinds == {"create", "repay", "refresh", "webhook", "patch", "deliver", "finish"}

ASSUME PaymentsAssumption ==
  /\ NoRequest \notin Requests
  /\ Kinds \subseteq AllKinds
  /\ PastReaders \subseteq {"create", "patch"}
  /\ Prices # {} /\ Prices \subseteq Nat
  /\ MaxPayments \in Nat \ {0}
  /\ MaxCrashes \in Nat

VARIABLES
  purchase,  \* the purchases row: status, payment_id (0: NULL), final_price
  payments,  \* the payments table
  provider,  \* YooKassa's payments, by idempotency key
  nextId,    \* next payments.id; ids are not used again after a rollback
  lock,      \* who holds the row lock taken by lock_purchase
  req,       \* the handler of each slot: what its session holds
  acked,     \* payments whose success notification was answered with 200
  crashes

vars == <<purchase, payments, provider, nextId, lock, req, acked, crashes>>

Ids == 1 .. MaxPayments
\* Key 0 is purchase-<uuid>, used for a first payment; the others are random.
Keys == 0 .. MaxPayments

PurchaseStatus == {"created", "awaiting_payment", "assembling", "delivering", "finished"}
PaymentStatus == {"pending", "succeeded", "canceled", "failed"}

NoRow == [status |-> "none", amount |-> 0, key |-> 0, ext |-> FALSE, url |-> FALSE]
Row(i) == IF i = 0 THEN NoRow ELSE payments[i]

\* What a transaction that has not read yet, or reads the latest, has read.
Unread == [i \in Ids |-> NoRow]

NoOrder == [status |-> "none", pay |-> 0, price |-> 0]

Idle == [pc |-> "idle", kind |-> "none", snap |-> Unread, pid |-> 0, order |-> NoOrder,
         base |-> NoRow, row |-> NoRow, dropped |-> 0]

Exists == purchase.status # "none"

Init ==
  /\ purchase = NoOrder
  /\ payments = [i \in Ids |-> NoRow]
  /\ provider = [k \in Keys |-> [status |-> "none", amount |-> 0, url |-> FALSE]]
  /\ nextId = 1
  /\ lock = NoRequest
  /\ req = [r \in Requests |-> Idle]
  /\ acked = {}
  /\ crashes = 0

-----------------------------------------------------------------------------
(* Sessions.                                                               *)

At(r, pc) == req[r].pc = pc

Free(kind) == {r \in Requests : req[r].pc = "idle" /\ kind \in Kinds}

\* The payments as the transaction that begins now reads them from then on.
Snapshot(kind) == IF kind \in PastReaders THEN payments ELSE Unread

\* The payment that a handler reads under the lock.
Seen(r, i) ==
  IF i = 0 THEN NoRow
  ELSE IF req[r].kind \in PastReaders /\ ~At(r, "start") THEN req[r].snap[i]
  ELSE payments[i]

\* The end of a request, by an answer or an exception: the session is closed,
\* what it has not committed is rolled back and its row lock is released.
Close(r) ==
  /\ req' = [req EXCEPT ![r] = Idle]
  /\ lock' = IF lock = r THEN NoRequest ELSE lock

\* (mutant) Every loaded attribute is written, changed or not.
FlushAll(old, base, new) == new

\* A flush writes the attributes that differ from what the session loaded.
Flush(old, base, new) ==
  [f \in DOMAIN old |-> IF base.status = "none" \/ new[f] # base[f] THEN new[f] ELSE old[f]]

\* The rows a commit leaves: the session's payment, and the one it has canceled
\* before it made another.
Saved(r) ==
  [i \in Ids |-> IF i = req[r].pid THEN Flush(payments[i], req[r].base, req[r].row)
                 ELSE IF i = req[r].dropped THEN [payments[i] EXCEPT !.status = "canceled", !.url = FALSE]
                 ELSE payments[i]]

-----------------------------------------------------------------------------
(* apply_successful_payment, in the transaction it opens after the commit  *)
(* of the payment.                                                         *)

\* (mutant) The purchase is not checked against the payment.
AppliesAny(i) == purchase.status \in {"created", "awaiting_payment"}

\* A superseded payment must not update the current order.
Applies(i) ==
  /\ purchase.pay = i
  /\ purchase.status \in {"created", "awaiting_payment"}

Acknowledge(r) ==
  acked' = IF req[r].kind = "webhook" /\ req[r].row.status = "succeeded"
             THEN acked \cup {req[r].pid} ELSE acked

\* What a handler still needs once it has committed a payment that succeeded.
Applying(q, row) ==
  [Idle EXCEPT !.pc = "apply", !.kind = q.kind, !.pid = q.pid, !.row = row]

\* (mutant) The purchase takes the payment's status.
ApplyStatus(r) ==
  /\ At(r, "apply")
  /\ lock = NoRequest
  /\ purchase' = IF Applies(req[r].pid) THEN [purchase EXCEPT !.status = req[r].row.status] ELSE purchase
  /\ Acknowledge(r)
  /\ Close(r)
  /\ UNCHANGED <<payments, provider, nextId, crashes>>

Apply(r) ==
  /\ At(r, "apply")
  /\ lock = NoRequest
  /\ purchase' = IF Applies(req[r].pid) THEN [purchase EXCEPT !.status = "assembling"] ELSE purchase
  /\ Acknowledge(r)
  /\ Close(r)
  /\ UNCHANGED <<payments, provider, nextId, crashes>>

-----------------------------------------------------------------------------
(* refresh_payment_state (GET by-uuid, GET payment, and the start of a     *)
(* repayment) and the webhook, which asks YooKassa instead of trusting the *)
(* event.  None of them holds the lock of the purchase.                    *)

Load(r, kind, i, pc) ==
  /\ req' = [req EXCEPT ![r] = [Idle EXCEPT !.pc = pc, !.kind = kind, !.pid = i,
               !.order = IF kind = "repay" THEN purchase ELSE NoOrder, !.base = Row(i), !.row = Row(i)]]
  /\ UNCHANGED <<purchase, payments, provider, nextId, lock, acked, crashes>>

BeginRefresh(r, i) ==
  /\ r \in Free("refresh")
  /\ payments[i].status # "none"
  /\ \/ payments[i].status = "succeeded" /\ Load(r, "refresh", i, "apply")
     \/ payments[i].status # "succeeded" /\ payments[i].ext /\ Load(r, "refresh", i, "get")

BeginWebhook(r, i) ==
  /\ r \in Free("webhook")
  /\ payments[i].ext
  /\ provider[payments[i].key].status \in {"succeeded", "canceled"}
  /\ Load(r, "webhook", i, "get")

BeginRepay(r) ==
  /\ r \in Free("repay")
  /\ LET row == Row(purchase.pay)
     IN  \/ row.status = "succeeded" /\ Load(r, "repay", purchase.pay, "apply")
         \/ row.status # "succeeded" /\ row.ext /\ Load(r, "repay", purchase.pay, "get")
         \/ ~row.ext /\ purchase.status = "awaiting_payment" /\ Load(r, "repay", purchase.pay, "card")

Get(r) ==
  /\ At(r, "get")
  /\ req' = [req EXCEPT ![r].row.status = provider[req[r].row.key].status, ![r].pc = "write"]
  /\ UNCHANGED <<purchase, payments, provider, nextId, lock, acked, crashes>>

GetFails(r) ==
  /\ At(r, "get")
  /\ Close(r)
  /\ UNCHANGED <<purchase, payments, provider, nextId, acked, crashes>>

\* The payment is committed, and read again except by the webhook; then it is
\* applied, or a repayment goes on with the purchase its session has loaded, or
\* the request is answered.
Write(r) ==
  /\ At(r, "write")
  /\ payments' = Saved(r)
  /\ LET row == IF req[r].kind = "webhook" THEN req[r].row ELSE payments'[req[r].pid]
     IN  \/ /\ row.status = "succeeded"
            /\ req' = [req EXCEPT ![r] = Applying(@, row)]
            /\ UNCHANGED <<lock, acked>>
         \/ /\ row.status # "succeeded" /\ req[r].kind = "repay"
            /\ req[r].order.status = "awaiting_payment"
            /\ req' = [req EXCEPT ![r].pc = "card", ![r].base = row, ![r].row = row]
            /\ UNCHANGED <<lock, acked>>
         \/ /\ row.status # "succeeded"
            /\ req[r].kind = "repay" => req[r].order.status # "awaiting_payment"
            /\ Acknowledge(r)
            /\ Close(r)
  /\ UNCHANGED <<purchase, provider, nextId, crashes>>

-----------------------------------------------------------------------------
(* _create_card_payment_for_purchase.                                      *)

\* A payment that succeeded, or that is open for the amount, is returned.
Keeps(q) ==
  \/ q.row.status = "succeeded"
  \/ q.row.status = "pending" /\ q.row.amount = q.order.price /\ q.row.url

CardKeep(r) ==
  /\ At(r, "card")
  /\ Keeps(req[r])
  /\ req' = [req EXCEPT ![r].pc = "commit"]
  /\ UNCHANGED <<purchase, payments, provider, nextId, lock, acked, crashes>>

\* YooKassa creates one payment per idempotency key and repeats its answer.
Accepts(key, amount, url) ==
  /\ provider[key].status = "none" \/ provider[key] = [provider[key] EXCEPT !.amount = amount, !.url = url]
  /\ provider' = [provider EXCEPT ![key] =
       IF @.status = "none" THEN [status |-> "pending", amount |-> amount, url |-> url] ELSE @]

\* (mutant) A refused payment is committed as it was prepared.
CallUnmarked(r, q) ==
  \/ \E url \in BOOLEAN :
       /\ Accepts(q.row.key, q.order.price, url)
       /\ req' = [req EXCEPT ![r] = [q EXCEPT !.pc = "commit",
                    !.row = [@ EXCEPT !.ext = TRUE, !.status = provider'[q.row.key].status, !.url = url]]]
       /\ UNCHANGED lock
  \/ req' = [req EXCEPT ![r] = [q EXCEPT !.pc = "commit"]] /\ UNCHANGED <<provider, lock>>

\* The call to POST /payments for the row the session has prepared: accepted;
\* refused, which is committed as a failed payment; or no answer, an exception
\* that is not a JSRError, which rolls the row back whether or not YooKassa
\* has created the payment.
Call(r, q) ==
  \/ \E url \in BOOLEAN :
       /\ Accepts(q.row.key, q.order.price, url)
       /\ req' = [req EXCEPT ![r] = [q EXCEPT !.pc = "commit",
                    !.row = [@ EXCEPT !.ext = TRUE, !.status = provider'[q.row.key].status, !.url = url]]]
       /\ UNCHANGED lock
  \/ /\ req' = [req EXCEPT ![r] = [q EXCEPT !.pc = "commit", !.row = [@ EXCEPT !.status = "failed"]]]
     /\ UNCHANGED <<provider, lock>>
  \/ /\ UNCHANGED provider \/ \E url \in BOOLEAN : Accepts(q.row.key, q.order.price, url)
     /\ Close(r)

\* An open payment that was created without a confirmation URL is asked for again.
CardReuse(r) ==
  /\ At(r, "card")
  /\ req[r].row.status = "pending" /\ req[r].row.amount = req[r].order.price /\ ~req[r].row.url
  /\ Call(r, req[r])
  /\ UNCHANGED <<purchase, payments, nextId, acked, crashes>>

\* The idempotency key of a new payment; it is unique.
NewKey(q) == IF q.pid = 0 THEN 0 ELSE nextId

Taken(key) == \E i \in Ids : payments[i].status # "none" /\ payments[i].key = key

CardNew(r) ==
  /\ At(r, "card")
  /\ ~Keeps(req[r])
  /\ req[r].row.status = "pending" => req[r].row.amount # req[r].order.price
  /\ \/ /\ nextId \in Ids /\ ~Taken(NewKey(req[r]))
        /\ nextId' = nextId + 1
        /\ Call(r, [req[r] EXCEPT
             !.pid = nextId, !.order.pay = nextId, !.base = NoRow,
             !.row = [status |-> "pending", amount |-> req[r].order.price, ext |-> FALSE,
                      url |-> FALSE, key |-> NewKey(req[r])]])
     \/ /\ nextId \notin Ids \/ Taken(NewKey(req[r]))  \* the bound, or an IntegrityError
        /\ Close(r)
        /\ UNCHANGED <<provider, nextId>>
  /\ UNCHANGED <<purchase, payments, acked, crashes>>

\* (mutant) The new price of an edited purchase is not saved.
OrderedKeepingPrice(q) == [purchase EXCEPT !.status = q.order.status, !.pay = q.order.pay]

\* What the commit writes to the purchase.  A repayment, which has not called
\* lock_purchase, has changed payment_id alone, if it has made a new payment:
\* its UPDATE waits for the row lock, but not for what the row says by then.
Ordered(q) ==
  IF q.kind # "repay" THEN q.order
  ELSE IF q.base.status = "none" THEN [purchase EXCEPT !.pay = q.order.pay]
  ELSE purchase

\* (mutant) The payment is not applied after the commit.
CommitOnly(r) ==
  /\ At(r, "commit")
  /\ lock \in {r, NoRequest}
  /\ payments' = Saved(r)
  /\ purchase' = Ordered(req[r])
  /\ Close(r)
  /\ UNCHANGED <<provider, nextId, acked, crashes>>

Commit(r) ==
  /\ At(r, "commit")
  /\ lock \in {r, NoRequest}
  /\ payments' = Saved(r)
  /\ purchase' = Ordered(req[r])
  /\ lock' = NoRequest
  /\ LET row == payments'[req[r].pid]
     IN  req' = [req EXCEPT ![r] = IF row.status = "succeeded"
                                     THEN Applying(@, row)
                                     ELSE Idle]
  /\ UNCHANGED <<provider, nextId, acked, crashes>>

-----------------------------------------------------------------------------
(* POST /api/purchases/ with an Idempotency-Key.                           *)
BeginCreate(r, price) ==
  /\ r \in Free("create")
  /\ req' = [req EXCEPT ![r] = [Idle EXCEPT !.kind = "create", !.order.price = price,
                                            !.pc = IF Exists THEN "retry" ELSE "insert",
                                            !.snap = IF Exists THEN Snapshot("create") ELSE Unread]]
  /\ UNCHANGED <<purchase, payments, provider, nextId, lock, acked, crashes>>

\* The insert, or the IntegrityError of the request that came second and looks
\* the purchase up; both go on to the payment, in a transaction that begins with
\* the lock or with that read, the second without looking at the status.
CreateInsert(r) ==
  /\ At(r, "insert")
  /\ purchase' = IF Exists THEN purchase
                 ELSE [status |-> "created", pay |-> 0, price |-> req[r].order.price]
  /\ req' = [req EXCEPT ![r].pc = IF Exists THEN "second" ELSE "start",
                         ![r].snap = IF Exists THEN Snapshot("create") ELSE Unread]
  /\ UNCHANGED <<payments, provider, nextId, lock, acked, crashes>>

\* lock_purchase: the session reads the committed purchase, and the payment.
Locked(r, pc, order) ==
  /\ lock = NoRequest
  /\ lock' = r
  /\ LET row == Seen(r, order.pay)
     IN  req' = [req EXCEPT ![r] = [Idle EXCEPT !.pc = pc, !.kind = req[r].kind, !.order = order,
                   !.pid = IF row.status = "none" THEN 0 ELSE order.pay, !.base = row, !.row = row]]
  /\ UNCHANGED <<purchase, payments, provider, nextId, acked, crashes>>

CreateStart(r) ==
  /\ At(r, "start") \/ At(r, "second") \/ (At(r, "retry") /\ purchase.status \in {"created", "awaiting_payment"})
  /\ Locked(r, "card", [purchase EXCEPT !.status = "awaiting_payment"])

CreateReturns(r) ==
  /\ At(r, "retry")
  /\ lock = NoRequest
  /\ purchase.status \notin {"created", "awaiting_payment"}
  /\ Close(r)
  /\ UNCHANGED <<purchase, payments, provider, nextId, acked, crashes>>

-----------------------------------------------------------------------------
(* PATCH /api/purchases/{id} of products or contact.  The total is computed*)
(* from the catalog of the day, so it may change without an edited item.   *)
Changed(row, price, edited) ==
  edited \/ (row.status # "none" /\ row.amount # price)

BeginPatch(r) ==
  /\ r \in Free("patch")
  /\ Exists
  /\ req' = [req EXCEPT ![r] = [Idle EXCEPT !.kind = "patch", !.pc = "patch",
                                            !.snap = Snapshot("patch")]]
  /\ UNCHANGED <<purchase, payments, provider, nextId, lock, acked, crashes>>

\* (mutant) The open payment of the old amount is left alone.
CancelsNever(row, price, edited) == FALSE

Cancels(row, price, edited) ==
  /\ purchase.status = "awaiting_payment"
  /\ Changed(row, price, edited)
  /\ row.status = "pending"

\* "Cannot change payment details for an already paid purchase"
PatchRefused(row, price, edited) ==
  /\ purchase.status = "awaiting_payment"
  /\ Changed(row, price, edited)
  /\ row.status = "succeeded"

Patch(r, price, edited) ==
  /\ At(r, "patch")
  /\ ~PatchRefused(Seen(r, purchase.pay), price, edited)
  /\ Locked(r, IF Cancels(Seen(r, purchase.pay), price, edited) THEN "cancel" ELSE "card",
            [purchase EXCEPT !.price = price, !.status = "awaiting_payment"])

PatchFails(r) ==
  /\ At(r, "patch")
  /\ lock = NoRequest
  /\ \E price \in Prices, edited \in BOOLEAN : PatchRefused(Seen(r, purchase.pay), price, edited)
  /\ Close(r)
  /\ UNCHANGED <<purchase, payments, provider, nextId, acked, crashes>>

\* YooKassa cancels an open payment; the call may fail and yet be performed.
CancelAt(key) ==
  /\ provider[key].status = "pending"
  /\ provider' = [provider EXCEPT ![key].status = "canceled"]

Cancel(r) ==
  /\ At(r, "cancel")
  /\ CancelAt(req[r].row.key)
  /\ req' = [req EXCEPT ![r].pc = "card", ![r].dropped = req[r].pid,
                              ![r].row = [@ EXCEPT !.status = "canceled", !.url = FALSE]]
  /\ UNCHANGED <<purchase, payments, nextId, lock, acked, crashes>>

CancelFails(r) ==
  /\ At(r, "cancel")
  /\ UNCHANGED provider \/ CancelAt(req[r].row.key)
  /\ Close(r)
  /\ UNCHANGED <<purchase, payments, nextId, acked, crashes>>

(* PUT and POST /api/purchases/{id}: one transaction each.                 *)
SetStatus(kind, status) ==
  /\ kind \in Kinds
  /\ Exists
  /\ lock = NoRequest
  /\ purchase' = [purchase EXCEPT !.status = status]
  /\ UNCHANGED <<payments, provider, nextId, lock, req, acked, crashes>>

MarkDelivering == SetStatus("deliver", "delivering")

Finish == SetStatus("finish", "finished")

-----------------------------------------------------------------------------
(* YooKassa and its customers.  A customer pays where a committed payment  *)
(* has shown the confirmation URL; an open payment may also expire.        *)
Payable(k) ==
  provider[k].status = "pending" /\ \E i \in Ids : payments[i].key = k /\ payments[i].ext /\ payments[i].url

Settle(k, status) ==
  /\ provider' = [provider EXCEPT ![k].status = status]
  /\ UNCHANGED <<purchase, payments, nextId, lock, req, acked, crashes>>

Pay(k) == Payable(k) /\ Settle(k, "succeeded")

ProviderExpires(k) == provider[k].status = "pending" /\ Settle(k, "canceled")

Crash ==
  /\ crashes < MaxCrashes
  /\ crashes' = crashes + 1
  /\ req' = [r \in Requests |-> Idle]
  /\ lock' = NoRequest
  /\ UNCHANGED <<purchase, payments, provider, nextId, acked>>

Begin(r) ==
  \/ \E price \in Prices : BeginCreate(r, price)
  \/ \E i \in Ids : BeginRefresh(r, i) \/ BeginWebhook(r, i)
  \/ BeginRepay(r) \/ BeginPatch(r)

Step(r) ==
  \/ Get(r) \/ GetFails(r) \/ Write(r) \/ Apply(r)
  \/ CardKeep(r) \/ CardReuse(r) \/ CardNew(r) \/ Commit(r)
  \/ CreateInsert(r) \/ CreateStart(r) \/ CreateReturns(r)
  \/ \E price \in Prices, edited \in BOOLEAN : Patch(r, price, edited)
  \/ PatchFails(r) \/ Cancel(r) \/ CancelFails(r)

Next ==
  \/ \E r \in Requests : Begin(r) \/ Step(r)
  \/ MarkDelivering \/ Finish
  \/ \E k \in Keys : Pay(k) \/ ProviderExpires(k)
  \/ Crash

Spec == Init /\ [][Next]_vars

-----------------------------------------------------------------------------
(* Fairness.  A handler goes on; a transaction that waits for the row lock *)
(* gets it in the end (InnoDB queues the waiters), and a request to        *)
(* YooKassa that is repeated is answered in the end.                       *)
Answered(kind, i) == \E r \in Requests : req[r].kind = kind /\ req[r].pid = i /\ Get(r)

Applied(i) == \E r \in Requests : req[r].pid = i /\ Apply(r)

Progress(kind) ==
  /\ \A r \in Requests : WF_vars(Step(r))
  /\ \A i \in Ids : SF_vars(Applied(i)) /\ SF_vars(Answered(kind, i))

Notify(r, i) == i \notin acked /\ BeginWebhook(r, i)

\* YooKassa repeats a notification until it is answered with 200.
NotifiedSpec ==
  Spec /\ Progress("webhook") /\ \A i \in Ids : SF_vars(\E r \in Requests : Notify(r, i))

=============================================================================
