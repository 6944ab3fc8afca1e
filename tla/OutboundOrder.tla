---------------------------- MODULE OutboundOrder ----------------------------
(***************************************************************************)
(* One purchase and its customer order at MoySklad                         *)
(* (services/purchase_sync.py), with MOYSKLAD_CHECKOUT_SYNC_ENABLED set.   *)
(* sync_purchase and sync_purchase_status run inside a transaction that    *)
(* holds the row lock of the purchase; MoySklad is called before the       *)
(* commit, so whatever happens in between leaves the remote order without  *)
(* the row of purchase_submissions that would name it.                     *)
(*                                                                         *)
(* What an order contains (positions, contact, prices) is one of Details.  *)
(* The payment is kept as far as it decides what is sent: its races are    *)
(* those of Payments.                                                      *)
(***************************************************************************)
EXTENDS Naturals, Sequences

CONSTANTS
  Requests,   \* request slots of the event loop
  NoRequest,  \* nobody holds the row lock of the purchase
  Kinds,      \* the handlers clients and staff call
  Details,    \* contents of the purchase
  MaxFaults,  \* bound: refused or lost calls and restarts of the process
  MaxOps      \* bound: changes by the staff, here and at MoySklad

AllKinds == {"create", "edit", "sync", "poll", "deliver", "finish"}

ASSUME OutboundAssumption ==
  /\ NoRequest \notin Requests
  /\ Kinds \subseteq AllKinds
  /\ Details # {} /\ 0 \notin Details
  /\ MaxFaults \in Nat
  /\ MaxOps \in Nat

VARIABLES
  purchase,  \* the purchases row: status, details
  linked,    \* purchase_submissions.order_id: the place in orders, 0 for no row
  payment,   \* the current payments row: status and the details it was made for
  provider,  \* YooKassa's state of that payment
  orders,    \* MoySklad's customer orders with this purchase's syncId
  lock,      \* who holds the row lock taken by lock_purchase
  req,       \* the handler of each slot: what its session holds
  faults,
  ops

vars == <<purchase, linked, payment, provider, orders, lock, req, faults, ops>>

NoPurchase == [status |-> "none", details |-> 0]

NoPayment == [status |-> "none", details |-> 0]

NoRemote == [details |-> 0, status |-> "none", paid |-> FALSE]

Idle == [pc |-> "idle", kind |-> "none", patch |-> FALSE, stale |-> FALSE, known |-> 0,
         found |-> 0, order |-> NoPurchase, pay |-> NoPayment, read |-> NoRemote]

Exists == purchase.status # "none"

Init ==
  /\ purchase = NoPurchase
  /\ linked = 0
  /\ payment = NoPayment
  /\ provider = "none"
  /\ orders = <<>>
  /\ lock = NoRequest
  /\ req = [r \in Requests |-> Idle]
  /\ faults = 0
  /\ ops = 0

-----------------------------------------------------------------------------
(* Sessions and calls.                                                     *)

At(r, pc) == req[r].pc = pc

Free(kind) == {r \in Requests : req[r].pc = "idle" /\ kind \in Kinds}

\* The end of a request: what is not committed is rolled back.
Close(r) ==
  /\ req' = [req EXCEPT ![r] = Idle]
  /\ lock' = IF lock = r THEN NoRequest ELSE lock

Fault == faults < MaxFaults /\ faults' = faults + 1

\* httpx.HTTPError and MoySkladError become a JSRError 502, and the session is
\* rolled back.
CallFails(r) == Fault /\ Close(r)

\* The order is a function of what the session holds; the first description is
\* written from scratch, without the line of the payment.
Payload(q) == [details |-> q.order.details, status |-> q.order.status, paid |-> FALSE]

-----------------------------------------------------------------------------
(* Requests.                                                               *)

Enter(r, q) ==
  /\ req' = [req EXCEPT ![r] = q]
  /\ UNCHANGED <<purchase, linked, payment, provider, orders, lock, faults>>

\* POST /api/purchases/ with an Idempotency-Key: a purchase that exists is
\* patched, a new one is inserted.
BeginCreate(r, d) ==
  /\ r \in Free("create")
  /\ Enter(r, [Idle EXCEPT !.kind = "create", !.pc = IF Exists THEN "start" ELSE "insert",
                           !.patch = Exists, !.stale = Exists, !.order.details = d])
  /\ UNCHANGED ops

\* PATCH, POST /sync, PUT and POST of a purchase.  The staff dependency has read
\* the database before the lock is taken.
BeginStaff(r, kind, d) ==
  /\ r \in Free(kind)
  /\ kind \in {"edit", "sync", "deliver", "finish"}
  /\ Exists
  /\ ops < MaxOps /\ ops' = ops + 1
  /\ Enter(r, [Idle EXCEPT !.kind = kind, !.pc = "start", !.patch = (kind = "edit"),
                           !.stale = TRUE, !.order.details = d])

\* (mutant) A payment known to have succeeded needs no second look.
BeginPollOnce(r) ==
  /\ r \in Free("poll")
  /\ payment.status \notin {"none", "succeeded"}
  /\ Enter(r, [Idle EXCEPT !.kind = "poll", !.pc = "get"])
  /\ UNCHANGED ops

\* GET by-uuid, GET payment and YooKassa's notification: refresh_payment_state.
BeginPoll(r) ==
  /\ r \in Free("poll")
  /\ payment.status # "none"
  /\ Enter(r, [Idle EXCEPT !.kind = "poll",
                           !.pc = IF payment.status = "succeeded" THEN "apply" ELSE "get"])
  /\ UNCHANGED ops

\* The insert, or the IntegrityError of the request that came second, which
\* reads the purchase of the first and goes on.
Insert(r) ==
  /\ At(r, "insert")
  /\ purchase' = IF Exists THEN purchase ELSE [status |-> "created", details |-> req[r].order.details]
  /\ req' = [req EXCEPT ![r].pc = "start", ![r].stale = Exists]
  /\ UNCHANGED <<linked, payment, provider, orders, lock, faults, ops>>

\* What the session reads of purchase_submissions after lock_purchase: under
\* REPEATABLE READ a transaction that has read before the lock may miss the row.
Known(r) == IF req[r].stale THEN {0, linked} ELSE {linked}

Locked(r, pc, order) ==
  /\ lock = NoRequest
  /\ lock' = r
  /\ \E known \in Known(r) :
       req' = [req EXCEPT ![r].pc = pc, ![r].order = order, ![r].pay = payment, ![r].known = known]
  /\ UNCHANGED <<purchase, linked, payment, provider, orders, faults, ops>>

\* (mutant) The purchase takes the name of the payment's status.
AwaitingPending(d) == [status |-> "pending", details |-> d]

Awaiting(d) == [status |-> "awaiting_payment", details |-> d]

CreateStart(r) ==
  /\ At(r, "start") /\ req[r].kind = "create"
  /\ req[r].patch => purchase.status \in {"created", "awaiting_payment"}
  /\ Locked(r, "look", Awaiting(purchase.details))

CreateReturns(r) ==
  /\ At(r, "start") /\ req[r].kind = "create"
  /\ lock = NoRequest
  /\ req[r].patch /\ purchase.status \notin {"created", "awaiting_payment"}
  /\ Close(r)
  /\ UNCHANGED <<purchase, linked, payment, provider, orders, faults, ops>>

Changes(r) ==
  /\ purchase.status = "awaiting_payment"
  /\ payment.status # "none"
  /\ purchase.details # req[r].order.details \/ payment.details # req[r].order.details

\* An edit; it first cancels an open payment of other details.
EditStart(r) ==
  /\ At(r, "start") /\ req[r].kind = "edit"
  /\ ~(Changes(r) /\ payment.status = "succeeded")
  /\ Locked(r, IF Changes(r) /\ payment.status = "pending" THEN "cancel" ELSE "look",
            Awaiting(req[r].order.details))

EditRefused(r) ==
  /\ At(r, "start") /\ req[r].kind = "edit"
  /\ lock = NoRequest
  /\ Changes(r) /\ payment.status = "succeeded"
  /\ Close(r)
  /\ UNCHANGED <<purchase, linked, payment, provider, orders, faults, ops>>

\* YooKassa does not cancel what is paid; the answer may be lost.
Cancel(r) ==
  /\ At(r, "cancel")
  /\ \/ /\ provider \in {"pending", "canceled"}
        /\ provider' = "canceled"
        /\ req' = [req EXCEPT ![r].pc = "look", ![r].pay = [@ EXCEPT !.status = "canceled"]]
        /\ UNCHANGED <<lock, faults>>
     \/ provider = "succeeded" /\ Close(r) /\ UNCHANGED <<provider, faults>>
     \/ provider = "pending" /\ provider' = "canceled" /\ CallFails(r)
  /\ UNCHANGED <<purchase, linked, payment, orders, ops>>

\* POST /sync.
SyncStart(r) ==
  /\ At(r, "start") /\ req[r].kind = "sync"
  /\ Locked(r, "look", purchase)

\* PUT and POST of a purchase without a CDEK delivery.
StatusStart(r) ==
  /\ At(r, "start")
  /\ \/ req[r].kind = "deliver" /\ Locked(r, "status", [purchase EXCEPT !.status = "delivering"])
     \/ req[r].kind = "finish" /\ Locked(r, "status", [purchase EXCEPT !.status = "finished"])

-----------------------------------------------------------------------------
(* sync_purchase.                                                          *)

\* (mutant) A purchase without a submission has no order yet.
LookUnsearched(r) ==
  /\ At(r, "look")
  /\ req' = [req EXCEPT ![r].pc = "send", ![r].found = req[r].known]
  /\ UNCHANGED <<purchase, linked, payment, provider, orders, lock, faults, ops>>

\* The linked order by its id, or a search by syncId with limit 2: more than one
\* is a conflict.
Look(r) ==
  /\ At(r, "look")
  /\ \/ /\ req[r].known # 0 \/ Len(orders) < 2
        /\ req' = [req EXCEPT ![r].pc = "send",
                              ![r].found = IF req[r].known # 0 THEN req[r].known ELSE Len(orders)]
        /\ UNCHANGED <<lock, faults>>
     \/ req[r].known = 0 /\ Len(orders) > 1 /\ Close(r) /\ UNCHANGED faults
     \/ CallFails(r)
  /\ UNCHANGED <<purchase, linked, payment, provider, orders, ops>>

\* (mutant) An order that is found is only linked.
SentOnce(q) == IF q.found = 0 THEN Append(orders, Payload(q)) ELSE orders

\* The remote order after POST, PUT, or neither.
Sent(q) ==
  IF q.found = 0 THEN Append(orders, Payload(q))
  ELSE IF q.patch THEN [orders EXCEPT ![q.found] = Payload(q)]
  ELSE orders

\* The insert of the submission violates its unique key when the session has
\* missed a committed one: an exception nobody catches.
Flushes(q) == q.known # 0 \/ linked = 0

\* The call answers; or it fails, performed or not.
Send(r) ==
  /\ At(r, "send")
  /\ LET q == req[r] IN
     \/ /\ orders' = Sent(q)
        /\ UNCHANGED faults
        /\ IF Flushes(q)
             THEN /\ req' = [req EXCEPT ![r].pc = IF q.kind = "sync" THEN "link" ELSE "card",
                                        ![r].found = IF q.found = 0 THEN Len(orders') ELSE q.found]
                  /\ UNCHANGED lock
             ELSE Close(r)
     \/ orders' \in {orders, Sent(q)} /\ CallFails(r)
  /\ UNCHANGED <<purchase, linked, payment, provider, ops>>

\* The commit of POST /sync.
Link(r) ==
  /\ At(r, "link")
  /\ linked' = req[r].found
  /\ Close(r)
  /\ UNCHANGED <<purchase, payment, provider, orders, faults, ops>>

-----------------------------------------------------------------------------
(* _create_card_payment_for_purchase and the commit that follows it.       *)

\* (mutant) The submission is added and not saved.
SaveUnlinked(q) == purchase' = q.order /\ linked' = linked

Save(q) == purchase' = q.order /\ linked' = q.found

Keeps(q) ==
  \/ q.pay.status = "succeeded"
  \/ q.pay.status = "pending" /\ q.pay.details = q.order.details

CardKeep(r) ==
  /\ At(r, "card")
  /\ Keeps(req[r])
  /\ Save(req[r])
  /\ lock' = NoRequest
  /\ req' = [req EXCEPT ![r] = IF payment.status = "succeeded"
                                 THEN [Idle EXCEPT !.pc = "apply", !.kind = req[r].kind] ELSE Idle]
  /\ UNCHANGED <<payment, provider, orders, faults, ops>>

\* Accepted; refused, which commits a failed payment; no answer, which rolls back.
CardNew(r) ==
  /\ At(r, "card")
  /\ ~Keeps(req[r])
  /\ \/ /\ Save(req[r])
        /\ payment' = [status |-> "pending", details |-> req[r].order.details]
        /\ provider' = "pending"
        /\ Close(r)
        /\ UNCHANGED faults
     \/ /\ Save(req[r])
        /\ payment' = [status |-> "failed", details |-> req[r].order.details]
        /\ provider' = "none"
        /\ CallFails(r)
     \/ CallFails(r) /\ UNCHANGED <<purchase, linked, payment, provider>>
  /\ UNCHANGED <<orders, ops>>

-----------------------------------------------------------------------------
(* refresh_payment_state, apply_successful_payment.                        *)

\* The state of the payment is asked for and committed.
Get(r) ==
  /\ At(r, "get")
  /\ \/ /\ payment.status = "pending"
        /\ payment' = [payment EXCEPT !.status = provider]
        /\ IF provider = "succeeded"
             THEN req' = [req EXCEPT ![r].pc = "apply"] /\ UNCHANGED lock
             ELSE Close(r)
     \/ payment.status # "pending" /\ Close(r) /\ UNCHANGED payment
  /\ UNCHANGED <<purchase, linked, provider, orders, faults, ops>>

\* The first transaction: the confirmed payment is applied whatever MoySklad does.
Apply(r) ==
  /\ At(r, "apply")
  /\ lock = NoRequest
  /\ purchase' = IF purchase.status \in {"created", "awaiting_payment"}
                   THEN [purchase EXCEPT !.status = "assembling"] ELSE purchase
  /\ req' = [req EXCEPT ![r].pc = "tell", ![r].stale = FALSE]
  /\ UNCHANGED <<linked, payment, provider, orders, lock, faults, ops>>

\* The second one tells MoySklad.
Tell(r) ==
  /\ At(r, "tell")
  /\ Locked(r, "status", purchase)

(* sync_purchase_status.                                                   *)

Pays(q) == q.kind \notin {"deliver", "finish"}

\* The description with the status lines put in place or appended.
Told(q) == [q.read EXCEPT !.status = q.order.status, !.paid = @ \/ Pays(q)]

\* An order that was never sent is not created by a payment event.
StatusSkips(r) ==
  /\ At(r, "status")
  /\ req[r].known = 0
  /\ purchase' = req[r].order
  /\ Close(r)
  /\ UNCHANGED <<linked, payment, provider, orders, faults, ops>>

StatusGet(r) ==
  /\ At(r, "status")
  /\ req[r].known # 0
  /\ \/ /\ req' = [req EXCEPT ![r].pc = "put", ![r].read = orders[req[r].known]]
        /\ UNCHANGED <<lock, faults>>
     \/ CallFails(r)
  /\ UNCHANGED <<purchase, linked, payment, provider, orders, ops>>

\* Nothing is sent when nothing has changed.  PUT leaves the positions alone.
Put(q) ==
  IF Told(q) = q.read THEN orders
  ELSE [orders EXCEPT ![q.known].status = Told(q).status, ![q.known].paid = Told(q).paid]

\* The call, and the commit.
StatusPut(r) ==
  /\ At(r, "put")
  /\ \/ /\ orders' = Put(req[r])
        /\ purchase' = req[r].order
        /\ Close(r)
        /\ UNCHANGED faults
     \/ orders' \in {orders, Put(req[r])} /\ CallFails(r) /\ UNCHANGED purchase
  /\ UNCHANGED <<linked, payment, provider, ops>>

-----------------------------------------------------------------------------
(* The customer, MoySklad's users, the process.                            *)

Pay ==
  /\ payment.status = "pending" /\ provider = "pending"
  /\ provider' = "succeeded"
  /\ UNCHANGED <<purchase, linked, payment, orders, lock, req, faults, ops>>

\* Somebody moves the order to another state or rewrites its description.
RemoteEdit ==
  /\ ops < MaxOps /\ ops' = ops + 1
  /\ \E i \in DOMAIN orders : orders' = [orders EXCEPT ![i].status = "other", ![i].paid = FALSE]
  /\ UNCHANGED <<purchase, linked, payment, provider, lock, req, faults>>

Crash ==
  /\ Fault
  /\ req' = [r \in Requests |-> Idle]
  /\ lock' = NoRequest
  /\ UNCHANGED <<purchase, linked, payment, provider, orders, ops>>

Begin(r) ==
  \/ \E d \in Details : BeginCreate(r, d) \/ BeginStaff(r, "edit", d)
  \/ \E kind \in {"sync", "deliver", "finish"} : BeginStaff(r, kind, 0)
  \/ BeginPoll(r)

Step(r) ==
  \/ Insert(r) \/ CreateStart(r) \/ CreateReturns(r) \/ EditStart(r) \/ EditRefused(r)
  \/ Cancel(r) \/ SyncStart(r) \/ StatusStart(r)
  \/ Look(r) \/ Send(r) \/ Link(r) \/ CardKeep(r) \/ CardNew(r)
  \/ Get(r) \/ Apply(r) \/ Tell(r) \/ StatusSkips(r) \/ StatusGet(r) \/ StatusPut(r)

Next ==
  \/ \E r \in Requests : Begin(r) \/ Step(r)
  \/ Pay \/ RemoteEdit \/ Crash

Spec == Init /\ [][Next]_vars

\* Handlers go on; a waiter for the row lock gets it; the storefront's tracking
\* page asks again and again; customers repeat a creation that was not answered.
Waits(r) == CreateStart(r) \/ EditStart(r) \/ SyncStart(r) \/ StatusStart(r) \/ Apply(r) \/ Tell(r)

TrackedSpec ==
  /\ Spec
  /\ \A r \in Requests : WF_vars(Step(r)) /\ SF_vars(Waits(r))
  /\ SF_vars(\E r \in Requests : BeginPoll(r))
  /\ SF_vars(\E r \in Requests : Exists /\ BeginCreate(r, purchase.details))

-----------------------------------------------------------------------------
(* Properties.                                                             *)

Statuses == {"created", "awaiting_payment", "assembling", "delivering", "finished"}

PaymentStatuses == {"none", "pending", "succeeded", "canceled", "failed"}

TypeOK ==
  /\ purchase \in [status : Statuses \cup {"none"}, details : Details \cup {0}]
  /\ linked \in 0 .. Len(orders)
  /\ payment \in [status : PaymentStatuses, details : Details \cup {0}]
  /\ provider \in PaymentStatuses
  /\ orders \in Seq([details : Details, status : Statuses \cup {"other"}, paid : BOOLEAN])
  /\ lock \in Requests \cup {NoRequest}
  /\ faults \in 0 .. MaxFaults /\ ops \in 0 .. MaxOps

\* One order per purchase, although POST may be performed and not be answered, the
\* process may stop before the submission is committed, and a session may miss a
\* submission: sync_purchase searches by syncId first, under the lock.
OneOrder == Len(orders) <= 1

\* The customer is asked to pay only for a purchase MoySklad has an order of:
\* sync_purchase comes before the payment, in the same transaction.  And every
\* variable keeps the type of its table or provider.
PaymentHasOrder == TypeOK /\ (payment.status # "none" => linked # 0)

\* When a changed purchase is committed, its order has been changed, too.
EditReachesMoySklad ==
  [][purchase.details # 0 /\ purchase'.details # purchase.details /\ linked' # 0
       => orders'[linked'].details = purchase'.details]_vars

Informed == linked # 0 /\ orders[linked].status = purchase.status /\ orders[linked].paid

\* In the end the order of a paid purchase says so and has the purchase's status,
\* although the transaction that tells MoySklad comes after the one that applies
\* the payment and may fail: refresh_payment_state tells it again.
PaidReachesMoySklad == <>[](payment.status = "succeeded" => Informed)
=============================================================================
