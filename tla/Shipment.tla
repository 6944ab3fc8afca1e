------------------------------ MODULE Shipment ------------------------------
(***************************************************************************)
(* The CDEK shipment of one paid purchase: the handlers of                 *)
(* services/cdek.py and services/cdek_webhooks.py, run concurrently by the *)
(* request slots of the event loop and by the background reconciliation.   *)
(* A handler that writes to CDEK commits a reservation under the row lock  *)
(* of the purchase, calls CDEK without it, and commits the answer.         *)
(*                                                                         *)
(* Payloads are versions.  The two kinds of document are handled alike:    *)
(* "waybill" stands for both.  The waybill number comes with the           *)
(* registration.  The account, and so check_identity, does not change; the *)
(* courier's pickup is not described.                                      *)
(*                                                                         *)
(* The code sets no isolation level.  The purchase is the latest committed *)
(* one after lock_purchase, whose UPDATE touches it (but for two UPDATEs   *)
(* in one second, when MySQL writes nothing: not described); the shipment  *)
(* is the one of the transaction's first read.                             *)
(***************************************************************************)
EXTENDS Naturals

CONSTANTS
  Requests,    \* request slots: handlers in progress at the same time
  NoRequest,   \* nobody holds the row lock of the purchase
  Kinds,       \* which handlers staff, the poller and CDEK call
  PastReaders, \* which handlers may read, under the row lock, what was committed
               \* at their first read: all of them in production (MySQL REPEATABLE
               \* READ), the webhook alone where the latest is read (SQLite)
  MaxVersion,  \* bound: different payloads
  MaxEdits,    \* bound: UPDATE requests CDEK receives
  MaxFaults    \* bound: restarts and calls of CDEK without a usable answer

Operations == {"cancel", "waybill"}
Handlers == {"create", "retry", "save", "refresh", "webhook", "document", "deliver"} \cup Operations
\* What else writes the status of the purchase: a PATCH of its products or
\* contact, the application of its payment, staff who finish it.
Writers == {"patch", "pay", "finish"}
AllKinds == Handlers \cup Writers

ASSUME ShipmentAssumption ==
  /\ NoRequest \notin Requests
  /\ Kinds \subseteq AllKinds
  /\ PastReaders \subseteq Handlers /\ "webhook" \in PastReaders
  /\ MaxVersion \in Nat \ {0} /\ MaxEdits \in Nat /\ MaxFaults \in Nat

VARIABLES
  purchase,  \* the purchases row: status, and whether delivery holds a package draft
  row,       \* the delivery_shipments row
  cdek,      \* what CDEK holds for the external number of the purchase
  lock,      \* who holds the row lock taken by lock_purchase
  req,       \* the handler of each slot
  faults

vars == <<purchase, row, cdek, lock, req, faults>>

Versions == 1 .. MaxVersion
Edits == 1 .. MaxEdits

States == {"none", "pending", "accepted", "success", "ready", "rejected", "removed", "unknown"}
RowStatus == {"none", "submitting", "accepted", "rejected", "unknown",
              "ACCEPTED", "CREATED", "TRANSIT", "DELIVERED", "REMOVED"}

\* A column of an operation at CDEK.  ref: the request_uuid of an edit, the
\* version a document was printed for; changes: the version an edit brings.
NoOp == [state |-> "none", ref |-> 0, changes |-> 0]
Op(state) == [NoOp EXCEPT !.state = state]

NoRow == [status |-> "none", remote |-> FALSE, details |-> 0, registration |-> "none",
          editing |-> NoOp, cancel |-> NoOp, waybill |-> NoOp]

Idle == [pc |-> "idle", kind |-> "none", version |-> 0, snap |-> NoRow,
         base |-> NoRow, row |-> NoRow]

Init ==
  /\ purchase \in [status : {"assembling", "delivering"}, draft : {FALSE}]
  /\ row = NoRow
  /\ cdek = [orders |-> 0, registration |-> "none", status |-> "none", data |-> 0,
             delete |-> "none", edits |-> [e \in Edits |-> [state |-> "none", version |-> 0]]]
  /\ lock = NoRequest
  /\ req = [r \in Requests |-> Idle]
  /\ faults = 0

-----------------------------------------------------------------------------
(* Sessions.                                                               *)

At(r, pc) == req[r].pc = pc

Close(r) ==
  /\ req' = [req EXCEPT ![r] = Idle]
  /\ lock' = IF lock = r THEN NoRequest ELSE lock

\* (mutant) Every loaded attribute is written, changed or not.
FlushAll(old, base, new) == new

\* A flush writes the attributes that differ from what the session loaded.
Flush(old, base, new) == [f \in DOMAIN old |-> IF new[f] # base[f] THEN new[f] ELSE old[f]]

Saved(q) == Flush(row, q.base, q.row)

\* Every handler reads the user or the integration's configuration before it
\* calls lock_purchase, and may read as of then what it reads under the lock;
\* the webhook reads the shipment itself, which its session does not load twice.
\* Where that read fixes nothing, nothing happens before the lock (Enter).
Begin(r, kind, version) ==
  /\ At(r, "idle")
  /\ kind \in Kinds
  /\ kind \in PastReaders
  /\ kind = "webhook" => row.remote  \* a notification is looked up by remote_uuid
  /\ req' = [req EXCEPT ![r] = [Idle EXCEPT !.pc = "begin", !.kind = kind, !.version = version,
                                            !.snap = row]]
  /\ UNCHANGED <<purchase, row, cdek, lock, faults>>

\* lock_purchase, and the row the handler works on from then on.
Locked(r, kind, version, loaded) ==
  /\ lock = NoRequest
  /\ lock' = r
  /\ req' = [req EXCEPT ![r] = [Idle EXCEPT !.pc = "locked", !.kind = kind, !.version = version,
                                            !.base = loaded, !.row = loaded]]
  /\ UNCHANGED <<purchase, row, cdek, faults>>

Lock(r) == At(r, "begin") /\ Locked(r, req[r].kind, req[r].version, req[r].snap)

Enter(r, kind, version) ==
  /\ At(r, "idle")
  /\ kind \in Kinds
  /\ kind \notin PastReaders
  /\ Locked(r, kind, version, row)

Retriable(w) == w.status = "rejected" /\ ~w.remote

EditOpen(w) ==
  \/ w.editing.state \in {"pending", "unknown"}
  \/ w.editing.changes # 0 /\ w.editing.state # "rejected"

Refused(q) ==
  \/ /\ q.kind \in {"create", "retry"}
     /\ \/ q.row.status # "none" /\ ~(q.kind = "retry" /\ Retriable(q.row))
        \/ purchase.status \notin {"assembling", "delivering"}
        \/ q.row.status = "none" /\ row.status # "none"   \* IntegrityError
  \/ q.kind = "document" /\ q.row.waybill.ref = 0
  \/ q.kind \in Operations /\ ~q.row.remote
  \/ q.kind \in {"save", "refresh", "webhook", "deliver"} /\ q.row.status = "none"

\* "not found" and the other refusals: nothing is committed.
Refuse(r) ==
  /\ At(r, "locked")
  /\ Refused(req[r])
  /\ Close(r)
  /\ UNCHANGED <<purchase, row, cdek, faults>>

\* The reservation is committed, which releases the lock; CDEK is called next.
Reserve(r, order, new) ==
  /\ purchase' = order
  /\ row' = Flush(row, req[r].base, new)
  /\ lock' = NoRequest
  /\ req' = [req EXCEPT ![r] = [@ EXCEPT !.pc = "call", !.base = new, !.row = new]]
  /\ UNCHANGED <<cdek, faults>>

\* CDEK's answer is in the session, not yet in the database.
Answered(r, new) == req' = [req EXCEPT ![r] = [@ EXCEPT !.pc = "store", !.row = new]]

\* CdekError.ambiguous: whether CDEK has performed the write is not known.
Fault == faults < MaxFaults /\ faults' = faults + 1

Store(r) ==
  /\ At(r, "store")
  /\ row' = Saved(req[r])
  /\ IF req[r].kind = "save" /\ req[r].row.editing.state = "success"
       THEN lock = NoRequest /\ purchase' = [purchase EXCEPT !.draft = FALSE]
       ELSE UNCHANGED purchase
  /\ Close(r)
  /\ UNCHANGED <<cdek, faults>>

-----------------------------------------------------------------------------
(* create_shipment.  retry_rejected repeats a registration that CDEK has   *)
(* refused for certain.                                                    *)

\* (mutant) The reservation stays in the session until CDEK has answered.
CreateUnreserved(r) ==
  /\ At(r, "locked")
  /\ req[r].kind \in {"create", "retry"}
  /\ ~Refused(req[r])
  /\ LET new == [req[r].row EXCEPT !.status = "submitting", !.registration = "pending",
                                   !.details = req[r].version]
     IN  req' = [req EXCEPT ![r] = [@ EXCEPT !.pc = "call", !.row = new]]
  /\ lock' = NoRequest
  /\ UNCHANGED <<purchase, row, cdek, faults>>

\* A purchase marked as delivering before any registration is repaired.
Create(r) ==
  /\ At(r, "locked")
  /\ req[r].kind \in {"create", "retry"}
  /\ ~Refused(req[r])
  /\ Reserve(r, [purchase EXCEPT !.status = "assembling"],
       [req[r].row EXCEPT !.status = "submitting", !.registration = "pending", !.details = req[r].version])

\* CDEK registers an order asynchronously.
Registers(version) ==
  cdek' = [cdek EXCEPT !.orders = @ + 1, !.registration = "accepted",
                       !.status = "ACCEPTED", !.data = version]

\* The first order is in view; of another one only the number is kept.
Duplicates == cdek' = [cdek EXCEPT !.orders = @ + 1]

Posted(version) == IF cdek.orders = 0 THEN Registers(version) ELSE Duplicates

PostOrder(r) ==
  /\ At(r, "call")
  /\ req[r].kind \in {"create", "retry"}
  /\ cdek.orders < 2
  /\ LET w == req[r].row
     IN  \/ /\ Posted(req[r].version)
            /\ Answered(r, [w EXCEPT !.remote = TRUE, !.status = "accepted", !.registration = "accepted"])
            /\ UNCHANGED faults
         \/ /\ Answered(r, [w EXCEPT !.status = "rejected", !.registration = "rejected"])
            /\ UNCHANGED <<cdek, faults>>
         \/ /\ \/ Posted(req[r].version)
               \/ UNCHANGED cdek
            /\ Answered(r, [w EXCEPT !.status = "unknown", !.registration = "unknown"])
            /\ Fault
  /\ UNCHANGED <<purchase, row, lock>>

-----------------------------------------------------------------------------
(* _refresh_shipment: what CDEK reports is written over the row in memory. *)

Latest == {e \in Edits : cdek.edits[e].state # "none"
                         /\ \A f \in Edits : cdek.edits[f].state # "none" => f <= e}

\* An edit whose outcome the row waits for is looked up by its request_uuid;
\* one that was reserved, or whose answer was lost, is left as it is.
RefreshedEdit(w) ==
  IF (EditOpen(w) /\ w.editing.changes = 0) \/ Latest = {} THEN w.editing
  ELSE IF w.editing.changes # 0
    THEN [w.editing EXCEPT !.state = cdek.edits[w.editing.ref].state,
                           !.changes = IF cdek.edits[w.editing.ref].state = "success" THEN 0 ELSE @]
    ELSE [NoOp EXCEPT !.state = cdek.edits[CHOOSE e \in Latest : TRUE].state,
                      !.ref = CHOOSE e \in Latest : TRUE]

Confirms(w) == w.editing.changes # 0 /\ RefreshedEdit(w).state = "success"

\* A document that was registered is polled until CDEK has printed it.
Polled(op, poll) ==
  IF op.ref # 0 /\ op.state \in {"accepted", "pending", "unknown"} THEN [op EXCEPT !.state = poll] ELSE op

Refreshed(w, poll) ==
  [w EXCEPT
    !.remote = TRUE,
    !.registration = cdek.registration,
    !.editing = RefreshedEdit(w),
    !.cancel = IF cdek.delete = "none" THEN @ ELSE Op(cdek.delete),
    !.details = IF Confirms(w) THEN w.editing.changes ELSE @,
    !.waybill = IF Confirms(w) THEN NoOp ELSE Polled(@, poll),
    !.status = IF cdek.registration = "rejected" THEN "rejected" ELSE cdek.status]

\* (mutant) The purchase takes the shipment's status as it is.
FollowedVerbatim(w, new) == [status |-> new.status, draft |-> purchase.draft /\ ~Confirms(w)]

\* (mutant) A purchase is finished only from delivering.
FollowedFromDelivering(w, new) ==
  [status |-> IF new.status = "DELIVERED" /\ purchase.status = "delivering" THEN "finished"
              ELSE IF new.status = "TRANSIT" /\ purchase.status = "assembling" THEN "delivering"
              ELSE purchase.status,
   draft |-> purchase.draft /\ ~Confirms(w)]

\* The purchase follows the shipment.
Followed(w, new) ==
  [status |-> IF new.status = "DELIVERED" THEN "finished"
              ELSE IF new.status = "TRANSIT" /\ purchase.status = "assembling" THEN "delivering"
              ELSE purchase.status,
   draft |-> purchase.draft /\ ~Confirms(w)]

Polls == {"accepted", "ready", "rejected"}

\* CDEK answers the GET: it has the order, and the handler has a row.
Got(r) == At(r, "locked") /\ ~Refused(req[r]) /\ cdek.orders > 0

Refresh(r) ==
  /\ req[r].kind \in {"refresh", "webhook"}
  /\ Got(r)
  /\ \E poll \in Polls :
       LET new == Refreshed(req[r].row, poll)
       IN  row' = Flush(row, req[r].base, new) /\ purchase' = Followed(req[r].row, new)
  /\ Close(r)
  /\ UNCHANGED <<cdek, faults>>

\* The order is unknown to CDEK, or CDEK does not answer: an exception.
GetFails(r) ==
  /\ At(r, "locked") /\ ~Refused(req[r])
  /\ req[r].kind \in {"refresh", "webhook", "save", "deliver", "document"}
  /\ (cdek.orders = 0 /\ UNCHANGED faults) \/ (cdek.orders > 0 /\ Fault)
  /\ Close(r)
  /\ UNCHANGED <<purchase, row, cdek>>

\* GET of a document.
Document(r) ==
  /\ req[r].kind = "document"
  /\ Got(r)
  /\ \E state \in Polls \cup {"removed"} :
       row' = Flush(row, req[r].base, [req[r].row EXCEPT !.waybill.state = state])
  /\ Close(r)
  /\ UNCHANGED <<purchase, cdek, faults>>

\* (mutant) The purchase of a finished shipment is dispatched again.
CanDispatchAnytime(order, w) ==
  /\ ~order.draft
  /\ w.registration = "success"
  /\ w.editing.state \in {"none", "success"}

CanDispatch(order, w) ==
  /\ order.status = "assembling" /\ ~order.draft
  /\ w.remote /\ w.status \in {"ACCEPTED", "CREATED"}
  /\ w.registration = "success"
  /\ w.editing.state \in {"none", "success"}
  /\ w.cancel.state \in {"none", "rejected"}

\* PUT /api/purchases/{id} of a purchase with a CDEK delivery.
MarkDelivering(r) ==
  /\ req[r].kind = "deliver"
  /\ Got(r)
  /\ \E poll \in Polls :
       LET new == Refreshed(req[r].row, poll)
           order == Followed(req[r].row, new)
       IN  IF order.status = "delivering" \/ CanDispatch(order, new)
             THEN /\ row' = Flush(row, req[r].base, new)
                  /\ purchase' = [order EXCEPT !.status = "delivering"]
             ELSE UNCHANGED <<purchase, row>>
  /\ Close(r)
  /\ UNCHANGED <<cdek, faults>>

-----------------------------------------------------------------------------
(* save_purchase_delivery and update_shipment of a registered shipment.    *)

\* (mutant) A cancellation that CDEK has not settled does not matter.
EditableWhileCancelled(w) == w.status \in {"ACCEPTED", "CREATED"} /\ ~EditOpen(w)

Editable(w) ==
  /\ w.status \in {"ACCEPTED", "CREATED"}
  /\ w.cancel.state \in {"none", "rejected"}
  /\ ~EditOpen(w)

\* Refused, or nothing to send.
SaveEnds(r) ==
  /\ req[r].kind = "save"
  /\ Got(r)
  /\ \E poll \in Polls :
       LET new == Refreshed(req[r].row, poll)
           order == Followed(req[r].row, new)
       IN  \/ UNCHANGED <<purchase, row>>  \* not editable, or not a valid payload
           \/ /\ Editable(new) /\ new.details = req[r].version
              /\ row' = Flush(row, req[r].base, new)
              /\ purchase' = [order EXCEPT !.draft = FALSE]
           \* PackageRegistrationPending: CDEK has not given the package an id.
           \/ /\ Editable(new) /\ new.details # req[r].version /\ new.registration = "accepted"
              /\ row' = Flush(row, req[r].base, new)
              /\ purchase' = [order EXCEPT !.draft = TRUE]
  /\ Close(r)
  /\ UNCHANGED <<cdek, faults>>

SaveEdit(r) ==
  /\ req[r].kind = "save"
  /\ Got(r)
  /\ \E poll \in Polls :
       LET new == Refreshed(req[r].row, poll)
       IN  /\ Editable(new) /\ new.details # req[r].version
           /\ Reserve(r, Followed(req[r].row, new), [new EXCEPT !.editing = Op("pending")])

\* CDEK receives an UPDATE request, and performs it at once or later.
Receives(e, state, version) ==
  cdek' = [cdek EXCEPT !.edits[e] = [state |-> state, version |-> version],
                       !.data = IF state = "success" THEN version ELSE @]

NextEdit == {e \in Edits : cdek.edits[e].state = "none" /\ \A f \in 1 .. e - 1 : cdek.edits[f].state # "none"}

PatchOrder(r) ==
  /\ At(r, "call")
  /\ req[r].kind = "save"
  /\ LET w == req[r].row
         v == req[r].version
     IN  \/ \E e \in NextEdit :
              /\ cdek.status \in {"ACCEPTED", "CREATED"}
              /\ \/ /\ Receives(e, "accepted", v)
                    /\ Answered(r, [w EXCEPT !.editing = [state |-> "accepted", ref |-> e, changes |-> v]])
                 \/ /\ Receives(e, "success", v)
                    /\ Answered(r, [w EXCEPT !.editing = [Op("success") EXCEPT !.ref = e],
                                             !.details = v, !.waybill = NoOp])
              /\ UNCHANGED faults
         \/ /\ Answered(r, [w EXCEPT !.editing = Op("rejected")])
            /\ UNCHANGED <<cdek, faults>>
         \/ /\ \/ \E e \in NextEdit : cdek.status \in {"ACCEPTED", "CREATED"} /\ Receives(e, "accepted", v)
               \/ UNCHANGED cdek
            /\ Answered(r, [w EXCEPT !.editing = Op("unknown")])
            /\ Fault
  /\ UNCHANGED <<purchase, row, lock>>

-----------------------------------------------------------------------------
(* shipment_operation: cancel the shipment, print a document.              *)

\* (mutant) A cancellation does not wait for the edit in progress.
OperationRefusedUnlessDocument(w, op) ==
  op = "waybill" /\ (EditOpen(w) \/ purchase.draft \/ w.registration # "success")

OperationRefused(w, op) ==
  \/ op \in {"waybill", "cancel"} /\ EditOpen(w)
  \/ op = "waybill" /\ \/ purchase.draft
                       \/ w.cancel.state \notin {"none", "rejected"} \/ w.status = "REMOVED"
                       \/ w.registration # "success"

\* What was requested before is returned, unless it can be requested again.
Requested(w, op) ==
  w[op].state \notin {"none", "rejected"} \cup (IF op = "waybill" THEN {"removed"} ELSE {})

OperationEnds(r, op) ==
  /\ At(r, "locked") /\ req[r].kind = op
  /\ ~Refused(req[r])
  /\ OperationRefused(req[r].row, op) \/ Requested(req[r].row, op)
  /\ Close(r)
  /\ UNCHANGED <<purchase, row, cdek, faults>>

Operation(r, op) ==
  /\ At(r, "locked") /\ req[r].kind = op
  /\ ~Refused(req[r])
  /\ ~OperationRefused(req[r].row, op) /\ ~Requested(req[r].row, op)
  /\ Reserve(r, purchase, [req[r].row EXCEPT ![op] = Op("pending")])

\* A DELETE is settled later; a document is printed for the order as it is.
Performs(op) ==
  IF op = "cancel" THEN cdek' = [cdek EXCEPT !.delete = IF @ = "success" THEN @ ELSE "accepted"] ELSE UNCHANGED cdek

CallOperation(r, op) ==
  /\ At(r, "call") /\ req[r].kind = op
  /\ LET w == req[r].row
     IN  \/ /\ Performs(op)
            /\ Answered(r, [w EXCEPT ![op] = [Op("accepted") EXCEPT !.ref = IF op = "waybill" THEN cdek.data ELSE 0]])
            /\ UNCHANGED faults
         \/ /\ Answered(r, [w EXCEPT ![op] = Op("rejected")])
            /\ UNCHANGED <<cdek, faults>>
         \/ /\ \/ Performs(op)
               \/ UNCHANGED cdek
            /\ Answered(r, [w EXCEPT ![op] = Op("unknown")])
            /\ Fault
  /\ UNCHANGED <<purchase, row, lock>>

-----------------------------------------------------------------------------
(* The other writers of the purchase, a transaction each.                  *)
Write(kind, status) ==
  /\ kind \in Kinds
  /\ lock = NoRequest
  /\ purchase' = [purchase EXCEPT !.status = status]
  /\ UNCHANGED <<row, cdek, lock, req, faults>>

\* PATCH /api/purchases/{id} without delivery: it asks for payment again,
\* whatever has become of the purchase and its shipment.
Patch == Write("patch", "awaiting_payment")

\* apply_successful_payment.
Pay == purchase.status = "awaiting_payment" /\ Write("pay", "assembling")

\* POST /api/purchases/{id} of a purchase with a CDEK delivery.
Finish == row.status = "DELIVERED" /\ Write("finish", "finished")

-----------------------------------------------------------------------------
(* CDEK.                                                                   *)
Cdek(new) ==
  /\ cdek' = new
  /\ UNCHANGED <<purchase, row, lock, req, faults>>

Register ==
  /\ cdek.registration = "accepted"
  /\ \/ Cdek([cdek EXCEPT !.registration = "success", !.status = "CREATED"])
     \/ Cdek([cdek EXCEPT !.registration = "rejected"])

SettleEdit(e) ==
  /\ cdek.edits[e].state = "accepted"
  /\ \/ /\ cdek.status = "CREATED"
        /\ Cdek([cdek EXCEPT !.edits[e].state = "success", !.data = cdek.edits[e].version])
     \/ Cdek([cdek EXCEPT !.edits[e].state = "rejected"])

SettleCancel ==
  /\ cdek.delete = "accepted"
  /\ \/ cdek.status \in {"ACCEPTED", "CREATED"} /\ Cdek([cdek EXCEPT !.delete = "success", !.status = "REMOVED"])
     \/ Cdek([cdek EXCEPT !.delete = "rejected"])

Move ==
  \/ cdek.status = "CREATED" /\ Cdek([cdek EXCEPT !.status = "TRANSIT"])
  \/ cdek.status = "TRANSIT" /\ Cdek([cdek EXCEPT !.status = "DELIVERED"])

Crash ==
  /\ Fault
  /\ req' = [r \in Requests |-> Idle]
  /\ lock' = NoRequest
  /\ UNCHANGED <<purchase, row, cdek>>

Step(r) ==
  \/ Lock(r) \/ Refuse(r) \/ Store(r)
  \/ Create(r) \/ PostOrder(r)
  \/ Refresh(r) \/ GetFails(r) \/ Document(r) \/ MarkDelivering(r)
  \/ SaveEnds(r) \/ SaveEdit(r) \/ PatchOrder(r)
  \/ \E op \in Operations : OperationEnds(r, op) \/ Operation(r, op) \/ CallOperation(r, op)

Next ==
  \/ \E r \in Requests, kind \in Kinds \cap Handlers :
       \E version \in IF kind \in {"create", "retry", "save"} THEN Versions ELSE {0} :
         Begin(r, kind, version) \/ Enter(r, kind, version)
  \/ \E r \in Requests : Step(r)
  \/ Patch \/ Pay \/ Finish
  \/ Register \/ SettleCancel \/ Move
  \/ \E e \in Edits : SettleEdit(e)
  \/ Crash

Spec == Init /\ [][Next]_vars

-----------------------------------------------------------------------------
(* Fairness.  A handler goes on, also when it has to wait for the row lock *)
(* (InnoDB queues the waiters); CDEK settles what it has accepted.         *)
(* run_cdek_sync wakes up again and again and refreshes every shipment     *)
(* that is not at its end; faults are bounded, so it gets answers.         *)
Watched == row.status \notin {"none", "DELIVERED", "REMOVED", "rejected"}

Poll(r) == Watched /\ (Begin(r, "refresh", 0) \/ Enter(r, "refresh", 0))

PollingSpec ==
  /\ Spec
  /\ \A r \in Requests : SF_vars(Step(r))
  /\ SF_vars(\E r \in Requests : Poll(r))
  /\ WF_vars(Register)
  /\ \A e \in Edits : WF_vars(SettleEdit(e))
=============================================================================
