------------------------ MODULE ShipmentProperties ------------------------
(* What Shipment promises.                                                 *)
EXTENDS Shipment

Ops == [state : States, ref : 0 .. MaxVersion + MaxEdits, changes : {0} \cup Versions]

Rows ==
  [status : RowStatus, remote : BOOLEAN, details : {0} \cup Versions, registration : States,
   editing : Ops, cancel : Ops, waybill : Ops]

\* Type correctness of the tables, of CDEK's order and of what the sessions hold.
TypeOK ==
  /\ purchase \in [status : {"awaiting_payment", "assembling", "delivering", "finished"}, draft : BOOLEAN]
  /\ row \in Rows
  /\ cdek \in [orders : 0 .. 2, registration : States, status : RowStatus, data : {0} \cup Versions,
               delete : States,
               edits : [Edits -> [state : States, version : {0} \cup Versions]]]
  /\ lock \in Requests \cup {NoRequest}
  /\ req \in [Requests ->
       [pc : {"idle", "begin", "locked", "call", "store"}, kind : AllKinds \cup {"none"},
        version : {0} \cup Versions, snap : Rows, base : Rows, row : Rows]]
  /\ faults \in 0 .. MaxFaults

-----------------------------------------------------------------------------
(* What the properties below assume of the isolation level.  The row lock  *)
(* serializes the handlers, but one that has waited for it decides by the  *)
(* shipment as its transaction first read it, before the lock: on SQLite   *)
(* that is the latest row (but for a notification, which looks the row up  *)
(* itself), on MySQL at its default level it need not be.                  *)

\* Handlers of these kinds get with the lock the shipment as it is then.
ReadsLatest(kinds) ==
  \A r \in Requests : Lock(r) /\ req[r].kind \in kinds => req[r].snap = row

RetriesReadLatest == Init /\ [][Next /\ ReadsLatest({"retry"})]_vars
ReserversReadLatest == Init /\ [][Next /\ ReadsLatest({"retry", "save", "cancel"})]_vars
AllReadLatest == Init /\ [][Next /\ ReadsLatest(Handlers)]_vars

-----------------------------------------------------------------------------
\* "durable write reservations prevent duplicate waybills" (cdek.py:1): across
\* concurrent creations, retries, lost answers and restarts CDEK gets at most
\* one order for the purchase.  Under RetriesReadLatest: a retry that waited for
\* another one decides by the refusal that one has repeated (violated by Spec).
OneOrder == cdek.orders <= 1

\* An edit that is about to be sent to CDEK, or undecided there.
EditUnderWay ==
  (\E r \in Requests : At(r, "call") /\ req[r].kind = "save")
    \/ \E e \in Edits : cdek.edits[e].state = "accepted"

\* A cancellation that is about to be sent, the first of the order, or one that
\* CDEK has not settled.
CancelUnderWay ==
  \/ cdek.delete = "accepted"
  \/ cdek.delete = "none" /\ \E r \in Requests : At(r, "call") /\ req[r].kind = "cancel"

Reserves(r, kind) == At(r, "locked") /\ req[r].kind = kind /\ req'[r].pc = "call"

\* The order is not cancelled while an edit of it is under way ("Дождитесь
\* подтверждения изменения отправления в СДЭК", cdek.py:437-439), whether the
\* edit's answer is awaited, deferred or lost.  Under AllReadLatest: a
\* cancellation that waited for the edit's reservation does not see it (violated
\* by Spec).
NoCancelDuringEdit ==
  [][\A r \in Requests : Reserves(r, "cancel") => ~EditUnderWay]_vars

\* The order is not edited while a cancellation of it is under way ("Shipment
\* cannot be edited in this state", cdek.py:327-329).  One that repeats a refused
\* cancellation is not protected: a refresh writes the old refusal over it.
\* Under ReserversReadLatest: an edit that waited for the cancellation's
\* reservation does not see it (violated by Spec).
NoEditDuringCancel ==
  [][\A r \in Requests : Reserves(r, "save") => ~CancelUnderWay]_vars

\* Once nothing is on its way, the shipment's details are the ones CDEK holds:
\* refused, lost, deferred and immediate edits all end with the right version
\* (cdek.py:237-259, 352-374).  Under AllReadLatest: a handler that waited for
\* the lock decides and stores by the shipment as it was before.
DetailsAreConfirmed ==
  /\ row.registration = "success" /\ row.remote
  /\ ~EditOpen(row)
  /\ \A e \in Edits : cdek.edits[e].state # "accepted"
  => row.details = cdek.data

\* A purchase with a registered shipment goes on from assembling to delivering
\* and finished: nothing that CDEK reports, staff dispatch or a late payment
\* brings takes it back (cdek.py:188-190, 297-307; payment_sync.py:21;
\* purchases.py:794-801).  Only the PATCH of its products or contact does, which
\* asks for payment again (purchases.py:540).
Rank(status) ==
  CASE status = "awaiting_payment" -> 0 [] status = "assembling" -> 1
    [] status = "delivering" -> 2 [] OTHER -> 3

OnlyPatchTakesBack ==
  [][Rank(purchase'.status) < Rank(purchase.status) =>
       purchase'.status = "awaiting_payment" \/ (~row.remote /\ cdek.orders = 0)]_vars

\* A shipment that CDEK has delivered, which its row does not say yet, finishes
\* its purchase, even when the statuses between two polls were never seen, the
\* purchase was taken back by a PATCH, or a handler that is still in progress
\* stores an older answer (cdek.py:292-297, 503-519).  A PATCH after that may take
\* it back for good.  Checked with retries that read the latest row: one that
\* decides by an older one may store its refusal over a registration CDEK has
\* accepted, which no poll watches then.
DeliveredIsFinished ==
  row.status \notin {"none", "DELIVERED"} /\ cdek.status = "DELIVERED" ~> purchase.status = "finished"

\* "Бэкенд сверяет регистрацию, подтверждение изменений, ..." (README.md:56),
\* "Previous update must be reconciled first" (cdek.py:331): an edit whose
\* outcome the row does not know is reconciled in the end.
EditIsReconciled == EditOpen(row) ~> ~EditOpen(row)
=============================================================================
