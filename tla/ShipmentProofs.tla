--------------------------- MODULE ShipmentProofs ---------------------------
(***************************************************************************)
(* Proofs about the CDEK shipment of a purchase, for every number of       *)
(* request slots, payloads, edits and faults.                              *)
(***************************************************************************)
EXTENDS ShipmentProperties, TLAPS

Locations == {"idle", "begin", "locked", "call", "store"}

Statuses == {"awaiting_payment", "assembling", "delivering", "finished"}

\* An edit whose version the row waits for has been received by CDEK.
EditOps == {op \in Ops : op.changes # 0 => op.ref \in Edits}

TypedRows == {w \in Rows : w.editing \in EditOps}

Orders ==
  [orders : 0 .. 2, registration : States, status : RowStatus, data : {0} \cup Versions,
   delete : States, edits : [Edits -> [state : States, version : {0} \cup Versions]]]

Sessions ==
  [pc : Locations, kind : AllKinds \cup {"none"}, version : {0} \cup Versions,
   snap : TypedRows, base : TypedRows, row : TypedRows]

Types ==
  /\ purchase \in [status : Statuses, draft : BOOLEAN]
  /\ row \in TypedRows
  /\ cdek \in Orders
  /\ lock \in Requests \cup {NoRequest}
  /\ req \in [Requests -> Sessions]
  /\ faults \in 0 .. MaxFaults

(* Nobody works on the row without its lock; a handler that calls CDEK has *)
(* committed what it holds.                                                *)
Locking(r) ==
  /\ req[r].pc = "locked" <=> lock = r
  /\ req[r].pc \in {"locked", "call"} => req[r].base = req[r].row
  /\ req[r].pc = "begin" => req[r].kind \in Handlers
  /\ req[r].pc \in {"call", "store"} => req[r].kind \in {"create", "retry", "save", "cancel", "waybill"}
  /\ req[r].kind \in {"create", "retry", "save"} => req[r].version # 0

Registering(r) == req[r].pc \in {"call", "store"} /\ req[r].kind \in {"create", "retry"}

(* A registration may be sent for such a row.                              *)
Free(w) == w.status = "none" \/ Retriable(w)

(* What is known of CDEK's order by the row and by a session.              *)
Known ==
  /\ row.remote => cdek.orders > 0
  /\ Free(row) => cdek.orders = 0 /\ \A r \in Requests : ~Registering(r)
  /\ cdek.orders > 0 => cdek.status # "none"

Knows(r) ==
  /\ req[r].base.remote \/ req[r].snap.remote => row.remote
  /\ req[r].row.remote => cdek.orders > 0
  /\ req[r].pc \in {"call", "store"} /\ ~Registering(r) =>
       /\ cdek.orders > 0
       /\ req[r].row.status = req[r].base.status /\ req[r].row.remote = req[r].base.remote
  /\ req[r].pc = "locked" /\ req[r].kind = "retry" /\ Free(req[r].row) => Free(row)

(* A registration that is being sent is the only one, and what it is sent  *)
(* for is not offered to anybody else.                                     *)
Sends(r) ==
  Registering(r) =>
    /\ \A s \in Requests : Registering(s) => s = r
    /\ cdek.orders = 0 => row.status = "submitting"
    /\ req[r].pc = "call" => cdek.orders = 0
    /\ req[r].base.status = "submitting" /\ ~req[r].base.remote
    /\ req[r].pc = "store" => req[r].row.status \in {"accepted", "rejected", "unknown"}
    /\ req[r].pc = "store" /\ req[r].row.status = "rejected" => cdek.orders = 0

RegistrationInv ==
  /\ Types
  /\ Known
  /\ \A r \in Requests : Locking(r) /\ Knows(r) /\ Sends(r)
  /\ cdek.orders <= 1

-----------------------------------------------------------------------------
(* Edits and cancellations.                                                *)
Editing(r) == req[r].pc \in {"call", "store"} /\ req[r].kind = "save"

Undecided(c) == \E e \in Edits : c.edits[e].state = "accepted"

Awaits(op) == op.changes # 0 /\ op.state = "accepted"

(* What a row says of the edits at CDEK, with the details that go with it. *)
Tells(c, op, details) ==
  /\ op.changes # 0 =>
       /\ op.state \in {"accepted", "rejected"}
       /\ c.edits[op.ref].version = op.changes /\ c.edits[op.ref].state # "none"
       /\ op.state = "rejected" => c.edits[op.ref].state = "rejected"
  /\ Awaits(op) =>
       /\ c.data = IF c.edits[op.ref].state = "success" THEN op.changes ELSE details
       /\ \A e \in Edits : c.edits[e].state = "accepted" => e = op.ref
  /\ Awaits(op) \/ op.state \in {"pending", "unknown"} \/ (details = c.data /\ ~Undecided(c))

EditPart ==
  /\ \A e \in Edits : cdek.edits[e].state \in {"none", "accepted", "success", "rejected"}
  /\ cdek.orders = 0 => row.editing = NoOp /\ ~Undecided(cdek)
  /\ cdek.orders > 0 => Tells(cdek, row.editing, row.details)

(* A session that will write an edit, or that may decide by what it holds. *)
EditSession(r) ==
  /\ cdek.orders = 0 => req[r].row.editing = NoOp /\ req[r].base.editing = NoOp
  /\ req[r].pc = "locked" =>
       \/ req[r].row.editing = Op("pending")
       \/ /\ req[r].row.editing = row.editing /\ req[r].row.details = row.details
          /\ \A s \in Requests : ~Editing(s)
  /\ Registering(r) /\ cdek.orders = 0 => row.details = req[r].version
  /\ req[r].pc \in {"call", "store"} /\ ~Editing(r) =>
       req[r].row.editing = req[r].base.editing /\ req[r].row.details = req[r].base.details
  /\ Editing(r) =>
       /\ \A s \in Requests : Editing(s) => s = r
       /\ row.editing = Op("pending") /\ req[r].base.editing = Op("pending")
       /\ req[r].base.details = row.details
       /\ req[r].pc = "call" => row.details = cdek.data /\ ~Undecided(cdek)
       /\ req[r].pc = "store" =>
            req[r].row.editing # Op("pending") /\ Tells(cdek, req[r].row.editing, req[r].row.details)

EditInv ==
  /\ EditPart
  /\ \A r \in Requests : EditSession(r)

Cancelling(r) == req[r].pc \in {"call", "store"} /\ req[r].kind = "cancel"

(* The first cancellation is the only one, and seen by all whom it must    *)
(* keep from sending.                                                      *)
CancelInv ==
  \A r \in Requests :
    /\ req[r].pc \in {"call", "store"} /\ ~Cancelling(r) => req[r].row.cancel = req[r].base.cancel
    /\ Cancelling(r) /\ cdek.delete = "none" =>
         /\ row.cancel = Op("pending")
         /\ \A s \in Requests : Cancelling(s) => s = r
         /\ \A s \in Requests : req[s].pc = "locked" /\ req[s].kind \in {"save", "cancel"} =>
              req[s].row.cancel = Op("pending")

-----------------------------------------------------------------------------
(* Rows.                                                                   *)

Fields == {"status", "remote", "details", "registration", "editing", "cancel", "waybill"}

(* A flush writes the attributes that differ from the loaded ones.         *)
LEMMA FlushIs ==
  ASSUME NEW old \in TypedRows, NEW base \in TypedRows, NEW new \in TypedRows
  PROVE  /\ Flush(old, base, new) \in TypedRows
         /\ \A f \in Fields : Flush(old, base, new)[f] = IF new[f] # base[f] THEN new[f] ELSE old[f]
<1>1. DOMAIN old = Fields
  BY DEF TypedRows, Rows, Fields
<1>2. \A f \in Fields : Flush(old, base, new)[f] = IF new[f] # base[f] THEN new[f] ELSE old[f]
  BY <1>1 DEF Flush
<1>3. Flush(old, base, new) \in Rows
  BY <1>1 DEF Flush, TypedRows, Rows, Fields
<1>4. Flush(old, base, new).editing \in EditOps
  BY <1>2 DEF Fields, TypedRows
<1> QED
  BY <1>2, <1>3, <1>4 DEF TypedRows

(* The column of an operation in a state.                                  *)
LEMMA OpIs ==
  ASSUME NEW state \in States
  PROVE  /\ Op(state) = [state |-> state, ref |-> 0, changes |-> 0]
         /\ Op(state) \in EditOps
  BY ShipmentAssumption DEF Op, NoOp, EditOps, Ops

(* The values before anything has happened have their types.               *)
LEMMA NothingTyped == NoOp \in EditOps /\ NoRow \in TypedRows /\ Idle \in Sessions
  BY ShipmentAssumption DEF NoOp, NoRow, Idle, EditOps, Ops, TypedRows, Rows, Sessions, Locations, States, RowStatus, AllKinds

(* A document's row keeps its type under the answer to its GET.            *)
LEMMA WaybillIs ==
  ASSUME NEW w \in TypedRows, NEW state \in States
  PROVE  /\ [w EXCEPT !.waybill.state = state] \in TypedRows
         /\ \A f \in Fields \ {"waybill"} : [w EXCEPT !.waybill.state = state][f] = w[f]
  BY DEF TypedRows, Rows, Fields, Ops, EditOps

(* A reference is the number of an edit or of a payload.                   *)
LEMMA EditsAreRefs == \A n \in Edits \cup Versions \cup {0} : n \in 0 .. MaxVersion + MaxEdits
  BY ShipmentAssumption DEF Edits, Versions

(* What the list of UPDATE requests makes of an edit.                      *)
LEMMA RefreshedEditIs ==
  ASSUME cdek \in Orders, NEW w \in TypedRows
  PROVE  RefreshedEdit(w) \in EditOps
<1>1. w.editing \in EditOps /\ w.editing \in Ops
  BY DEF TypedRows, EditOps
<1>2. \A e \in Edits : cdek.edits[e].state \in States
  BY DEF Orders
<1>3. CASE (EditOpen(w) /\ w.editing.changes = 0) \/ Latest = {}
  BY <1>1, <1>3 DEF RefreshedEdit
<1>4. CASE ~((EditOpen(w) /\ w.editing.changes = 0) \/ Latest = {}) /\ w.editing.changes # 0
  <2>1. RefreshedEdit(w) = [w.editing EXCEPT !.state = cdek.edits[w.editing.ref].state,
                                  !.changes = IF cdek.edits[w.editing.ref].state = "success" THEN 0 ELSE @]
    BY <1>4 DEF RefreshedEdit
  <2>2. cdek.edits[w.editing.ref].state \in States
    BY <1>1, <1>2, <1>4 DEF EditOps
  <2> QED
    BY <1>1, <2>1, <2>2 DEF EditOps, Ops
<1>5. CASE ~((EditOpen(w) /\ w.editing.changes = 0) \/ Latest = {}) /\ w.editing.changes = 0
  <2> DEFINE e == CHOOSE e \in Latest : TRUE
  <2>1. e \in Edits
    BY <1>5 DEF Latest
  <2>2. RefreshedEdit(w) = [NoOp EXCEPT !.state = cdek.edits[e].state, !.ref = e]
    BY <1>5 DEF RefreshedEdit
  <2> QED
    BY <1>2, <2>1, <2>2, EditsAreRefs DEF EditOps, Ops, NoOp
<1> QED
  BY <1>3, <1>4, <1>5

(* A document that was polled keeps its type.                              *)
LEMMA PolledIs ==
  ASSUME NEW op \in Ops, NEW poll \in States
  PROVE  Polled(op, poll) \in Ops
  BY DEF Polled, Ops

(* What CDEK reports of a registered order is written over the row.        *)
LEMMA RefreshedIs ==
  ASSUME Types, cdek.orders > 0 => cdek.status # "none", NEW w \in TypedRows, NEW poll \in Polls
  PROVE  /\ Refreshed(w, poll) \in TypedRows
         /\ Refreshed(w, poll).remote = TRUE
         /\ cdek.orders > 0 => Refreshed(w, poll).status # "none"
         /\ Refreshed(w, poll).editing = RefreshedEdit(w)
         /\ Refreshed(w, poll).cancel = IF cdek.delete = "none" THEN w.cancel ELSE Op(cdek.delete)
         /\ Refreshed(w, poll).details = IF Confirms(w) THEN w.editing.changes ELSE w.details
<1>1. poll \in States /\ cdek \in Orders /\ cdek.delete \in States /\ cdek.registration \in States /\ cdek.status \in RowStatus
  BY DEF Types, Polls, States, Orders
<1>2. RefreshedEdit(w) \in EditOps /\ Op(cdek.delete) \in Ops /\ Polled(w.waybill, poll) \in Ops /\ NoOp \in Ops
  BY <1>1, RefreshedEditIs, OpIs, PolledIs, NothingTyped DEF TypedRows, Rows, EditOps
<1>3. w \in Rows /\ w.editing.changes \in {0} \cup Versions /\ "rejected" \in RowStatus
  BY DEF TypedRows, EditOps, Ops, RowStatus
<1>4. Refreshed(w, poll) \in Rows
  BY <1>1, <1>2, <1>3 DEF Refreshed, Rows, EditOps
<1>5. /\ Refreshed(w, poll).remote = TRUE
      /\ cdek.orders > 0 => Refreshed(w, poll).status # "none"
      /\ Refreshed(w, poll).editing = RefreshedEdit(w)
      /\ Refreshed(w, poll).cancel = IF cdek.delete = "none" THEN w.cancel ELSE Op(cdek.delete)
      /\ Refreshed(w, poll).details = IF Confirms(w) THEN w.editing.changes ELSE w.details
  BY <1>3 DEF Refreshed, Rows
<1> QED
  BY <1>2, <1>4, <1>5 DEF TypedRows

-----------------------------------------------------------------------------
(* Registration.                                                           *)
LEMMA RegistrationInit ==
  ASSUME Init
  PROVE  RegistrationInv
<1>1. Types
  <2>1. cdek \in Orders
    BY DEF Init, Orders, States, RowStatus
  <2>2. purchase.status \in {"assembling", "delivering"} /\ purchase.draft = FALSE /\ purchase = [status |-> purchase.status, draft |-> purchase.draft]
    BY DEF Init
  <2>3. purchase \in [status : Statuses, draft : BOOLEAN]
    BY <2>2 DEF Statuses
  <2>4. faults \in 0 .. MaxFaults /\ row \in TypedRows /\ lock \in Requests \cup {NoRequest} /\ req \in [Requests -> Sessions]
    BY NothingTyped, ShipmentAssumption DEF Init
  <2> QED
    BY <2>1, <2>3, <2>4 DEF Types
<1>2. Known /\ cdek.orders <= 1
  BY DEF Init, Known, NoRow, Free, Retriable, Registering, Idle
<1>3. \A r \in Requests : Locking(r) /\ Knows(r) /\ Sends(r)
  BY ShipmentAssumption DEF Init, Locking, Knows, Sends, Registering, Idle, NoRow
<1> QED
  BY <1>1, <1>2, <1>3 DEF RegistrationInv

(* One session moves; the others keep what they know.                      *)
LEMMA Moves ==
  ASSUME RegistrationInv, NEW r \in Requests, NEW q, req' = [req EXCEPT ![r] = q],
         \A s \in Requests \ {r} : lock' = s <=> lock = s,
         row.remote => row'.remote,
         cdek'.orders = cdek.orders \/ (cdek'.orders > 0 /\ Registering(r)),
         row' = row \/ lock = r \/ ~Free(row),
         row' = row \/ cdek'.orders > 0 \/ \A s \in Requests \ {r} : ~Registering(s),
         Registering(r)' => Registering(r) \/ \A s \in Requests : ~Registering(s)
  PROVE  \A s \in Requests \ {r} : req'[s] = req[s] /\ Locking(s)' /\ Knows(s)' /\ Sends(s)'
<1> SUFFICES ASSUME NEW s \in Requests \ {r} PROVE req'[s] = req[s] /\ Locking(s)' /\ Knows(s)' /\ Sends(s)'
  OBVIOUS
<1>1. req'[s] = req[s] /\ \A t \in Requests \ {r} : req'[t] = req[t]
  BY DEF RegistrationInv, Types
<1>2. Locking(s) /\ Knows(s) /\ Sends(s) /\ Known /\ (cdek.orders > 0 => cdek'.orders > 0)
  BY DEF RegistrationInv
<1>3. Locking(s)'
  BY <1>1, <1>2 DEF Locking
<1>4. Knows(s)'
  BY <1>1, <1>2 DEF Knows, Locking, Known, Registering
<1>5. Sends(s)'
  BY <1>1, <1>2 DEF Sends, Registering, Known
<1> QED
  BY <1>1, <1>3, <1>4, <1>5

(* What remains to be shown of a step of one session.                      *)
LEMMA MovesOn ==
  ASSUME RegistrationInv, NEW r \in Requests,
         \A s \in Requests \ {r} : Locking(s)' /\ Knows(s)' /\ Sends(s)',
         Types', Known', Locking(r)', Knows(r)', Sends(r)', cdek'.orders <= 1
  PROVE  RegistrationInv'
  BY DEF RegistrationInv

(* A session that ends, after it may have changed the row.                 *)
LEMMA Closes ==
  ASSUME RegistrationInv, NEW r \in Requests, Close(r), cdek' = cdek,
         purchase' \in [status : Statuses, draft : BOOLEAN],
         faults' \in 0 .. MaxFaults, row' \in TypedRows,
         row.remote => row'.remote, row'.remote => cdek.orders > 0,
         Free(row') => cdek.orders = 0 /\ \A s \in Requests \ {r} : ~Registering(s),
         row' = row \/ lock = r \/ ~Free(row),
         row' = row \/ cdek.orders > 0 \/ \A s \in Requests \ {r} : ~Registering(s)
  PROVE  RegistrationInv'
<1>1. req' = [req EXCEPT ![r] = Idle] /\ lock' = IF lock = r THEN NoRequest ELSE lock
  BY DEF Close
<1>2. req'[r] = Idle /\ req \in [Requests -> Sessions] /\ lock \in Requests \cup {NoRequest}
  BY <1>1 DEF RegistrationInv, Types
<1>3. ~Registering(r)' /\ \A s \in Requests \ {r} : lock' = s <=> lock = s
  BY <1>1, <1>2, ShipmentAssumption DEF Registering, Idle
<1>4. \A s \in Requests \ {r} : req'[s] = req[s] /\ Locking(s)' /\ Knows(s)' /\ Sends(s)'
  BY <1>1, <1>3, Moves
<1>5. Types'
  BY <1>1, <1>2, NothingTyped DEF RegistrationInv, Types
<1>6. Known'
  BY <1>3, <1>4 DEF RegistrationInv, Known, Registering
<1>7. Locking(r)' /\ Knows(r)' /\ Sends(r)'
  BY <1>1, <1>2, <1>3, ShipmentAssumption DEF Locking, Knows, Sends, Idle, NoRow
<1>8. cdek'.orders <= 1
  BY DEF RegistrationInv
<1> QED
  BY <1>4, <1>5, <1>6, <1>7, <1>8, MovesOn

(* A handler that has seen CDEK's order leaves a row that cannot be        *)
(* registered again, whatever was written since it loaded the row.         *)
LEMMA RowKept ==
  ASSUME RegistrationInv, NEW r \in Requests, cdek.orders > 0, NEW new \in TypedRows,
         row' = Flush(row, req[r].base, new),
         \/ new.status = req[r].base.status /\ new.remote = req[r].base.remote
         \/ new.remote = TRUE /\ new.status # "none"
  PROVE  row' \in TypedRows /\ (row.remote => row'.remote) /\ ~Free(row') /\ ~Free(row)
<1>1. row \in TypedRows /\ req[r].base \in TypedRows
  BY DEF RegistrationInv, Types, Sessions
<1>2. /\ row' \in TypedRows
      /\ row'.status = IF new.status # req[r].base.status THEN new.status ELSE row.status
      /\ row'.remote = IF new.remote # req[r].base.remote THEN new.remote ELSE row.remote
  BY <1>1, FlushIs DEF Fields
<1>3. ~Free(row) /\ (req[r].base.remote => row.remote)
  BY DEF RegistrationInv, Known, Knows
<1>4. row.remote \in BOOLEAN /\ req[r].base.remote \in BOOLEAN
  BY <1>1 DEF TypedRows, Rows
<1> QED
  BY <1>2, <1>3, <1>4 DEF Free, Retriable

(* A session with the lock that writes what it has read and ends.          *)
LEMMA FlushCloses ==
  ASSUME RegistrationInv, NEW r \in Requests, cdek.orders > 0, NEW new \in TypedRows,
         row' = Flush(row, req[r].base, new), Close(r), cdek' = cdek, faults' = faults,
         purchase' \in [status : Statuses, draft : BOOLEAN],
         \/ new.status = req[r].base.status /\ new.remote = req[r].base.remote
         \/ new.remote = TRUE /\ new.status # "none"
  PROVE  RegistrationInv'
<1>1. row' \in TypedRows /\ (row.remote => row'.remote) /\ ~Free(row') /\ ~Free(row)
  BY RowKept
<1>2. faults' \in 0 .. MaxFaults
  BY DEF RegistrationInv, Types
<1> QED
  BY <1>1, <1>2, Closes

(* A session that ends and writes nothing.                                 *)
LEMMA NothingCloses ==
  ASSUME RegistrationInv, NEW r \in Requests, Close(r), UNCHANGED <<purchase, row, cdek>>,
         faults' = faults \/ Fault
  PROVE  RegistrationInv'
<1>1. faults' \in 0 .. MaxFaults
  BY ShipmentAssumption DEF RegistrationInv, Types, Fault
<1>2. /\ row \in TypedRows /\ (row.remote => cdek.orders > 0) /\ (Free(row) => cdek.orders = 0 /\ \A s \in Requests : ~Registering(s))
      /\ purchase \in [status : Statuses, draft : BOOLEAN]
  BY DEF RegistrationInv, Types, Known
<1>3. Free(row') = Free(row) /\ row' = row /\ cdek' = cdek /\ purchase' = purchase
  BY DEF Free, Retriable
<1> QED
  BY <1>1, <1>2, <1>3, Closes

(* lock_purchase, and the read of the row before or after it.              *)
LEMMA LockedKeeps ==
  ASSUME RegistrationInv, NEW r \in Requests, NEW kind \in AllKinds, NEW version \in {0} \cup Versions,
         NEW loaded \in TypedRows, Locked(r, kind, version, loaded), loaded.remote => row.remote,
         kind = "retry" => loaded = row,
         kind \in {"create", "retry", "save"} => version # 0, req[r].pc \in {"idle", "begin"}
  PROVE  RegistrationInv'
<1> DEFINE q == [Idle EXCEPT !.pc = "locked", !.kind = kind, !.version = version, !.base = loaded, !.row = loaded]
<1>1. req' = [req EXCEPT ![r] = q] /\ lock = NoRequest /\ lock' = r /\ UNCHANGED <<purchase, row, cdek, faults>>
  BY DEF Locked
<1>2. /\ q.pc = "locked" /\ q.kind = kind /\ q.base = loaded /\ q.row = loaded /\ q.snap = NoRow
      /\ q \in Sessions
  BY NothingTyped, ShipmentAssumption DEF Idle, Sessions, Locations
<1>3. req \in [Requests -> Sessions] /\ req'[r] = q
  BY <1>1 DEF RegistrationInv, Types
<1>4. ~Registering(r)' /\ ~Registering(r)
  BY <1>2, <1>3 DEF Registering
<1>5. \A s \in Requests \ {r} : req'[s] = req[s] /\ Locking(s)' /\ Knows(s)' /\ Sends(s)'
  <2>1. \A s \in Requests \ {r} : lock' = s <=> lock = s
    BY <1>1, ShipmentAssumption
  <2>2. row' = row /\ cdek' = cdek
    BY <1>1
  <2> HIDE DEF q
  <2> QED
    BY <1>1, <1>4, <2>1, <2>2, Moves
<1>6. Types' /\ cdek'.orders <= 1
  BY <1>1, <1>2 DEF RegistrationInv, Types
<1>7. Known'
  BY <1>1, <1>4, <1>5 DEF RegistrationInv, Known, Free, Retriable, Registering
<1>8. Locking(r)' /\ Sends(r)'
  BY <1>1, <1>2, <1>3, <1>4 DEF Locking, Sends
<1>9. Knows(r)'
  BY <1>1, <1>2, <1>3 DEF RegistrationInv, Known, Knows, NoRow, Free, Retriable
<1> QED
  BY <1>5, <1>6, <1>7, <1>8, <1>9, MovesOn

(* A handler that waited takes the lock, and the row of its first read; a  *)
(* retry takes the row as it is.                                           *)
LEMMA LockKeeps ==
  ASSUME RegistrationInv, ReadsLatest({"retry"}), NEW r \in Requests, Lock(r)
  PROVE  RegistrationInv'
<1>1. /\ req[r] \in Sessions /\ req[r].pc = "begin" /\ req[r].kind \in Handlers
      /\ req[r].snap.remote => row.remote
      /\ req[r].kind \in {"create", "retry", "save"} => req[r].version # 0
  BY DEF Lock, At, RegistrationInv, Types, Locking, Knows
<1>2. req[r].snap \in TypedRows /\ req[r].version \in {0} \cup Versions /\ req[r].kind \in AllKinds
  BY <1>1 DEF Sessions, AllKinds
<1>3. req[r].kind = "retry" => req[r].snap = row
  BY DEF ReadsLatest
<1> QED
  BY <1>1, <1>2, <1>3, LockedKeeps DEF Lock

(* A handler takes the lock and the row as it is.                          *)
LEMMA EnterKeeps ==
  ASSUME RegistrationInv, NEW r \in Requests, NEW kind \in Kinds, NEW version \in {0} \cup Versions,
         kind \in {"create", "retry", "save"} => version # 0, Enter(r, kind, version)
  PROVE  RegistrationInv'
<1>1. row \in TypedRows /\ kind \in AllKinds /\ req[r].pc = "idle" /\ Locked(r, kind, version, row)
  BY ShipmentAssumption DEF Enter, At, RegistrationInv, Types
<1> QED
  BY <1>1, LockedKeeps

(* What is read before the lock.                                           *)
LEMMA BeginKeeps ==
  ASSUME RegistrationInv, NEW r \in Requests, NEW kind \in Kinds \cap Handlers, NEW version \in {0} \cup Versions,
         kind \in {"create", "retry", "save"} => version # 0, Begin(r, kind, version)
  PROVE  RegistrationInv'
<1> DEFINE q == [Idle EXCEPT !.pc = "begin", !.kind = kind, !.version = version, !.snap = row]
<1>1. /\ req' = [req EXCEPT ![r] = q] /\ UNCHANGED <<purchase, row, cdek, lock, faults>>
      /\ kind \in Handlers /\ req[r].pc = "idle" /\ kind \in AllKinds /\ row \in TypedRows
  BY ShipmentAssumption DEF Begin, At, RegistrationInv, Types
<1>2. /\ q.pc = "begin" /\ q.kind = kind /\ q.base = NoRow /\ q.row = NoRow /\ q.snap = row
      /\ q \in Sessions
  BY <1>1, NothingTyped DEF Idle, Sessions, Locations
<1>3. req \in [Requests -> Sessions] /\ req'[r] = q
  BY <1>1 DEF RegistrationInv, Types
<1>4. ~Registering(r)' /\ ~Registering(r)
  BY <1>1, <1>2, <1>3 DEF Registering
<1>5. \A s \in Requests \ {r} : req'[s] = req[s] /\ Locking(s)' /\ Knows(s)' /\ Sends(s)'
  <2> HIDE DEF q
  <2> QED
    BY <1>1, <1>4, Moves
<1>6. Types' /\ cdek'.orders <= 1
  BY <1>1, <1>2 DEF RegistrationInv, Types
<1>7. Known'
  BY <1>1, <1>4, <1>5 DEF RegistrationInv, Known, Free, Retriable, Registering
<1>8. Locking(r)' /\ Sends(r)'
  <2>1. lock # r
    BY <1>1 DEF RegistrationInv, Locking
  <2> QED
    BY <1>1, <1>2, <1>3, <1>4, <2>1 DEF Locking, Sends
<1>9. Knows(r)'
  BY <1>1, <1>2, <1>3, <1>4 DEF Knows, NoRow
<1> QED
  BY <1>5, <1>6, <1>7, <1>8, <1>9, MovesOn

(* Refusals and failed reads commit nothing.                               *)
LEMMA EndsKeeps ==
  ASSUME RegistrationInv, NEW r \in Requests,
         Refuse(r) \/ GetFails(r) \/ \E op \in Operations : OperationEnds(r, op)
  PROVE  RegistrationInv'
<1>1. Close(r) /\ UNCHANGED <<purchase, row, cdek>> /\ (faults' = faults \/ Fault)
  BY DEF Refuse, GetFails, OperationEnds
<1> QED
  BY <1>1, NothingCloses

(* The purchase that follows a shipment keeps its type.                    *)
LEMMA FollowedIs ==
  ASSUME Types, NEW w, NEW new
  PROVE  Followed(w, new) \in [status : Statuses, draft : BOOLEAN]
<1>1. Confirms(w) \in BOOLEAN
  BY DEF Confirms
<1> QED
  BY <1>1 DEF Types, Followed, Statuses

(* The session CDEK has answered holds the lock and a registered row.      *)
LEMMA GotIs ==
  ASSUME RegistrationInv, NEW r \in Requests, Got(r), NEW poll \in Polls
  PROVE  /\ req[r] \in Sessions /\ req[r].pc = "locked" /\ lock = r /\ req[r].base = req[r].row /\ req[r].row \in TypedRows
         /\ cdek.orders > 0
         /\ Refreshed(req[r].row, poll) \in TypedRows
         /\ Refreshed(req[r].row, poll).remote = TRUE
         /\ Refreshed(req[r].row, poll).status # "none"
  BY RefreshedIs DEF Got, At, RegistrationInv, Types, Known, Locking, Sessions

(* Answers of CDEK to GET are written over the row.                        *)
LEMMA ReadsKeep ==
  ASSUME RegistrationInv, NEW r \in Requests, Refresh(r) \/ Document(r) \/ MarkDelivering(r) \/ SaveEnds(r)
  PROVE  RegistrationInv'
<1> DEFINE P == [status : Statuses, draft : BOOLEAN]
<1>1. Got(r) /\ Close(r) /\ cdek' = cdek /\ faults' = faults /\ Types
  BY DEF Refresh, Document, MarkDelivering, SaveEnds, RegistrationInv
<1>2. ASSUME NEW poll \in Polls, row' = Flush(row, req[r].base, Refreshed(req[r].row, poll)), purchase' \in P
      PROVE  RegistrationInv'
  <2>1. cdek.orders > 0 /\ Refreshed(req[r].row, poll) \in TypedRows
        /\ Refreshed(req[r].row, poll).remote = TRUE /\ Refreshed(req[r].row, poll).status # "none"
    BY <1>1, GotIs
  <2> QED
    BY <1>1, <1>2, <2>1, FlushCloses
<1>3. CASE UNCHANGED <<purchase, row>>
  BY <1>1, <1>3, NothingCloses
<1>4. ASSUME NEW poll \in Polls, NEW order \in P, NEW status \in Statuses, NEW draft \in BOOLEAN
      PROVE  [order EXCEPT !.status = status] \in P /\ [order EXCEPT !.draft = draft] \in P
  OBVIOUS
<1>5. CASE Refresh(r)
  BY <1>1, <1>2, <1>5, FollowedIs DEF Refresh
<1>6. CASE Document(r)
  <2>1. PICK state \in Polls \cup {"removed"} :
          row' = Flush(row, req[r].base, [req[r].row EXCEPT !.waybill.state = state]) /\ purchase' = purchase
    BY <1>6 DEF Document
  <2>2. state \in States
    BY DEF Polls, States
  <2>3. "accepted" \in Polls
    BY DEF Polls
  <2>4. req[r].row \in TypedRows /\ req[r].base = req[r].row /\ cdek.orders > 0
    BY <1>1, <2>3, GotIs
  <2>5. /\ [req[r].row EXCEPT !.waybill.state = state] \in TypedRows
        /\ [req[r].row EXCEPT !.waybill.state = state].status = req[r].row.status
        /\ [req[r].row EXCEPT !.waybill.state = state].remote = req[r].row.remote
    BY <2>2, <2>4, WaybillIs DEF Fields
  <2>6. purchase' \in P
    BY <1>1, <2>1 DEF Types
  <2> QED
    BY <1>1, <2>1, <2>4, <2>5, <2>6, FlushCloses
<1>7. CASE MarkDelivering(r)
  <2>1. CASE UNCHANGED <<purchase, row>>
    BY <1>3, <2>1
  <2>2. CASE ~UNCHANGED <<purchase, row>>
    <3>1. PICK poll \in Polls :
            /\ row' = Flush(row, req[r].base, Refreshed(req[r].row, poll))
            /\ purchase' = [Followed(req[r].row, Refreshed(req[r].row, poll)) EXCEPT !.status = "delivering"]
      BY <1>7, <2>2 DEF MarkDelivering
    <3>2. purchase' \in P
      BY <1>1, <1>4, <3>1, FollowedIs DEF Statuses
    <3> QED
      BY <1>2, <3>1, <3>2
  <2> QED
    BY <2>1, <2>2
<1>8. CASE SaveEnds(r)
  <2>1. CASE UNCHANGED <<purchase, row>>
    BY <1>3, <2>1
  <2>2. CASE ~UNCHANGED <<purchase, row>>
    <3>1. PICK poll \in Polls, draft \in BOOLEAN :
            /\ row' = Flush(row, req[r].base, Refreshed(req[r].row, poll))
            /\ purchase' = [Followed(req[r].row, Refreshed(req[r].row, poll)) EXCEPT !.draft = draft]
      BY <1>8, <2>2 DEF SaveEnds
    <3>2. purchase' \in P
      BY <1>1, <1>4, <3>1, FollowedIs
    <3> QED
      BY <1>2, <3>1, <3>2
  <2> QED
    BY <2>1, <2>2
<1> QED
  BY <1>5, <1>6, <1>7, <1>8

(* The session after its reservation.                                      *)
LEMMA ReserveIs ==
  ASSUME RegistrationInv, NEW r \in Requests, NEW new \in TypedRows,
         NEW order \in [status : Statuses, draft : BOOLEAN],
         Reserve(r, order, new)
  PROVE  /\ req' = [req EXCEPT ![r] = [@ EXCEPT !.pc = "call", !.base = new, !.row = new]]
         /\ req'[r] \in Sessions
         /\ req'[r].pc = "call" /\ req'[r].base = new /\ req'[r].row = new
         /\ req'[r].kind = req[r].kind /\ req'[r].version = req[r].version /\ req'[r].snap = req[r].snap
         /\ purchase' = order /\ row' = Flush(row, req[r].base, new) /\ lock' = NoRequest /\ UNCHANGED <<cdek, faults>>
<1>1. req \in [Requests -> Sessions] /\ "call" \in Locations
  BY DEF RegistrationInv, Types, Locations
<1> QED
  BY <1>1 DEF Reserve, Sessions

(* A reservation, by what it commits and what its session knows then.      *)
LEMMA Reserved ==
  ASSUME RegistrationInv, NEW r \in Requests, NEW new \in TypedRows,
         NEW order \in [status : Statuses, draft : BOOLEAN],
         Reserve(r, order, new), req[r].pc = "locked",
         row' \in TypedRows, row.remote => row'.remote,
         Known', Knows(r)', Sends(r)',
         row' = row \/ cdek.orders > 0 \/ \A s \in Requests \ {r} : ~Registering(s),
         Registering(r)' => \A s \in Requests : ~Registering(s),
         req[r].kind \in {"create", "retry", "save", "cancel", "waybill"}
  PROVE  RegistrationInv'
<1>1. lock = r /\ req \in [Requests -> Sessions]
  BY DEF RegistrationInv, Locking, Types
<1>2. /\ req'[r] \in Sessions /\ req'[r].pc = "call" /\ req'[r].base = req'[r].row /\ req'[r].kind = req[r].kind
      /\ req'[r].version = req[r].version /\ lock' = NoRequest /\ UNCHANGED <<cdek, faults>> /\ purchase' = order
      /\ req' = [req EXCEPT ![r] = [@ EXCEPT !.pc = "call", !.base = new, !.row = new]]
  BY ONLY RegistrationInv, r \in Requests, new \in TypedRows, Reserve(r, order, new), ReserveIs,
     order \in [status : Statuses, draft : BOOLEAN]
<1>3. \A s \in Requests \ {r} : req'[s] = req[s] /\ Locking(s)' /\ Knows(s)' /\ Sends(s)'
  <2>1. \A s \in Requests \ {r} : lock' = s <=> lock = s
    BY <1>1, <1>2, ShipmentAssumption
  <2>2. req' = [req EXCEPT ![r] = req'[r]]
    BY <1>1, <1>2
  <2> QED
    BY <1>1, <1>2, <2>1, <2>2, Moves
<1>4. Types' /\ cdek'.orders <= 1
  BY <1>1, <1>2 DEF RegistrationInv, Types
<1>5. Locking(r)'
  BY <1>2, ShipmentAssumption DEF RegistrationInv, Locking
<1> QED
  BY <1>3, <1>4, <1>5, MovesOn

(* A reservation at a registered order: an edit or an operation.           *)
LEMMA ReservedLater ==
  ASSUME RegistrationInv, NEW r \in Requests, NEW new \in TypedRows,
         NEW order \in [status : Statuses, draft : BOOLEAN],
         Reserve(r, order, new), req[r].pc = "locked", req[r].kind \in {"save", "cancel", "waybill"},
         cdek.orders > 0,
         \/ new.status = req[r].base.status /\ new.remote = req[r].base.remote
         \/ new.remote = TRUE /\ new.status # "none"
  PROVE  RegistrationInv'
<1>1. /\ req'[r].pc = "call" /\ req'[r].base = new /\ req'[r].row = new /\ req'[r].kind = req[r].kind
      /\ req'[r].snap = req[r].snap
      /\ row' = Flush(row, req[r].base, new) /\ UNCHANGED cdek
      /\ req' = [req EXCEPT ![r] = [@ EXCEPT !.pc = "call", !.base = new, !.row = new]]
  BY ONLY RegistrationInv, r \in Requests, new \in TypedRows, Reserve(r, order, new), ReserveIs,
     order \in [status : Statuses, draft : BOOLEAN]
<1>2. row' \in TypedRows /\ (row.remote => row'.remote) /\ ~Free(row') /\ ~Free(row)
  BY <1>1, RowKept
<1>3. ~Registering(r)'
  BY <1>1 DEF Registering
<1>4. Known'
  BY <1>1, <1>2 DEF RegistrationInv, Known, Free, Retriable
<1>5. Knows(r)'
  <2>1. row \in TypedRows /\ req[r].base \in TypedRows
    BY DEF RegistrationInv, Types, Sessions
  <2>2. row'.remote = IF new.remote # req[r].base.remote THEN new.remote ELSE row.remote
    BY <1>1, <2>1, FlushIs DEF Fields
  <2>3. new.remote => row'.remote
    BY <2>2 DEF RegistrationInv, Knows
  <2>4. req[r].snap.remote => row'.remote
    BY <1>2 DEF RegistrationInv, Knows
  <2> QED
    BY <1>1, <1>3, <2>3, <2>4 DEF Knows
<1>6. Sends(r)'
  BY <1>3 DEF Sends
<1> QED
  BY <1>2, <1>3, <1>4, <1>5, <1>6, Reserved

(* The reservation of an edit.                                             *)
LEMMA SaveEditKeeps ==
  ASSUME RegistrationInv, NEW r \in Requests, SaveEdit(r)
  PROVE  RegistrationInv'
<1>1. Got(r) /\ req[r].kind = "save" /\ Types
  BY DEF SaveEdit, RegistrationInv
<1>2. PICK poll \in Polls :
        Reserve(r, Followed(req[r].row, Refreshed(req[r].row, poll)), [Refreshed(req[r].row, poll) EXCEPT !.editing = Op("pending")])
  BY DEF SaveEdit
<1> DEFINE new == [Refreshed(req[r].row, poll) EXCEPT !.editing = Op("pending")]
<1>3. /\ req[r].pc = "locked" /\ cdek.orders > 0
      /\ Refreshed(req[r].row, poll) \in TypedRows
      /\ Refreshed(req[r].row, poll).remote = TRUE /\ Refreshed(req[r].row, poll).status # "none"
  BY <1>1, GotIs
<1>4. Op("pending") \in EditOps /\ Op("pending") \in Ops
  BY OpIs DEF States, EditOps
<1>5. new \in TypedRows /\ new.remote = TRUE /\ new.status # "none"
  BY <1>3, <1>4 DEF TypedRows, Rows
<1>6. Followed(req[r].row, Refreshed(req[r].row, poll)) \in [status : Statuses, draft : BOOLEAN]
  BY <1>1, FollowedIs
<1> HIDE DEF new
<1> QED
  BY <1>1, <1>2, <1>3, <1>5, <1>6, ReservedLater DEF new

(* The reservation of a cancellation or of a document.                     *)
LEMMA OperationKeeps ==
  ASSUME RegistrationInv, NEW r \in Requests, NEW op \in Operations, Operation(r, op)
  PROVE  RegistrationInv'
<1> DEFINE new == [req[r].row EXCEPT ![op] = Op("pending")]
<1>1. /\ req[r].pc = "locked" /\ req[r].kind = op /\ req[r].row.remote
      /\ Reserve(r, purchase, new)
  BY DEF Operation, At, Refused, Operations
<1>2. /\ req[r].base = req[r].row /\ req[r].row \in TypedRows /\ cdek.orders > 0
      /\ purchase \in [status : Statuses, draft : BOOLEAN]
  BY <1>1 DEF RegistrationInv, Types, Sessions, Locking, Knows
<1>3. Op("pending") \in Ops
  BY OpIs DEF States, EditOps
<1>4. new \in TypedRows /\ new.remote = req[r].base.remote /\ new.status = req[r].base.status
  BY <1>2, <1>3 DEF TypedRows, Rows, Operations
<1>5. req[r].kind \in {"save", "cancel", "waybill"}
  BY <1>1 DEF Operations
<1> HIDE DEF new
<1> QED
  BY <1>1, <1>2, <1>4, <1>5, ReservedLater

(* create_shipment is refused for any other row, and for a row that was    *)
(* inserted since this one was not found.                                  *)
LEMMA MayRegister ==
  ASSUME NEW q \in Sessions, q.kind \in {"create", "retry"}, ~Refused(q)
  PROVE  /\ Free(q.row)
         /\ q.row.status = "none" => row.status = "none"
         /\ q.kind = "retry" \/ q.row.status = "none"
<1>1. /\ ~(q.row.status # "none" /\ ~(q.kind = "retry" /\ Retriable(q.row)))
      /\ ~(q.row.status = "none" /\ row.status # "none")
  BY DEF Refused
<1> QED
  BY <1>1 DEF Free

(* A registration is reserved only while there is nothing at CDEK.         *)
LEMMA CreateKeeps ==
  ASSUME RegistrationInv, NEW r \in Requests, Create(r)
  PROVE  RegistrationInv'
<1> DEFINE new == [req[r].row EXCEPT !.status = "submitting", !.registration = "pending", !.details = req[r].version]
           order == [purchase EXCEPT !.status = "assembling"]
<1>1. /\ req[r].pc = "locked" /\ req[r].kind \in {"create", "retry"} /\ Free(req[r].row) /\ Free(row)
      /\ Reserve(r, order, new)
  <2>1. /\ req[r].pc = "locked" /\ req[r].kind \in {"create", "retry"} /\ ~Refused(req[r])
        /\ Reserve(r, order, new)
    BY DEF Create, At
  <2>2. /\ Free(req[r].row)
        /\ req[r].row.status = "none" => row.status = "none"
        /\ req[r].kind = "retry" \/ req[r].row.status = "none"
    BY <2>1, MayRegister DEF RegistrationInv, Types
  <2>3. Free(row)
    BY <2>1, <2>2 DEF RegistrationInv, Knows, Free
  <2> QED
    BY <2>1, <2>2, <2>3
<1>2. /\ req[r].base = req[r].row /\ req[r].row \in TypedRows /\ row \in TypedRows
      /\ cdek.orders = 0 /\ (\A s \in Requests : ~Registering(s)) /\ ~row.remote /\ ~req[r].row.remote
      /\ req[r].version \in {0} \cup Versions
  BY <1>1 DEF RegistrationInv, Types, Sessions, Locking, Knows, Known
<1>3. new \in TypedRows /\ new.remote = req[r].row.remote /\ new.status = "submitting"
  BY <1>2 DEF TypedRows, Rows, RowStatus, States
<1>4. order \in [status : Statuses, draft : BOOLEAN]
  BY DEF RegistrationInv, Types, Statuses
<1> HIDE DEF new, order
<1>5. /\ req'[r].pc = "call" /\ req'[r].base = new /\ req'[r].row = new /\ req'[r].kind = req[r].kind
      /\ req'[r].snap = req[r].snap
      /\ row' = Flush(row, req[r].base, new) /\ UNCHANGED cdek
      /\ req' = [req EXCEPT ![r] = [@ EXCEPT !.pc = "call", !.base = new, !.row = new]]
  BY <1>1, <1>3, <1>4, ReserveIs
<1>6. row' \in TypedRows /\ row'.status = "submitting" /\ row'.remote = row.remote
  <2>1. req[r].base.status # "submitting"
    BY <1>1, <1>2 DEF Free, Retriable
  <2> QED
    BY <1>2, <1>3, <1>5, <2>1, FlushIs DEF Fields
<1>7. \A s \in Requests : s # r => ~Registering(s)'
  BY <1>2, <1>5 DEF Registering
<1>8. Known'
  BY <1>2, <1>5, <1>6 DEF RegistrationInv, Known, Free, Retriable
<1>9. Knows(r)'
  BY <1>1, <1>2, <1>3, <1>5, <1>6 DEF RegistrationInv, Knows, Registering
<1>10. Sends(r)'
  BY <1>2, <1>3, <1>5, <1>6, <1>7 DEF Sends
<1> QED
  BY <1>1, <1>2, <1>3, <1>4, <1>6, <1>8, <1>9, <1>10, Reserved

(* A session whose call has been answered.                                 *)
LEMMA AnsweredIs ==
  ASSUME RegistrationInv, NEW r \in Requests, NEW new \in TypedRows, Answered(r, new)
  PROVE  /\ req' = [req EXCEPT ![r] = req'[r]]
         /\ req'[r] \in Sessions /\ req'[r].pc = "store" /\ req'[r].row = new
         /\ req'[r].base = req[r].base /\ req'[r].kind = req[r].kind
         /\ req'[r].version = req[r].version /\ req'[r].snap = req[r].snap
<1>1. req \in [Requests -> Sessions] /\ "store" \in Locations
  BY DEF RegistrationInv, Types, Locations
<1> QED
  BY <1>1 DEF Answered, Sessions

(* A call and its answer.                                                  *)
LEMMA Answers ==
  ASSUME RegistrationInv, NEW r \in Requests, NEW new \in TypedRows, req[r].pc = "call", Answered(r, new),
         UNCHANGED <<purchase, row, lock>>, cdek' \in Orders, faults' \in 0 .. MaxFaults,
         cdek'.orders = cdek.orders \/ (cdek'.orders = 1 /\ Registering(r)),
         cdek'.orders > 0 => cdek'.status # "none", Knows(r)', Sends(r)'
  PROVE  RegistrationInv'
<1>1. /\ req' = [req EXCEPT ![r] = req'[r]] /\ req'[r] \in Sessions /\ req'[r].pc = "store" /\ req'[r].kind = req[r].kind
      /\ req'[r].version = req[r].version
  BY AnsweredIs
<1>2. Registering(r)' <=> Registering(r)
  BY <1>1 DEF Registering
<1>3. \A s \in Requests \ {r} : req'[s] = req[s] /\ Locking(s)' /\ Knows(s)' /\ Sends(s)'
  BY <1>1, <1>2, Moves
<1>4. Types' /\ cdek'.orders <= 1
  BY <1>1 DEF RegistrationInv, Types
<1>5. Known'
  <2>1. CASE cdek'.orders = cdek.orders
    BY <1>2, <1>3, <2>1 DEF RegistrationInv, Known, Free, Retriable, Registering
  <2>2. CASE cdek'.orders = 1 /\ Registering(r)
    BY <1>2, <1>3, <2>2 DEF RegistrationInv, Known, Free, Retriable, Registering
  <2> QED
    BY <2>1, <2>2
<1>6. Locking(r)'
  BY <1>1 DEF RegistrationInv, Locking
<1> QED
  BY <1>3, <1>4, <1>5, <1>6, MovesOn

(* Faults stay within their bound.                                         *)
LEMMA FaultIs ==
  ASSUME Types, Fault
  PROVE  faults' \in 0 .. MaxFaults
  BY ShipmentAssumption DEF Types, Fault

(* The POST of the only registration under way.                            *)
LEMMA PostOrderKeeps ==
  ASSUME RegistrationInv, NEW r \in Requests, PostOrder(r)
  PROVE  RegistrationInv'
<1> DEFINE w == req[r].row
<1>1. /\ req[r].pc = "call" /\ req[r].kind \in {"create", "retry"} /\ UNCHANGED <<purchase, row, lock>>
  BY DEF PostOrder, At
<1>2. /\ Registering(r) /\ cdek.orders = 0 /\ req[r] \in Sessions /\ w \in TypedRows /\ cdek \in Orders
      /\ req[r].base.status = "submitting" /\ row.status = "submitting"
      /\ Types /\ Knows(r) /\ Sends(r) /\ Known /\ req[r].version \in {0} \cup Versions
  BY <1>1 DEF RegistrationInv, Types, Sessions, Registering, Sends
<1>3. Posted(req[r].version) => /\ cdek' \in Orders /\ cdek'.orders = 1 /\ cdek'.status = "ACCEPTED"
  <2> DEFINE new == [cdek EXCEPT !.orders = @ + 1, !.registration = "accepted",
                                 !.status = "ACCEPTED", !.data = req[r].version]
  <2>1. Posted(req[r].version) => cdek' = new
    BY <1>2 DEF Posted, Registers
  <2>2. new.orders = 1 /\ new.status = "ACCEPTED"
    BY <1>2 DEF Orders
  <2>3. new \in Orders
    <3>1. "accepted" \in States /\ "ACCEPTED" \in RowStatus /\ 1 \in 0 .. 2
      BY DEF States, RowStatus
    <3> QED
      BY ONLY <1>2, <2>2, <3>1 DEF Orders
  <2> QED
    BY <2>1, <2>2, <2>3
<1>4. ASSUME NEW new \in TypedRows, Answered(r, new), faults' \in 0 .. MaxFaults,
             \/ Posted(req[r].version) /\ new.status \in {"accepted", "unknown"}
             \/ UNCHANGED cdek /\ new.status \in {"rejected", "unknown"} /\ new.remote = w.remote
      PROVE  RegistrationInv'
  <2>1. /\ cdek' \in Orders /\ (cdek'.orders = cdek.orders \/ (cdek'.orders = 1 /\ Registering(r)))
        /\ cdek'.orders > 0 => cdek'.status # "none"
        /\ cdek'.orders = 0 \/ new.status # "rejected"
        /\ cdek'.orders > 0 \/ new.remote = w.remote
    BY <1>2, <1>3, <1>4 DEF Known
  <2>2. /\ req'[r].pc = "store" /\ req'[r].row = new /\ req'[r].base = req[r].base /\ req'[r].kind = req[r].kind
        /\ req'[r].snap = req[r].snap /\ req' = [req EXCEPT ![r] = req'[r]]
    BY ONLY <1>4, RegistrationInv, r \in Requests, AnsweredIs
  <2>3. Registering(r)' /\ \A s \in Requests : Registering(s)' => s = r
    <3>1. req \in [Requests -> Sessions]
      BY <1>2 DEF Types
    <3> QED
      BY <1>1, <1>2, <2>2, <3>1 DEF Registering, Sends
  <2>4. Knows(r)'
    BY <1>1, <1>2, <2>1, <2>2, <2>3 DEF Knows
  <2>5. Sends(r)'
    BY <1>1, <1>2, <1>4, <2>1, <2>2, <2>3 DEF Sends
  <2> QED
    BY <1>1, <1>4, <2>1, <2>4, <2>5, Answers
<1>5. CASE /\ Posted(req[r].version)
           /\ Answered(r, [w EXCEPT !.remote = TRUE, !.status = "accepted", !.registration = "accepted"])
           /\ UNCHANGED faults
  <2> DEFINE new == [w EXCEPT !.remote = TRUE, !.status = "accepted", !.registration = "accepted"]
  <2>1. new \in TypedRows /\ new.status = "accepted"
    BY <1>2 DEF TypedRows, Rows, RowStatus, States
  <2>2. faults' \in 0 .. MaxFaults
    BY <1>2, <1>5 DEF Types
  <2> HIDE DEF new
  <2> QED
    BY <1>4, <1>5, <2>1, <2>2 DEF new
<1>6. CASE /\ Answered(r, [w EXCEPT !.status = "rejected", !.registration = "rejected"])
           /\ UNCHANGED <<cdek, faults>>
  <2> DEFINE new == [w EXCEPT !.status = "rejected", !.registration = "rejected"]
  <2>1. new \in TypedRows /\ new.status = "rejected" /\ new.remote = w.remote
    BY <1>2 DEF TypedRows, Rows, RowStatus, States
  <2>2. faults' \in 0 .. MaxFaults
    BY <1>2, <1>6 DEF Types
  <2> HIDE DEF new
  <2> QED
    BY <1>4, <1>6, <2>1, <2>2 DEF new
<1>7. CASE /\ Posted(req[r].version) \/ UNCHANGED cdek
           /\ Answered(r, [w EXCEPT !.status = "unknown", !.registration = "unknown"])
           /\ Fault
  <2> DEFINE new == [w EXCEPT !.status = "unknown", !.registration = "unknown"]
  <2>1. new \in TypedRows /\ new.status = "unknown" /\ new.remote = w.remote
    BY <1>2 DEF TypedRows, Rows, RowStatus, States
  <2>2. faults' \in 0 .. MaxFaults
    BY <1>2, <1>7, FaultIs
  <2> HIDE DEF new
  <2> QED
    BY <1>4, <1>7, <2>1, <2>2 DEF new
<1> QED
  BY <1>5, <1>6, <1>7 DEF PostOrder

(* A call for an order that CDEK has.                                      *)
LEMMA AnswersLater ==
  ASSUME RegistrationInv, NEW r \in Requests, NEW new \in TypedRows, req[r].pc = "call", Answered(r, new),
         req[r].kind \in {"save", "cancel", "waybill"},
         UNCHANGED <<purchase, row, lock>>, cdek' \in Orders, faults' = faults \/ Fault,
         cdek'.orders = cdek.orders, cdek'.status = cdek.status,
         new.status = req[r].row.status, new.remote = req[r].row.remote
  PROVE  RegistrationInv'
<1>1. /\ req'[r].pc = "store" /\ req'[r].row = new /\ req'[r].base = req[r].base /\ req'[r].kind = req[r].kind
      /\ req'[r].snap = req[r].snap
  BY ONLY RegistrationInv, r \in Requests, new \in TypedRows, Answered(r, new), AnsweredIs
<1>2. ~Registering(r) /\ ~Registering(r)' /\ req[r].base = req[r].row
  BY <1>1 DEF Registering, RegistrationInv, Locking
<1>3. Knows(r) /\ Known /\ Types /\ cdek.orders > 0
  BY <1>2 DEF RegistrationInv, Knows
<1>4. Knows(r)'
  BY <1>1, <1>2, <1>3 DEF Knows
<1>5. Sends(r)'
  BY <1>2 DEF Sends
<1>6. faults' \in 0 .. MaxFaults
  BY <1>3, FaultIs DEF Types
<1>7. cdek'.orders > 0 => cdek'.status # "none"
  BY <1>3 DEF Known
<1> QED
  BY <1>4, <1>5, <1>6, <1>7, Answers

(* An UPDATE request that CDEK has received changes no registration.       *)
LEMMA ReceivedIs ==
  ASSUME cdek \in Orders, NEW e \in Edits, NEW state \in States, NEW version \in Versions, Receives(e, state, version)
  PROVE  cdek' \in Orders /\ cdek'.orders = cdek.orders /\ cdek'.status = cdek.status /\ cdek'.delete = cdek.delete
<1> DEFINE edits == [cdek.edits EXCEPT ![e] = [state |-> state, version |-> version]]
<1>1. edits \in [Edits -> [state : States, version : {0} \cup Versions]]
  BY DEF Orders
<1>2. cdek' = [cdek EXCEPT !.edits = edits, !.data = IF state = "success" THEN version ELSE @]
  BY DEF Receives
<1> HIDE DEF edits
<1> QED
  BY <1>1, <1>2 DEF Orders

(* The call of an edit, with every answer of CDEK.                         *)
LEMMA PatchOrderKeeps ==
  ASSUME RegistrationInv, NEW r \in Requests, PatchOrder(r)
  PROVE  RegistrationInv'
<1> DEFINE w == req[r].row
           v == req[r].version
<1>1. /\ req[r].pc = "call" /\ req[r].kind = "save" /\ UNCHANGED <<purchase, row, lock>> /\ w \in TypedRows
      /\ cdek \in Orders /\ v \in Versions
  BY DEF PatchOrder, At, RegistrationInv, Types, Sessions, Locking
<1>2. /\ \A e \in NextEdit : e \in Edits
      /\ "accepted" \in States /\ "success" \in States /\ "rejected" \in States /\ "unknown" \in States
  BY DEF NextEdit, States
<1>3. ASSUME NEW op \in EditOps, NEW new, \/ new = [w EXCEPT !.editing = op]
                                           \/ new = [w EXCEPT !.editing = op, !.details = v, !.waybill = NoOp],
             Answered(r, new), faults' = faults \/ Fault,
             cdek' \in Orders /\ cdek'.orders = cdek.orders /\ cdek'.status = cdek.status
      PROVE  RegistrationInv'
  <2>1. new \in TypedRows /\ new.status = w.status /\ new.remote = w.remote
    BY <1>1, <1>3, NothingTyped DEF TypedRows, Rows, EditOps
  <2> QED
    BY <1>1, <1>3, <2>1, AnswersLater
<1>4. CASE \E e \in NextEdit : /\ Receives(e, "accepted", v)
                                /\ Answered(r, [w EXCEPT !.editing = [state |-> "accepted", ref |-> e, changes |-> v]])
                                /\ UNCHANGED faults
  <2>1. PICK e \in Edits : /\ Receives(e, "accepted", v)
                           /\ Answered(r, [w EXCEPT !.editing = [state |-> "accepted", ref |-> e, changes |-> v]])
    BY <1>2, <1>4
  <2>2. [state |-> "accepted", ref |-> e, changes |-> v] \in EditOps
    BY <1>1, <1>2, EditsAreRefs DEF EditOps, Ops
  <2>3. cdek' \in Orders /\ cdek'.orders = cdek.orders /\ cdek'.status = cdek.status
    BY <1>1, <1>2, <2>1, ReceivedIs
  <2> QED
    BY <1>3, <1>4, <2>1, <2>2, <2>3
<1>5. CASE \E e \in NextEdit : /\ Receives(e, "success", v)
                                /\ Answered(r, [w EXCEPT !.editing = [Op("success") EXCEPT !.ref = e],
                                                         !.details = v, !.waybill = NoOp])
                                /\ UNCHANGED faults
  <2>1. PICK e \in Edits : /\ Receives(e, "success", v)
                           /\ Answered(r, [w EXCEPT !.editing = [Op("success") EXCEPT !.ref = e],
                                                    !.details = v, !.waybill = NoOp])
    BY <1>2, <1>5
  <2>2. [Op("success") EXCEPT !.ref = e] \in EditOps
    BY <1>2, EditsAreRefs, OpIs DEF EditOps, Ops
  <2>3. cdek' \in Orders /\ cdek'.orders = cdek.orders /\ cdek'.status = cdek.status
    BY <1>1, <1>2, <2>1, ReceivedIs
  <2> QED
    BY <1>3, <1>5, <2>1, <2>2, <2>3
<1>6. CASE Answered(r, [w EXCEPT !.editing = Op("rejected")]) /\ UNCHANGED <<cdek, faults>>
  <2>1. Op("rejected") \in EditOps
    BY <1>2, OpIs
  <2> QED
    BY <1>1, <1>3, <1>6, <2>1
<1>7. CASE /\ (\E e \in NextEdit : Receives(e, "accepted", v)) \/ UNCHANGED cdek
           /\ Answered(r, [w EXCEPT !.editing = Op("unknown")])
           /\ Fault
  <2>1. Op("unknown") \in EditOps
    BY <1>2, OpIs
  <2>2. cdek' \in Orders /\ cdek'.orders = cdek.orders /\ cdek'.status = cdek.status
    BY <1>1, <1>2, <1>7, ReceivedIs
  <2> QED
    BY <1>3, <1>7, <2>1, <2>2
<1> QED
  BY <1>4, <1>5, <1>6, <1>7 DEF PatchOrder

(* The call of a cancellation or of a document, with every answer.         *)
LEMMA CallOperationKeeps ==
  ASSUME RegistrationInv, NEW r \in Requests, NEW op \in Operations, CallOperation(r, op)
  PROVE  RegistrationInv'
<1> DEFINE w == req[r].row
<1>1. /\ req[r].pc = "call" /\ req[r].kind \in {"save", "cancel", "waybill"} /\ UNCHANGED <<purchase, row, lock>>
      /\ w \in TypedRows /\ cdek \in Orders
  BY DEF CallOperation, At, RegistrationInv, Types, Sessions, Operations
<1>2. PICK value : /\ Answered(r, [w EXCEPT ![op] = value]) /\ (faults' = faults \/ Fault)
                   /\ \/ value = [Op("accepted") EXCEPT !.ref = IF op = "waybill" THEN cdek.data ELSE 0]
                      \/ value = Op("rejected")
                      \/ value = Op("unknown")
  BY DEF CallOperation
<1>3. value \in Ops
  <2>1. /\ Op("accepted") \in Ops /\ Op("rejected") \in Ops /\ Op("unknown") \in Ops
    BY OpIs DEF States, EditOps
  <2>2. cdek.data \in 0 .. MaxVersion + MaxEdits /\ 0 \in 0 .. MaxVersion + MaxEdits
    BY <1>1, EditsAreRefs DEF Orders
  <2> QED
    BY <1>2, <2>1, <2>2 DEF Ops
<1>4. [w EXCEPT ![op] = value] \in TypedRows
      /\ [w EXCEPT ![op] = value].status = w.status /\ [w EXCEPT ![op] = value].remote = w.remote
  BY <1>1, <1>3 DEF TypedRows, Rows, Operations
<1>5. cdek' \in Orders /\ cdek'.orders = cdek.orders /\ cdek'.status = cdek.status
  <2>1. UNCHANGED cdek \/ cdek' = [cdek EXCEPT !.delete = IF @ = "success" THEN @ ELSE "accepted"]
    BY DEF CallOperation, Performs
  <2> QED
    BY <1>1, <2>1 DEF Orders, States
<1> QED
  BY <1>1, <1>2, <1>4, <1>5, AnswersLater

(* The answer is written over whatever the row has become.                 *)
LEMMA StoreKeeps ==
  ASSUME RegistrationInv, NEW r \in Requests, Store(r)
  PROVE  RegistrationInv'
<1> DEFINE new == req[r].row
<1>1. /\ req[r].pc = "store" /\ row' = Flush(row, req[r].base, new) /\ Close(r) /\ UNCHANGED <<cdek, faults>>
      /\ purchase' = purchase \/ purchase' = [purchase EXCEPT !.draft = FALSE]
  BY DEF Store, At, Saved
<1>2. /\ row \in TypedRows /\ req[r].base \in TypedRows /\ new \in TypedRows
      /\ faults \in 0 .. MaxFaults /\ purchase' \in [status : Statuses, draft : BOOLEAN]
  BY <1>1 DEF RegistrationInv, Types, Sessions
<1>3. CASE ~Registering(r)
  <2>1. cdek.orders > 0 /\ new.status = req[r].base.status /\ new.remote = req[r].base.remote
    BY <1>1, <1>3 DEF RegistrationInv, Knows
  <2> QED
    BY <1>1, <1>2, <2>1, FlushCloses
<1>4. CASE Registering(r)
  <2>1. /\ \A s \in Requests \ {r} : ~Registering(s)
        /\ req[r].base.status = "submitting" /\ new.status \in {"accepted", "rejected", "unknown"}
        /\ new.status = "rejected" => cdek.orders = 0
        /\ Known /\ ~Free(row) /\ (new.remote => cdek.orders > 0) /\ (req[r].base.remote => row.remote)
    BY <1>1, <1>4 DEF RegistrationInv, Sends, Known, Knows
  <2>2. /\ row' \in TypedRows
        /\ row'.status = IF new.status # req[r].base.status THEN new.status ELSE row.status
        /\ row'.remote = IF new.remote # req[r].base.remote THEN new.remote ELSE row.remote
    BY <1>1, <1>2, FlushIs DEF Fields
  <2>3. row.remote \in BOOLEAN /\ req[r].base.remote \in BOOLEAN /\ new.remote \in BOOLEAN
    BY <1>2 DEF TypedRows, Rows
  <2>4. row'.remote => cdek.orders > 0
    BY <2>1, <2>2, <2>3 DEF Known
  <2>5. Free(row') => cdek.orders = 0
    BY <2>1, <2>2 DEF Free, Retriable
  <2>6. row.remote => row'.remote
    <3>1. req[r].base.remote => new.remote
      BY <1>1, <1>4 DEF RegistrationInv, Sends
    <3> QED
      BY <2>2, <2>3, <3>1
  <2> QED
    BY <1>1, <1>2, <2>1, <2>2, <2>4, <2>5, <2>6, Closes
<1> QED
  BY <1>3, <1>4

(* CDEK registers, refuses, edits, cancels and moves the orders it has.    *)
LEMMA CdekKeeps ==
  ASSUME RegistrationInv, NEW new, Cdek(new), new \in Orders, new.orders = cdek.orders,
         cdek.orders > 0 => new.status # "none"
  PROVE  RegistrationInv'
<1>1. UNCHANGED <<purchase, row, lock, req, faults>> /\ cdek' = new
  BY DEF Cdek
<1>2. \A s \in Requests : Registering(s)' <=> Registering(s)
  BY <1>1 DEF Registering
<1>3. Types' /\ Known' /\ cdek'.orders <= 1
  BY <1>1, <1>2 DEF RegistrationInv, Types, Known, Free, Retriable
<1>4. ASSUME NEW s \in Requests PROVE Locking(s)' /\ Knows(s)' /\ Sends(s)'
  BY <1>1, <1>2 DEF RegistrationInv, Locking, Knows, Sends, Free, Retriable
<1> QED
  BY <1>3, <1>4 DEF RegistrationInv

(* The steps of CDEK, as the values they give to its order.                *)
LEMMA CdekSteps ==
  ASSUME Types, Register \/ SettleCancel \/ Move \/ \E e \in Edits : SettleEdit(e)
  PROVE  /\ Cdek(cdek') /\ cdek' \in Orders /\ cdek'.orders = cdek.orders
         /\ cdek.status # "none" => cdek'.status # "none"
<1>1. cdek \in Orders
  BY DEF Types
<1>2. CASE Register \/ SettleCancel \/ Move
  <2>1. PICK registration \in States, status \in RowStatus \ {"none"}, delete \in States :
          \/ Cdek([cdek EXCEPT !.registration = registration, !.status = status])
          \/ Cdek([cdek EXCEPT !.registration = registration])
          \/ Cdek([cdek EXCEPT !.delete = delete, !.status = status])
          \/ Cdek([cdek EXCEPT !.delete = delete])
          \/ Cdek([cdek EXCEPT !.status = status])
    BY <1>2 DEF Register, SettleCancel, Move, States, RowStatus
  <2>2. ASSUME NEW new, Cdek(new), new \in Orders, new.orders = cdek.orders, new.status = cdek.status \/ new.status # "none"
        PROVE  /\ Cdek(cdek') /\ cdek' \in Orders /\ cdek'.orders = cdek.orders
               /\ cdek.status # "none" => cdek'.status # "none"
    BY <2>2 DEF Cdek
  <2>3. CASE Cdek([cdek EXCEPT !.registration = registration, !.status = status])
    BY <1>1, <2>2, <2>3 DEF Orders
  <2>4. CASE Cdek([cdek EXCEPT !.registration = registration])
    BY <1>1, <2>2, <2>4 DEF Orders
  <2>5. CASE Cdek([cdek EXCEPT !.delete = delete, !.status = status])
    BY <1>1, <2>2, <2>5 DEF Orders
  <2>6. CASE Cdek([cdek EXCEPT !.delete = delete])
    BY <1>1, <2>2, <2>6 DEF Orders
  <2>7. CASE Cdek([cdek EXCEPT !.status = status])
    BY <1>1, <2>2, <2>7 DEF Orders
  <2> QED
    BY <2>1, <2>3, <2>4, <2>5, <2>6, <2>7
<1>3. CASE \E e \in Edits : SettleEdit(e)
  <2>1. PICK e \in Edits : SettleEdit(e)
    BY <1>3
  <2> DEFINE edits(state) == [cdek.edits EXCEPT ![e].state = state]
  <2>2. edits("success") \in [Edits -> [state : States, version : {0} \cup Versions]]
        /\ edits("rejected") \in [Edits -> [state : States, version : {0} \cup Versions]]
    BY <1>1 DEF Orders, States
  <2>3. \/ Cdek([cdek EXCEPT !.edits = edits("success"), !.data = cdek.edits[e].version])
        \/ Cdek([cdek EXCEPT !.edits = edits("rejected")])
    BY <2>1 DEF SettleEdit
  <2>4. cdek.edits[e].version \in {0} \cup Versions
    BY <1>1 DEF Orders
  <2> HIDE DEF edits
  <2> QED
    BY <1>1, <2>2, <2>3, <2>4 DEF Cdek, Orders
<1> QED
  BY <1>2, <1>3

(* A restart forgets the sessions and nothing else.                        *)
LEMMA CrashKeeps ==
  ASSUME RegistrationInv, Crash
  PROVE  RegistrationInv'
<1>1. /\ UNCHANGED <<purchase, row, cdek>> /\ lock' = NoRequest /\ req' = [r \in Requests |-> Idle] /\ Fault
  BY DEF Crash
<1>2. \A r \in Requests : req'[r] = Idle /\ ~Registering(r)'
  BY <1>1 DEF Registering, Idle
<1>3. Types'
  BY <1>1, NothingTyped, FaultIs DEF RegistrationInv, Types
<1>4. Known' /\ cdek'.orders <= 1
  BY <1>1, <1>2 DEF RegistrationInv, Known, Free, Retriable
<1>5. ASSUME NEW r \in Requests PROVE Locking(r)' /\ Knows(r)' /\ Sends(r)'
  BY <1>1, <1>2, ShipmentAssumption DEF Locking, Knows, Sends, Idle, NoRow
<1> QED
  BY <1>3, <1>4, <1>5 DEF RegistrationInv

(* The other writers change nothing but the status of the purchase.        *)
LEMMA WriterIs ==
  ASSUME Types, Patch \/ Pay \/ Finish
  PROVE  /\ UNCHANGED <<row, cdek, lock, req, faults>>
         /\ purchase' \in [status : Statuses, draft : BOOLEAN]
         /\ lock = NoRequest
<1>1. PICK status \in Statuses : purchase' = [purchase EXCEPT !.status = status]
  BY DEF Patch, Pay, Finish, Write, Statuses
<1>2. UNCHANGED <<row, cdek, lock, req, faults>> /\ lock = NoRequest
  BY DEF Patch, Pay, Finish, Write
<1> QED
  BY <1>1, <1>2 DEF Types

LEMMA WriterKeeps ==
  ASSUME RegistrationInv, Patch \/ Pay \/ Finish
  PROVE  RegistrationInv'
<1>1. UNCHANGED <<row, cdek, lock, req, faults>> /\ purchase' \in [status : Statuses, draft : BOOLEAN]
  BY WriterIs DEF RegistrationInv
<1>2. \A s \in Requests : Registering(s)' <=> Registering(s)
  BY <1>1 DEF Registering
<1>3. Types' /\ Known' /\ cdek'.orders <= 1
  BY <1>1, <1>2 DEF RegistrationInv, Types, Known, Free, Retriable
<1>4. ASSUME NEW s \in Requests PROVE Locking(s)' /\ Knows(s)' /\ Sends(s)'
  BY <1>1, <1>2 DEF RegistrationInv, Locking, Knows, Sends, Free, Retriable
<1> QED
  BY <1>3, <1>4 DEF RegistrationInv

(* Nothing happens.                                                        *)
LEMMA Stutters ==
  ASSUME RegistrationInv, UNCHANGED vars
  PROVE  RegistrationInv'
<1>1. \A s \in Requests : Registering(s)' <=> Registering(s)
  BY DEF Registering, vars
<1>2. Types' /\ Known' /\ cdek'.orders <= 1
  BY <1>1 DEF RegistrationInv, Types, Known, Free, Retriable, vars
<1>3. ASSUME NEW s \in Requests PROVE Locking(s)' /\ Knows(s)' /\ Sends(s)'
  BY <1>1 DEF RegistrationInv, Locking, Knows, Sends, Free, Retriable, vars
<1> QED
  BY <1>2, <1>3 DEF RegistrationInv

(* The inputs of a handler.                                                *)
LEMMA Starts ==
  ASSUME NEW kind \in Kinds, NEW version \in IF kind \in {"create", "retry", "save"} THEN Versions ELSE {0}
  PROVE  version \in {0} \cup Versions /\ (kind \in {"create", "retry", "save"} => version # 0)
  BY ShipmentAssumption DEF Versions

(* Every step keeps the order of the registrations.                        *)
LEMMA RegistrationStep ==
  ASSUME RegistrationInv, [Next /\ ReadsLatest({"retry"})]_vars
  PROVE  RegistrationInv'
<1>1. ASSUME NEW r \in Requests, NEW kind \in Kinds \cap Handlers,
             NEW version \in IF kind \in {"create", "retry", "save"} THEN Versions ELSE {0},
             Begin(r, kind, version) \/ Enter(r, kind, version)
      PROVE  RegistrationInv'
  BY <1>1, Starts, BeginKeeps, EnterKeeps
<1>2. ASSUME NEW r \in Requests, Step(r), ReadsLatest({"retry"}) PROVE RegistrationInv'
  BY <1>2, LockKeeps, EndsKeeps, StoreKeeps, CreateKeeps, PostOrderKeeps, ReadsKeep, SaveEditKeeps, PatchOrderKeeps,
     OperationKeeps, CallOperationKeeps DEF Step
<1>3. CASE Register \/ SettleCancel \/ Move \/ \E e \in Edits : SettleEdit(e)
  <2>1. Types /\ (cdek.orders > 0 => cdek.status # "none")
    BY DEF RegistrationInv, Known
  <2>2. /\ Cdek(cdek') /\ cdek' \in Orders /\ cdek'.orders = cdek.orders
        /\ cdek.status # "none" => cdek'.status # "none"
    BY <1>3, <2>1, CdekSteps
  <2> QED
    BY <2>1, <2>2, CdekKeeps
<1>4. CASE Crash
  BY <1>4, CrashKeeps
<1>5. CASE Patch \/ Pay \/ Finish
  BY <1>5, WriterKeeps
<1>6. CASE UNCHANGED vars
  BY <1>6, Stutters
<1> QED
  BY <1>1, <1>2, <1>3, <1>4, <1>5, <1>6 DEF Next

(* The lock of the purchase and the reservations order the handlers, as    *)
(* long as a retry reads the row of its lock.                              *)
THEOREM RegistrationInvariant == RetriesReadLatest => []RegistrationInv
<1>1. Init => RegistrationInv
  BY RegistrationInit
<1>2. RegistrationInv /\ [Next /\ ReadsLatest({"retry"})]_vars => RegistrationInv'
  BY RegistrationStep
<1> QED
  BY <1>1, <1>2, PTL DEF RetriesReadLatest

(* The tables, CDEK's order and the sessions keep their types.             *)
THEOREM ShipmentTypes == RetriesReadLatest => []TypeOK
<1>1. TypedRows \subseteq Rows
  BY DEF TypedRows
<1>2. \A q \in Sessions : q \in [pc : {"idle", "begin", "locked", "call", "store"}, kind : AllKinds \cup {"none"},
        version : {0} \cup Versions, snap : Rows, base : Rows, row : Rows]
  BY <1>1 DEF Sessions, Locations
<1>3. RegistrationInv => TypeOK
  BY <1>1, <1>2 DEF RegistrationInv, Types, TypeOK, Orders, Statuses
<1> QED
  BY <1>3, RegistrationInvariant, PTL

(* "durable write reservations prevent duplicate waybills" (cdek.py:1):    *)
(* CDEK gets at most one order for a purchase, when a retry decides by the *)
(* row as it is when it gets the lock.                                     *)
THEOREM OrderIsOne == RetriesReadLatest => []OneOrder
<1>1. RegistrationInv => OneOrder
  BY DEF RegistrationInv, OneOrder
<1> QED
  BY <1>1, RegistrationInvariant, PTL

-----------------------------------------------------------------------------
(* The purchase follows its shipment.                                      *)
LEMMA RankIs ==
  /\ Rank("awaiting_payment") = 0 /\ Rank("assembling") = 1 /\ Rank("delivering") = 2 /\ Rank("finished") = 3
  /\ \A status \in Statuses : ~(Rank(status) < Rank("awaiting_payment"))
  /\ ~(Rank("assembling") < Rank("assembling")) /\ ~(Rank("delivering") < Rank("assembling")) /\ ~(Rank("finished") < Rank("assembling"))
  /\ ~(Rank("delivering") < Rank("delivering")) /\ ~(Rank("finished") < Rank("delivering")) /\ ~(Rank("finished") < Rank("finished"))
<1>1. Rank("awaiting_payment") = 0 /\ Rank("assembling") = 1
  BY DEF Rank
<1>2. Rank("delivering") = 2
  BY DEF Rank
<1>3. Rank("finished") = 3
  BY DEF Rank
<1> QED
  BY <1>1, <1>2, <1>3 DEF Statuses

(* Following the shipment never takes the purchase back.                   *)
LEMMA Follows ==
  ASSUME Types, NEW w, NEW new
  PROVE  /\ ~(Rank(Followed(w, new).status) < Rank(purchase.status))
         /\ Followed(w, new).status \in Statuses
         /\ Followed(w, new).status # "finished" => purchase.status # "finished"
<1>1. /\ purchase.status \in Statuses
      /\ Followed(w, new).status = IF new.status = "DELIVERED" THEN "finished"
              ELSE IF new.status = "TRANSIT" /\ purchase.status = "assembling" THEN "delivering"
              ELSE purchase.status
  BY DEF Types, Followed
<1> QED
  BY <1>1, RankIs DEF Statuses

(* Only the registration of an unregistered purchase and a PATCH reset its *)
(* status.                                                                 *)
LEMMA GoesForward ==
  ASSUME RegistrationInv, [Next]_vars, Rank(purchase'.status) < Rank(purchase.status)
  PROVE  purchase'.status = "awaiting_payment" \/ (~row.remote /\ cdek.orders = 0)
<1>1. Types /\ purchase \in [status : Statuses, draft : BOOLEAN]
  BY DEF RegistrationInv, Types
<1>2. purchase'.status # purchase.status
  BY <1>1, RankIs DEF Statuses
<1>3. \/ Patch \/ Pay \/ Finish
      \/ \E r \in Requests : Create(r) \/ Refresh(r) \/ MarkDelivering(r) \/ SaveEnds(r) \/ SaveEdit(r)
  <2>1. UNCHANGED purchase => FALSE
    BY <1>2
  <2>2. ASSUME NEW r \in Requests, Store(r) PROVE FALSE
    BY <1>1, <1>2, <2>2 DEF Store
  <2> QED
    BY <2>1, <2>2 DEF Next, Step, vars, Begin, Enter, Lock, Locked, Refuse, PostOrder, GetFails, Document, PatchOrder,
      OperationEnds, Operation, Reserve, CallOperation, Register, SettleCancel, Move, SettleEdit, Cdek, Crash
<1>4. ASSUME NEW r \in Requests, Create(r) PROVE ~row.remote /\ cdek.orders = 0
  <2>1. req[r].pc = "locked" /\ req[r].kind \in {"create", "retry"} /\ ~Refused(req[r])
    BY <1>4 DEF Create, At
  <2>2. /\ Free(req[r].row)
        /\ req[r].row.status = "none" => row.status = "none"
        /\ req[r].kind = "retry" \/ req[r].row.status = "none"
    BY <2>1, MayRegister DEF RegistrationInv, Types
  <2>3. Free(row)
    BY <2>1, <2>2 DEF RegistrationInv, Knows, Free
  <2> QED
    BY <2>3 DEF RegistrationInv, Known, Types, TypedRows, Rows
<1>5. ASSUME NEW w, NEW new, purchase'.status = Followed(w, new).status PROVE FALSE
  BY <1>1, <1>5, Follows
<1>6. ASSUME NEW r \in Requests, Refresh(r) PROVE FALSE
  BY <1>5, <1>6 DEF Refresh
<1>7. ASSUME NEW r \in Requests, MarkDelivering(r) PROVE FALSE
  <2>1. PICK poll \in Polls : LET order == Followed(req[r].row, Refreshed(req[r].row, poll))
                              IN  /\ order.status = "delivering" \/ CanDispatch(order, Refreshed(req[r].row, poll))
                                  /\ purchase' = [order EXCEPT !.status = "delivering"]
    BY <1>2, <1>7 DEF MarkDelivering
  <2> DEFINE order == Followed(req[r].row, Refreshed(req[r].row, poll))
  <2>2. order \in [status : Statuses, draft : BOOLEAN]
    BY <1>1, FollowedIs
  <2>3. order.status \in {"assembling", "delivering"}
    BY <2>1 DEF CanDispatch
  <2>4. purchase'.status = "delivering" /\ purchase.status # "finished"
    BY <1>1, <2>1, <2>2, <2>3, Follows
  <2> QED
    BY <1>1, <2>4, RankIs DEF Statuses
<1>8. ASSUME NEW r \in Requests, SaveEnds(r) PROVE FALSE
  <2>1. PICK poll \in Polls, draft \in BOOLEAN :
          purchase' = [Followed(req[r].row, Refreshed(req[r].row, poll)) EXCEPT !.draft = draft]
    BY <1>2, <1>8 DEF SaveEnds
  <2>2. Followed(req[r].row, Refreshed(req[r].row, poll)) \in [status : Statuses, draft : BOOLEAN]
    BY <1>1, FollowedIs
  <2> QED
    BY <1>5, <2>1, <2>2
<1>9. ASSUME NEW r \in Requests, SaveEdit(r) PROVE FALSE
  BY <1>5, <1>9 DEF SaveEdit, Reserve
<1>10. CASE Patch
  BY <1>1, <1>10 DEF Patch, Write
<1>11. CASE Pay \/ Finish
  <2>1. \/ purchase.status = "awaiting_payment" /\ purchase' = [purchase EXCEPT !.status = "assembling"]
        \/ purchase' = [purchase EXCEPT !.status = "finished"]
    BY <1>11 DEF Pay, Finish, Write
  <2>2. \/ purchase.status = "awaiting_payment" /\ purchase'.status = "assembling"
        \/ purchase'.status = "finished"
    BY <1>1, <2>1
  <2> QED
    BY <1>1, <2>2, RankIs DEF Statuses
<1> QED
  BY <1>3, <1>4, <1>6, <1>7, <1>8, <1>9, <1>10, <1>11

(* A purchase with a registered shipment never goes back to an earlier     *)
(* status (cdek.py:188-190, 297-307; purchases.py:794-801), but for the    *)
(* PATCH that asks for payment again.                                      *)
THEOREM PurchaseGoesForward == RetriesReadLatest => OnlyPatchTakesBack
<1>1. RegistrationInv /\ [Next /\ ReadsLatest({"retry"})]_vars =>
        [Rank(purchase'.status) < Rank(purchase.status) =>
           purchase'.status = "awaiting_payment" \/ (~row.remote /\ cdek.orders = 0)]_vars
  BY GoesForward
<1> QED
  BY <1>1, RegistrationInvariant, PTL DEF RetriesReadLatest, OnlyPatchTakesBack

-----------------------------------------------------------------------------
(* Edits.                                                                  *)
LEMMA EditInit ==
  ASSUME Init
  PROVE  EditInv
<1>1. EditPart
  BY DEF Init, EditPart, NoRow, Undecided
<1>2. ASSUME NEW r \in Requests PROVE EditSession(r)
  BY <1>2 DEF Init, EditSession, Idle, NoRow, Editing, Registering
<1> QED
  BY <1>1, <1>2 DEF EditInv

(* CDEK's account of the edits makes a row's account of them true.         *)
LEMMA RefreshedTells ==
  ASSUME cdek \in Orders, EditPart, NEW w \in TypedRows, Tells(cdek, w.editing, w.details)
  PROVE  /\ Tells(cdek, RefreshedEdit(w), IF Confirms(w) THEN w.editing.changes ELSE w.details)
         /\ w.editing = Op("pending") => RefreshedEdit(w) = w.editing /\ ~Confirms(w)
<1> DEFINE op == w.editing
<1>1. op \in Ops /\ (op.changes # 0 => op.ref \in Edits)
  BY DEF TypedRows, EditOps
<1>2. CASE (EditOpen(w) /\ op.changes = 0) \/ Latest = {}
  <2>1. RefreshedEdit(w) = op
    BY <1>2 DEF RefreshedEdit
  <2>2. ~Confirms(w)
    BY <2>1 DEF Confirms, Tells
  <2> QED
    BY <2>1, <2>2
<1>3. CASE ~((EditOpen(w) /\ op.changes = 0) \/ Latest = {}) /\ op.changes # 0
  <2> DEFINE state == cdek.edits[op.ref].state
  <2>1. RefreshedEdit(w) = [op EXCEPT !.state = state, !.changes = IF state = "success" THEN 0 ELSE @]
    BY <1>3 DEF RefreshedEdit
  <2>2. /\ RefreshedEdit(w).state = state /\ RefreshedEdit(w).ref = op.ref
        /\ RefreshedEdit(w).changes = IF state = "success" THEN 0 ELSE op.changes
    BY <1>1, <2>1 DEF Ops
  <2>3. state \in {"accepted", "success", "rejected"}
    BY <1>1, <1>3 DEF EditPart, Tells
  <2>4. Confirms(w) <=> state = "success"
    BY <1>3, <2>2 DEF Confirms
  <2>5. op # Op("pending")
    BY <1>3 DEF Op, NoOp
  <2>6. Tells(cdek, RefreshedEdit(w), IF Confirms(w) THEN w.editing.changes ELSE w.details)
    <3>1. CASE state = "success"
      BY <1>1, <1>3, <2>2, <2>4, <3>1 DEF Tells, Awaits, Undecided
    <3>2. CASE state = "accepted"
      BY <1>1, <1>3, <2>2, <2>4, <3>2 DEF Tells, Awaits, Undecided
    <3>3. CASE state = "rejected"
      BY <1>1, <1>3, <2>2, <2>4, <3>3 DEF Tells, Awaits, Undecided
    <3> QED
      BY <2>3, <3>1, <3>2, <3>3
  <2> QED
    BY <2>5, <2>6
<1>4. CASE ~((EditOpen(w) /\ op.changes = 0) \/ Latest = {}) /\ op.changes = 0
  <2> DEFINE e == CHOOSE e \in Latest : TRUE
  <2>1. e \in Edits /\ op.state \notin {"pending", "unknown"}
    BY <1>4 DEF Latest, EditOpen
  <2>2. RefreshedEdit(w) = [NoOp EXCEPT !.state = cdek.edits[e].state, !.ref = e]
    BY <1>4 DEF RefreshedEdit
  <2>3. RefreshedEdit(w).changes = 0
    BY <2>2 DEF NoOp
  <2>4. ~Confirms(w) /\ op # Op("pending")
    BY <1>4, <2>1 DEF Confirms, Op, NoOp
  <2> QED
    BY <1>4, <2>1, <2>3, <2>4 DEF Tells, Awaits
<1> QED
  BY <1>2, <1>3, <1>4

(* A row that is not waiting has the details that CDEK has.                *)
LEMMA NotOpen ==
  ASSUME NEW c, NEW w, Tells(c, w.editing, w.details), ~EditOpen(w)
  PROVE  w.details = c.data /\ ~Undecided(c)
  BY DEF Tells, Awaits, EditOpen

(* One session moves; the others keep what they may write and decide by.   *)
LEMMA EditMoves ==
  ASSUME RegistrationInv, EditInv, NEW r \in Requests, req' = [req EXCEPT ![r] = req'[r]],
         cdek'.orders = cdek.orders \/ cdek'.orders > 0,
         (row'.editing = row.editing /\ row'.details = row.details) \/ lock = r \/ Editing(r),
         \/ /\ row'.editing = row.editing /\ row'.details = row.details
            /\ cdek'.edits = cdek.edits /\ cdek'.data = cdek.data
         \/ \A s \in Requests \ {r} : ~Editing(s),
         row'.details = row.details \/ cdek.orders > 0 \/ \A s \in Requests \ {r} : ~Registering(s),
         Editing(r)' => Editing(r) \/ (lock = r /\ \A s \in Requests : ~Editing(s)),
         (req[r].pc # "locked" /\ req'[r].pc = "locked") => req'[r].row = row,
         (req[r].pc = "locked" /\ req'[r].pc = "locked") => FALSE
  PROVE  \A s \in Requests \ {r} : EditSession(s)'
<1> SUFFICES ASSUME NEW s \in Requests \ {r} PROVE EditSession(s)'
  OBVIOUS
<1>1. req'[s] = req[s] /\ \A t \in Requests \ {r} : req'[t] = req[t]
  BY DEF RegistrationInv, Types
<1>2. EditSession(s) /\ Locking(s) /\ EditSession(r)
  BY DEF RegistrationInv, EditInv
<1>3. (Editing(s)' <=> Editing(s)) /\ (Registering(s)' <=> Registering(s))
  BY <1>1 DEF Editing, Registering
<1>4. \A t \in Requests \ {r} : Editing(t)' <=> Editing(t)
  BY <1>1 DEF Editing
<1>5. /\ cdek'.orders = 0 => req'[s].row.editing = NoOp /\ req'[s].base.editing = NoOp
      /\ Registering(s)' /\ cdek'.orders = 0 => row'.details = req'[s].version
      /\ req'[s].pc \in {"call", "store"} /\ ~Editing(s)' =>
           req'[s].row.editing = req'[s].base.editing /\ req'[s].row.details = req'[s].base.details
  BY <1>1, <1>2, <1>3 DEF EditSession
<1>6. req'[s].pc = "locked" =>
        \/ req'[s].row.editing = Op("pending")
        \/ /\ req'[s].row.editing = row'.editing /\ req'[s].row.details = row'.details
           /\ \A t \in Requests : ~Editing(t)'
  <2> SUFFICES ASSUME req[s].pc = "locked", req[s].row.editing # Op("pending")
               PROVE  /\ req[s].row.editing = row'.editing /\ req[s].row.details = row'.details
                      /\ \A t \in Requests : ~Editing(t)'
    BY <1>1
  <2>1. /\ lock # r /\ \A t \in Requests : ~Editing(t)
        /\ req[s].row.editing = row.editing /\ req[s].row.details = row.details
    BY <1>2 DEF EditSession, Locking
  <2> QED
    BY <1>4, <2>1
<1>7. Editing(s)' =>
     /\ \A t \in Requests : Editing(t)' => t = s
     /\ row'.editing = Op("pending") /\ req'[s].base.editing = Op("pending")
     /\ req'[s].base.details = row'.details
     /\ req'[s].pc = "call" => row'.details = cdek'.data /\ ~Undecided(cdek')
     /\ req'[s].pc = "store" =>
          req'[s].row.editing # Op("pending") /\ Tells(cdek', req'[s].row.editing, req'[s].row.details)
  <2> SUFFICES ASSUME Editing(s)
               PROVE  /\ \A t \in Requests : Editing(t)' => t = s
                      /\ row'.editing = Op("pending") /\ req[s].base.editing = Op("pending")
                      /\ req[s].base.details = row'.details
                      /\ req[s].pc = "call" => row'.details = cdek'.data /\ ~Undecided(cdek')
                      /\ req[s].pc = "store" =>
                           req[s].row.editing # Op("pending") /\ Tells(cdek', req[s].row.editing, req[s].row.details)
    BY <1>1, <1>3
  <2>1. /\ row'.editing = row.editing /\ row'.details = row.details
        /\ cdek'.edits = cdek.edits /\ cdek'.data = cdek.data
    OBVIOUS
  <2>2. ~Editing(r)'
    BY <1>2 DEF EditSession
  <2>3. \A t \in Requests : Editing(t)' => t = s
    BY <1>2, <1>4, <2>2 DEF EditSession
  <2>4. (Undecided(cdek') <=> Undecided(cdek))
        /\ (Tells(cdek', req[s].row.editing, req[s].row.details) <=> Tells(cdek, req[s].row.editing, req[s].row.details))
    BY <2>1 DEF Undecided, Tells, Awaits
  <2> QED
    BY <1>2, <2>1, <2>3, <2>4 DEF EditSession
<1> QED
  BY <1>5, <1>6, <1>7 DEF EditSession

(* What remains to be shown of a step of one session.                      *)
LEMMA EditMovesOn ==
  ASSUME EditInv, NEW r \in Requests, \A s \in Requests \ {r} : EditSession(s)',
         EditPart', EditSession(r)'
  PROVE  EditInv'
  BY DEF EditInv

(* A session that ends, after it may have changed the row.                 *)
LEMMA EditCloses ==
  ASSUME RegistrationInv, EditInv, NEW r \in Requests, Close(r), cdek' = cdek, EditPart',
         (row'.editing = row.editing /\ row'.details = row.details) \/ lock = r \/ Editing(r),
         (row'.editing = row.editing /\ row'.details = row.details) \/ \A s \in Requests \ {r} : ~Editing(s),
         row'.details = row.details \/ cdek.orders > 0 \/ \A s \in Requests \ {r} : ~Registering(s)
  PROVE  EditInv'
<1>1. req' = [req EXCEPT ![r] = Idle] /\ req'[r] = Idle
  BY DEF Close, RegistrationInv, Types
<1>2. Idle.pc = "idle" /\ Idle.row.editing = NoOp /\ Idle.base.editing = NoOp
  BY DEF Idle, NoRow
<1>3. ~Editing(r)' /\ ~Registering(r)'
  BY <1>1, <1>2 DEF Editing, Registering
<1>4. \A s \in Requests \ {r} : EditSession(s)'
  BY <1>1, <1>2, <1>3, EditMoves
<1>5. EditSession(r)'
  BY <1>1, <1>2, <1>3 DEF EditSession
<1> QED
  BY <1>4, <1>5, EditMovesOn

(* What the row says stays true while neither it nor CDEK changes.         *)
LEMMA NothingEdited ==
  ASSUME EditInv, row' = row, cdek' = cdek
  PROVE  EditPart'
  BY DEF EditInv, EditPart, Tells, Awaits, Undecided

(* A session that ends and writes nothing.                                 *)
LEMMA EditEnds ==
  ASSUME RegistrationInv, EditInv, NEW r \in Requests, Close(r), UNCHANGED <<row, cdek>>
  PROVE  EditInv'
  BY NothingEdited, EditCloses

(* A handler that takes the lock with the row as it is.                    *)
LEMMA EditLocked ==
  ASSUME RegistrationInv, EditInv, NEW r \in Requests, NEW kind, NEW version, Locked(r, kind, version, row),
         req[r].pc \in {"idle", "begin"}
  PROVE  EditInv'
<1> DEFINE q == [Idle EXCEPT !.pc = "locked", !.kind = kind, !.version = version, !.base = row, !.row = row]
<1>1. req' = [req EXCEPT ![r] = q] /\ req'[r] = q /\ lock = NoRequest /\ row' = row /\ cdek' = cdek
  BY DEF Locked, RegistrationInv, Types
<1>2. q.pc = "locked" /\ q.row = row /\ q.base = row
  BY DEF Idle
<1> HIDE DEF q
<1>3. /\ ~Editing(r)' /\ ~Registering(r)'
      /\ ~Editing(r) /\ ~Registering(r)
  BY <1>1, <1>2 DEF Editing, Registering
<1>4. \A s \in Requests \ {r} : EditSession(s)'
  BY <1>1, <1>2, <1>3, EditMoves
<1>5. EditPart'
  BY <1>1, NothingEdited
<1>6. EditSession(r)'
  <2>1. row.editing = Op("pending") \/ \A s \in Requests : ~Editing(s)'
    <3>1. \A s \in Requests \ {r} : req'[s] = req[s]
      BY <1>1 DEF RegistrationInv, Types
    <3> QED
      BY <1>3, <3>1 DEF EditInv, EditSession, Editing
  <2>2. cdek.orders = 0 => row.editing = NoOp
    BY DEF EditInv, EditPart
  <2> QED
    BY <1>1, <1>2, <1>3, <2>1, <2>2 DEF EditSession
<1> QED
  BY <1>4, <1>5, <1>6, EditMovesOn

(* A handler reads, waits for the lock and takes it.                       *)
LEMMA EditStarts ==
  ASSUME RegistrationInv, EditInv, ReadsLatest(Handlers), NEW r \in Requests, NEW kind, NEW version,
         Begin(r, kind, version) \/ Enter(r, kind, version) \/ Lock(r)
  PROVE  EditInv'
<1>1. CASE Begin(r, kind, version)
  <2> DEFINE q == [Idle EXCEPT !.pc = "begin", !.kind = kind, !.version = version, !.snap = row]
  <2>1. req' = [req EXCEPT ![r] = q] /\ req'[r] = q /\ req[r].pc = "idle" /\ lock' = lock /\ row' = row /\ cdek' = cdek
    BY <1>1 DEF Begin, At, RegistrationInv, Types
  <2>2. q.pc = "begin" /\ q.row.editing = NoOp /\ q.base.editing = NoOp
    BY DEF Idle, NoRow
  <2> HIDE DEF q
  <2>3. /\ ~Editing(r)' /\ ~Registering(r)'
        /\ ~Editing(r) /\ ~Registering(r)
    BY <2>1, <2>2 DEF Editing, Registering
  <2>4. \A s \in Requests \ {r} : EditSession(s)'
    BY <2>1, <2>2, <2>3, EditMoves
  <2>5. EditPart'
    BY <2>1, NothingEdited
  <2>6. EditSession(r)'
    BY <2>1, <2>2, <2>3 DEF EditSession
  <2> QED
    BY <2>4, <2>5, <2>6, EditMovesOn
<1>2. CASE Enter(r, kind, version)
  BY <1>2, EditLocked DEF Enter, At
<1>3. CASE Lock(r)
  <2>1. req[r].pc = "begin" /\ req[r].kind \in Handlers /\ Locked(r, req[r].kind, req[r].version, req[r].snap)
    BY <1>3 DEF Lock, At, RegistrationInv, Locking
  <2>2. req[r].snap = row
    BY <1>3, <2>1 DEF ReadsLatest
  <2> QED
    BY <2>1, <2>2, EditLocked
<1> QED
  BY <1>1, <1>2, <1>3

(* What a handler with the lock knows of the edits.                        *)
LEMMA HolderTells ==
  ASSUME RegistrationInv, EditInv, NEW r \in Requests, req[r].pc = "locked", cdek.orders > 0
  PROVE  /\ lock = r /\ req[r].base = req[r].row /\ req[r].row \in TypedRows /\ row \in TypedRows /\ cdek \in Orders
         /\ req[r].row.editing = Op("pending") \/ Tells(cdek, req[r].row.editing, req[r].row.details)
  BY DEF RegistrationInv, Types, Sessions, Locking, EditInv, EditPart, EditSession

(* A refresh writes an edit's outcome, or leaves the edit alone.           *)
LEMMA RefreshTells ==
  ASSUME RegistrationInv, EditInv, NEW r \in Requests, req[r].pc = "locked", cdek.orders > 0, NEW poll \in Polls
  PROVE  LET new == Refreshed(req[r].row, poll)
         IN  /\ new \in TypedRows
             /\ \/ /\ req[r].row.editing = Op("pending") /\ new.editing = req[r].row.editing
                   /\ new.details = req[r].row.details
                \/ /\ req[r].row.editing # Op("pending")
                   /\ Tells(cdek, new.editing, new.details) /\ req[r].row.editing = row.editing
                   /\ req[r].row.details = row.details /\ \A s \in Requests : ~Editing(s)
<1> DEFINE w == req[r].row
           new == Refreshed(w, poll)
<1>1. w \in TypedRows /\ cdek \in Orders /\ EditPart /\ EditSession(r) /\ Types /\ Known
  BY DEF RegistrationInv, Types, Sessions, EditInv
<1>2. /\ new \in TypedRows /\ new.editing = RefreshedEdit(w)
      /\ new.details = IF Confirms(w) THEN w.editing.changes ELSE w.details
  BY <1>1, RefreshedIs DEF Known
<1>3. CASE w.editing = Op("pending")
  <2>1. Tells(cdek, w.editing, w.details)
    BY <1>3 DEF Tells, Op, NoOp, Awaits
  <2>2. RefreshedEdit(w) = w.editing /\ ~Confirms(w)
    BY <1>1, <1>3, <2>1, RefreshedTells
  <2> QED
    BY <1>2, <1>3, <2>2
<1>4. CASE w.editing # Op("pending")
  <2>1. w.editing = row.editing /\ w.details = row.details /\ \A s \in Requests : ~Editing(s)
    BY <1>1, <1>4 DEF EditSession
  <2>2. Tells(cdek, w.editing, w.details)
    BY <1>1, <2>1 DEF EditPart
  <2>3. Tells(cdek, RefreshedEdit(w), IF Confirms(w) THEN w.editing.changes ELSE w.details)
    BY <1>1, <2>2, RefreshedTells
  <2> QED
    BY <1>2, <1>4, <2>1, <2>3
<1> QED
  BY <1>3, <1>4

(* ... and commits it.                                                     *)
LEMMA EditRefresh ==
  ASSUME RegistrationInv, EditInv, NEW r \in Requests, req[r].pc = "locked", cdek.orders > 0, NEW poll \in Polls,
         row' = Flush(row, req[r].base, Refreshed(req[r].row, poll)), Close(r), cdek' = cdek
  PROVE  EditInv'
<1> DEFINE new == Refreshed(req[r].row, poll)
<1>1. /\ new \in TypedRows
      /\ \/ /\ req[r].row.editing = Op("pending") /\ new.editing = req[r].row.editing
            /\ new.details = req[r].row.details
         \/ /\ Tells(cdek, new.editing, new.details) /\ req[r].row.editing = row.editing
            /\ req[r].row.details = row.details /\ \A s \in Requests : ~Editing(s)
  BY RefreshTells
<1>2. lock = r /\ req[r].base = req[r].row /\ req[r].row \in TypedRows /\ row \in TypedRows
  BY HolderTells
<1> HIDE DEF new
<1>3. /\ row'.editing = IF new.editing # req[r].row.editing THEN new.editing ELSE row.editing
      /\ row'.details = IF new.details # req[r].row.details THEN new.details ELSE row.details
  BY <1>1, <1>2, FlushIs DEF Fields, new
<1>4. EditPart'
  BY <1>1, <1>3 DEF EditInv, EditPart
<1> QED
  BY <1>1, <1>2, <1>3, <1>4, EditCloses

(* The handlers that only read CDEK: refreshes, documents, dispatch.       *)
LEMMA EditReads ==
  ASSUME RegistrationInv, EditInv, NEW r \in Requests, Refresh(r) \/ Document(r) \/ MarkDelivering(r) \/ SaveEnds(r)
  PROVE  EditInv'
<1>1. Close(r) /\ cdek' = cdek /\ req[r].pc = "locked" /\ cdek.orders > 0
  BY DEF Refresh, Document, MarkDelivering, SaveEnds, Got, At
<1>2. CASE row' = row
  BY <1>1, <1>2, EditEnds
<1>3. CASE Document(r)
  <2>1. PICK state \in Polls \cup {"removed"} :
          row' = Flush(row, req[r].base, [req[r].row EXCEPT !.waybill.state = state])
    BY <1>3 DEF Document
  <2> DEFINE new == [req[r].row EXCEPT !.waybill.state = state]
  <2>2. state \in States
    BY DEF Polls, States
  <2>3. req[r].base = req[r].row /\ req[r].row \in TypedRows /\ row \in TypedRows
    BY <1>1, HolderTells
  <2>4. new \in TypedRows /\ \A f \in Fields \ {"waybill"} : new[f] = req[r].row[f]
    BY <2>2, <2>3, WaybillIs
  <2> HIDE DEF new
  <2>5. \A f \in Fields \ {"waybill"} : row'[f] = row[f]
    BY <2>1, <2>3, <2>4, FlushIs DEF new
  <2>6. row'.editing = row.editing /\ row'.details = row.details
    BY <2>5 DEF Fields
  <2>7. EditPart'
    BY <1>1, <2>6 DEF EditInv, EditPart
  <2> QED
    BY <1>1, <2>6, <2>7, EditCloses
<1>4. CASE row' # row /\ ~Document(r)
  <2>1. PICK poll \in Polls : row' = Flush(row, req[r].base, Refreshed(req[r].row, poll))
    BY <1>4 DEF Refresh, MarkDelivering, SaveEnds
  <2> QED
    BY <1>1, <2>1, EditRefresh
<1> QED
  BY <1>2, <1>3, <1>4

(* A registration starts with its own details and no edits.                *)
LEMMA EditCreate ==
  ASSUME RegistrationInv, EditInv, NEW r \in Requests, Create(r)
  PROVE  EditInv'
<1> DEFINE new == [req[r].row EXCEPT !.status = "submitting", !.registration = "pending", !.details = req[r].version]
           order == [purchase EXCEPT !.status = "assembling"]
<1>1. /\ req[r].pc = "locked" /\ req[r].kind \in {"create", "retry"} /\ ~Refused(req[r])
      /\ Reserve(r, order, new)
  BY DEF Create, At
<1>2. /\ req[r].base = req[r].row /\ req[r].row \in TypedRows /\ row \in TypedRows /\ lock = r
      /\ cdek.orders = 0 /\ (\A s \in Requests : ~Registering(s))
      /\ req[r].version \in {0} \cup Versions
  <2>1. /\ Free(req[r].row)
        /\ req[r].row.status = "none" => row.status = "none"
        /\ req[r].kind = "retry" \/ req[r].row.status = "none"
    BY <1>1, MayRegister DEF RegistrationInv, Types
  <2>2. Free(row)
    BY <1>1, <2>1 DEF RegistrationInv, Knows, Free
  <2> QED
    BY <1>1, <2>2 DEF RegistrationInv, Types, Sessions, Locking, Known
<1>3. /\ new \in TypedRows /\ new.editing = req[r].row.editing /\ new.details = req[r].version
  BY <1>2 DEF TypedRows, Rows, RowStatus, States
<1>4. order \in [status : Statuses, draft : BOOLEAN]
  BY DEF RegistrationInv, Types, Statuses
<1> HIDE DEF new, order
<1>5. /\ req'[r].pc = "call" /\ req'[r].base = new /\ req'[r].row = new /\ req'[r].kind = req[r].kind
      /\ req'[r].version = req[r].version
      /\ row' = Flush(row, req[r].base, new) /\ cdek' = cdek
      /\ req' = [req EXCEPT ![r] = [@ EXCEPT !.pc = "call", !.base = new, !.row = new]]
  BY <1>1, <1>3, <1>4, ReserveIs
<1>6. /\ req[r].row.editing = NoOp /\ row.editing = NoOp
      /\ req[r].row.details = row.details /\ \A s \in Requests : ~Editing(s)
  <2>1. \A s \in Requests : ~Editing(s)
    <3> SUFFICES ASSUME NEW s \in Requests, Editing(s) PROVE FALSE
      OBVIOUS
    <3>1. req[s].pc \in {"call", "store"} /\ ~Registering(s)
      BY DEF Editing, Registering
    <3> QED
      BY <1>2, <3>1 DEF RegistrationInv, Knows
  <2>2. req[r].row.editing = NoOp /\ row.editing = NoOp /\ NoOp # Op("pending")
    BY <1>2 DEF EditInv, EditPart, EditSession, Op, NoOp
  <2> QED
    BY <1>1, <2>1, <2>2 DEF EditInv, EditSession
<1>7. row'.editing = NoOp /\ row'.details = req[r].version
  BY <1>2, <1>3, <1>5, <1>6, FlushIs DEF Fields
<1>8. ~Editing(r)'
  BY <1>1, <1>5 DEF Editing
<1>9. \A s \in Requests \ {r} : EditSession(s)'
  <2>1. req' = [req EXCEPT ![r] = req'[r]]
    BY <1>5 DEF RegistrationInv, Types
  <2> QED
    BY <1>2, <1>5, <1>6, <1>7, <1>8, <2>1, EditMoves
<1>10. EditPart'
  BY <1>2, <1>5, <1>7 DEF EditInv, EditPart
<1>11. EditSession(r)'
  BY <1>2, <1>3, <1>5, <1>6, <1>7, <1>8 DEF EditSession
<1> QED
  BY <1>9, <1>10, <1>11, EditMovesOn

(* An edit is reserved when nothing else is under way.                     *)
LEMMA EditReserve ==
  ASSUME RegistrationInv, EditInv, NEW r \in Requests, SaveEdit(r)
  PROVE  EditInv' /\ ~Undecided(cdek) /\ \A s \in Requests : ~Editing(s)
<1>1. PICK poll \in Polls :
        /\ req[r].kind = "save" /\ Got(r)
        /\ Editable(Refreshed(req[r].row, poll)) /\ Refreshed(req[r].row, poll).details # req[r].version
        /\ Reserve(r, Followed(req[r].row, Refreshed(req[r].row, poll)), [Refreshed(req[r].row, poll) EXCEPT !.editing = Op("pending")])
  BY DEF SaveEdit
<1> DEFINE w == Refreshed(req[r].row, poll)
           new == [w EXCEPT !.editing = Op("pending")]
           order == Followed(req[r].row, w)
<1>2. req[r].pc = "locked" /\ cdek.orders > 0 /\ Types
  BY <1>1 DEF Got, At, RegistrationInv
<1>3. /\ w \in TypedRows
      /\ \/ req[r].row.editing = Op("pending") /\ w.editing = req[r].row.editing
         \/ /\ req[r].row.editing # Op("pending")
            /\ Tells(cdek, w.editing, w.details) /\ req[r].row.editing = row.editing
            /\ req[r].row.details = row.details /\ \A s \in Requests : ~Editing(s)
  BY <1>2, RefreshTells
<1>4. lock = r /\ req[r].base = req[r].row /\ req[r].row \in TypedRows /\ row \in TypedRows
  BY <1>2, HolderTells
<1>5. order \in [status : Statuses, draft : BOOLEAN]
  BY <1>2, FollowedIs
<1>6. ~EditOpen(w) /\ w.details # req[r].version /\ Reserve(r, order, new)
  BY <1>1 DEF Editable
<1>7. /\ new \in TypedRows /\ new.editing = Op("pending") /\ new.details = w.details
  <2>1. Op("pending") \in EditOps /\ Op("pending") \in Ops
    BY OpIs DEF States, EditOps
  <2> QED
    BY <1>3, <2>1 DEF TypedRows, Rows
<1> HIDE DEF w, new, order
<1>8. w.editing # Op("pending")
  BY <1>6 DEF EditOpen, Op, NoOp
<1>9. /\ req[r].row.editing = row.editing /\ req[r].row.details = row.details
      /\ w.details = cdek.data /\ ~Undecided(cdek) /\ (\A s \in Requests : ~Editing(s))
  BY <1>3, <1>6, <1>8, NotOpen
<1>10. req[r].row.editing # Op("pending")
  BY <1>3, <1>8
<1>11. /\ req'[r].pc = "call" /\ req'[r].base = new /\ req'[r].row = new /\ req'[r].kind = req[r].kind
       /\ req'[r].version = req[r].version
       /\ row' = Flush(row, req[r].base, new) /\ cdek' = cdek
       /\ req' = [req EXCEPT ![r] = [@ EXCEPT !.pc = "call", !.base = new, !.row = new]]
  BY <1>5, <1>6, <1>7, ReserveIs
<1>12. row'.editing = Op("pending") /\ row'.details = w.details
  BY <1>3, <1>4, <1>7, <1>9, <1>10, <1>11, FlushIs DEF Fields
<1>13. Editing(r)' /\ ~Registering(r)'
  BY <1>1, <1>11 DEF Editing, Registering
<1>14. req' = [req EXCEPT ![r] = req'[r]] /\ \A s \in Requests \ {r} : req'[s] = req[s]
  BY <1>11 DEF RegistrationInv, Types
<1>15. \A s \in Requests \ {r} : EditSession(s)'
  BY <1>2, <1>4, <1>9, <1>11, <1>12, <1>13, <1>14, EditMoves
<1>16. EditPart'
  BY <1>2, <1>11, <1>12 DEF EditInv, EditPart, Tells, Op, NoOp, Awaits
<1>17. EditSession(r)'
  <2>1. \A s \in Requests : Editing(s)' => s = r
    BY <1>9, <1>14 DEF Editing
  <2> QED
    BY <1>2, <1>7, <1>9, <1>11, <1>12, <1>13, <2>1 DEF EditSession
<1> QED
  BY <1>9, <1>15, <1>16, <1>17, EditMovesOn

(* A cancellation waits for the edit that is under way.                    *)
LEMMA EditOperation ==
  ASSUME RegistrationInv, EditInv, NEW r \in Requests, NEW op \in Operations, Operation(r, op)
  PROVE  EditInv' /\ (op = "cancel" => ~Undecided(cdek) /\ \A s \in Requests : ~Editing(s))
<1> DEFINE new == [req[r].row EXCEPT ![op] = Op("pending")]
<1>1. /\ req[r].pc = "locked" /\ req[r].kind = op /\ req[r].row.remote
      /\ Reserve(r, purchase, new)
      /\ ~OperationRefused(req[r].row, op) /\ ~Requested(req[r].row, op)
  BY DEF Operation, At, Refused, Operations
<1>2. /\ req[r].base = req[r].row /\ req[r].row \in TypedRows /\ row \in TypedRows /\ cdek.orders > 0 /\ lock = r
      /\ purchase \in [status : Statuses, draft : BOOLEAN]
  BY <1>1 DEF RegistrationInv, Types, Sessions, Locking, Knows
<1>3. Op("pending") \in Ops
  BY OpIs DEF States, EditOps
<1>4. /\ new \in TypedRows /\ new.editing = req[r].row.editing /\ new.details = req[r].row.details
  BY <1>2, <1>3 DEF TypedRows, Rows, Operations
<1> HIDE DEF new
<1>5. /\ req'[r].pc = "call" /\ req'[r].base = new /\ req'[r].row = new /\ req'[r].kind = req[r].kind
      /\ req'[r].version = req[r].version
      /\ row' = Flush(row, req[r].base, new) /\ cdek' = cdek
      /\ req' = [req EXCEPT ![r] = [@ EXCEPT !.pc = "call", !.base = new, !.row = new]]
  BY <1>1, <1>2, <1>4, ReserveIs
<1>6. row'.editing = row.editing /\ row'.details = row.details
  BY <1>2, <1>4, <1>5, FlushIs DEF Fields
<1>7. ~Editing(r)' /\ ~Registering(r)'
  BY <1>1, <1>5 DEF Editing, Registering, Operations
<1>8. req' = [req EXCEPT ![r] = req'[r]] /\ \A s \in Requests \ {r} : req'[s] = req[s]
  BY <1>5 DEF RegistrationInv, Types
<1>9. \A s \in Requests \ {r} : EditSession(s)'
  BY <1>1, <1>2, <1>4, <1>5, <1>6, <1>7, <1>8, EditMoves
<1>10. EditPart'
  BY <1>5, <1>6 DEF EditInv, EditPart
<1>11. EditSession(r)'
  BY <1>2, <1>4, <1>5, <1>7 DEF EditSession
<1>12. op = "cancel" => ~Undecided(cdek) /\ \A s \in Requests : ~Editing(s)
  <2> SUFFICES ASSUME op = "cancel" PROVE ~Undecided(cdek) /\ \A s \in Requests : ~Editing(s)
    OBVIOUS
  <2>1. ~EditOpen(req[r].row)
    BY <1>1 DEF OperationRefused
  <2>2. req[r].row.editing # Op("pending")
    BY <2>1 DEF EditOpen, Op, NoOp
  <2>3. \A s \in Requests : ~Editing(s)
    BY <1>1, <2>2 DEF EditInv, EditSession
  <2>4. Tells(cdek, req[r].row.editing, req[r].row.details)
    BY <1>1, <1>2, <2>2, HolderTells
  <2> QED
    BY <2>1, <2>3, <2>4, NotOpen
<1> QED
  BY <1>9, <1>10, <1>11, <1>12, EditMovesOn

(* The first order at CDEK has the details of the row.                     *)
LEMMA EditPost ==
  ASSUME RegistrationInv, EditInv, NEW r \in Requests, PostOrder(r)
  PROVE  EditInv'
<1> DEFINE w == req[r].row
<1>1. /\ req[r].pc = "call" /\ req[r].kind \in {"create", "retry"} /\ row' = row /\ lock' = lock
  BY DEF PostOrder, At
<1>2. /\ Registering(r) /\ cdek.orders = 0 /\ w \in TypedRows /\ cdek \in Orders
      /\ (\A s \in Requests : ~Editing(s))
      /\ row.editing = NoOp /\ ~Undecided(cdek) /\ row.details = req[r].version /\ w = req[r].base
      /\ w.editing = NoOp
  <2>1. Registering(r) /\ cdek.orders = 0 /\ w \in TypedRows /\ cdek \in Orders /\ w = req[r].base
    BY <1>1 DEF RegistrationInv, Types, Sessions, Registering, Sends, Locking
  <2>2. \A s \in Requests : ~Editing(s)
    <3> SUFFICES ASSUME NEW s \in Requests, Editing(s) PROVE FALSE
      OBVIOUS
    <3>1. req[s].pc \in {"call", "store"} /\ ~Registering(s)
      BY DEF Editing, Registering
    <3> QED
      BY <2>1, <3>1 DEF RegistrationInv, Knows
  <2> QED
    BY <2>1, <2>2 DEF EditInv, EditPart, EditSession
<1>3. PICK new : /\ Answered(r, new) /\ (Posted(req[r].version) \/ cdek' = cdek)
                 /\ \/ new = [w EXCEPT !.remote = TRUE, !.status = "accepted", !.registration = "accepted"]
                    \/ new = [w EXCEPT !.status = "rejected", !.registration = "rejected"]
                    \/ new = [w EXCEPT !.status = "unknown", !.registration = "unknown"]
  BY DEF PostOrder
<1>4. new \in TypedRows /\ new.editing = w.editing /\ new.details = w.details
  BY <1>2, <1>3 DEF TypedRows, Rows, RowStatus, States
<1>5. \/ cdek' = cdek
      \/ /\ cdek'.orders = 1 /\ cdek'.edits = cdek.edits /\ cdek'.data = req[r].version
  <2>1. Posted(req[r].version) => cdek' = [cdek EXCEPT !.orders = @ + 1, !.registration = "accepted",
                                                       !.status = "ACCEPTED", !.data = req[r].version]
    BY <1>2 DEF Posted, Registers
  <2> DEFINE c == [cdek EXCEPT !.orders = @ + 1, !.registration = "accepted",
                               !.status = "ACCEPTED", !.data = req[r].version]
  <2>2. c.orders = 1 /\ c.edits = cdek.edits /\ c.data = req[r].version
    BY <1>2 DEF Orders
  <2> HIDE DEF c
  <2>3. cdek' = c \/ cdek' = cdek
    BY <1>3, <2>1 DEF c
  <2> QED
    BY <2>2, <2>3
<1>6. /\ req'[r].pc = "store" /\ req'[r].row = new /\ req'[r].base = req[r].base /\ req'[r].kind = req[r].kind
      /\ req'[r].version = req[r].version /\ req' = [req EXCEPT ![r] = req'[r]]
  BY ONLY <1>3, <1>4, RegistrationInv, r \in Requests, AnsweredIs
<1>7. ~Editing(r)' /\ Registering(r)'
  BY <1>1, <1>6 DEF Editing, Registering
<1>8. \A s \in Requests \ {r} : EditSession(s)'
  BY <1>1, <1>2, <1>5, <1>6, <1>7, EditMoves
<1>9. EditPart'
  <2>1. CASE cdek' = cdek
    BY <1>1, <2>1, NothingEdited
  <2>2. CASE cdek'.orders = 1 /\ cdek'.edits = cdek.edits /\ cdek'.data = req[r].version
    BY <1>1, <1>2, <2>2 DEF EditInv, EditPart, Tells, Awaits, NoOp, Undecided
  <2> QED
    BY <1>5, <2>1, <2>2
<1>10. EditSession(r)'
  BY <1>1, <1>2, <1>4, <1>5, <1>6, <1>7 DEF EditSession
<1> QED
  BY <1>8, <1>9, <1>10, EditMovesOn

(* CDEK receives the edit that the row says is being sent.                 *)
LEMMA EditPatch ==
  ASSUME RegistrationInv, EditInv, NEW r \in Requests, PatchOrder(r)
  PROVE  EditInv'
<1> DEFINE w == req[r].row
           v == req[r].version
<1>1. /\ req[r].pc = "call" /\ req[r].kind = "save" /\ row' = row /\ lock' = lock /\ w \in TypedRows
      /\ cdek \in Orders /\ v \in Versions /\ v # 0
  BY DEF PatchOrder, At, RegistrationInv, Types, Sessions, Locking
<1>2. /\ Editing(r) /\ ~Registering(r) /\ cdek.orders > 0
      /\ (\A s \in Requests : Editing(s) => s = r)
      /\ row.editing = Op("pending") /\ req[r].base.editing = Op("pending") /\ req[r].base.details = row.details
      /\ row.details = cdek.data /\ ~Undecided(cdek) /\ w = req[r].base
  <2>1. Editing(r) /\ ~Registering(r)
    BY <1>1 DEF Editing, Registering
  <2> QED
    BY <1>1, <2>1 DEF RegistrationInv, Knows, Locking, EditInv, EditSession
<1>3. NextEdit \subseteq Edits
  BY DEF NextEdit
<1>4. ASSUME NEW new \in TypedRows, Answered(r, new), cdek'.orders = cdek.orders,
             \A e \in Edits : cdek'.edits[e].state \in {"none", "accepted", "success", "rejected"},
             new.editing # Op("pending"), Tells(cdek', new.editing, new.details)
      PROVE  EditInv'
  <2>1. /\ req'[r].pc = "store" /\ req'[r].row = new /\ req'[r].base = req[r].base /\ req'[r].kind = req[r].kind
        /\ req'[r].version = req[r].version /\ req' = [req EXCEPT ![r] = req'[r]]
    BY ONLY <1>4, RegistrationInv, r \in Requests, AnsweredIs
  <2>2. Editing(r)' /\ ~Registering(r)'
    BY <1>1, <2>1 DEF Editing, Registering
  <2>3. \A s \in Requests \ {r} : EditSession(s)'
    BY <1>1, <1>2, <1>4, <2>1, <2>2, EditMoves
  <2>4. EditPart'
    BY <1>1, <1>2, <1>4 DEF EditPart, Tells, Op, NoOp, Awaits
  <2>5. EditSession(r)'
    <3>1. \A s \in Requests : Editing(s)' => s = r
      <4>1. \A s \in Requests \ {r} : req'[s] = req[s]
        BY <2>1 DEF RegistrationInv, Types
      <4> QED
        BY <1>2, <4>1 DEF Editing
    <3> QED
      BY <1>1, <1>2, <1>4, <2>1, <2>2, <3>1 DEF EditSession
  <2> QED
    BY <2>3, <2>4, <2>5, EditMovesOn
<1>5. ASSUME NEW e \in Edits, NEW state \in {"accepted", "success"}, Receives(e, state, v)
      PROVE  /\ cdek'.orders = cdek.orders
             /\ \A f \in Edits : cdek'.edits[f].state = IF f = e THEN state ELSE cdek.edits[f].state
             /\ cdek'.edits[e].version = v
             /\ cdek'.data = IF state = "success" THEN v ELSE cdek.data
  BY <1>1, <1>5 DEF Receives, Orders
<1>6. \A e \in Edits : cdek.edits[e].state \in {"none", "success", "rejected"}
  BY <1>2 DEF EditInv, EditPart, Undecided
<1>7. "accepted" \in States /\ "success" \in States /\ "rejected" \in States /\ "unknown" \in States
  BY DEF States
<1>8. ASSUME NEW e \in Edits, Receives(e, "accepted", v),
             Answered(r, [w EXCEPT !.editing = [state |-> "accepted", ref |-> e, changes |-> v]])
      PROVE  EditInv'
  <2> DEFINE op == [state |-> "accepted", ref |-> e, changes |-> v]
             new == [w EXCEPT !.editing = op]
  <2>1. op \in EditOps /\ op \in Ops
    BY <1>1, <1>7, EditsAreRefs DEF EditOps, Ops
  <2>2. new \in TypedRows /\ new.editing = op /\ new.details = w.details
    BY <1>1, <2>1 DEF TypedRows, Rows
  <2>3. op # Op("pending")
    BY DEF Op, NoOp
  <2>4. Tells(cdek', op, w.details)
    BY <1>1, <1>2, <1>5, <1>6, <1>8 DEF Tells, Awaits
  <2>5. \A f \in Edits : cdek'.edits[f].state \in {"none", "accepted", "success", "rejected"}
    BY <1>5, <1>6, <1>8
  <2>6. cdek'.orders = cdek.orders
    BY <1>5, <1>8
  <2>7. Answered(r, new)
    BY <1>8
  <2> HIDE DEF new, op
  <2> QED
    BY <1>4, <2>2, <2>3, <2>4, <2>5, <2>6, <2>7
<1>9. ASSUME NEW e \in Edits, Receives(e, "success", v),
             Answered(r, [w EXCEPT !.editing = [Op("success") EXCEPT !.ref = e], !.details = v, !.waybill = NoOp])
      PROVE  EditInv'
  <2> DEFINE op == [Op("success") EXCEPT !.ref = e]
             new == [w EXCEPT !.editing = op, !.details = v, !.waybill = NoOp]
  <2>1. op \in EditOps /\ op \in Ops /\ op.changes = 0 /\ op.state = "success" /\ op # Op("pending")
    BY <1>7, OpIs, EditsAreRefs DEF EditOps, Ops, Op, NoOp
  <2>2. new \in TypedRows /\ new.editing = op /\ new.details = v
    BY <1>1, <2>1, NothingTyped DEF TypedRows, Rows, EditOps
  <2>3. Tells(cdek', op, v)
    BY <1>1, <1>2, <1>5, <1>6, <1>9, <2>1 DEF Tells, Awaits, Undecided
  <2>4. \A f \in Edits : cdek'.edits[f].state \in {"none", "accepted", "success", "rejected"}
    BY <1>5, <1>6, <1>9
  <2>5. cdek'.orders = cdek.orders
    BY <1>5, <1>9
  <2>6. Answered(r, new)
    BY <1>9
  <2> HIDE DEF new, op
  <2> QED
    BY <1>4, <2>1, <2>2, <2>3, <2>4, <2>5, <2>6
<1>10. ASSUME NEW state \in {"rejected", "unknown"}, Answered(r, [w EXCEPT !.editing = Op(state)]),
              cdek' = cdek \/ (state = "unknown" /\ \E e \in Edits : Receives(e, "accepted", v))
       PROVE  EditInv'
  <2> DEFINE new == [w EXCEPT !.editing = Op(state)]
  <2>1. /\ Op(state) \in EditOps /\ Op(state) \in Ops /\ Op(state).changes = 0 /\ Op(state).state = state
        /\ Op(state) # Op("pending")
    BY <1>7, OpIs DEF EditOps, Op, NoOp
  <2>2. new \in TypedRows /\ new.editing = Op(state) /\ new.details = w.details
    BY <1>1, <2>1 DEF TypedRows, Rows
  <2>3. Tells(cdek', Op(state), w.details)
    BY <1>2, <1>10, <2>1 DEF Tells, Awaits
  <2>4. \A f \in Edits : cdek'.edits[f].state \in {"none", "accepted", "success", "rejected"}
    BY <1>5, <1>6, <1>10
  <2>5. cdek'.orders = cdek.orders
    BY <1>5, <1>10
  <2>6. Answered(r, new)
    BY <1>10
  <2> HIDE DEF new
  <2> QED
    BY <1>4, <2>1, <2>2, <2>3, <2>4, <2>5, <2>6
<1> QED
  BY <1>3, <1>8, <1>9, <1>10 DEF PatchOrder

(* The call of a cancellation or of a document does not touch the edits.   *)
LEMMA EditCall ==
  ASSUME RegistrationInv, EditInv, NEW r \in Requests, NEW op \in Operations, CallOperation(r, op)
  PROVE  EditInv'
<1> DEFINE w == req[r].row
<1>1. /\ req[r].pc = "call" /\ req[r].kind = op /\ row' = row /\ lock' = lock
      /\ w \in TypedRows /\ cdek \in Orders
  BY DEF CallOperation, At, RegistrationInv, Types, Sessions
<1>2. PICK value : /\ Answered(r, [w EXCEPT ![op] = value])
                   /\ \/ value = [Op("accepted") EXCEPT !.ref = IF op = "waybill" THEN cdek.data ELSE 0]
                      \/ value = Op("rejected")
                      \/ value = Op("unknown")
  BY DEF CallOperation
<1> DEFINE new == [w EXCEPT ![op] = value]
<1>3. value \in Ops
  <2>1. /\ Op("accepted") \in Ops /\ Op("rejected") \in Ops /\ Op("unknown") \in Ops
    BY OpIs DEF States, EditOps
  <2>2. cdek.data \in 0 .. MaxVersion + MaxEdits /\ 0 \in 0 .. MaxVersion + MaxEdits
    BY <1>1, EditsAreRefs DEF Orders
  <2> QED
    BY <1>2, <2>1, <2>2 DEF Ops
<1>4. /\ new \in TypedRows /\ new.editing = w.editing /\ new.details = w.details
  BY <1>1, <1>3 DEF TypedRows, Rows, Operations
<1>5. cdek'.orders = cdek.orders /\ cdek'.edits = cdek.edits /\ cdek'.data = cdek.data
  <2>1. UNCHANGED cdek \/ cdek' = [cdek EXCEPT !.delete = IF @ = "success" THEN @ ELSE "accepted"]
    BY DEF CallOperation, Performs
  <2> QED
    BY <1>1, <2>1 DEF Orders
<1>6. Answered(r, new)
  BY <1>2
<1> HIDE DEF new
<1>7. /\ req'[r].pc = "store" /\ req'[r].row = new /\ req'[r].base = req[r].base /\ req'[r].kind = req[r].kind
      /\ req'[r].version = req[r].version /\ req' = [req EXCEPT ![r] = req'[r]]
  BY ONLY <1>4, <1>6, RegistrationInv, r \in Requests, AnsweredIs
<1>8. /\ ~Editing(r)' /\ ~Registering(r)' /\ ~Editing(r) /\ ~Registering(r) /\ w = req[r].base
  BY <1>1, <1>7 DEF Editing, Registering, Operations, RegistrationInv, Locking
<1>9. \A s \in Requests \ {r} : EditSession(s)'
  BY <1>1, <1>5, <1>7, <1>8, EditMoves
<1>10. EditPart'
  BY <1>1, <1>5 DEF EditInv, EditPart, Tells, Awaits, Undecided
<1>11. EditSession(r)'
  BY <1>1, <1>4, <1>5, <1>7, <1>8 DEF EditInv, EditSession
<1> QED
  BY <1>9, <1>10, <1>11, EditMovesOn

(* The answer to an edit is written with the details that go with it; any  *)
(* other answer leaves both alone.                                         *)
LEMMA EditStore ==
  ASSUME RegistrationInv, EditInv, NEW r \in Requests, Store(r)
  PROVE  EditInv'
<1> DEFINE new == req[r].row
<1>1. /\ req[r].pc = "store" /\ row' = Flush(row, req[r].base, new) /\ Close(r) /\ cdek' = cdek
  BY DEF Store, At, Saved
<1>2. row \in TypedRows /\ req[r].base \in TypedRows /\ new \in TypedRows
  BY DEF RegistrationInv, Types, Sessions
<1>3. /\ row'.editing = IF new.editing # req[r].base.editing THEN new.editing ELSE row.editing
      /\ row'.details = IF new.details # req[r].base.details THEN new.details ELSE row.details
  BY <1>1, <1>2, FlushIs DEF Fields
<1>4. EditSession(r) /\ EditPart
  BY DEF EditInv
<1>5. CASE Editing(r)
  <2>1. /\ row'.editing = new.editing /\ row'.details = new.details /\ Tells(cdek, new.editing, new.details)
        /\ \A s \in Requests \ {r} : ~Editing(s)
    BY <1>1, <1>3, <1>4, <1>5 DEF EditSession
  <2>2. cdek.orders > 0
    BY <1>1, <1>5 DEF RegistrationInv, Knows, Editing, Registering
  <2>3. EditPart'
    BY <1>1, <1>4, <2>1, <2>2 DEF EditPart
  <2> QED
    BY <1>1, <1>5, <2>1, <2>2, <2>3, EditCloses
<1>6. CASE ~Editing(r)
  <2>1. row'.editing = row.editing /\ row'.details = row.details
    BY <1>1, <1>3, <1>4, <1>6 DEF EditSession
  <2>2. EditPart'
    BY <1>1, <1>4, <2>1 DEF EditPart
  <2> QED
    BY <1>1, <2>1, <2>2, EditCloses
<1> QED
  BY <1>5, <1>6

(* What CDEK's order becomes when an edit is settled.                      *)
LEMMA SettlesIs ==
  ASSUME cdek \in Orders, NEW e \in Edits, SettleEdit(e)
  PROVE  \E state \in {"success", "rejected"} :
           /\ \A f \in Edits : /\ cdek'.edits[f].state = IF f = e THEN state ELSE cdek.edits[f].state
                               /\ cdek'.edits[f].version = cdek.edits[f].version
           /\ cdek'.data = IF state = "success" THEN cdek.edits[e].version ELSE cdek.data
           /\ cdek'.orders = cdek.orders
<1> DEFINE edits(state) == [cdek.edits EXCEPT ![e].state = state]
<1>1. cdek.edits \in [Edits -> [state : States, version : {0} \cup Versions]]
  BY DEF Orders
<1>2. ASSUME NEW state
      PROVE  \A f \in Edits : /\ edits(state)[f].state = IF f = e THEN state ELSE cdek.edits[f].state
                              /\ edits(state)[f].version = cdek.edits[f].version
  BY <1>1
<1>3. \/ cdek' = [cdek EXCEPT !.edits = edits("success"), !.data = cdek.edits[e].version]
      \/ cdek' = [cdek EXCEPT !.edits = edits("rejected")]
  BY DEF SettleEdit, Cdek
<1> HIDE DEF edits
<1>4. CASE cdek' = [cdek EXCEPT !.edits = edits("success"), !.data = cdek.edits[e].version]
  <2>1. /\ cdek'.edits = edits("success") /\ cdek'.data = cdek.edits[e].version
        /\ cdek'.orders = cdek.orders
    BY <1>4 DEF Orders
  <2> QED
    BY <1>2, <2>1
<1>5. CASE cdek' = [cdek EXCEPT !.edits = edits("rejected")]
  <2>1. /\ cdek'.edits = edits("rejected") /\ cdek'.data = cdek.data
        /\ cdek'.orders = cdek.orders
    BY <1>5 DEF Orders
  <2> QED
    BY <1>2, <2>1
<1> QED
  BY <1>3, <1>4, <1>5

(* What was told of an edit stays true when CDEK settles it.               *)
LEMMA SettledTells ==
  ASSUME cdek \in Orders, NEW e \in Edits, SettleEdit(e), NEW op \in EditOps, NEW details, Tells(cdek, op, details)
  PROVE  Tells(cdek', op, details)
<1>1. cdek.edits[e].state = "accepted" /\ (op.changes # 0 => op.ref \in Edits)
  BY DEF SettleEdit, EditOps
<1>2. PICK state \in {"success", "rejected"} :
        /\ \A f \in Edits : /\ cdek'.edits[f].state = IF f = e THEN state ELSE cdek.edits[f].state
                            /\ cdek'.edits[f].version = cdek.edits[f].version
        /\ cdek'.data = IF state = "success" THEN cdek.edits[e].version ELSE cdek.data
  BY SettlesIs
<1>3. Undecided(cdek)
  BY <1>1 DEF Undecided
<1>4. CASE Awaits(op)
  <2>1. op.ref = e /\ op.changes # 0 /\ op.state = "accepted"
    BY <1>1, <1>4 DEF Tells, Awaits
  <2> QED
    BY <1>1, <1>2, <1>4, <2>1 DEF Tells, Awaits
<1>5. CASE ~Awaits(op)
  <2>1. op.state \in {"pending", "unknown"}
    BY <1>3, <1>5 DEF Tells
  <2>2. op.changes = 0
    BY <2>1 DEF Tells
  <2> QED
    BY <1>5, <2>1, <2>2 DEF Tells
<1> QED
  BY <1>4, <1>5

(* What CDEK does by itself with the registration, a cancellation and the  *)
(* parcel leaves the edits alone.                                          *)
LEMMA EditQuiet ==
  ASSUME EditInv, UNCHANGED <<row, req>>, cdek'.orders = cdek.orders, cdek'.edits = cdek.edits,
         cdek'.data = cdek.data
  PROVE  EditInv'
<1>1. \A s \in Requests : (Editing(s)' <=> Editing(s)) /\ (Registering(s)' <=> Registering(s))
  BY DEF Editing, Registering
<1>2. Undecided(cdek') <=> Undecided(cdek)
  BY DEF Undecided
<1>3. ASSUME NEW op, NEW details PROVE Tells(cdek', op, details) <=> Tells(cdek, op, details)
  BY <1>2 DEF Tells, Awaits
<1>4. EditPart'
  BY <1>2, <1>3 DEF EditInv, EditPart
<1>5. ASSUME NEW s \in Requests PROVE EditSession(s)'
  BY <1>1, <1>2, <1>3 DEF EditInv, EditSession
<1> QED
  BY <1>4, <1>5 DEF EditInv

(* CDEK settles an edit: no edit is about to be sent, so it is the one the *)
(* row, or the session that holds its answer, waits for.                   *)
LEMMA EditSettles ==
  ASSUME RegistrationInv, EditInv, NEW e \in Edits, SettleEdit(e)
  PROVE  EditInv'
<1>1. cdek \in Orders /\ row \in TypedRows /\ \A s \in Requests : req[s].row \in TypedRows
  BY DEF RegistrationInv, Types, Sessions
<1>2. UNCHANGED <<row, req>>
  BY DEF SettleEdit, Cdek
<1>3. Undecided(cdek)
  BY DEF SettleEdit, Undecided
<1>4. PICK state \in {"success", "rejected"} :
        /\ \A f \in Edits : cdek'.edits[f].state = IF f = e THEN state ELSE cdek.edits[f].state
        /\ cdek'.orders = cdek.orders
  BY <1>1, SettlesIs
<1>5. cdek.orders # 0 /\ cdek.orders > 0
  BY <1>1, <1>3 DEF EditInv, EditPart, Orders
<1>6. ASSUME NEW op \in EditOps, NEW details, Tells(cdek, op, details) PROVE Tells(cdek', op, details)
  BY <1>1, <1>6, SettledTells
<1>7. EditPart'
  <2>1. \A f \in Edits : cdek'.edits[f].state \in {"none", "accepted", "success", "rejected"}
    BY <1>4 DEF EditInv, EditPart
  <2>2. row.editing \in EditOps
    BY <1>1 DEF TypedRows
  <2>3. Tells(cdek', row.editing, row.details)
    BY <1>5, <1>6, <2>2 DEF EditInv, EditPart
  <2> QED
    BY <1>2, <1>4, <1>5, <2>1, <2>3 DEF EditPart
<1>8. ASSUME NEW s \in Requests PROVE EditSession(s)'
  <2>1. \A t \in Requests : (Editing(t)' <=> Editing(t)) /\ (Registering(t)' <=> Registering(t))
    BY <1>2 DEF Editing, Registering
  <2>2. EditSession(s)
    BY DEF EditInv
  <2>3. Editing(s) => req[s].pc = "store" /\ Tells(cdek', req[s].row.editing, req[s].row.details)
    <3>1. req[s].row.editing \in EditOps
      BY <1>1 DEF TypedRows
    <3>2. Editing(s) => req[s].pc = "store" /\ Tells(cdek, req[s].row.editing, req[s].row.details)
      BY <1>3, <2>2 DEF EditSession, Editing
    <3> QED
      BY <1>6, <3>1, <3>2
  <2> QED
    BY <1>2, <1>4, <1>5, <2>1, <2>2, <2>3 DEF EditSession
<1> QED
  BY <1>7, <1>8 DEF EditInv

(* A restart forgets the answers that were not committed.                  *)
LEMMA EditCrash ==
  ASSUME EditInv, Crash
  PROVE  EditInv'
<1>1. row' = row /\ cdek' = cdek /\ \A s \in Requests : req'[s] = Idle
  BY DEF Crash
<1>2. Idle.pc = "idle" /\ Idle.row.editing = NoOp /\ Idle.base.editing = NoOp
  BY DEF Idle, NoRow
<1>3. EditPart'
  BY <1>1, NothingEdited
<1>4. ASSUME NEW s \in Requests PROVE EditSession(s)'
  BY <1>1, <1>2 DEF EditSession, Editing, Registering
<1> QED
  BY <1>3, <1>4 DEF EditInv

(* Every step keeps what the row and the sessions say of the edits.        *)
LEMMA EditStep ==
  ASSUME RegistrationInv, EditInv, [Next /\ ReadsLatest(Handlers)]_vars
  PROVE  EditInv'
<1>1. ASSUME ReadsLatest(Handlers), NEW r \in Requests, NEW kind, NEW version,
             Begin(r, kind, version) \/ Enter(r, kind, version)
      PROVE  EditInv'
  BY <1>1, EditStarts
<1>2. ASSUME ReadsLatest(Handlers), NEW r \in Requests, Step(r) PROVE EditInv'
  <2>1. CASE Lock(r)
    BY <1>2, <2>1, EditStarts
  <2>2. CASE Refuse(r) \/ GetFails(r) \/ \E op \in Operations : OperationEnds(r, op)
    <3>1. Close(r) /\ UNCHANGED <<row, cdek>>
      BY <2>2 DEF Refuse, GetFails, OperationEnds
    <3> QED
      BY <3>1, EditEnds
  <2>3. CASE Store(r)
    BY <2>3, EditStore
  <2>4. CASE Create(r)
    BY <2>4, EditCreate
  <2>5. CASE PostOrder(r)
    BY <2>5, EditPost
  <2>6. CASE Refresh(r) \/ Document(r) \/ MarkDelivering(r) \/ SaveEnds(r)
    BY <2>6, EditReads
  <2>7. CASE SaveEdit(r)
    BY <2>7, EditReserve
  <2>8. CASE PatchOrder(r)
    BY <2>8, EditPatch
  <2>9. CASE \E op \in Operations : Operation(r, op) \/ CallOperation(r, op)
    BY <2>9, EditOperation, EditCall
  <2> QED
    BY <1>2, <2>1, <2>2, <2>3, <2>4, <2>5, <2>6, <2>7, <2>8, <2>9 DEF Step
<1>3. CASE Register \/ SettleCancel \/ Move
  <2>1. cdek \in Orders
    BY DEF RegistrationInv, Types
  <2>2. /\ UNCHANGED <<row, req>> /\ cdek'.orders = cdek.orders /\ cdek'.edits = cdek.edits
        /\ cdek'.data = cdek.data
    BY <1>3, <2>1 DEF Register, SettleCancel, Move, Cdek, Orders
  <2> QED
    BY <2>2, EditQuiet
<1>4. ASSUME NEW e \in Edits, SettleEdit(e) PROVE EditInv'
  BY <1>4, EditSettles
<1>5. CASE Crash
  BY <1>5, EditCrash
<1>6. CASE Patch \/ Pay \/ Finish
  <2>1. UNCHANGED <<row, req, cdek>>
    BY <1>6, WriterIs DEF RegistrationInv
  <2> QED
    BY <2>1, EditQuiet
<1>7. CASE UNCHANGED vars
  BY <1>7, EditQuiet DEF vars
<1> QED
  BY <1>1, <1>2, <1>3, <1>4, <1>5, <1>6, <1>7 DEF Next

(* Who reads the latest row reads it in a retry.                           *)
LEMMA AllAreRetries ==
  ASSUME ReadsLatest(Handlers)
  PROVE  ReadsLatest({"retry"})
  BY DEF ReadsLatest, Handlers

(* So the order of the registrations holds then.                           *)
THEOREM AllRegistration == AllReadLatest => []RegistrationInv
<1>1. Init => RegistrationInv
  BY RegistrationInit
<1>2. RegistrationInv /\ [Next /\ ReadsLatest(Handlers)]_vars => RegistrationInv'
  BY RegistrationStep, AllAreRetries
<1> QED
  BY <1>1, <1>2, PTL DEF AllReadLatest

(* Between a reservation and its answer the row says so, and no session    *)
(* decides by a row that has gone out of date.                             *)
THEOREM EditInvariant == AllReadLatest => []EditInv
<1>1. Init => EditInv
  BY EditInit
<1>2. RegistrationInv /\ EditInv /\ [Next /\ ReadsLatest(Handlers)]_vars => EditInv'
  BY EditStep
<1> QED
  BY <1>1, <1>2, AllRegistration, PTL DEF AllReadLatest

(* When nothing is on its way, the row's details are CDEK's                *)
(* (cdek.py:237-259, 352-374), when every handler works on the row as it   *)
(* is when it gets the lock.                                               *)
THEOREM DetailsAgree == AllReadLatest => []DetailsAreConfirmed
<1>1. ASSUME RegistrationInv, EditInv PROVE DetailsAreConfirmed
  <2>1. row.remote => cdek.orders > 0
    BY <1>1 DEF RegistrationInv, Known
  <2>2. row.remote => Tells(cdek, row.editing, row.details)
    BY <1>1, <2>1 DEF EditInv, EditPart
  <2> QED
    BY <2>2, NotOpen DEF DetailsAreConfirmed
<1> QED
  BY <1>1, AllRegistration, EditInvariant, PTL

(* The two reservations that a session can make after it has read the row. *)
LEMMA ReservesIs ==
  ASSUME RegistrationInv, [Next]_vars, NEW r \in Requests, NEW kind \in {"save", "cancel"}, Reserves(r, kind)
  PROVE  (kind = "save" /\ SaveEdit(r)) \/ (kind = "cancel" /\ Operation(r, "cancel"))
<1>1. req \in [Requests -> Sessions] /\ req[r].pc = "locked" /\ req[r].kind = kind /\ req'[r].pc = "call"
  BY DEF Reserves, At, RegistrationInv, Types
<1>2. ASSUME NEW s \in Requests, NEW q, req' = [req EXCEPT ![s] = q] PROVE s = r /\ q.pc = "call"
  BY <1>1, <1>2
<1>3. ASSUME NEW s \in Requests, Close(s) PROVE FALSE
  <2>1. Idle.pc = "idle"
    BY DEF Idle
  <2> QED
    BY <1>2, <1>3, <2>1 DEF Close
<1>4. ASSUME NEW s \in Requests, NEW version, NEW any, Begin(s, any, version) \/ Enter(s, any, version) \/ Lock(s) PROVE FALSE
  BY <1>1, <1>2, <1>4 DEF Begin, Enter, Lock, Locked, At
<1>5. ASSUME NEW s \in Requests, PostOrder(s) \/ PatchOrder(s) \/ \E op \in Operations : CallOperation(s, op) PROVE FALSE
  <2>1. req[s].pc = "call" /\ \E new : Answered(s, new)
    BY <1>5 DEF PostOrder, PatchOrder, CallOperation, At
  <2> QED
    BY <1>1, <1>2, <2>1 DEF Answered
<1>6. ASSUME NEW s \in Requests, Step(s)
      PROVE  Create(s) \/ SaveEdit(s) \/ \E op \in Operations : Operation(s, op)
  BY <1>3, <1>4, <1>5, <1>6 DEF Step, Refuse, Store, Refresh, GetFails, Document, MarkDelivering, SaveEnds, OperationEnds
<1>7. ASSUME NEW s \in Requests, NEW order, NEW new, Reserve(s, order, new) PROVE s = r
  BY <1>2, <1>7 DEF Reserve
<1>8. ASSUME req' = req \/ Crash PROVE FALSE
  BY <1>1, <1>8 DEF Crash, Idle
<1>9. PICK s \in Requests : Create(s) \/ SaveEdit(s) \/ \E op \in Operations : Operation(s, op)
  BY <1>4, <1>6, <1>8 DEF Next, vars, Register, SettleCancel, Move, SettleEdit, Cdek, Patch, Pay, Finish, Write
<1>10. s = r
  BY <1>7, <1>9 DEF Create, SaveEdit, Operation
<1>11. ~Create(r)
  BY <1>1 DEF Create
<1>12. SaveEdit(r) => kind = "save"
  BY <1>1 DEF SaveEdit
<1>13. ASSUME NEW op \in Operations, Operation(r, op) PROVE op = kind /\ kind = "cancel"
  BY <1>1, <1>13 DEF Operation, Operations
<1> QED
  BY <1>9, <1>10, <1>11, <1>12, <1>13

(* The order is not cancelled while an edit of it is under way             *)
(* (cdek.py:437-439), when every handler works on the row as it is when it *)
(* gets the lock.                                                          *)
THEOREM CancelWaits == AllReadLatest => NoCancelDuringEdit
<1>1. ASSUME RegistrationInv, EditInv, [Next]_vars, NEW r \in Requests, Reserves(r, "cancel")
      PROVE  ~EditUnderWay
  <2>1. Operation(r, "cancel") /\ "cancel" \in Operations
    BY <1>1, ReservesIs DEF Operations
  <2>2. ~Undecided(cdek) /\ \A s \in Requests : ~Editing(s)
    BY <1>1, <2>1, EditOperation
  <2> QED
    BY <2>2 DEF EditUnderWay, At, Undecided, Editing
<1>2. RegistrationInv /\ EditInv /\ [Next /\ ReadsLatest(Handlers)]_vars =>
        [\A r \in Requests : Reserves(r, "cancel") => ~EditUnderWay]_vars
  BY <1>1
<1> QED
  BY <1>2, AllRegistration, EditInvariant, PTL DEF AllReadLatest, NoCancelDuringEdit

-----------------------------------------------------------------------------
(* Cancellations.                                                          *)

(* A flush writes the cancellation if the session has changed it.          *)
LEMMA CancelFlushed ==
  ASSUME NEW old \in TypedRows, NEW base, NEW new
  PROVE  Flush(old, base, new).cancel = IF new.cancel # base.cancel THEN new.cancel ELSE old.cancel
  BY DEF Flush, TypedRows, Rows

(* One session moves.  Until CDEK has a cancellation, either the row's     *)
(* stays and the session has seen it, or nobody is cancelling any more, or *)
(* the session's is the first.                                             *)
LEMMA CancelMoves ==
  ASSUME RegistrationInv, CancelInv, NEW r \in Requests, req' = [req EXCEPT ![r] = req'[r]],
         cdek'.delete = "none" => cdek.delete = "none",
         req'[r].pc \in {"call", "store"} /\ ~Cancelling(r)' => req'[r].row.cancel = req'[r].base.cancel,
         cdek'.delete = "none" =>
           \/ /\ row'.cancel = row.cancel
              /\ Cancelling(r)' => Cancelling(r)
              /\ req'[r].pc = "locked" /\ req'[r].kind \in {"save", "cancel"} => req'[r].row.cancel = row.cancel
           \/ Cancelling(r) /\ ~Cancelling(r)'
           \/ /\ row'.cancel = Op("pending")
              /\ \A s \in Requests : ~Cancelling(s)
              /\ \A s \in Requests : req'[s].pc # "locked"
  PROVE  CancelInv'
<1>1. \A s \in Requests \ {r} : req'[s] = req[s] /\ (Cancelling(s)' <=> Cancelling(s))
  BY DEF RegistrationInv, Types, Cancelling
<1>2. ASSUME NEW s \in Requests, req'[s].pc \in {"call", "store"}, ~Cancelling(s)'
      PROVE  req'[s].row.cancel = req'[s].base.cancel
  BY <1>1, <1>2 DEF CancelInv
<1>3. ASSUME NEW s \in Requests, Cancelling(s)', cdek'.delete = "none"
      PROVE  /\ row'.cancel = Op("pending")
             /\ \A t \in Requests : Cancelling(t)' => t = s
             /\ \A t \in Requests : req'[t].pc = "locked" /\ req'[t].kind \in {"save", "cancel"} =>
                  req'[t].row.cancel = Op("pending")
  <2>1. CASE /\ row'.cancel = row.cancel
             /\ Cancelling(r)' => Cancelling(r)
             /\ req'[r].pc = "locked" /\ req'[r].kind \in {"save", "cancel"} => req'[r].row.cancel = row.cancel
    <3>1. Cancelling(s)
      BY <1>1, <1>3, <2>1
    <3>2. /\ row.cancel = Op("pending")
          /\ \A t \in Requests : Cancelling(t) => t = s
          /\ \A t \in Requests : req[t].pc = "locked" /\ req[t].kind \in {"save", "cancel"} => req[t].row.cancel = Op("pending")
      BY <1>3, <3>1 DEF CancelInv
    <3> QED
      BY <1>1, <2>1, <3>2
  <2>2. CASE Cancelling(r) /\ ~Cancelling(r)'
    BY <1>1, <1>3, <2>2 DEF CancelInv
  <2>3. CASE /\ row'.cancel = Op("pending")
             /\ \A t \in Requests : ~Cancelling(t)
             /\ \A t \in Requests : req'[t].pc # "locked"
    BY <1>1, <1>3, <2>3
  <2> QED
    BY <1>3, <2>1, <2>2, <2>3
<1> QED
  BY <1>2, <1>3 DEF CancelInv

(* A session that ends.                                                    *)
LEMMA CancelCloses ==
  ASSUME RegistrationInv, CancelInv, NEW r \in Requests, Close(r), cdek' = cdek,
         cdek.delete = "none" => row'.cancel = row.cancel \/ Cancelling(r)
  PROVE  CancelInv'
<1>1. req' = [req EXCEPT ![r] = Idle] /\ req'[r] = Idle /\ Idle.pc = "idle"
  BY DEF Close, RegistrationInv, Types, Idle
<1>2. ~Cancelling(r)' /\ req'[r].pc \notin {"locked", "call", "store"}
  BY <1>1 DEF Cancelling
<1>3. req' = [req EXCEPT ![r] = req'[r]]
  BY <1>1
<1> QED
  BY <1>2, <1>3, CancelMoves

(* A handler begins, and takes the lock; who may edit or cancel takes it   *)
(* with the row as it is.                                                  *)
LEMMA CancelStarts ==
  ASSUME RegistrationInv, CancelInv, ReadsLatest({"retry", "save", "cancel"}), NEW r \in Requests, NEW kind, NEW version,
         Begin(r, kind, version) \/ Enter(r, kind, version) \/ Lock(r)
  PROVE  CancelInv'
<1> DEFINE begun == [Idle EXCEPT !.pc = "begin", !.kind = kind, !.version = version, !.snap = row]
           locked(k, v, loaded) == [Idle EXCEPT !.pc = "locked", !.kind = k, !.version = v, !.base = loaded, !.row = loaded]
<1>1. PICK q :
        /\ req' = [req EXCEPT ![r] = q] /\ q.pc \in {"begin", "locked"}
        /\ q.pc = "locked" => q.row = row \/ q.kind \notin {"save", "cancel"}
  <2>1. CASE Begin(r, kind, version)
    <3>1. req' = [req EXCEPT ![r] = begun] /\ begun.pc = "begin"
      BY <2>1 DEF Begin, Idle
    <3> HIDE DEF begun
    <3> QED
      BY <3>1
  <2>2. CASE Enter(r, kind, version)
    <3>1. /\ req' = [req EXCEPT ![r] = locked(kind, version, row)]
          /\ locked(kind, version, row).pc = "locked" /\ locked(kind, version, row).row = row
      BY <2>2 DEF Enter, Locked, Idle
    <3> HIDE DEF locked
    <3> QED
      BY <3>1
  <2>3. CASE Lock(r)
    <3>1. req[r].snap = row \/ req[r].kind \notin {"save", "cancel"}
      BY <2>3 DEF ReadsLatest
    <3> DEFINE q == locked(req[r].kind, req[r].version, req[r].snap)
    <3>2. req' = [req EXCEPT ![r] = q] /\ q.pc = "locked" /\ (q.row = row \/ q.kind \notin {"save", "cancel"})
      BY <2>3, <3>1 DEF Lock, Locked, Idle
    <3> HIDE DEF q
    <3> QED
      BY <3>2
  <2> QED
    BY <2>1, <2>2, <2>3
<1> HIDE DEF begun, locked
<1>2. row' = row /\ cdek' = cdek
  BY DEF Begin, Enter, Lock, Locked
<1>3. req'[r] = q /\ req' = [req EXCEPT ![r] = req'[r]]
  BY <1>1 DEF RegistrationInv, Types
<1>4. ~Cancelling(r)' /\ req'[r].pc \notin {"call", "store"}
  BY <1>1, <1>3 DEF Cancelling
<1> QED
  BY <1>1, <1>2, <1>3, <1>4, CancelMoves

(* Until CDEK has a cancellation, a refresh leaves the row's alone.        *)
LEMMA CancelReads ==
  ASSUME RegistrationInv, CancelInv, NEW r \in Requests, Refresh(r) \/ Document(r) \/ MarkDelivering(r) \/ SaveEnds(r)
  PROVE  CancelInv'
<1>1. Close(r) /\ cdek' = cdek /\ Got(r) /\ req[r].pc = "locked"
  BY DEF Refresh, Document, MarkDelivering, SaveEnds, Got, At
<1>2. /\ req[r].base = req[r].row /\ req[r].row \in TypedRows /\ row \in TypedRows
      /\ Types /\ (cdek.orders > 0 => cdek.status # "none")
  BY <1>1 DEF RegistrationInv, Types, Sessions, Locking, Known
<1>3. CASE row' = row
  BY <1>1, <1>3, CancelCloses
<1>4. CASE Document(r)
  <2>1. PICK state \in Polls \cup {"removed"} :
          row' = Flush(row, req[r].base, [req[r].row EXCEPT !.waybill.state = state])
    BY <1>4 DEF Document
  <2> DEFINE new == [req[r].row EXCEPT !.waybill.state = state]
  <2>2. state \in States
    BY DEF Polls, States
  <2>3. \A f \in Fields \ {"waybill"} : new[f] = req[r].row[f]
    BY <1>2, <2>2, WaybillIs
  <2> HIDE DEF new
  <2>4. new.cancel = req[r].row.cancel
    BY <2>3 DEF Fields
  <2>5. row' = Flush(row, req[r].base, new)
    BY <2>1 DEF new
  <2>6. row'.cancel = row.cancel
    BY <1>2, <2>4, <2>5, CancelFlushed
  <2> QED
    BY <1>1, <2>6, CancelCloses
<1>5. CASE row' # row /\ ~Document(r)
  <2>1. PICK poll \in Polls : row' = Flush(row, req[r].base, Refreshed(req[r].row, poll))
    BY <1>5 DEF Refresh, MarkDelivering, SaveEnds
  <2>2. cdek.delete = "none" => Refreshed(req[r].row, poll).cancel = req[r].row.cancel
    BY <1>2, RefreshedIs
  <2>3. cdek.delete = "none" => row'.cancel = row.cancel
    BY <1>2, <2>1, <2>2, CancelFlushed
  <2> QED
    BY <1>1, <2>3, CancelCloses
<1> QED
  BY <1>3, <1>4, <1>5

(* The session after its reservation, whatever it reserves.                *)
LEMMA CancelReserved ==
  ASSUME RegistrationInv, CancelInv, NEW r \in Requests, NEW order, NEW new, req[r].pc = "locked", Reserve(r, order, new),
         req[r].kind = "cancel" /\ cdek.delete = "none" =>
           new.cancel = Op("pending") /\ req[r].row.cancel # Op("pending"),
         req[r].kind # "cancel" /\ cdek.delete = "none" => new.cancel = req[r].row.cancel
  PROVE  CancelInv'
<1>1. /\ req[r].base = req[r].row /\ row \in TypedRows /\ req[r] \in Sessions /\ lock = r
      /\ req \in [Requests -> Sessions]
  BY DEF RegistrationInv, Types, Locking
<1>2. /\ req' = [req EXCEPT ![r] = req'[r]] /\ req'[r].pc = "call" /\ req'[r].kind = req[r].kind
      /\ req'[r].base = new /\ req'[r].row = new
      /\ row' = Flush(row, req[r].base, new) /\ cdek' = cdek
  BY <1>1 DEF Reserve, Sessions
<1>3. row'.cancel = IF new.cancel # req[r].row.cancel THEN new.cancel ELSE row.cancel
  BY <1>1, <1>2, CancelFlushed
<1>4. Cancelling(r)' <=> req[r].kind = "cancel"
  BY <1>2 DEF Cancelling
<1>5. CASE req[r].kind # "cancel" \/ cdek.delete # "none"
  BY <1>2, <1>3, <1>4, <1>5, CancelMoves
<1>6. CASE req[r].kind = "cancel" /\ cdek.delete = "none"
  <2>1. row'.cancel = Op("pending")
    BY <1>3, <1>6
  <2>2. \A s \in Requests : ~Cancelling(s)
    BY <1>6 DEF CancelInv
  <2>3. \A s \in Requests : req'[s].pc # "locked"
    <3>1. \A s \in Requests \ {r} : req'[s] = req[s] /\ req[s].pc # "locked"
      BY <1>1, <1>2 DEF RegistrationInv, Locking
    <3> QED
      BY <1>2, <3>1
  <2> QED
    BY <1>2, <1>4, <1>6, <2>1, <2>2, <2>3, CancelMoves
<1> QED
  BY <1>5, <1>6

(* What a handler reserves: a registration, an edit, a document or a       *)
(* cancellation.                                                           *)
LEMMA CancelReserves ==
  ASSUME RegistrationInv, CancelInv, NEW r \in Requests,
         Create(r) \/ SaveEdit(r) \/ \E op \in Operations : Operation(r, op)
  PROVE  CancelInv'
<1>1. req[r].pc = "locked"
  BY DEF Create, SaveEdit, Operation, Got, At
<1>2. /\ req[r].row \in Rows /\ req[r].row \in TypedRows
      /\ Types /\ (cdek.orders > 0 => cdek.status # "none")
  BY DEF RegistrationInv, Types, Sessions, Known, TypedRows
<1>3. CASE Create(r)
  <2> DEFINE new == [req[r].row EXCEPT !.status = "submitting", !.registration = "pending", !.details = req[r].version]
  <2>1. Reserve(r, [purchase EXCEPT !.status = "assembling"], new) /\ req[r].kind # "cancel"
    BY <1>3 DEF Create
  <2>2. new.cancel = req[r].row.cancel
    BY <1>2 DEF Rows
  <2> HIDE DEF new
  <2> QED
    BY <1>1, <2>1, <2>2, CancelReserved
<1>4. CASE SaveEdit(r)
  <2>1. PICK poll \in Polls :
          Reserve(r, Followed(req[r].row, Refreshed(req[r].row, poll)), [Refreshed(req[r].row, poll) EXCEPT !.editing = Op("pending")])
    BY <1>4 DEF SaveEdit
  <2> DEFINE w == Refreshed(req[r].row, poll)
             new == [w EXCEPT !.editing = Op("pending")]
  <2>2. w \in TypedRows /\ (cdek.delete = "none" => w.cancel = req[r].row.cancel)
    BY <1>2, RefreshedIs
  <2>3. new.cancel = w.cancel
    BY <2>2 DEF TypedRows, Rows
  <2>4. req[r].kind # "cancel"
    BY <1>4 DEF SaveEdit
  <2>5. cdek.delete = "none" => new.cancel = req[r].row.cancel
    BY <2>2, <2>3
  <2> HIDE DEF new
  <2> QED
    BY <1>1, <2>1, <2>4, <2>5, CancelReserved DEF new
<1>5. ASSUME NEW op \in Operations, Operation(r, op) PROVE CancelInv'
  <2> DEFINE new == [req[r].row EXCEPT ![op] = Op("pending")]
  <2>1. Reserve(r, purchase, new) /\ req[r].kind = op /\ ~Requested(req[r].row, op)
    BY <1>5 DEF Operation
  <2>2. op = "cancel" => new.cancel = Op("pending") /\ req[r].row.cancel # Op("pending")
    BY <1>2, <2>1 DEF Rows, Requested, Op, NoOp
  <2>3. op # "cancel" => new.cancel = req[r].row.cancel
    BY <1>2 DEF Rows, Operations
  <2> HIDE DEF new
  <2> QED
    BY <1>1, <2>1, <2>2, <2>3, CancelReserved
<1> QED
  BY <1>3, <1>4, <1>5

(* Answers of CDEK touch the cancellation only of the session that sent it.*)
LEMMA CancelCalls ==
  ASSUME RegistrationInv, CancelInv, NEW r \in Requests,
         PostOrder(r) \/ PatchOrder(r) \/ \E op \in Operations : CallOperation(r, op)
  PROVE  CancelInv'
<1>1. /\ req[r].pc = "call" /\ req[r].row \in Rows /\ req[r] \in Sessions /\ req[r].base = req[r].row
      /\ row' = row /\ req \in [Requests -> Sessions] /\ cdek \in Orders
  BY DEF PostOrder, PatchOrder, CallOperation, At, RegistrationInv, Types, Sessions, TypedRows, Locking
<1>2. ASSUME NEW new, Answered(r, new), req[r].kind # "cancel" => new.cancel = req[r].row.cancel,
             cdek'.delete = "none" => cdek.delete = "none"
      PROVE  CancelInv'
  <2>1. /\ req' = [req EXCEPT ![r] = req'[r]] /\ req'[r].pc = "store" /\ req'[r].kind = req[r].kind
        /\ req'[r].base = req[r].base /\ req'[r].row = new
    BY <1>1, <1>2 DEF Answered, Sessions
  <2>2. Cancelling(r)' <=> Cancelling(r)
    BY <1>1, <2>1 DEF Cancelling
  <2>3. ~Cancelling(r)' => new.cancel = req[r].base.cancel
    BY <1>1, <1>2, <2>1 DEF Cancelling
  <2> QED
    BY <1>1, <1>2, <2>1, <2>2, <2>3, CancelMoves
<1>3. CASE PostOrder(r)
  <2>1. PICK new : /\ Answered(r, new) /\ (Posted(req[r].version) \/ cdek' = cdek)
                   /\ \/ new = [req[r].row EXCEPT !.remote = TRUE, !.status = "accepted", !.registration = "accepted"]
                      \/ new = [req[r].row EXCEPT !.status = "rejected", !.registration = "rejected"]
                      \/ new = [req[r].row EXCEPT !.status = "unknown", !.registration = "unknown"]
    BY <1>3 DEF PostOrder
  <2>2. new.cancel = req[r].row.cancel
    BY <1>1, <2>1 DEF Rows
  <2>3. cdek'.delete = cdek.delete
    BY <1>1, <2>1 DEF Posted, Registers, Duplicates, Orders
  <2> QED
    BY <1>2, <2>1, <2>2, <2>3
<1>4. CASE PatchOrder(r)
  <2>1. PICK new : /\ Answered(r, new) /\ (cdek' = cdek \/ \E e \in NextEdit : \E state : Receives(e, state, req[r].version))
                   /\ \/ \E op : new = [req[r].row EXCEPT !.editing = op]
                      \/ \E op : new = [req[r].row EXCEPT !.editing = op, !.details = req[r].version, !.waybill = NoOp]
    BY <1>4 DEF PatchOrder
  <2>2. new.cancel = req[r].row.cancel
    BY <1>1, <2>1 DEF Rows
  <2>3. cdek'.delete = cdek.delete
    BY <1>1, <2>1 DEF Receives, Orders
  <2> QED
    BY <1>2, <2>1, <2>2, <2>3
<1>5. ASSUME NEW op \in Operations, CallOperation(r, op) PROVE CancelInv'
  <2>1. PICK value : Answered(r, [req[r].row EXCEPT ![op] = value])
    BY <1>5 DEF CallOperation
  <2>2. req[r].kind # "cancel" => [req[r].row EXCEPT ![op] = value].cancel = req[r].row.cancel
    BY <1>1, <1>5 DEF CallOperation, Operations, Rows
  <2>3. cdek'.delete = "none" => cdek.delete = "none"
    <3>1. UNCHANGED cdek \/ cdek' = [cdek EXCEPT !.delete = IF @ = "success" THEN @ ELSE "accepted"]
      BY <1>5 DEF CallOperation, Performs
    <3> QED
      BY <1>1, <3>1 DEF Orders
  <2> QED
    BY <1>2, <2>1, <2>2, <2>3
<1> QED
  BY <1>3, <1>4, <1>5

(* The answer is written: to another column, or by who was cancelling.     *)
LEMMA CancelStore ==
  ASSUME RegistrationInv, CancelInv, NEW r \in Requests, Store(r)
  PROVE  CancelInv'
<1>1. req[r].pc = "store" /\ row' = Flush(row, req[r].base, req[r].row) /\ Close(r) /\ cdek' = cdek /\ row \in TypedRows
  BY DEF Store, At, Saved, RegistrationInv, Types
<1>2. row'.cancel = row.cancel \/ Cancelling(r)
  <2>1. Cancelling(r) \/ req[r].row.cancel = req[r].base.cancel
    BY <1>1 DEF CancelInv
  <2> QED
    BY <1>1, <2>1, CancelFlushed
<1> QED
  BY <1>1, <1>2, CancelCloses

(* CDEK does not forget a cancellation it has been sent.                   *)
LEMMA CancelQuiet ==
  ASSUME CancelInv, UNCHANGED <<row, req>>, cdek'.delete = "none" => cdek.delete = "none"
  PROVE  CancelInv'
<1>1. \A s \in Requests : Cancelling(s)' <=> Cancelling(s)
  BY DEF Cancelling
<1> QED
  BY <1>1 DEF CancelInv

(* Every step keeps the first cancellation in view.                        *)
LEMMA CancelStep ==
  ASSUME RegistrationInv, CancelInv, [Next /\ ReadsLatest({"retry", "save", "cancel"})]_vars
  PROVE  CancelInv'
<1>1. ASSUME ReadsLatest({"retry", "save", "cancel"}), NEW r \in Requests, NEW kind, NEW version, Begin(r, kind, version) \/ Enter(r, kind, version)
      PROVE  CancelInv'
  BY <1>1, CancelStarts
<1>2. ASSUME ReadsLatest({"retry", "save", "cancel"}), NEW r \in Requests, Step(r) PROVE CancelInv'
  <2>1. CASE Lock(r)
    BY <1>2, <2>1, CancelStarts
  <2>2. CASE Refuse(r) \/ GetFails(r) \/ \E op \in Operations : OperationEnds(r, op)
    <3>1. Close(r) /\ UNCHANGED <<row, cdek>>
      BY <2>2 DEF Refuse, GetFails, OperationEnds
    <3> QED
      BY <3>1, CancelCloses
  <2> QED
    BY <1>2, <2>1, <2>2, CancelStore, CancelReads, CancelReserves, CancelCalls DEF Step
<1>3. CASE Register \/ SettleCancel \/ Move \/ \E e \in Edits : SettleEdit(e)
  <2>1. cdek \in Orders
    BY DEF RegistrationInv, Types
  <2>2. UNCHANGED <<row, req>> /\ (cdek'.delete = "none" => cdek.delete = "none")
    BY <1>3, <2>1 DEF Register, SettleCancel, Move, SettleEdit, Cdek, Orders
  <2> QED
    BY <2>2, CancelQuiet
<1>4. CASE Crash
  <2>1. \A s \in Requests : req'[s].pc = "idle"
    BY <1>4 DEF Crash, Idle
  <2> QED
    BY <2>1 DEF CancelInv, Cancelling
<1>5. CASE Patch \/ Pay \/ Finish
  <2>1. UNCHANGED <<row, req, cdek>>
    BY <1>5, WriterIs DEF RegistrationInv
  <2> QED
    BY <2>1, CancelQuiet
<1>6. CASE UNCHANGED vars
  BY <1>6, CancelQuiet DEF vars
<1> QED
  BY <1>1, <1>2, <1>3, <1>4, <1>5, <1>6 DEF Next

(* ... and who reads the latest row in a retry, among others, keeps the    *)
(* order of the registrations.                                             *)
LEMMA ReserversAreRetries ==
  ASSUME ReadsLatest({"retry", "save", "cancel"})
  PROVE  ReadsLatest({"retry"})
  BY DEF ReadsLatest

(* So the order of the registrations holds then.                           *)
THEOREM ReserversRegistration == ReserversReadLatest => []RegistrationInv
<1>1. Init => RegistrationInv
  BY RegistrationInit
<1>2. RegistrationInv /\ [Next /\ ReadsLatest({"retry", "save", "cancel"})]_vars => RegistrationInv'
  BY RegistrationStep, ReserversAreRetries
<1> QED
  BY <1>1, <1>2, PTL DEF ReserversReadLatest

(* From the reservation of the first cancellation on, its row says so, and *)
(* who may edit or cancel has seen it.                                     *)
THEOREM CancelInvariant == ReserversReadLatest => []CancelInv
<1>1. Init => CancelInv
  <2> SUFFICES ASSUME Init PROVE CancelInv
    OBVIOUS
  <2>1. \A r \in Requests : req[r].pc = "idle"
    BY DEF Init, Idle
  <2> QED
    BY <2>1 DEF CancelInv, Cancelling
<1>2. RegistrationInv /\ CancelInv /\ [Next /\ ReadsLatest({"retry", "save", "cancel"})]_vars => CancelInv'
  BY CancelStep
<1> QED
  BY <1>1, <1>2, ReserversRegistration, PTL DEF ReserversReadLatest

(* A cancellation that a session has seen is still there when it sends an  *)
(* edit, unless CDEK has refused it.                                       *)
LEMMA EditSeesCancel ==
  ASSUME RegistrationInv, CancelInv, NEW r \in Requests, SaveEdit(r)
  PROVE  ~CancelUnderWay
<1>1. PICK poll \in Polls : Got(r) /\ Editable(Refreshed(req[r].row, poll))
  BY DEF SaveEdit
<1> DEFINE new == Refreshed(req[r].row, poll)
<1>2. req[r].pc = "locked" /\ req[r].kind = "save"
  BY <1>1 DEF SaveEdit, Got, At
<1>3. new.cancel = IF cdek.delete = "none" THEN req[r].row.cancel ELSE Op(cdek.delete)
  <2>1. Types /\ (cdek.orders > 0 => cdek.status # "none") /\ req[r].row \in TypedRows
    BY DEF RegistrationInv, Known, Types, Sessions
  <2> QED
    BY <2>1, RefreshedIs
<1>4. new.cancel.state \in {"none", "rejected"}
  BY <1>1 DEF Editable
<1> HIDE DEF new
<1>5. \A state : Op(state).state = state
  BY DEF Op, NoOp
<1>6. cdek.delete # "accepted"
  BY <1>3, <1>4, <1>5
<1>7. ASSUME cdek.delete = "none", NEW s \in Requests, At(s, "call"), req[s].kind = "cancel" PROVE FALSE
  <2>1. req[r].row.cancel = Op("pending")
    BY <1>2, <1>7 DEF CancelInv, Cancelling, At
  <2> QED
    BY <1>3, <1>4, <1>5, <1>7, <2>1
<1> QED
  BY <1>6, <1>7 DEF CancelUnderWay

(* The order is not edited while a cancellation of it is under way         *)
(* (cdek.py:327-329), when retries, edits and cancellations work on the    *)
(* row as it is when they get the lock.                                    *)
THEOREM EditWaits == ReserversReadLatest => NoEditDuringCancel
<1>1. ASSUME RegistrationInv, CancelInv, [Next]_vars, NEW r \in Requests, Reserves(r, "save")
      PROVE  ~CancelUnderWay
  BY <1>1, ReservesIs, EditSeesCancel
<1>2. RegistrationInv /\ CancelInv /\ [Next /\ ReadsLatest({"retry", "save", "cancel"})]_vars =>
        [\A r \in Requests : Reserves(r, "save") => ~CancelUnderWay]_vars
  BY <1>1
<1> QED
  BY <1>2, ReserversRegistration, CancelInvariant, PTL DEF ReserversReadLatest, NoEditDuringCancel
=============================================================================
