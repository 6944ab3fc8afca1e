------------------------- MODULE OutboundOrderProofs -------------------------
(***************************************************************************)
(* Proofs about OutboundOrder, for every set of requests, of contents of   *)
(* the purchase and of handlers, and every number of faults and changes.   *)
(***************************************************************************)
EXTENDS OutboundOrder, SequenceTheorems, TLAPS

Remotes == [details : Details, status : Statuses \cup {"other"}, paid : BOOLEAN]

Rows == [status : Statuses \cup {"none"}, details : Details \cup {0}]

PayRows == [status : PaymentStatuses, details : Details \cup {0}]

(* Where a request holds the row lock.                                     *)
Holds == {"cancel", "look", "send", "link", "card", "status", "put"}

Sessions ==
  [pc : Holds \cup {"idle", "insert", "start", "get", "apply", "tell"}, kind : AllKinds \cup {"none"},
   patch : BOOLEAN, stale : BOOLEAN, known : {0, 1}, found : {0, 1},
   order : Rows, pay : PayRows, read : Remotes \cup {NoRemote}]

Types ==
  /\ purchase \in Rows /\ (Exists => purchase.status \in Statuses /\ purchase.details \in Details)
  /\ ~Exists => purchase.details = 0
  /\ orders \in Seq(Remotes) /\ Len(orders) <= 1
  /\ linked \in 0 .. Len(orders)
  /\ payment \in PayRows /\ provider \in PaymentStatuses
  /\ payment.status # "none" => linked # 0 /\ Exists
  /\ faults \in 0 .. MaxFaults /\ ops \in 0 .. MaxOps

(* What a request relies on that does not hold the lock.                   *)
Opened(r) ==
  /\ req[r].pc \notin {"idle", "insert"} => Exists
  /\ req[r].pc = "insert" => req[r].kind = "create" /\ req[r].order.details \in Details
  /\ req[r].kind = "edit" /\ req[r].pc \in {"start", "cancel", "look", "send"} => req[r].patch
  /\ req[r].kind = "edit" /\ req[r].pc = "start" => req[r].order.details \in Details

(* What the holder of the lock relies on: the row of the submission is     *)
(* there or the session has missed it, and the search by syncId has found  *)
(* what there is.                                                          *)
Holding(r) ==
  /\ req[r].order.status \in Statuses /\ req[r].order.details \in Details
  /\ req[r].known \in {0, linked}
  /\ req[r].pc \in {"status", "put"} \/ req[r].kind # "edit" => req[r].order.details = purchase.details
  /\ req[r].pc = "send" => req[r].found = Len(orders)
  /\ req[r].pc \in {"link", "card"} => req[r].found = 1 /\ Len(orders) = 1
  /\ req[r].pc = "card" /\ req[r].kind = "edit" => orders[1].details = req[r].order.details
  /\ req[r].pc = "put" => req[r].known = 1 /\ req[r].read \in Remotes

Serial ==
  /\ lock \in Requests \cup {NoRequest}
  /\ \A r \in Requests : lock = r <=> req[r].pc \in Holds

OutboundInv ==
  /\ Types /\ Serial
  /\ req \in [Requests -> Sessions]
  /\ \A r \in Requests : Opened(r)
  /\ \A r \in Requests : lock = r => Holding(r)

-----------------------------------------------------------------------------
(* One request moves.  Whatever it changes, it holds the lock, or nobody   *)
(* does, or it leaves alone what the holder relies on.                     *)
LEMMA Moves ==
  ASSUME OutboundInv, NEW r \in Requests, req' \in [Requests -> Sessions], \A w \in Requests \ {r} : req'[w] = req[w],
         Types', Exists => Exists', Opened(r)',
         lock' = r <=> req'[r].pc \in Holds,
         lock' = lock \/ (lock' = r /\ lock = NoRequest) \/ (lock' = NoRequest /\ lock = r),
         UNCHANGED <<purchase, linked, orders>> \/ lock \in {r, NoRequest},
         lock' = r => Holding(r)'
  PROVE  OutboundInv'
<1>1. \A w \in Requests : w # NoRequest
  BY OutboundAssumption
<1>2. Serial'
  <2>1. lock' \in Requests \cup {NoRequest}
    BY DEF OutboundInv, Serial
  <2>2. ASSUME NEW w \in Requests, w # r PROVE lock' = w <=> req'[w].pc \in Holds
    <3>1. lock = w <=> req[w].pc \in Holds
      BY DEF OutboundInv, Serial
    <3>2. lock' = w <=> lock = w
      BY <1>1, <2>2
    <3> QED  BY <2>2, <3>1, <3>2
  <2> QED  BY <2>1, <2>2 DEF Serial
<1>3. ASSUME NEW w \in Requests PROVE Opened(w)'
  <2>1. CASE w # r
    <3>1. Opened(w) /\ req'[w] = req[w]
      BY <2>1 DEF OutboundInv
    <3> QED  BY ONLY <3>1, Exists => Exists' DEF Opened
  <2> QED  BY <2>1
<1>4. ASSUME NEW w \in Requests, lock' = w PROVE Holding(w)'
  <2>1. CASE w # r
    <3>1. lock = w /\ lock \notin {r, NoRequest}
      BY <1>1, <1>4, <2>1
    <3>2. Holding(w) /\ req'[w] = req[w] /\ purchase' = purchase /\ linked' = linked /\ orders' = orders
      BY <2>1, <3>1 DEF OutboundInv
    <3> QED  BY ONLY <3>2 DEF Holding
  <2> QED  BY <1>4, <2>1
<1> QED  BY <1>2, <1>3, <1>4 DEF OutboundInv

(* A request that begins has nothing yet.                                  *)
LEMMA EnterKeeps ==
  ASSUME OutboundInv, NEW r \in Requests, At(r, "idle"), NEW q \in Sessions, Enter(r, q), q.pc \notin Holds,
         ops' \in 0 .. MaxOps,
         q.pc \notin {"idle", "insert"} => Exists,
         q.pc = "insert" => q.kind = "create" /\ q.order.details \in Details,
         q.kind = "edit" => q.patch /\ q.order.details \in Details
  PROVE  OutboundInv'
<1>1. /\ req' = [req EXCEPT ![r] = q] /\ req \in [Requests -> Sessions]
      /\ UNCHANGED <<purchase, linked, payment, provider, orders, lock, faults>>
  BY DEF Enter, OutboundInv
<1>2. req' \in [Requests -> Sessions] /\ req'[r] = q /\ \A w \in Requests \ {r} : req'[w] = req[w]
  BY <1>1
<1>3. lock # r
  BY DEF At, OutboundInv, Serial, Holds
<1>4. Types' /\ (Exists => Exists')
  BY <1>1 DEF OutboundInv, Types, Exists
<1>5. Opened(r)'
  BY <1>1, <1>2, <1>4 DEF Opened
<1> QED  BY <1>1, <1>2, <1>3, <1>4, <1>5, Moves

(* A handler that begins has opened nothing but its own session.           *)
LEMMA BeginKeeps ==
  ASSUME OutboundInv, NEW r \in Requests, Begin(r)
  PROVE  OutboundInv'
<1>1. Idle \in Sessions /\ Idle.order = NoPurchase /\ 0 \notin Details
  BY OutboundAssumption DEF Idle, Sessions, Rows, PayRows, NoPurchase, NoPayment, NoRemote, Holds, AllKinds, PaymentStatuses
<1>2. ops \in 0 .. MaxOps /\ MaxOps \in Nat
  BY OutboundAssumption DEF OutboundInv, Types
<1>3. ASSUME NEW d \in Details, BeginCreate(r, d) PROVE OutboundInv'
  <2> DEFINE q == [Idle EXCEPT !.kind = "create", !.pc = IF Exists THEN "start" ELSE "insert",
                               !.patch = Exists, !.stale = Exists, !.order.details = d]
  <2>1. At(r, "idle") /\ Enter(r, q) /\ ops' = ops
    BY <1>3 DEF BeginCreate, Free, At
  <2>2. q \in Sessions /\ q.pc = (IF Exists THEN "start" ELSE "insert") /\ q.kind = "create" /\ q.order.details = d
    BY <1>1 DEF Idle, Sessions, Rows, Holds, AllKinds, NoPurchase, NoPayment, PayRows, NoRemote, PaymentStatuses, Exists
  <2> HIDE DEF q
  <2>3. q.pc \notin Holds /\ (q.pc = "start" => Exists)
    BY <2>2 DEF Holds
  <2> QED  BY <1>2, <2>1, <2>2, <2>3, EnterKeeps
<1>4. ASSUME NEW d \in Details \cup {0}, NEW kind \in {"edit", "sync", "deliver", "finish"}, BeginStaff(r, kind, d),
             kind = "edit" => d \in Details
      PROVE  OutboundInv'
  <2> DEFINE q == [Idle EXCEPT !.kind = kind, !.pc = "start", !.patch = (kind = "edit"),
                               !.stale = TRUE, !.order.details = d]
  <2>1. At(r, "idle") /\ Enter(r, q) /\ Exists /\ ops' \in 0 .. MaxOps
    BY <1>2, <1>4 DEF BeginStaff, Free, At
  <2>2. q \in Sessions /\ q.pc = "start" /\ q.kind = kind /\ (kind = "edit" => q.patch) /\ q.order.details = d
    BY <1>1 DEF Idle, Sessions, Rows, Holds, AllKinds, NoPurchase, NoPayment, PayRows, NoRemote, PaymentStatuses
  <2> HIDE DEF q
  <2>3. q.pc \notin Holds
    BY <2>2 DEF Holds
  <2> QED  BY <1>4, <2>1, <2>2, <2>3, EnterKeeps
<1>5. ASSUME BeginPoll(r) PROVE OutboundInv'
  <2> DEFINE q == [Idle EXCEPT !.kind = "poll", !.pc = IF payment.status = "succeeded" THEN "apply" ELSE "get"]
  <2>1. At(r, "idle") /\ Enter(r, q) /\ Exists /\ ops' = ops
    BY <1>5 DEF BeginPoll, Free, At, OutboundInv, Types
  <2>2. q \in Sessions /\ q.pc \in {"apply", "get"} /\ q.kind = "poll"
    BY <1>1 DEF Idle, Sessions, Holds, AllKinds
  <2> HIDE DEF q
  <2>3. q.pc \notin Holds
    BY <2>2 DEF Holds
  <2> QED  BY <1>2, <2>1, <2>2, <2>3, EnterKeeps
<1> QED  BY <1>3, <1>4, <1>5 DEF Begin

(* A request ends, and leaves the lock.                                    *)
LEMMA ClosesKeeps ==
  ASSUME OutboundInv, NEW r \in Requests, Close(r), Types', Exists => Exists',
         UNCHANGED <<purchase, linked, orders>> \/ lock \in {r, NoRequest}
  PROVE  OutboundInv'
<1>1. Idle \in Sessions /\ Idle.pc = "idle" /\ Idle.kind = "none"
  BY DEF Idle, Sessions, Rows, PayRows, NoPurchase, NoPayment, NoRemote, Holds, AllKinds, PaymentStatuses
<1>2. req' = [req EXCEPT ![r] = Idle] /\ lock' = (IF lock = r THEN NoRequest ELSE lock) /\ req \in [Requests -> Sessions]
  BY DEF Close, OutboundInv
<1>3. req' \in [Requests -> Sessions] /\ req'[r] = Idle /\ \A w \in Requests \ {r} : req'[w] = req[w]
  BY <1>1, <1>2
<1>4. lock' # r /\ (lock' = lock \/ (lock' = NoRequest /\ lock = r))
  BY <1>2, OutboundAssumption
<1>5. Opened(r)'
  BY <1>1, <1>3 DEF Opened
<1>6. req'[r].pc \notin Holds
  BY <1>1, <1>3 DEF Holds
<1> QED  BY <1>3, <1>4, <1>5, <1>6, Moves

(* The shared state stays.                                                 *)
LEMMA SameTypes ==
  ASSUME OutboundInv, UNCHANGED <<purchase, linked, payment, orders>>,
         provider' \in PaymentStatuses, faults' \in 0 .. MaxFaults, ops' \in 0 .. MaxOps
  PROVE  Types' /\ (Exists => Exists')
  BY DEF OutboundInv, Types, Exists

(* A fault stays within the bound.                                       *)
LEMMA Faults ==
  ASSUME OutboundInv
  PROVE  faults \in 0 .. MaxFaults /\ ops \in 0 .. MaxOps /\ provider \in PaymentStatuses /\ (Fault => faults' \in 0 .. MaxFaults)
  BY OutboundAssumption DEF OutboundInv, Types, Fault

(* A request takes the lock.                                               *)
LEMMA LockedKeeps ==
  ASSUME OutboundInv, NEW r \in Requests, NEW pc \in {"cancel", "look", "status"}, NEW order,
         Locked(r, pc, order), Exists, order.status \in Statuses, order.details \in Details, order \in Rows,
         pc = "status" \/ req[r].kind # "edit" => order.details = purchase.details,
         pc # "status" /\ req[r].kind = "edit" => req[r].patch
  PROVE  OutboundInv'
<1>1. PICK known \in {0, linked} :
        req' = [req EXCEPT ![r].pc = pc, ![r].order = order, ![r].pay = payment, ![r].known = known]
  BY DEF Locked, Known
<1>2. lock = NoRequest /\ lock' = r /\ UNCHANGED <<purchase, linked, payment, provider, orders, faults, ops>>
  BY DEF Locked
<1>3. req[r] \in Sessions /\ req \in [Requests -> Sessions] /\ payment \in PayRows /\ known \in {0, 1}
  BY DEF OutboundInv, Types
<1>4. /\ req'[r].pc = pc /\ req'[r].order = order /\ req'[r].known = known
      /\ req'[r].kind = req[r].kind /\ req'[r].patch = req[r].patch
      /\ \A w \in Requests \ {r} : req'[w] = req[w]
  BY <1>1, <1>3 DEF Sessions
<1>5. req' \in [Requests -> Sessions]
  BY <1>1, <1>3 DEF Sessions, Holds
<1>6. Types' /\ (Exists => Exists')
  BY <1>2, SameTypes, Faults
<1>7. Opened(r)'
  BY <1>4, <1>6 DEF Opened
<1>8. Holding(r)'
  BY <1>2, <1>4 DEF Holding
<1>9. req'[r].pc \in Holds
  BY <1>4 DEF Holds
<1> QED  BY <1>2, <1>4, <1>5, <1>6, <1>7, <1>8, <1>9, Moves

(* With the lock a handler decides what it will change and tell.           *)
LEMMA StartKeeps ==
  ASSUME OutboundInv, NEW r \in Requests,
         CreateStart(r) \/ EditStart(r) \/ SyncStart(r) \/ StatusStart(r) \/ Tell(r)
  PROVE  OutboundInv'
<1>1. Opened(r) /\ (Exists => purchase \in Rows /\ purchase.status \in Statuses /\ purchase.details \in Details)
  BY DEF OutboundInv, Types
<1>2. \A d \in Details : Awaiting(d) \in Rows /\ Awaiting(d).status \in Statuses /\ Awaiting(d).details = d
  BY DEF Awaiting, Rows, Statuses
<1>3. CASE CreateStart(r)
  <2>1. Exists /\ req[r].kind # "edit" /\ Locked(r, "look", Awaiting(purchase.details))
    BY <1>1, <1>3 DEF CreateStart, At, Opened
  <2> QED  BY <1>1, <1>2, <2>1, LockedKeeps
<1>4. CASE EditStart(r)
  <2>1. Exists /\ req[r].kind = "edit" /\ req[r].patch /\ req[r].order.details \in Details
    BY <1>1, <1>4 DEF EditStart, At, Opened
  <2>2. PICK pc \in {"cancel", "look"} : Locked(r, pc, Awaiting(req[r].order.details))
    BY <1>4 DEF EditStart
  <2>3. PICK order : order = Awaiting(req[r].order.details) /\ order \in Rows /\ order.status \in Statuses /\ order.details \in Details
    BY <1>2, <2>1
  <2> QED  BY <2>1, <2>2, <2>3, LockedKeeps
<1>5. CASE SyncStart(r)
  <2>1. Exists /\ req[r].kind # "edit" /\ Locked(r, "look", purchase)
    BY <1>1, <1>5 DEF SyncStart, At, Opened
  <2> QED  BY <1>1, <2>1, LockedKeeps
<1>6. CASE StatusStart(r)
  <2>1. PICK status \in {"delivering", "finished"} : Locked(r, "status", [purchase EXCEPT !.status = status])
    BY <1>6 DEF StatusStart
  <2>2. Exists
    BY <1>1, <1>6 DEF StatusStart, At, Opened
  <2>3. PICK order \in Rows : order = [purchase EXCEPT !.status = status] /\ order.status \in Statuses
                              /\ order.details = purchase.details
    <3>1. purchase \in Rows /\ status \in Statuses
      BY <1>1, <2>2 DEF Statuses
    <3>2. [purchase EXCEPT !.status = status] \in Rows
      BY <3>1 DEF Rows
    <3>3. [purchase EXCEPT !.status = status].status = status
      BY <3>1 DEF Rows
    <3>4. [purchase EXCEPT !.status = status].details = purchase.details
      BY <3>1 DEF Rows
    <3> QED  BY <3>1, <3>2, <3>3, <3>4
  <2> QED  BY <1>1, <2>1, <2>2, <2>3, LockedKeeps
<1>7. CASE Tell(r)
  <2>1. Exists /\ Locked(r, "status", purchase)
    BY <1>1, <1>7 DEF Tell, At, Opened
  <2> QED  BY <1>1, <2>1, LockedKeeps
<1> QED  BY <1>3, <1>4, <1>5, <1>6, <1>7

(* The first INSERT of a purchase, which nobody has seen yet.            *)
LEMMA InsertKeeps ==
  ASSUME OutboundInv, NEW r \in Requests, Insert(r)
  PROVE  OutboundInv'
<1>1. /\ req[r].pc = "insert"
      /\ purchase' = IF Exists THEN purchase ELSE [status |-> "created", details |-> req[r].order.details]
      /\ req' = [req EXCEPT ![r].pc = "start", ![r].stale = Exists]
      /\ UNCHANGED <<linked, payment, provider, orders, lock, faults, ops>>
  BY DEF Insert, At
<1>2. req[r].kind = "create" /\ req[r].order.details \in Details /\ req[r] \in Sessions /\ req \in [Requests -> Sessions]
  BY <1>1 DEF OutboundInv, Opened
<1>3. /\ req' \in [Requests -> Sessions] /\ req'[r].pc = "start" /\ req'[r].kind = "create"
      /\ \A w \in Requests \ {r} : req'[w] = req[w]
  <2>1. Exists \in BOOLEAN
    BY DEF Exists
  <2> QED  BY <1>1, <1>2, <2>1 DEF Sessions
<1>4. Exists' /\ purchase' \in Rows /\ purchase'.status \in Statuses /\ purchase'.details \in Details
  BY <1>1, <1>2 DEF OutboundInv, Types, Exists, Rows, Statuses
<1>5. Types'
  BY <1>1, <1>4 DEF OutboundInv, Types
<1>6. Opened(r)'
  BY <1>3, <1>4 DEF Opened
<1>7. UNCHANGED <<purchase, linked, orders>> \/ lock \in {r, NoRequest}
  <2>1. CASE Exists
    BY <1>1, <2>1
  <2>2. CASE ~Exists
    <3>1. \A w \in Requests : req[w].pc \in {"idle", "insert"}
      BY <2>2 DEF OutboundInv, Opened
    <3>2. \A w \in Requests : lock # w
      BY <3>1 DEF OutboundInv, Serial, Holds
    <3> QED  BY <3>2 DEF OutboundInv, Serial
  <2> QED  BY <2>1, <2>2
<1>8. lock # r
  BY <1>1 DEF OutboundInv, Serial, Holds
<1>9. req'[r].pc \notin Holds
  BY <1>3 DEF Holds
<1> QED  BY <1>1, <1>3, <1>4, <1>5, <1>6, <1>7, <1>8, <1>9, Moves

(* A request that ends without having changed anything here.               *)
LEMMA NothingKeeps ==
  ASSUME OutboundInv, NEW r \in Requests, CreateReturns(r) \/ EditRefused(r)
  PROVE  OutboundInv'
<1>1. Close(r) /\ UNCHANGED <<purchase, linked, payment, provider, orders, faults, ops>>
  BY DEF CreateReturns, EditRefused
<1>2. Types' /\ (Exists => Exists')
  BY <1>1, SameTypes, Faults
<1> QED  BY <1>1, <1>2, ClosesKeeps

(* The holder goes on.                                                     *)
LEMMA HolderKeeps ==
  ASSUME OutboundInv, NEW r \in Requests, lock = r, lock' = lock, req' \in [Requests -> Sessions],
         \A w \in Requests \ {r} : req'[w] = req[w], req'[r].pc \in Holds,
         Types', Exists => Exists', Opened(r)', Holding(r)'
  PROVE  OutboundInv'
  BY Moves

(* The cancellation of the payment at YooKassa, which changes no row yet.  *)
LEMMA CancelKeeps ==
  ASSUME OutboundInv, NEW r \in Requests, Cancel(r)
  PROVE  OutboundInv'
<1>1. req[r].pc = "cancel" /\ UNCHANGED <<purchase, linked, payment, orders, ops>>
  BY DEF Cancel, At
<1>2. lock = r /\ Holding(r) /\ Opened(r) /\ req[r] \in Sessions /\ req \in [Requests -> Sessions]
  BY <1>1 DEF OutboundInv, Serial, Holds
<1>3. CASE req' = [req EXCEPT ![r].pc = "look", ![r].pay = [@ EXCEPT !.status = "canceled"]] /\ UNCHANGED <<lock, faults>>
           /\ provider' = "canceled"
  <2>1. [req[r].pay EXCEPT !.status = "canceled"] \in PayRows
    BY <1>2 DEF Sessions, PayRows, PaymentStatuses
  <2>2. /\ req'[r].pc = "look" /\ req'[r].order = req[r].order /\ req'[r].known = req[r].known
        /\ req'[r].kind = req[r].kind /\ req'[r].patch = req[r].patch
        /\ \A w \in Requests \ {r} : req'[w] = req[w]
    BY <1>2, <1>3 DEF Sessions
  <2>3. req' \in [Requests -> Sessions]
    BY <1>2, <1>3, <2>1 DEF Sessions, Holds
  <2>4. Types' /\ (Exists => Exists')
    BY <1>1, <1>3, SameTypes, Faults DEF PaymentStatuses
  <2>5. Opened(r)'
    BY <1>1, <1>2, <2>2, <2>4 DEF Opened
  <2>6. Holding(r)'
    BY <1>1, <1>2, <2>2 DEF Holding
  <2>7. req'[r].pc \in Holds
    BY <2>2 DEF Holds
  <2> QED  BY <1>2, <1>3, <2>2, <2>3, <2>4, <2>5, <2>6, <2>7, HolderKeeps
<1>4. CASE Close(r) /\ provider' \in {provider, "canceled"} /\ (faults' = faults \/ Fault)
  <2>1. Types' /\ (Exists => Exists')
    BY <1>1, <1>4, SameTypes, Faults DEF PaymentStatuses
  <2> QED  BY <1>1, <1>4, <2>1, ClosesKeeps
<1> QED  BY <1>3, <1>4 DEF Cancel, CallFails

-----------------------------------------------------------------------------
(* The customer order: there is none or one, and its place is what a       *)
(* request has found.                                                      *)
LEMMA OneOrNone ==
  ASSUME OutboundInv
  PROVE  /\ orders \in Seq(Remotes) /\ Len(orders) \in {0, 1} /\ linked \in {0, 1} /\ linked <= Len(orders)
         /\ Len(orders) = 1 => orders[1] \in Remotes
<1>1. orders \in Seq(Remotes) /\ Len(orders) <= 1 /\ linked \in 0 .. Len(orders)
  BY DEF OutboundInv, Types
<1>2. Len(orders) \in Nat
  BY <1>1
<1>3. \A m \in Nat : m <= 1 => m \in {0, 1} /\ \A n \in 0 .. m : n \in {0, 1} /\ n <= m
  OBVIOUS
<1>4. Len(orders) \in {0, 1} /\ linked \in {0, 1} /\ linked <= Len(orders)
  BY <1>1, <1>2, <1>3
<1>5. Len(orders) = 1 => orders[1] \in Remotes
  BY <1>1
<1> QED  BY <1>1, <1>4, <1>5

(* Numbers of orders: none, one, and what an addition makes of them.     *)
LEMMA Bits ==
  \A l \in {0, 1}, m \in {0, 1} : l <= m => (l # 0 => l = m) /\ l \in 0 .. m /\ m <= 1 /\ l \in 0 .. 1
  OBVIOUS

(* A POST adds the order, a PUT rewrites it.                               *)
LEMMA SentIs ==
  ASSUME OutboundInv, NEW r \in Requests, req[r].pc = "send"
  PROVE  /\ Sent(req[r]) \in Seq(Remotes) /\ Len(Sent(req[r])) = 1
         /\ req[r].found = 0 \/ req[r].patch => Sent(req[r])[1].details = req[r].order.details
<1>1. lock = r /\ Holding(r) /\ req[r] \in Sessions /\ req[r].found = Len(orders)
  BY DEF OutboundInv, Serial, Holds, Holding
<1>2. PICK remote \in Remotes : remote = Payload(req[r]) /\ remote.details = req[r].order.details
  <2>1. req[r].order.status \in Statuses /\ req[r].order.details \in Details
    BY <1>1 DEF Holding
  <2>2. PICK d \in Details, status \in Statuses : d = req[r].order.details /\ status = req[r].order.status
    BY <2>1
  <2>3. Payload(req[r]) = [details |-> d, status |-> status, paid |-> FALSE]
    BY <2>2 DEF Payload
  <2>4. [details |-> d, status |-> status, paid |-> FALSE] \in Remotes
    BY DEF Remotes
  <2> QED  BY <2>2, <2>3, <2>4
<1>3. orders \in Seq(Remotes) /\ Len(orders) \in {0, 1}
  BY OneOrNone
<1>4. CASE req[r].found = 0
  <2>1. Sent(req[r]) = Append(orders, remote)
    BY <1>2, <1>4 DEF Sent
  <2>2. /\ Append(orders, remote) \in Seq(Remotes) /\ Len(Append(orders, remote)) = Len(orders) + 1
        /\ Append(orders, remote)[Len(orders) + 1] = remote
    BY <1>2, <1>3, AppendProperties
  <2>3. Len(orders) + 1 = 1
    BY <1>1, <1>4
  <2> QED  BY <1>2, <2>1, <2>2, <2>3
<1>5. CASE req[r].found # 0 /\ req[r].patch
  <2>1. req[r].found = 1 /\ Len(orders) = 1 /\ 1 \in 1 .. Len(orders)
    BY <1>1, <1>3, <1>5
  <2>2. Sent(req[r]) = [orders EXCEPT ![1] = remote]
    BY <1>2, <1>5, <2>1 DEF Sent
  <2>3. /\ [orders EXCEPT ![1] = remote] \in Seq(Remotes) /\ Len([orders EXCEPT ![1] = remote]) = Len(orders)
        /\ [orders EXCEPT ![1] = remote][1] = remote
    <3>1. remote \in Remotes
      OBVIOUS
    <3>2. [orders EXCEPT ![1] = remote] \in Seq(Remotes)
      BY ONLY <1>3, <2>1, <3>1, ExceptSeq
    <3>3. Len([orders EXCEPT ![1] = remote]) = Len(orders)
      BY ONLY <1>3, <2>1, <3>1, ExceptSeq
    <3>4. [orders EXCEPT ![1] = remote][1] = remote
      BY ONLY <1>3, <2>1
    <3> QED  BY <3>2, <3>3, <3>4
  <2> QED  BY <1>2, <2>1, <2>2, <2>3
<1>6. CASE req[r].found # 0 /\ ~req[r].patch
  <2>1. Sent(req[r]) = orders /\ Len(orders) = 1
    BY <1>1, <1>3, <1>6 DEF Sent
  <2> QED  BY <1>3, <1>6, <2>1
<1> QED  BY <1>4, <1>5, <1>6

(* sync_purchase searches by syncId before it sends; nothing is written.   *)
LEMMA LookKeeps ==
  ASSUME OutboundInv, NEW r \in Requests, Look(r)
  PROVE  OutboundInv'
<1>1. req[r].pc = "look" /\ UNCHANGED <<purchase, linked, payment, provider, orders, ops>>
  BY DEF Look, At
<1>2. lock = r /\ Holding(r) /\ Opened(r) /\ req[r] \in Sessions /\ req \in [Requests -> Sessions]
  BY <1>1 DEF OutboundInv, Serial, Holds
<1>3. CASE Close(r) /\ (faults' = faults \/ Fault)
  <2>1. Types' /\ (Exists => Exists')
    BY <1>1, <1>3, SameTypes, Faults
  <2> QED  BY <1>1, <1>3, <2>1, ClosesKeeps
<1>4. CASE /\ req[r].known # 0 \/ Len(orders) < 2
           /\ req' = [req EXCEPT ![r].pc = "send",
                                 ![r].found = IF req[r].known # 0 THEN req[r].known ELSE Len(orders)]
           /\ UNCHANGED <<lock, faults>>
  <2>1. (IF req[r].known # 0 THEN req[r].known ELSE Len(orders)) = Len(orders)
    <3>1. req[r].known \in {0, linked} /\ linked \in {0, 1} /\ linked <= Len(orders) /\ Len(orders) \in {0, 1}
      BY <1>2, OneOrNone DEF Holding
    <3>2. linked # 0 => linked = Len(orders)
      BY ONLY <3>1, Bits
    <3> QED  BY ONLY <3>1, <3>2
  <2>2. Len(orders) \in {0, 1}
    BY OneOrNone
  <2>3. req' = [req EXCEPT ![r].pc = "send", ![r].found = Len(orders)]
    BY <1>4, <2>1
  <2>4. /\ req'[r].pc = "send" /\ req'[r].found = Len(orders) /\ req'[r].order = req[r].order /\ req'[r].known = req[r].known
        /\ req'[r].kind = req[r].kind /\ req'[r].patch = req[r].patch
        /\ \A w \in Requests \ {r} : req'[w] = req[w]
    BY <1>2, <2>3 DEF Sessions
  <2>5. req' \in [Requests -> Sessions]
    BY <1>2, <2>2, <2>3 DEF Sessions, Holds
  <2>6. Types' /\ (Exists => Exists')
    BY <1>1, <1>4, SameTypes, Faults
  <2>7. Opened(r)'
    BY <1>1, <1>2, <2>4, <2>6 DEF Opened
  <2>8. Holding(r)'
    BY <1>1, <1>2, <2>4 DEF Holding
  <2>9. req'[r].pc \in Holds
    BY <2>4 DEF Holds
  <2> QED  BY <1>2, <1>4, <2>4, <2>5, <2>6, <2>7, <2>8, <2>9, HolderKeeps
<1> QED  BY <1>3, <1>4 DEF Look, CallFails

(* The call of sync_purchase, answered or not.                             *)
LEMMA SendKeeps ==
  ASSUME OutboundInv, NEW r \in Requests, Send(r)
  PROVE  OutboundInv'
<1>1. req[r].pc = "send" /\ UNCHANGED <<purchase, linked, payment, provider, ops>>
  BY DEF Send, At
<1>2. lock = r /\ Holding(r) /\ Opened(r) /\ req[r] \in Sessions /\ req \in [Requests -> Sessions]
  BY <1>1 DEF OutboundInv, Serial, Holds
<1>3. /\ Sent(req[r]) \in Seq(Remotes) /\ Len(Sent(req[r])) = 1
      /\ req[r].found = 0 \/ req[r].patch => Sent(req[r])[1].details = req[r].order.details
  BY <1>1, SentIs
<1>4. ASSUME orders' \in {orders, Sent(req[r])}, faults' \in 0 .. MaxFaults PROVE Types' /\ (Exists => Exists')
  <2>1. orders' \in Seq(Remotes) /\ Len(orders') <= 1 /\ linked \in 0 .. Len(orders')
    <3>1. orders \in Seq(Remotes) /\ Len(orders) \in {0, 1} /\ linked \in {0, 1} /\ linked <= Len(orders)
      BY OneOrNone
    <3>2. linked \in 0 .. Len(orders) /\ linked \in 0 .. 1 /\ Len(orders) <= 1
      BY ONLY <3>1, Bits
    <3>3. CASE orders' = orders
      BY <3>1, <3>2, <3>3
    <3>4. CASE orders' = Sent(req[r])
      <4>1. orders' \in Seq(Remotes) /\ Len(orders') = 1
        BY <1>3, <3>4
      <4>2. 1 <= 1
        OBVIOUS
      <4> QED  BY <3>2, <4>1, <4>2
    <3> QED  BY <1>4, <3>3, <3>4
  <2> QED  BY <1>1, <1>4, <2>1 DEF OutboundInv, Types, Exists
<1>5. CASE Close(r) /\ orders' \in {orders, Sent(req[r])} /\ (faults' = faults \/ Fault)
  <2>1. faults' \in 0 .. MaxFaults
    BY <1>5, Faults
  <2>2. Types' /\ (Exists => Exists')
    BY <1>4, <1>5, <2>1
  <2> QED  BY <1>2, <1>5, <2>2, ClosesKeeps
<1>6. CASE /\ orders' = Sent(req[r]) /\ UNCHANGED <<faults, lock>>
           /\ req' = [req EXCEPT ![r].pc = IF req[r].kind = "sync" THEN "link" ELSE "card",
                                 ![r].found = IF req[r].found = 0 THEN Len(orders') ELSE req[r].found]
  <2>1. PICK pc \in {"link", "card"} : pc = (IF req[r].kind = "sync" THEN "link" ELSE "card")
    OBVIOUS
  <2>2. (IF req[r].found = 0 THEN Len(orders') ELSE req[r].found) = 1
    BY <1>2, <1>3, <1>6 DEF Sessions
  <2>3. req' = [req EXCEPT ![r].pc = pc, ![r].found = 1]
    BY <1>6, <2>1, <2>2
  <2>4. /\ req'[r].pc = pc /\ req'[r].found = 1 /\ req'[r].order = req[r].order /\ req'[r].known = req[r].known
        /\ req'[r].kind = req[r].kind /\ req'[r].patch = req[r].patch
        /\ \A w \in Requests \ {r} : req'[w] = req[w]
    BY <1>2, <2>3 DEF Sessions
  <2>5. req' \in [Requests -> Sessions]
    BY <1>2, <2>3 DEF Sessions, Holds
  <2>6. Types' /\ (Exists => Exists')
    <3>1. faults' \in 0 .. MaxFaults
      BY <1>6, Faults
    <3> QED  BY <1>4, <1>6, <3>1
  <2>7. Opened(r)'
    BY <1>1, <1>2, <2>1, <2>4, <2>6 DEF Opened
  <2>8. Holding(r)'
    <3>1. req[r].kind = "edit" => orders'[1].details = req[r].order.details
      BY <1>1, <1>2, <1>3, <1>6 DEF Opened
    <3> QED  BY <1>1, <1>2, <1>3, <1>6, <2>1, <2>4, <3>1 DEF Holding
  <2>9. req'[r].pc \in Holds
    BY <2>4 DEF Holds
  <2> QED  BY <1>2, <1>6, <2>4, <2>5, <2>6, <2>7, <2>8, <2>9, HolderKeeps
<1> QED  BY <1>5, <1>6 DEF Send, CallFails

(* The commits: the submission names the order.                            *)
LEMMA LinkKeeps ==
  ASSUME OutboundInv, NEW r \in Requests, Link(r)
  PROVE  OutboundInv'
<1>1. req[r].pc = "link" /\ linked' = req[r].found /\ Close(r) /\ UNCHANGED <<purchase, payment, provider, orders, faults, ops>>
  BY DEF Link, At
<1>2. lock = r /\ Holding(r)
  BY <1>1 DEF OutboundInv, Serial, Holds
<1>3. linked' = 1 /\ Len(orders) = 1
  BY <1>1, <1>2 DEF Holding
<1>4. Types' /\ (Exists => Exists')
  BY <1>1, <1>3 DEF OutboundInv, Types, Exists
<1> QED  BY <1>1, <1>2, <1>4, ClosesKeeps

(* The submission and the purchase as the last commit of a handler leaves them. *)
LEMMA SavedIs ==
  ASSUME OutboundInv, NEW r \in Requests, req[r].pc = "card", Save(req[r]), orders' = orders,
         payment' \in PayRows, provider' \in PaymentStatuses, faults' \in 0 .. MaxFaults, ops' = ops
  PROVE  /\ lock = r /\ linked' = 1 /\ purchase' = req[r].order
         /\ Types' /\ Exists'
<1>1. lock = r /\ Holding(r) /\ req[r] \in Sessions
  BY DEF OutboundInv, Serial, Holds
<1>2. linked' = 1 /\ Len(orders) = 1 /\ purchase' = req[r].order
  BY <1>1 DEF Holding, Save
<1>3. purchase' \in Rows /\ purchase'.status \in Statuses /\ purchase'.details \in Details /\ Exists'
  BY <1>1, <1>2 DEF Holding, Sessions, Exists, Statuses
<1> QED  BY <1>1, <1>2, <1>3 DEF OutboundInv, Types

(* The payment of a purchase that has its order: the old one, or a new one. *)
LEMMA CardKeeps ==
  ASSUME OutboundInv, NEW r \in Requests, CardKeep(r) \/ CardNew(r)
  PROVE  OutboundInv'
<1>1. req[r].pc = "card" /\ orders' = orders /\ ops' = ops
  BY DEF CardKeep, CardNew, At
<1>2. lock = r /\ Holding(r) /\ req[r] \in Sessions /\ req \in [Requests -> Sessions]
  BY <1>1 DEF OutboundInv, Serial, Holds
<1>3. CASE CardKeep(r)
  <2>1. Save(req[r]) /\ lock' = NoRequest /\ UNCHANGED <<payment, provider, faults>>
    BY <1>3 DEF CardKeep
  <2>2. payment \in PayRows /\ provider \in PaymentStatuses /\ faults \in 0 .. MaxFaults
    BY DEF OutboundInv, Types
  <2>3. Types' /\ Exists'
    BY <1>1, <2>1, <2>2, SavedIs
  <2>4. PICK q : q = (IF payment.status = "succeeded" THEN [Idle EXCEPT !.pc = "apply", !.kind = req[r].kind] ELSE Idle)
    OBVIOUS
  <2>5. q \in Sessions /\ q.pc \in {"idle", "apply"}
    BY <1>2, <2>4 DEF Idle, Sessions, Rows, PayRows, NoPurchase, NoPayment, NoRemote, Holds, AllKinds, PaymentStatuses
  <2>6. req' \in [Requests -> Sessions] /\ req'[r] = q /\ \A w \in Requests \ {r} : req'[w] = req[w]
    <3>1. req' = [req EXCEPT ![r] = q]
      BY <1>3, <2>4 DEF CardKeep
    <3> QED  BY <1>2, <2>5, <3>1
  <2>7. Opened(r)'
    BY <2>3, <2>5, <2>6 DEF Opened
  <2>8. req'[r].pc \notin Holds /\ lock' # r
    BY <2>1, <2>5, <2>6, OutboundAssumption DEF Holds
  <2> QED  BY <1>2, <2>1, <2>3, <2>6, <2>7, <2>8, Moves
<1>4. CASE /\ CardNew(r) /\ Save(req[r]) /\ Close(r) /\ faults' \in 0 .. MaxFaults
           /\ payment' \in PayRows /\ provider' \in PaymentStatuses
  <2>1. Types' /\ Exists'
    BY <1>1, <1>4, SavedIs
  <2> QED  BY <1>2, <1>4, <2>1, ClosesKeeps
<1>5. CASE CardNew(r) /\ CallFails(r) /\ UNCHANGED <<purchase, linked, payment, provider>>
  <2>1. Types' /\ (Exists => Exists')
    BY <1>1, <1>5, SameTypes, Faults DEF CallFails
  <2> QED  BY <1>1, <1>5, <2>1, ClosesKeeps DEF CallFails
<1>6. \A status \in PaymentStatuses : [status |-> status, details |-> req[r].order.details] \in PayRows
  BY <1>2 DEF Sessions, Rows, PayRows
<1> QED  BY <1>3, <1>4, <1>5, <1>6, Faults DEF CardNew, CallFails, PaymentStatuses

-----------------------------------------------------------------------------
(* The state of the payment is asked for.                                  *)
LEMMA GetKeeps ==
  ASSUME OutboundInv, NEW r \in Requests, Get(r)
  PROVE  OutboundInv'
<1>1. req[r].pc = "get" /\ UNCHANGED <<purchase, linked, provider, orders, faults, ops>>
  BY DEF Get, At
<1>2. Opened(r) /\ req[r] \in Sessions /\ req \in [Requests -> Sessions] /\ lock # r
  BY <1>1 DEF OutboundInv, Serial, Holds
<1>3. payment' \in PayRows /\ (payment'.status # "none" => linked # 0 /\ Exists)
  <2>1. payment \in PayRows /\ provider \in PaymentStatuses /\ (payment.status # "none" => linked # 0 /\ Exists)
    BY DEF OutboundInv, Types
  <2>2. [payment EXCEPT !.status = provider] \in PayRows
    BY <2>1 DEF PayRows
  <2> QED  BY <2>1, <2>2 DEF Get
<1>4. Types' /\ (Exists => Exists')
  BY <1>1, <1>3 DEF OutboundInv, Types, Exists
<1>5. CASE Close(r)
  BY <1>1, <1>4, <1>5, ClosesKeeps
<1>6. CASE req' = [req EXCEPT ![r].pc = "apply"] /\ UNCHANGED lock
  <2>1. /\ req' \in [Requests -> Sessions] /\ req'[r].pc = "apply" /\ req'[r].kind = req[r].kind
        /\ \A w \in Requests \ {r} : req'[w] = req[w]
    BY <1>2, <1>6 DEF Sessions
  <2>2. Opened(r)'
    BY <1>1, <1>2, <1>4, <2>1 DEF Opened
  <2>3. req'[r].pc \notin Holds
    BY <2>1 DEF Holds
  <2> QED  BY <1>1, <1>2, <1>4, <1>6, <2>1, <2>2, <2>3, Moves
<1> QED  BY <1>5, <1>6 DEF Get

(* The confirmed payment is applied while nobody holds the lock.           *)
LEMMA ApplyKeeps ==
  ASSUME OutboundInv, NEW r \in Requests, Apply(r)
  PROVE  OutboundInv'
<1>1. /\ req[r].pc = "apply" /\ lock = NoRequest /\ UNCHANGED <<linked, payment, provider, orders, lock, faults, ops>>
      /\ req' = [req EXCEPT ![r].pc = "tell", ![r].stale = FALSE]
  BY DEF Apply, At
<1>2. Opened(r) /\ req[r] \in Sessions /\ req \in [Requests -> Sessions] /\ Exists /\ lock # r
  BY <1>1, OutboundAssumption DEF OutboundInv, Opened
<1>3. purchase \in Rows /\ purchase.status \in Statuses /\ purchase.details \in Details
  BY <1>2 DEF OutboundInv, Types
<1>4. purchase' \in Rows /\ purchase'.status \in Statuses /\ purchase'.details \in Details /\ Exists'
  <2>1. /\ [purchase EXCEPT !.status = "assembling"] \in Rows
        /\ [purchase EXCEPT !.status = "assembling"].status = "assembling"
        /\ [purchase EXCEPT !.status = "assembling"].details = purchase.details
    BY <1>3 DEF Rows, Statuses
  <2>2. purchase' = purchase \/ purchase' = [purchase EXCEPT !.status = "assembling"]
    BY DEF Apply
  <2> QED  BY <1>3, <2>1, <2>2 DEF Exists, Statuses
<1>5. Types'
  BY <1>1, <1>4 DEF OutboundInv, Types
<1>6. /\ req' \in [Requests -> Sessions] /\ req'[r].pc = "tell" /\ req'[r].kind = req[r].kind
      /\ \A w \in Requests \ {r} : req'[w] = req[w]
  BY <1>1, <1>2 DEF Sessions
<1>7. Opened(r)'
  BY <1>4, <1>6 DEF Opened
<1>8. req'[r].pc \notin Holds
  BY <1>6 DEF Holds
<1> QED  BY <1>1, <1>2, <1>4, <1>5, <1>6, <1>7, <1>8, Moves

(* The row the session holds is committed.                                 *)
LEMMA OrderCommits ==
  ASSUME OutboundInv, NEW r \in Requests, req[r].pc \in {"status", "put"}, purchase' = req[r].order,
         UNCHANGED <<linked, payment, provider>>, orders' \in Seq(Remotes), Len(orders') = Len(orders),
         faults' \in 0 .. MaxFaults, ops' \in 0 .. MaxOps
  PROVE  Types' /\ (Exists => Exists') /\ lock = r /\ purchase'.details = purchase.details
<1>1. lock = r /\ Holding(r) /\ req[r] \in Sessions
  BY DEF OutboundInv, Serial, Holds
<1>2. purchase' \in Rows /\ purchase'.status \in Statuses /\ purchase'.details \in Details /\ Exists'
      /\ purchase'.details = purchase.details
  BY <1>1 DEF Holding, Sessions, Exists, Statuses
<1> QED  BY <1>1, <1>2 DEF OutboundInv, Types

(* sync_purchase_status has nothing to tell.                             *)
LEMMA StatusSkipsKeeps ==
  ASSUME OutboundInv, NEW r \in Requests, StatusSkips(r)
  PROVE  OutboundInv' /\ purchase'.details = purchase.details
<1>1. req[r].pc = "status" /\ purchase' = req[r].order /\ Close(r) /\ UNCHANGED <<linked, payment, provider, orders, faults, ops>>
  BY DEF StatusSkips, At
<1>2. Types' /\ (Exists => Exists') /\ lock = r /\ purchase'.details = purchase.details
  BY <1>1, OneOrNone, Faults, OrderCommits
<1> QED  BY <1>1, <1>2, ClosesKeeps

(* The description of the order is read before it is written back.       *)
LEMMA StatusGetKeeps ==
  ASSUME OutboundInv, NEW r \in Requests, StatusGet(r)
  PROVE  OutboundInv'
<1>1. req[r].pc = "status" /\ req[r].known # 0 /\ UNCHANGED <<purchase, linked, payment, provider, orders, ops>>
  BY DEF StatusGet, At
<1>2. lock = r /\ Holding(r) /\ Opened(r) /\ req[r] \in Sessions /\ req \in [Requests -> Sessions]
  BY <1>1 DEF OutboundInv, Serial, Holds
<1>3. CASE CallFails(r)
  <2>1. Types' /\ (Exists => Exists')
    BY <1>1, <1>3, SameTypes, Faults DEF CallFails
  <2> QED  BY <1>1, <1>3, <2>1, ClosesKeeps DEF CallFails
<1>4. CASE req' = [req EXCEPT ![r].pc = "put", ![r].read = orders[req[r].known]] /\ UNCHANGED <<lock, faults>>
  <2>1. req[r].known = 1 /\ linked = 1 /\ Len(orders) = 1
    <3>1. req[r].known \in {0, linked} /\ linked \in {0, 1} /\ linked <= Len(orders) /\ Len(orders) \in {0, 1}
      BY <1>2, OneOrNone DEF Holding
    <3>2. linked # 0 => linked = Len(orders)
      BY ONLY <3>1, Bits
    <3> QED  BY <1>1, <3>1, <3>2
  <2>2. orders[1] \in Remotes
    BY <2>1, OneOrNone
  <2>3. req' = [req EXCEPT ![r].pc = "put", ![r].read = orders[1]]
    BY <1>4, <2>1
  <2>4. /\ req'[r].pc = "put" /\ req'[r].read = orders[1] /\ req'[r].order = req[r].order /\ req'[r].known = req[r].known
        /\ req'[r].kind = req[r].kind
        /\ \A w \in Requests \ {r} : req'[w] = req[w]
    BY <1>2, <2>3 DEF Sessions
  <2>5. req' \in [Requests -> Sessions]
    BY <1>2, <2>2, <2>3 DEF Sessions, Holds
  <2>6. Types' /\ (Exists => Exists')
    BY <1>1, <1>4, SameTypes, Faults
  <2>7. Opened(r)'
    BY <1>1, <1>2, <2>4, <2>6 DEF Opened
  <2>8. Holding(r)'
    BY <1>1, <1>2, <2>1, <2>2, <2>4 DEF Holding
  <2>9. req'[r].pc \in Holds
    BY <2>4 DEF Holds
  <2> QED  BY <1>2, <1>4, <2>4, <2>5, <2>6, <2>7, <2>8, <2>9, HolderKeeps
<1> QED  BY <1>3, <1>4 DEF StatusGet

(* A PUT of the status leaves the contents of the order alone.             *)
LEMMA PutIs ==
  ASSUME OutboundInv, NEW r \in Requests, req[r].pc = "put"
  PROVE  Put(req[r]) \in Seq(Remotes) /\ Len(Put(req[r])) = Len(orders)
<1>1. lock = r /\ Holding(r) /\ req[r] \in Sessions
  BY DEF OutboundInv, Serial, Holds
<1>2. req[r].known = 1 /\ req[r].read \in Remotes /\ req[r].order.status \in Statuses /\ linked = 1
  BY <1>1 DEF Holding
<1>3. orders \in Seq(Remotes) /\ Len(orders) = 1 /\ orders[1] \in Remotes
  BY <1>2, OneOrNone, Bits
<1>4. PICK told \in Remotes : told = Told(req[r])
  <2>1. Pays(req[r]) \in BOOLEAN
    BY DEF Pays
  <2> QED  BY <1>2, <2>1 DEF Told, Remotes
<1>5. PICK remote \in Remotes : remote = [orders[1] EXCEPT !.status = told.status, !.paid = told.paid]
  BY <1>3, <1>4 DEF Remotes
<1>6. Put(req[r]) = orders \/ Put(req[r]) = [orders EXCEPT ![1] = remote]
  BY <1>2, <1>3, <1>4, <1>5 DEF Put
<1>7. 1 \in 1 .. Len(orders)
  BY <1>3
<1>8. [orders EXCEPT ![1] = remote] \in Seq(Remotes)
  BY ONLY <1>3, <1>5, <1>7, ExceptSeq
<1>9. Len([orders EXCEPT ![1] = remote]) = Len(orders)
  BY ONLY <1>3, <1>5, <1>7, ExceptSeq
<1> QED  BY <1>3, <1>6, <1>8, <1>9

(* The description is written back with the lines that were added.       *)
LEMMA StatusPutKeeps ==
  ASSUME OutboundInv, NEW r \in Requests, StatusPut(r)
  PROVE  OutboundInv' /\ purchase'.details = purchase.details
<1>1. req[r].pc = "put" /\ UNCHANGED <<linked, payment, provider, ops>> /\ Close(r)
  BY DEF StatusPut, At, CallFails
<1>2. /\ orders' \in {orders, Put(req[r])} /\ (faults' = faults \/ Fault)
      /\ purchase' = req[r].order \/ purchase' = purchase
  BY DEF StatusPut, CallFails
<1>3. orders' \in Seq(Remotes) /\ Len(orders') = Len(orders)
  BY <1>1, <1>2, PutIs, OneOrNone
<1>4. faults' \in 0 .. MaxFaults /\ ops' \in 0 .. MaxOps
  BY <1>1, <1>2, Faults
<1>5. lock = r
  BY <1>1 DEF OutboundInv, Serial, Holds
<1>6. CASE purchase' = req[r].order
  <2>1. Types' /\ (Exists => Exists') /\ purchase'.details = purchase.details
    BY <1>1, <1>3, <1>4, <1>6, OrderCommits
  <2> QED  BY <1>1, <1>5, <2>1, ClosesKeeps
<1>7. CASE purchase' = purchase
  <2>1. Types' /\ (Exists => Exists')
    BY <1>1, <1>3, <1>4, <1>7 DEF OutboundInv, Types, Exists
  <2> QED  BY <1>1, <1>5, <1>7, <2>1, ClosesKeeps
<1> QED  BY <1>2, <1>6, <1>7

(* The customer pays.                                                      *)
LEMMA PayKeeps ==
  ASSUME OutboundInv, Pay
  PROVE  OutboundInv'
<1>1. provider' = "succeeded" /\ UNCHANGED <<purchase, linked, payment, orders, lock, req, faults, ops>>
  BY DEF Pay
<1>2. Types' /\ (Exists => Exists')
  BY <1>1, SameTypes, Faults DEF PaymentStatuses
<1> QED  BY <1>1, <1>2 DEF OutboundInv, Serial, Opened, Holding, Exists

(* An order is changed at MoySklad: its contents stay.                     *)
LEMMA RemoteEditKeeps ==
  ASSUME OutboundInv, RemoteEdit
  PROVE  OutboundInv'
<1>1. /\ UNCHANGED <<purchase, linked, payment, provider, lock, req, faults>> /\ ops' \in 0 .. MaxOps
      /\ \E i \in DOMAIN orders : orders' = [orders EXCEPT ![i].status = "other", ![i].paid = FALSE]
  <2>1. ops < MaxOps /\ ops' = ops + 1 /\ ops \in 0 .. MaxOps /\ MaxOps \in Nat
    BY OutboundAssumption, Faults DEF RemoteEdit
  <2>2. ops' \in 0 .. MaxOps
    BY <2>1
  <2> QED  BY <2>2 DEF RemoteEdit
<1>2. orders \in Seq(Remotes) /\ Len(orders) = 1 /\ orders[1] \in Remotes /\ DOMAIN orders = {1} /\ 1 \in 1 .. Len(orders)
  <2>1. orders \in Seq(Remotes) /\ Len(orders) \in {0, 1} /\ DOMAIN orders = 1 .. Len(orders)
    BY OneOrNone
  <2>2. Len(orders) # 0
    BY <1>1, <2>1
  <2> QED  BY <2>1, <2>2
<1>3. PICK remote \in Remotes : remote = [orders[1] EXCEPT !.status = "other", !.paid = FALSE] /\ remote.details = orders[1].details
  <2> DEFINE edited == [orders[1] EXCEPT !.status = "other", !.paid = FALSE]
  <2>1. edited \in Remotes
    BY <1>2 DEF Remotes
  <2>2. edited.details = orders[1].details
    BY <1>2 DEF Remotes
  <2> QED  BY <2>1, <2>2
<1>4. orders' = [orders EXCEPT ![1] = remote]
  BY <1>1, <1>2, <1>3
<1>5. orders' \in Seq(Remotes)
  BY ONLY <1>2, <1>3, <1>4, ExceptSeq
<1>6. Len(orders') = Len(orders)
  BY ONLY <1>2, <1>3, <1>4, ExceptSeq
<1>7. orders'[1].details = orders[1].details
  BY <1>2, <1>3, <1>4
<1>8. Types'
  BY <1>1, <1>5, <1>6 DEF OutboundInv, Types, Exists
<1>9. \A w \in Requests : Opened(w)'
  BY <1>1 DEF OutboundInv, Opened, Exists
<1>10. \A w \in Requests : lock' = w => Holding(w)'
  BY <1>1, <1>6, <1>7 DEF OutboundInv, Holding
<1> QED  BY <1>1, <1>8, <1>9, <1>10 DEF OutboundInv, Serial

(* The process stops: its sessions are gone, and the lock with them.       *)
LEMMA CrashKeeps ==
  ASSUME OutboundInv, Crash
  PROVE  OutboundInv'
<1>1. req' = [r \in Requests |-> Idle] /\ lock' = NoRequest /\ UNCHANGED <<purchase, linked, payment, provider, orders, ops>>
  BY DEF Crash
<1>2. Idle \in Sessions /\ Idle.pc = "idle" /\ Idle.kind = "none" /\ \A w \in Requests : w # NoRequest
  BY OutboundAssumption
  DEF Idle, Sessions, Rows, PayRows, NoPurchase, NoPayment, NoRemote, Holds, AllKinds, PaymentStatuses
<1>3. Types'
  BY <1>1, SameTypes, Faults DEF Crash
<1>4. Serial'
  BY <1>1, <1>2 DEF Serial, Holds
<1>5. \A w \in Requests : Opened(w)'
  BY <1>1, <1>2 DEF Opened
<1> QED  BY <1>1, <1>2, <1>3, <1>4, <1>5 DEF OutboundInv

(* Every step keeps the invariant: one lemma for each action of Next.    *)
LEMMA OutboundStep ==
  ASSUME OutboundInv, [Next]_vars
  PROVE  OutboundInv'
<1>1. ASSUME NEW r \in Requests, Step(r) PROVE OutboundInv'
  BY <1>1, InsertKeeps, StartKeeps, NothingKeeps, CancelKeeps, LookKeeps, SendKeeps, LinkKeeps, CardKeeps,
     GetKeeps, ApplyKeeps, StatusSkipsKeeps, StatusGetKeeps, StatusPutKeeps DEF Step
<1>2. CASE UNCHANGED vars
  <2>1. Types' /\ (Exists' <=> Exists)
    BY <1>2 DEF vars, OutboundInv, Types, Exists
  <2> QED  BY <1>2, <2>1 DEF vars, OutboundInv, Serial, Opened, Holding
<1> QED  BY <1>1, <1>2, BeginKeeps, PayKeeps, RemoteEditKeeps, CrashKeeps DEF Next

(* The invariant holds through every interleaving, fault and restart.      *)
THEOREM OutboundInvariant == Spec => []OutboundInv
<1>1. Init => OutboundInv
  <2> SUFFICES ASSUME Init PROVE OutboundInv
    OBVIOUS
  <2>1. Idle \in Sessions /\ Idle.pc = "idle" /\ Idle.kind = "none" /\ \A w \in Requests : w # NoRequest
    BY OutboundAssumption
    DEF Idle, Sessions, Rows, PayRows, NoPurchase, NoPayment, NoRemote, Holds, AllKinds, PaymentStatuses
  <2>2. Types
    BY OutboundAssumption DEF Init, Types, Exists, Rows, PayRows, NoPurchase, NoPayment, PaymentStatuses
  <2>3. Serial
    BY <2>1 DEF Init, Serial, Holds
  <2>4. \A r \in Requests : Opened(r)
    BY <2>1 DEF Init, Opened
  <2>5. \A r \in Requests : lock # r
    BY <2>1 DEF Init
  <2>6. req \in [Requests -> Sessions]
    BY <2>1 DEF Init
  <2> QED  BY <2>2, <2>3, <2>4, <2>5, <2>6 DEF OutboundInv
<1>2. OutboundInv /\ [Next]_vars => OutboundInv'
  BY OutboundStep
<1> QED  BY <1>1, <1>2, PTL DEF Spec

(* MoySklad has at most one order of a purchase, although a POST may be    *)
(* performed and not be answered, the process may stop before the          *)
(* submission is committed, and a session may miss a submission.           *)
THEOREM OrderIsOne == Spec => []OneOrder
<1>1. OutboundInv => OneOrder
  BY DEF OutboundInv, Types, OneOrder
<1> QED  BY <1>1, OutboundInvariant, PTL

(* Wherever a purchase has a payment, a submission names its order at      *)
(* MoySklad; and every variable keeps its type.                            *)
THEOREM PaidHasOrder == Spec => []PaymentHasOrder
<1>1. OutboundInv => PaymentHasOrder
  BY DEF OutboundInv, Types, Serial, PaymentHasOrder, TypeOK, Rows, PayRows, Remotes
<1> QED  BY <1>1, OutboundInvariant, PTL

(* The commit of changed contents comes after the call that changes the    *)
(* order, in the session that holds the lock.                              *)
LEMMA EditIsSent ==
  ASSUME OutboundInv, [Next]_vars, purchase.details # 0, purchase'.details # purchase.details, linked' # 0
  PROVE  orders'[linked'].details = purchase'.details
<1>1. Exists
  BY DEF OutboundInv, Types
<1>2. PICK r \in Requests : Insert(r) \/ CardKeep(r) \/ CardNew(r) \/ Apply(r)
  <2>1. ~UNCHANGED purchase
    OBVIOUS
  <2>2. \A r \in Requests : ~StatusSkips(r) /\ ~StatusPut(r)
    BY StatusSkipsKeeps, StatusPutKeeps
  <2>3. ASSUME NEW r \in Requests, Step(r) PROVE Insert(r) \/ CardKeep(r) \/ CardNew(r) \/ Apply(r)
    BY <2>1, <2>2, <2>3
    DEF Step, CreateStart, CreateReturns, EditStart, EditRefused, Cancel, SyncStart, StatusStart, Locked,
        Look, Send, Link, Get, Tell, StatusGet
  <2>4. ASSUME NEW r \in Requests PROVE ~Begin(r)
    BY <2>1 DEF Begin, BeginCreate, BeginStaff, BeginPoll, Enter
  <2> QED  BY <2>1, <2>3, <2>4 DEF Next, vars, Pay, RemoteEdit, Crash
<1>3. ~Insert(r)
  BY <1>1 DEF Insert
<1>4. ~Apply(r)
  <2>1. [purchase EXCEPT !.status = "assembling"].details = purchase.details
    BY DEF OutboundInv, Types, Rows
  <2> QED  BY <2>1 DEF Apply
<1>5. req[r].pc = "card" /\ Save(req[r]) /\ orders' = orders
  BY <1>2, <1>3, <1>4 DEF CardKeep, CardNew, At
<1>6. Holding(r)
  BY <1>5 DEF OutboundInv, Serial, Holds
<1>7. purchase' = req[r].order /\ linked' = 1
  BY <1>5, <1>6 DEF Save, Holding
<1>8. req[r].kind = "edit"
  BY <1>6, <1>7 DEF Holding
<1> QED  BY <1>5, <1>6, <1>7, <1>8 DEF Holding

(* When a changed purchase is committed, its order at MoySklad has been    *)
(* changed, too.                                                           *)
THEOREM EditIsTold == Spec => EditReachesMoySklad
<1>1. OutboundInv /\ [Next]_vars =>
        [purchase.details # 0 /\ purchase'.details # purchase.details /\ linked' # 0
           => orders'[linked'].details = purchase'.details]_vars
  BY EditIsSent
<1> QED  BY <1>1, OutboundInvariant, PTL DEF Spec, EditReachesMoySklad
=============================================================================
