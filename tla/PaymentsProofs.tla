--------------------------- MODULE PaymentsProofs ---------------------------
(***************************************************************************)
(* Proofs about a purchase and its payments, for every number of request   *)
(* slots, payments, prices and restarts.                                   *)
(***************************************************************************)
EXTENDS PaymentsProperties, FiniteSetTheorems, TLAPS

(* What a payment row, committed or held by a session, says of YooKassa's  *)
(* payment with its key: YooKassa's amounts, URLs and final states do not  *)
(* change, so a copy may be old and still say nothing wrong.               *)
Truthful(row) ==
  /\ row.ext => provider[row.key].status # "none" /\ provider[row.key].amount = row.amount
  /\ row.url => row.ext /\ provider[row.key].url
  /\ row.status = "pending" => row.ext /\ (row.url <=> provider[row.key].url)
  /\ row.status = "succeeded" => row.ext /\ provider[row.key].status = "succeeded"
  /\ row.status = "canceled" => row.ext /\ provider[row.key].status = "canceled"
  /\ row.status = "failed" /\ row.ext => ~provider[row.key].url

Stored(i) == i \in Ids /\ payments[i].status # "none"

SamePayment(a, b) == a.key = b.key /\ a.amount = b.amount /\ a.ext = b.ext

(* A session that holds a copy of a stored payment: base as it was loaded, *)
(* row as it will be flushed.                                              *)
Holds(q) ==
  /\ Stored(q.pid)
  /\ q.base.status # "none" /\ q.row.status # "none"
  /\ SamePayment(q.base, payments[q.pid]) /\ SamePayment(q.row, payments[q.pid])
  /\ Truthful(q.base) /\ Truthful(q.row)
  /\ q.base.status \in {"succeeded", "canceled"} => q.row.status = q.base.status
  /\ q.base.status = "succeeded" => payments[q.pid].status = "succeeded"
  /\ q.base.url # q.row.url => q.base.status = "pending" /\ q.row.status = "canceled"

(* A session that has made a payment and not committed it.                 *)
Makes(q) ==
  /\ q.pid \in Ids /\ q.pid < nextId /\ payments[q.pid] = NoRow
  /\ q.base = NoRow /\ q.row.status # "none" /\ Truthful(q.row)

(* A session without a payment.                                            *)
Lacks(q) == q.pid = 0 /\ q.base = NoRow /\ q.row = NoRow

(* What a transaction that waits for the row lock has read before: rows that *)
(* were committed then.                                                     *)
Recalls(q) ==
  \A i \in Ids :
    \/ q.snap[i] = NoRow
    \/ /\ Stored(i) /\ q.snap[i].status # "none"
       /\ SamePayment(q.snap[i], payments[i]) /\ Truthful(q.snap[i])
       /\ q.snap[i].status = "succeeded" => payments[i].status = "succeeded"

SessionOK(q) ==
  /\ q.pc \in {"retry", "second", "patch"} => Recalls(q)
  /\ q.pc \in {"get", "write"} => Holds(q) /\ q.row.ext
  /\ q.pc = "cancel" => Holds(q) /\ q.base.status = "pending" /\ q.row = q.base
  /\ q.pc = "card" => Holds(q) \/ Lacks(q)
  /\ q.pc = "commit" => Holds(q) \/ Makes(q)
  /\ q.pc = "apply" => Stored(q.pid) /\ payments[q.pid].status = "succeeded"
  /\ q.pc \in {"cancel", "card", "commit"} \/ (q.pc \in {"get", "write"} /\ q.kind = "repay") =>
       q.order.pay = q.pid \/ (q.pc = "card" /\ Lacks(q))
  /\ q.pc \in {"cancel", "card", "commit"} /\ q.kind # "repay" => q.order.status = "awaiting_payment"
  /\ q.dropped # 0 => Stored(q.dropped) /\ payments[q.dropped].ext
                       /\ provider[payments[q.dropped].key].status = "canceled"

Making(r) == req[r].pc = "commit" /\ req[r].base.status = "none"

RowsOK ==
  /\ \A i \in Ids : /\ payments[i].status = "none" => payments[i] = NoRow
                    /\ Truthful(payments[i])
                    /\ Stored(i) => i < nextId
  /\ \A k \in Keys : provider[k].status = "succeeded" => provider[k].url
  /\ Stored(purchase.pay) \/ purchase.pay = 0

SessionsOK ==
  /\ \A r \in Requests : SessionOK(req[r])
  /\ \A r, s \in Requests : Making(r) /\ Making(s) /\ r # s => req[r].pid # req[s].pid

PaymentsInv == TypeOK /\ RowsOK /\ SessionsOK

-----------------------------------------------------------------------------
(* What any step does to YooKassa's payments, and what a session may do to *)
(* the payments table.                                                     *)
ProviderGrows ==
  \A k \in Keys :
    /\ provider[k].status # "none" =>
         provider'[k].status # "none" /\ provider'[k].amount = provider[k].amount
    /\ provider'[k].url = provider[k].url \/ provider[k].status = "none"
    /\ provider[k].status \in {"succeeded", "canceled"} => provider'[k].status = provider[k].status

PaymentsGrow ==
  \A i \in Ids : Stored(i) =>
    /\ payments'[i].status # "none"
    /\ SamePayment(payments[i], payments'[i])
    /\ payments[i].status = "succeeded" => payments'[i].status = "succeeded"

(* What is said of YooKassa's payment stays true of it.                    *)
LEMMA TruthfulStays ==
  ASSUME NEW row \in PaymentRows, TypeOK, ProviderGrows, Truthful(row), provider' \in [Keys -> Provided]
  PROVE  Truthful(row)'
  BY DEF Truthful, ProviderGrows, PaymentRows, Provided, TypeOK

(* A flush writes what the session has changed over what others have stored*)
(* meanwhile: the mixture is the same payment, and still true.             *)
LEMMA FlushMixes ==
  ASSUME NEW old \in PaymentRows, NEW base \in PaymentRows, NEW row \in PaymentRows
  PROVE  /\ Flush(old, base, row) \in PaymentRows
         /\ Flush(old, base, row).status =
              IF base.status = "none" \/ row.status # base.status THEN row.status ELSE old.status
         /\ Flush(old, base, row).amount =
              IF base.status = "none" \/ row.amount # base.amount THEN row.amount ELSE old.amount
         /\ Flush(old, base, row).key =
              IF base.status = "none" \/ row.key # base.key THEN row.key ELSE old.key
         /\ Flush(old, base, row).ext =
              IF base.status = "none" \/ row.ext # base.ext THEN row.ext ELSE old.ext
         /\ Flush(old, base, row).url =
              IF base.status = "none" \/ row.url # base.url THEN row.url ELSE old.url
  BY DEF Flush, PaymentRows

(* A URL the session has changed is written.                               *)
LEMMA FlushUrl ==
  ASSUME NEW old \in PaymentRows, NEW base \in PaymentRows, NEW row \in PaymentRows, base.url # row.url
  PROVE  Flush(old, base, row).url = row.url
  BY DEF Flush, PaymentRows

(* What a session that holds a stored payment writes over it.              *)
LEMMA FlushKeeps ==
  ASSUME TypeOK, RowsOK, NEW q \in Sessions, Holds(q), NEW new, new = Flush(payments[q.pid], q.base, q.row)
  PROVE  /\ new \in PaymentRows /\ new.status # "none" /\ Truthful(new)
         /\ SamePayment(payments[q.pid], new)
         /\ payments[q.pid].status = "succeeded" => new.status = "succeeded"
         /\ q.row.status = "succeeded" => new.status = "succeeded"
<1> DEFINE old == payments[q.pid]
<1>1. /\ q.pid \in Ids /\ old \in PaymentRows /\ q.base \in PaymentRows /\ q.row \in PaymentRows
      /\ Truthful(old) /\ Truthful(q.base) /\ Truthful(q.row)
  BY DEF TypeOK, RowsOK, Sessions, Holds, Stored
<1>2. provider[q.row.key] \in Provided /\ q.row.key \in Keys /\ (provider[q.row.key].status = "succeeded" => provider[q.row.key].url)
  BY <1>1 DEF TypeOK, RowsOK, PaymentRows
<1>3. old.status # "none" /\ SamePayment(q.base, old) /\ SamePayment(q.row, old)
  BY DEF Holds, Stored
<1>4. new \in PaymentRows /\ SamePayment(old, new)
  BY <1>1, <1>3, FlushMixes DEF SamePayment
<1>5. new.status = (IF q.row.status # q.base.status THEN q.row.status ELSE old.status)
      /\ new.url = (IF q.row.url # q.base.url THEN q.row.url ELSE old.url)
  BY <1>1, <1>3, FlushMixes DEF Holds
<1>6. new.status # "none" /\ (old.status = "succeeded" => new.status = "succeeded")
      /\ (q.row.status = "succeeded" => new.status = "succeeded")
  BY <1>1, <1>2, <1>3, <1>4, <1>5 DEF Holds, Truthful, SamePayment, PaymentRows, PaymentStatus
<1>7. Truthful(new)
  <2>1. new.key = old.key /\ new.amount = old.amount /\ new.ext = old.ext
        /\ q.base.key = old.key /\ q.base.ext = old.ext /\ q.row.key = old.key /\ q.row.ext = old.ext
    BY <1>3, <1>4 DEF SamePayment
  <2>2. (new.status = q.row.status \/ new.status = old.status) /\ (new.url = q.row.url \/ new.url = old.url)
    BY <1>5
  <2>3. /\ new.ext => provider[new.key].status # "none" /\ provider[new.key].amount = new.amount
        /\ new.url => new.ext /\ provider[new.key].url
        /\ new.status = "succeeded" => new.ext /\ provider[new.key].status = "succeeded"
        /\ new.status = "canceled" => new.ext /\ provider[new.key].status = "canceled"
        /\ new.status = "failed" /\ new.ext => ~provider[new.key].url
    BY <1>1, <2>1, <2>2 DEF Truthful
  <2>4. new.status = "pending" => new.ext /\ (new.url <=> provider[new.key].url)
    BY <1>1, <1>2, <1>3, <1>4, <1>5, <1>6 DEF Holds, Truthful, SamePayment, PaymentRows, PaymentStatus
  <2> QED  BY <2>3, <2>4 DEF Truthful
<1> QED  BY <1>4, <1>6, <1>7

(* A session keeps what is said of it while others take steps.             *)
LEMMA OtherSession ==
  ASSUME PaymentsInv, NEW s \in Requests, req'[s] = req[s],
         Making(s) => payments'[req[s].pid] = payments[req[s].pid],
         ProviderGrows, PaymentsGrow, nextId <= nextId', nextId' \in Nat,
         provider' \in [Keys -> Provided], payments' \in [Ids -> PaymentRows]
  PROVE  SessionOK(req[s])'
<1> DEFINE q == req[s]
<1>1. q \in Sessions /\ q.base \in PaymentRows /\ q.row \in PaymentRows /\ SessionOK(q)
  BY DEF PaymentsInv, TypeOK, SessionsOK, Sessions
<1>2. TypeOK /\ RowsOK
  BY DEF PaymentsInv
<1>3. ASSUME Holds(q) PROVE Holds(req[s])'
  BY <1>1, <1>2, <1>3, TruthfulStays DEF Holds, Stored, PaymentsGrow, SamePayment, TypeOK, PaymentRows
<1>4. ASSUME Makes(q), q.pc = "commit" PROVE Makes(req[s])'
  <2>1. payments'[q.pid] = payments[q.pid]
    BY <1>4 DEF Making, Makes, NoRow
  <2>2. q.pid < nextId'
    BY <1>2, <1>4, PaymentsAssumption DEF Makes, TypeOK, Ids
  <2>3. Truthful(q.row)'
    BY <1>1, <1>2, <1>4, TruthfulStays DEF Makes
  <2> QED  BY <1>4, <2>1, <2>2, <2>3 DEF Makes
<1>5. ASSUME Lacks(q) PROVE Lacks(req[s])'
  BY <1>5 DEF Lacks
<1>6. ASSUME q.dropped # 0
      PROVE  /\ Stored(q.dropped)' /\ payments'[q.dropped].ext
             /\ provider'[payments'[q.dropped].key].status = "canceled"
  BY <1>1, <1>2, <1>6 DEF SessionOK, Stored, PaymentsGrow, ProviderGrows, SamePayment, TypeOK, PaymentRows
<1>7. ASSUME q.pc = "apply" PROVE Stored(q.pid)' /\ payments'[q.pid].status = "succeeded"
  BY <1>1, <1>7 DEF SessionOK, Stored, PaymentsGrow
<1>8. ASSUME Recalls(q) PROVE Recalls(req[s])'
  <2> SUFFICES ASSUME NEW i \in Ids, q.snap[i] # NoRow
               PROVE  /\ Stored(i)' /\ q.snap[i].status # "none"
                      /\ SamePayment(q.snap[i], payments'[i]) /\ Truthful(q.snap[i])'
                      /\ q.snap[i].status = "succeeded" => payments'[i].status = "succeeded"
    BY DEF Recalls
  <2>1. q.snap[i] \in PaymentRows
    BY <1>1 DEF Sessions
  <2>2. Truthful(q.snap[i])'
    BY <1>2, <1>8, <2>1, TruthfulStays DEF Recalls
  <2> QED  BY <1>8, <2>2 DEF Recalls, Stored, PaymentsGrow, SamePayment
<1> QED  BY <1>1, <1>3, <1>4, <1>5, <1>6, <1>7, <1>8 DEF SessionOK

(* One session takes a step.                                               *)
LEMMA SessionStep ==
  ASSUME PaymentsInv, TypeOK', NEW r \in Requests,
         \A s \in Requests \ {r} : req'[s] = req[s],
         SessionOK(req[r])',
         Making(r)' => (Making(r) /\ req'[r].pid = req[r].pid) \/ req'[r].pid = nextId,
         ProviderGrows, PaymentsGrow, nextId <= nextId',
         \A i \in Ids : payments'[i] = payments[i] \/ Stored(i) \/ (Making(r) /\ i = req[r].pid)
  PROVE  SessionsOK'
<1>1. nextId' \in Nat /\ nextId \in Nat
  BY PaymentsAssumption DEF TypeOK, PaymentsInv
<1>2. \A s \in Requests : Making(s) => req[s].pid \in Ids /\ req[s].pid < nextId /\ ~Stored(req[s].pid)
  BY DEF PaymentsInv, SessionsOK, SessionOK, Making, Makes, Holds, Stored, NoRow
<1>3. \A s \in Requests \ {r} : SessionOK(req[s])'
  <2> TAKE s \in Requests \ {r}
  <2>1. Making(s) => payments'[req[s].pid] = payments[req[s].pid]
    BY <1>2 DEF PaymentsInv, SessionsOK
  <2> QED  BY <1>1, <2>1, OtherSession DEF TypeOK
<1>4. \A s \in Requests \ {r} : Making(s)' => Making(s) /\ req'[s].pid = req[s].pid
  BY DEF Making
<1>5. ASSUME NEW s \in Requests \ {r}, Making(s)', Making(r)' PROVE req'[r].pid # req'[s].pid
  <2>1. Making(s) /\ req'[s].pid = req[s].pid
    BY <1>4, <1>5
  <2>2. CASE Making(r) /\ req'[r].pid = req[r].pid
    BY <2>1, <2>2 DEF PaymentsInv, SessionsOK
  <2>3. CASE req'[r].pid = nextId
    BY <1>1, <1>2, <2>1, <2>3 DEF Ids
  <2> QED  BY <1>5, <2>2, <2>3
<1>6. \A s, t \in Requests : Making(s)' /\ Making(t)' /\ s # t => req'[s].pid # req'[t].pid
  BY <1>4, <1>5 DEF PaymentsInv, SessionsOK
<1> QED  BY <1>3, <1>6 DEF SessionsOK

(* The tables, where a step has not touched them.                          *)
LEMMA RowsStay ==
  ASSUME PaymentsInv, TypeOK', ProviderGrows, payments' = payments, nextId <= nextId',
         \A k \in Keys : provider'[k].status = "succeeded" => provider'[k].url,
         purchase'.pay \in {0, purchase.pay}
  PROVE  RowsOK'
<1>1. \A i \in Ids : payments[i] \in PaymentRows /\ Truthful(payments[i])
  BY DEF PaymentsInv, TypeOK, RowsOK
<1>2. \A i \in Ids : Truthful(payments[i])'
  BY <1>1, TruthfulStays DEF PaymentsInv, TypeOK
<1>3. nextId \in Nat /\ nextId' \in Nat
  BY PaymentsAssumption DEF TypeOK, PaymentsInv
<1> QED  BY <1>2, <1>3 DEF PaymentsInv, RowsOK, Stored, Ids

(* What holds of the session x after a step in which r becomes x holds of  *)
(* r's session.                                                            *)
LEMMA SessionBecomes ==
  ASSUME NEW r \in Requests, NEW x \in Sessions, req'[r] = x, SessionOK(x)'
  PROVE  SessionOK(req[r])'
<1>1. Holds(x)' => Holds(req[r])'
  BY DEF Holds, Stored, Truthful
<1>2. Makes(x)' => Makes(req[r])'
  BY DEF Makes, Truthful
<1>3. Lacks(x)' <=> Lacks(req[r])'
  BY DEF Lacks
<1>4. Recalls(x)' => Recalls(req[r])'
  BY DEF Recalls, Stored, Truthful
<1> QED  BY <1>1, <1>2, <1>3, <1>4 DEF SessionOK, Stored

(* A session takes a step that leaves the tables alone, all but payment_id.*)
LEMMA UncommittedStep ==
  ASSUME PaymentsInv, TypeOK', NEW r \in Requests, NEW x \in Sessions,
         req' = [req EXCEPT ![r] = x], SessionOK(req[r])',
         x.pc = "commit" /\ x.base.status = "none" => x.pid = nextId \/ (Making(r) /\ x.pid = req[r].pid),
         ProviderGrows, \A k \in Keys : provider'[k].status = "succeeded" => provider'[k].url,
         UNCHANGED payments, nextId <= nextId', purchase'.pay \in {0, purchase.pay}
  PROVE  PaymentsInv'
<1>1. req'[r] = x /\ \A s \in Requests \ {r} : req'[s] = req[s]
  BY DEF PaymentsInv, TypeOK
<1>2. PaymentsGrow
  BY DEF PaymentsGrow, SamePayment, Stored
<1> QED  BY <1>1, <1>2, SessionStep, RowsStay DEF Making, PaymentsInv

(* A step of a session on its own.                                         *)
LEMMA LocalStep ==
  ASSUME PaymentsInv, TypeOK', NEW r \in Requests, NEW x \in Sessions,
         req' = [req EXCEPT ![r] = x], SessionOK(x),
         x.pc = "commit" => x.base.status # "none",
         purchase'.pay \in {0, purchase.pay}, UNCHANGED <<payments, provider, nextId>>
  PROVE  PaymentsInv'
<1>1. req'[r] = x
  BY DEF PaymentsInv, TypeOK
<1>2. SessionOK(req[r])'
  <2>1. Holds(x) => Holds(req[r])'
    BY <1>1 DEF Holds, Stored, Truthful
  <2>2. Makes(x) => Makes(req[r])'
    BY <1>1 DEF Makes, Truthful
  <2>3. Lacks(x) <=> Lacks(req[r])'
    BY <1>1 DEF Lacks
  <2>4. Recalls(x) => Recalls(req[r])'
    BY <1>1 DEF Recalls, Stored, Truthful
  <2> QED  BY <1>1, <2>1, <2>2, <2>3, <2>4 DEF SessionOK, Stored
<1>3. ProviderGrows
  BY DEF ProviderGrows
<1>4. nextId <= nextId'
  BY PaymentsAssumption DEF PaymentsInv, TypeOK
<1>5. \A k \in Keys : provider'[k].status = "succeeded" => provider'[k].url
  BY DEF PaymentsInv, RowsOK
<1> QED  BY <1>2, <1>3, <1>4, <1>5, UncommittedStep

(* A step that leaves sessions and payments alone.                         *)
LEMMA OutsideStep ==
  ASSUME PaymentsInv, TypeOK', ProviderGrows,
         \A k \in Keys : provider'[k].status = "succeeded" => provider'[k].url,
         UNCHANGED <<payments, req, nextId>>, purchase'.pay = purchase.pay
  PROVE  PaymentsInv'
<1>1. PaymentsGrow
  BY DEF PaymentsGrow, SamePayment, Stored
<1>2. nextId <= nextId' /\ nextId' \in Nat
  BY PaymentsAssumption DEF PaymentsInv, TypeOK
<1>3. \A s \in Requests : SessionOK(req[s])'
  BY <1>1, <1>2, OtherSession DEF TypeOK
<1>4. SessionsOK'
  BY <1>3 DEF SessionsOK, PaymentsInv, Making
<1> QED  BY <1>2, <1>4, RowsStay DEF PaymentsInv

(* A slot without a handler.                                               *)
LEMMA IdleType == Idle \in Sessions /\ Unread \in [Ids -> PaymentRows] /\ NoRow \in PaymentRows /\ NoOrder \in Orders
<1>1. NoRow \in PaymentRows /\ NoOrder \in Orders
  BY PaymentsAssumption DEF NoOrder, NoRow, Orders, PaymentRows, Keys
<1>2. Unread \in [Ids -> PaymentRows]
  BY <1>1 DEF Unread
<1> QED  BY <1>1, <1>2 DEF Idle, Sessions

(* The end of a session, whatever YooKassa has done.                       *)
LEMMA CloseStep ==
  ASSUME PaymentsInv, NEW r \in Requests, Close(r), provider' \in [Keys -> Provided], ProviderGrows,
         \A k \in Keys : provider'[k].status = "succeeded" => provider'[k].url,
         nextId <= nextId', nextId' \in 1 .. MaxPayments + 1, purchase' \in Orders,
         acked' \subseteq Ids, UNCHANGED <<payments, crashes>>, purchase'.pay = purchase.pay
  PROVE  PaymentsInv'
<1>1. Idle \in Sessions
  BY IdleType
<1>2. req' = [req EXCEPT ![r] = Idle] /\ lock' \in Requests \cup {NoRequest}
  BY DEF Close, PaymentsInv, TypeOK
<1>3. TypeOK'
  BY <1>1, <1>2 DEF PaymentsInv, TypeOK
<1>4. req'[r] = Idle
  BY <1>2 DEF PaymentsInv, TypeOK
<1>5. SessionOK(req[r])'
  BY <1>4 DEF SessionOK, Idle
<1>6. Idle.pc # "commit"
  BY DEF Idle
<1> QED  BY <1>1, <1>2, <1>3, <1>5, <1>6, UncommittedStep

-----------------------------------------------------------------------------
(* The steps of a handler, one lemma per group of actions.                 *)

(* What Row and the purchase give a session that loads them.               *)
LEMMA RowType ==
  ASSUME PaymentsInv, NEW i \in {0} \cup Ids
  PROVE  /\ Row(i) \in PaymentRows /\ NoRow \in PaymentRows
         /\ (i = 0 => Row(i) = NoRow) /\ (i # 0 => Row(i) = payments[i])
         /\ purchase \in Orders /\ NoOrder \in Orders
         /\ purchase.pay \in {0} \cup Ids /\ (purchase.pay # 0 => Stored(purchase.pay))
<1>1. NoRow \in PaymentRows /\ NoOrder \in Orders
  BY PaymentsAssumption DEF NoRow, NoOrder, PaymentRows, Orders, Keys
<1>2. 0 \notin Ids
  BY DEF Ids
<1> QED  BY <1>1, <1>2 DEF PaymentsInv, TypeOK, RowsOK, Row, Stored, Orders

(* A copy that has just been loaded.                                       *)
LEMMA FreshCopy ==
  ASSUME PaymentsInv, NEW i \in Ids, Stored(i), NEW q \in Sessions,
         q.pid = i, q.base = payments[i], q.row = payments[i]
  PROVE  Holds(q)
  BY DEF Holds, SamePayment, Stored, PaymentsInv, RowsOK

(* A handler loads a payment, or none, without the lock.                   *)
LEMMA LoadStep ==
  ASSUME PaymentsInv, NEW r \in Requests, NEW kind \in AllKinds, NEW i \in {0} \cup Ids,
         NEW pc \in {"get", "card", "apply"}, Load(r, kind, i, pc),
         pc = "apply" => i # 0 /\ payments[i].status = "succeeded",
         pc = "get" => i # 0 /\ payments[i].status # "none" /\ payments[i].ext,
         pc = "card" => kind = "repay" /\ (i = 0 \/ payments[i].status # "none"),
         kind = "repay" => i = purchase.pay
  PROVE  PaymentsInv'
<1> DEFINE x == [Idle EXCEPT !.pc = pc, !.kind = kind, !.pid = i,
                   !.order = IF kind = "repay" THEN purchase ELSE NoOrder, !.base = Row(i), !.row = Row(i)]
<1>1. /\ x \in Sessions
      /\ x.pc = pc /\ x.kind = kind /\ x.pid = i /\ x.base = Row(i) /\ x.row = Row(i) /\ x.dropped = 0
      /\ x.order = IF kind = "repay" THEN purchase ELSE NoOrder
  BY RowType, IdleType DEF Idle, Sessions
<1>2. req' = [req EXCEPT ![r] = x] /\ UNCHANGED <<purchase, payments, provider, nextId, lock, acked, crashes>>
  BY DEF Load
<1>3. TypeOK'
  BY <1>1, <1>2 DEF PaymentsInv, TypeOK
<1>4. i # 0 /\ payments[i].status # "none" => Holds(x)
  BY <1>1, RowType, FreshCopy DEF Stored
<1>5. SessionOK(x)
  BY <1>1, <1>4, RowType DEF SessionOK, Lacks, Stored
<1>6. x.pc # "commit"
  BY <1>1
<1> QED  BY <1>1, <1>2, <1>3, <1>5, <1>6, LocalStep

(* What a transaction that begins reads from then on.                      *)
LEMMA SnapshotType ==
  ASSUME PaymentsInv, NEW kind
  PROVE  Snapshot(kind) \in [Ids -> PaymentRows]
BY IdleType DEF Snapshot, PaymentsInv, TypeOK

(* It is what was committed then.                                          *)
LEMMA SnapshotRecalls ==
  ASSUME PaymentsInv, NEW kind, NEW q \in Sessions, q.snap = Snapshot(kind) \/ q.snap = Unread
  PROVE  Recalls(q)
<1>1. Snapshot(kind) \in {payments, Unread} /\ payments \in [Ids -> PaymentRows]
  BY DEF Snapshot, PaymentsInv, TypeOK
<1>2. \A i \in Ids : Unread[i] = NoRow
  BY DEF Unread
<1>3. \A i \in Ids : \/ payments[i] = NoRow
                     \/ Stored(i) /\ payments[i].status # "none" /\ Truthful(payments[i])
  BY DEF PaymentsInv, RowsOK, Stored
<1> QED  BY <1>1, <1>2, <1>3, IdleType DEF Recalls, SamePayment

(* The first step of a handler.                                            *)
LEMMA BeginStep ==
  ASSUME PaymentsInv, NEW r \in Requests, Begin(r)
  PROVE  PaymentsInv'
<1>1. ASSUME NEW price \in Prices, BeginCreate(r, price) PROVE PaymentsInv'
  <2> DEFINE x == [Idle EXCEPT !.kind = "create", !.order.price = price, !.pc = IF Exists THEN "retry" ELSE "insert",
                     !.snap = IF Exists THEN Snapshot("create") ELSE Unread]
  <2>1. req' = [req EXCEPT ![r] = x] /\ UNCHANGED <<purchase, payments, provider, nextId, lock, acked, crashes>>
    BY <1>1 DEF BeginCreate
  <2>2. Snapshot("create") \in [Ids -> PaymentRows]
    BY IdleType, SnapshotType
  <2>3. /\ x \in Sessions /\ x.pc \in {"retry", "insert"} /\ x.dropped = 0
        /\ x.snap = Snapshot("create") \/ x.snap = Unread
    BY <2>2, RowType, IdleType DEF Idle, Sessions, NoOrder, Orders, AllKinds
  <2>4. Recalls(x)
    BY <2>3, SnapshotRecalls
  <2>5. TypeOK' /\ SessionOK(x)
    BY <2>1, <2>3, <2>4 DEF PaymentsInv, TypeOK, SessionOK
  <2> QED  BY <2>1, <2>3, <2>5, LocalStep
<1>2. ASSUME NEW i \in Ids, BeginRefresh(r, i) PROVE PaymentsInv'
  BY <1>2, LoadStep DEF BeginRefresh, AllKinds, Ids
<1>3. ASSUME NEW i \in Ids, BeginWebhook(r, i) PROVE PaymentsInv'
  <2>1. payments[i].status # "none"
    BY <1>3 DEF BeginWebhook, PaymentsInv, RowsOK, NoRow
  <2> QED  BY <1>3, <2>1, LoadStep DEF BeginWebhook, AllKinds, Ids
<1>4. CASE BeginRepay(r)
  <2>1. purchase.pay \in {0} \cup Ids /\ (purchase.pay # 0 => payments[purchase.pay].status # "none")
    BY RowType DEF Stored
  <2>2. Row(purchase.pay).status = "succeeded" \/ Row(purchase.pay).ext => purchase.pay # 0
    BY RowType DEF NoRow
  <2>3. CASE Load(r, "repay", purchase.pay, "apply") /\ Row(purchase.pay).status = "succeeded"
    BY <2>1, <2>2, <2>3, RowType, LoadStep DEF AllKinds
  <2>4. CASE Load(r, "repay", purchase.pay, "get") /\ Row(purchase.pay).ext
    BY <2>1, <2>2, <2>4, RowType, LoadStep DEF AllKinds
  <2>5. CASE Load(r, "repay", purchase.pay, "card")
    BY <2>1, <2>5, RowType, LoadStep DEF AllKinds
  <2> QED  BY <1>4, <2>3, <2>4, <2>5 DEF BeginRepay
<1>5. CASE BeginPatch(r)
  <2> DEFINE x == [Idle EXCEPT !.kind = "patch", !.pc = "patch", !.snap = Snapshot("patch")]
  <2>1. req' = [req EXCEPT ![r] = x] /\ UNCHANGED <<purchase, payments, provider, nextId, lock, acked, crashes>>
    BY <1>5 DEF BeginPatch
  <2>2. Snapshot("patch") \in [Ids -> PaymentRows]
    BY IdleType, SnapshotType
  <2>3. x \in Sessions /\ x.pc = "patch" /\ x.dropped = 0 /\ x.snap = Snapshot("patch")
    BY <2>2, RowType, IdleType DEF Idle, Sessions, NoOrder, Orders, AllKinds
  <2>4. Recalls(x)
    BY <2>3, SnapshotRecalls
  <2>5. TypeOK' /\ SessionOK(x)
    BY <2>1, <2>3, <2>4 DEF PaymentsInv, TypeOK, SessionOK
  <2> QED  BY <2>1, <2>3, <2>5, LocalStep
<1> QED  BY <1>1, <1>2, <1>3, <1>4, <1>5 DEF Begin

(* What every step knows of its session.                                   *)
LEMMA SessionType ==
  ASSUME PaymentsInv, NEW r \in Requests
  PROVE  /\ req[r] \in Sessions /\ req[r].row \in PaymentRows /\ req[r].base \in PaymentRows
         /\ req[r].order \in Orders /\ req[r].row.key \in Keys /\ SessionOK(req[r])
         /\ TypeOK /\ RowsOK
         /\ \A k \in Keys : provider[k] \in Provided
         /\ \A i \in Ids : payments[i] \in PaymentRows /\ payments[i].key \in Keys
  BY DEF PaymentsInv, TypeOK, SessionsOK, Sessions, PaymentRows

(* YooKassa unchanged.                                                     *)
LEMMA ProviderStays ==
  ASSUME PaymentsInv, provider' = provider
  PROVE  /\ ProviderGrows /\ provider' \in [Keys -> Provided]
         /\ \A k \in Keys : provider'[k].status = "succeeded" => provider'[k].url
  BY DEF PaymentsInv, RowsOK, TypeOK, ProviderGrows

(* YooKassa's answer to GET /payments is in the session's row.             *)
LEMMA GetStep ==
  ASSUME PaymentsInv, NEW r \in Requests, Get(r)
  PROVE  PaymentsInv'
<1> DEFINE q == req[r]
           x == [q EXCEPT !.row.status = provider[q.row.key].status, !.pc = "write"]
<1>1. Holds(q) /\ q.row.ext /\ q.pc = "get"
  BY SessionType DEF Get, At, SessionOK
<1>2. provider[q.row.key].status \in {"pending", "succeeded", "canceled"}
  BY <1>1, SessionType DEF Holds, Truthful, Provided
<1>3. x \in Sessions
  <2>1. [q.row EXCEPT !.status = provider[q.row.key].status] \in PaymentRows
    BY <1>2, SessionType DEF PaymentRows, PaymentStatus
  <2> QED  BY <2>1, SessionType DEF Sessions
<1>4. req' = [req EXCEPT ![r] = x] /\ UNCHANGED <<purchase, payments, provider, nextId, lock, acked, crashes>>
  BY DEF Get
<1>5. TypeOK'
  BY <1>3, <1>4 DEF PaymentsInv, TypeOK
<1>6. Holds(x)
  <2>1. /\ x.pid = q.pid /\ x.base = q.base /\ x.row.key = q.row.key /\ x.row.amount = q.row.amount
        /\ x.row.ext = q.row.ext /\ x.row.url = q.row.url /\ x.row.status = provider[q.row.key].status
    BY SessionType DEF Sessions, PaymentRows
  <2>2. q.base.key = q.row.key /\ q.base.ext = q.row.ext
    BY <1>1 DEF Holds, SamePayment
  <2>3. q.base.status \in {"pending", "succeeded", "canceled", "failed"}
    BY <1>1, SessionType DEF Holds, PaymentRows, PaymentStatus
  <2>4. q.row.status \in {"pending", "succeeded", "canceled", "failed"}
    BY <1>1, SessionType DEF Holds, PaymentRows, PaymentStatus
  <2>5. q.row.url \in BOOLEAN /\ provider[q.row.key].url \in BOOLEAN /\ q.base.url \in BOOLEAN
    BY SessionType DEF PaymentRows, Provided
  <2>6. Truthful(x.row)
    BY <1>1, <1>2, <2>1, <2>2, <2>3, <2>4, <2>5 DEF Holds, Truthful
  <2> QED
    BY <1>1, <1>2, <2>1, <2>2, <2>3, <2>4, <2>5, <2>6 DEF Holds, SamePayment, Truthful
<1>7. SessionOK(x)
  BY <1>1, <1>6, SessionType DEF SessionOK, Sessions, PaymentRows
<1>8. x.pc # "commit"
  BY SessionType DEF Sessions
<1> QED  BY <1>3, <1>4, <1>5, <1>7, <1>8, LocalStep

(* No answer of YooKassa.                                                  *)
LEMMA GetFailsStep ==
  ASSUME PaymentsInv, NEW r \in Requests, GetFails(r)
  PROVE  PaymentsInv'
<1>1. nextId <= nextId' /\ nextId' \in 1 .. MaxPayments + 1
  BY PaymentsAssumption DEF GetFails, PaymentsInv, TypeOK
<1> QED  BY <1>1, ProviderStays, CloseStep DEF GetFails, PaymentsInv, TypeOK

(* The purchase advances, or not, with the committed payment.              *)
LEMMA ApplyStep ==
  ASSUME PaymentsInv, NEW r \in Requests, Apply(r)
  PROVE  PaymentsInv'
<1>1. nextId <= nextId' /\ nextId' \in 1 .. MaxPayments + 1
  BY PaymentsAssumption DEF Apply, PaymentsInv, TypeOK
<1>2. purchase' \in Orders /\ purchase'.pay = purchase.pay
  BY SessionType DEF Apply, TypeOK, Orders, PurchaseStatus
<1>3. req[r].pid \in Ids
  BY SessionType DEF Apply, At, SessionOK, Stored
<1>4. acked' \subseteq Ids
  BY <1>3, SessionType DEF Apply, Acknowledge, TypeOK
<1> QED  BY <1>1, <1>2, <1>4, ProviderStays, CloseStep DEF Apply

(* The open payment is kept.                                               *)
LEMMA CardKeepStep ==
  ASSUME PaymentsInv, NEW r \in Requests, CardKeep(r)
  PROVE  PaymentsInv'
<1> DEFINE q == req[r]
           x == [q EXCEPT !.pc = "commit"]
<1>1. q.pc = "card" /\ q.row.status # "none" /\ Holds(q)
  BY SessionType DEF CardKeep, At, Keeps, SessionOK, Lacks, NoRow
<1>2. x \in Sessions /\ x.pc = "commit"
  BY SessionType DEF Sessions
<1>3. req' = [req EXCEPT ![r] = x] /\ UNCHANGED <<purchase, payments, provider, nextId, lock, acked, crashes>>
  BY DEF CardKeep
<1>4. TypeOK'
  BY <1>2, <1>3 DEF PaymentsInv, TypeOK
<1>5. /\ x.pid = q.pid /\ x.base = q.base /\ x.row = q.row /\ x.order = q.order
      /\ x.kind = q.kind /\ x.dropped = q.dropped
  BY SessionType DEF Sessions
<1>6. Holds(x) /\ x.base.status # "none"
  BY <1>1, <1>5 DEF Holds
<1>7. SessionOK(x)
  BY <1>1, <1>2, <1>5, <1>6, SessionType DEF SessionOK, Lacks, NoRow
<1> QED  BY <1>2, <1>3, <1>4, <1>6, <1>7, LocalStep

(* The steps of POST /api/purchases/ before the lock.                      *)
LEMMA CreateSteps ==
  ASSUME PaymentsInv, NEW r \in Requests, CreateInsert(r) \/ CreateReturns(r)
  PROVE  PaymentsInv'
<1>1. CASE CreateInsert(r)
  <2> DEFINE x == [req[r] EXCEPT !.pc = IF Exists THEN "second" ELSE "start",
                                 !.snap = IF Exists THEN Snapshot("create") ELSE Unread]
  <2>a. Snapshot("create") \in [Ids -> PaymentRows] /\ Unread \in [Ids -> PaymentRows]
    BY IdleType, SnapshotType
  <2>1. /\ x \in Sessions /\ x.pc \in {"second", "start"} /\ x.dropped = req[r].dropped
        /\ x.snap = Snapshot("create") \/ x.snap = Unread
    BY <2>a, SessionType DEF Sessions
  <2>2. req' = [req EXCEPT ![r] = x] /\ UNCHANGED <<payments, provider, nextId, lock, acked, crashes>>
    BY <1>1 DEF CreateInsert
  <2>3. purchase' \in Orders /\ purchase'.pay \in {0, purchase.pay}
    BY <1>1, SessionType DEF CreateInsert, TypeOK, Orders, PurchaseStatus
  <2>4. TypeOK'
    BY <2>1, <2>2, <2>3 DEF PaymentsInv, TypeOK
  <2>5. SessionOK(x)
    <3>1. Recalls(x)
      BY <2>1, SnapshotRecalls
    <3> QED  BY <2>1, <3>1, SessionType DEF SessionOK
  <2> QED  BY <2>1, <2>2, <2>3, <2>4, <2>5, LocalStep
<1>2. CASE CreateReturns(r)
  <2>1. nextId <= nextId' /\ nextId' \in 1 .. MaxPayments + 1
    BY <1>2, PaymentsAssumption DEF CreateReturns, PaymentsInv, TypeOK
  <2> QED  BY <1>2, <2>1, ProviderStays, CloseStep DEF CreateReturns, PaymentsInv, TypeOK
<1> QED  BY <1>1, <1>2

(* The payment that a session reads under the lock, maybe as it was before. *)
LEMMA SeenRow ==
  ASSUME PaymentsInv, NEW r \in Requests, req[r].pc \in {"retry", "second", "start", "patch"},
         NEW row, row = Seen(r, purchase.pay)
  PROVE  /\ row \in PaymentRows /\ purchase.pay \in {0} \cup Ids
         /\ \/ row = NoRow
            \/ /\ row.status # "none" /\ Stored(purchase.pay) /\ purchase.pay # 0 /\ Truthful(row)
               /\ SamePayment(row, payments[purchase.pay])
               /\ row.status = "succeeded" => payments[purchase.pay].status = "succeeded"
<1>1. CASE purchase.pay = 0
  BY <1>1, RowType DEF Seen
<1>2. CASE purchase.pay # 0 /\ req[r].kind \in PastReaders /\ ~At(r, "start")
  <2>1. row = req[r].snap[purchase.pay] /\ purchase.pay \in Ids /\ Recalls(req[r])
    BY <1>2, RowType, SessionType DEF Seen, At, SessionOK
  <2>2. row \in PaymentRows
    BY <2>1, SessionType DEF Sessions
  <2> QED  BY <1>2, <2>1, <2>2 DEF Recalls
<1>3. CASE purchase.pay # 0 /\ ~(req[r].kind \in PastReaders /\ ~At(r, "start"))
  <2>1. row = payments[purchase.pay] /\ Stored(purchase.pay)
    BY <1>3, RowType DEF Seen
  <2> QED  BY <1>3, <2>1, SessionType DEF Stored, RowsOK, SamePayment
<1> QED  BY <1>1, <1>2, <1>3

(* lock_purchase, and the session reads the purchase and its payment.      *)
LEMMA LockedStep ==
  ASSUME PaymentsInv, NEW r \in Requests, NEW pc \in {"cancel", "card"}, NEW order \in Orders,
         req[r].pc \in {"retry", "second", "start", "patch"},
         Locked(r, pc, order), order.pay = purchase.pay, order.status = "awaiting_payment",
         pc = "cancel" => Seen(r, purchase.pay).status = "pending"
  PROVE  PaymentsInv'
<1> DEFINE row == Seen(r, order.pay)
           x == [Idle EXCEPT !.pc = pc, !.kind = req[r].kind, !.order = order,
                   !.pid = IF row.status = "none" THEN 0 ELSE order.pay, !.base = row, !.row = row]
<1>1. /\ row \in PaymentRows /\ purchase.pay \in {0} \cup Ids
      /\ \/ row = NoRow
         \/ /\ row.status # "none" /\ Stored(purchase.pay) /\ purchase.pay # 0 /\ Truthful(row)
            /\ SamePayment(row, payments[purchase.pay])
            /\ row.status = "succeeded" => payments[purchase.pay].status = "succeeded"
  BY SeenRow
<1>2. /\ x \in Sessions /\ x.pc = pc /\ x.order = order /\ x.base = row /\ x.row = row /\ x.dropped = 0
      /\ x.pid = IF row.status = "none" THEN 0 ELSE order.pay
  <2>1. row \in PaymentRows /\ order.pay \in {0} \cup Ids /\ req[r].kind \in AllKinds \cup {"none"}
    BY <1>1, SessionType DEF Sessions
  <2> HIDE DEF row
  <2> QED  BY <2>1, IdleType DEF Idle, Sessions
<1>3. /\ req' = [req EXCEPT ![r] = x] /\ lock' = r
      /\ UNCHANGED <<purchase, payments, provider, nextId, acked, crashes>>
  BY DEF Locked
<1>4. TypeOK'
  BY <1>2, <1>3 DEF PaymentsInv, TypeOK
<1> HIDE DEF x, row
<1>5. row.status # "none" => Holds(x) /\ x.order.pay = x.pid
  BY <1>1, <1>2 DEF Holds, NoRow
<1>6. row.status = "none" => Lacks(x)
  BY <1>1, <1>2 DEF Lacks
<1>7. pc = "cancel" => row.status = "pending"
  BY DEF row
<1>8. SessionOK(x)
  BY <1>2, <1>5, <1>6, <1>7 DEF SessionOK
<1> QED  BY <1>2, <1>3, <1>4, <1>8, LocalStep

(* The two handlers that lock the purchase.                                *)
LEMMA LockingSteps ==
  ASSUME PaymentsInv, NEW r \in Requests,
         CreateStart(r) \/ \E price \in Prices, edited \in BOOLEAN : Patch(r, price, edited)
  PROVE  PaymentsInv'
<1>1. CASE CreateStart(r)
  <2>1. [purchase EXCEPT !.status = "awaiting_payment"] \in Orders
    BY RowType DEF Orders, PurchaseStatus
  <2>2. req[r].pc \in {"retry", "second", "start", "patch"}
    BY <1>1 DEF CreateStart, At
  <2> QED  BY <1>1, <2>1, <2>2, RowType, LockedStep DEF CreateStart, Orders
<1>2. ASSUME NEW price \in Prices, NEW edited \in BOOLEAN, Patch(r, price, edited) PROVE PaymentsInv'
  <2> DEFINE order == [purchase EXCEPT !.price = price, !.status = "awaiting_payment"]
  <2>1. order \in Orders /\ order.pay = purchase.pay /\ order.status = "awaiting_payment"
    BY RowType DEF Orders, PurchaseStatus
  <2>2. req[r].pc \in {"retry", "second", "start", "patch"}
    BY <1>2 DEF Patch, At
  <2>3. Locked(r, IF Cancels(Seen(r, purchase.pay), price, edited) THEN "cancel" ELSE "card", order)
    BY <1>2 DEF Patch
  <2> HIDE DEF order
  <2>4. CASE Cancels(Seen(r, purchase.pay), price, edited)
    <3>1. Locked(r, "cancel", order) /\ Seen(r, purchase.pay).status = "pending"
      BY <2>3, <2>4 DEF Cancels
    <3> QED  BY <2>1, <2>2, <3>1, LockedStep
  <2>5. CASE ~Cancels(Seen(r, purchase.pay), price, edited)
    <3>1. Locked(r, "card", order)
      BY <2>3, <2>5
    <3> QED  BY <2>1, <2>2, <3>1, LockedStep
  <2> QED  BY <2>4, <2>5
<1> QED  BY <1>1, <1>2

(* YooKassa cancels only an open payment.                                  *)
LEMMA CancelGrows ==
  ASSUME PaymentsInv, NEW key \in Keys, CancelAt(key)
  PROVE  /\ ProviderGrows /\ provider' \in [Keys -> Provided]
         /\ \A k \in Keys : provider'[k].status = "succeeded" => provider'[k].url
         /\ provider'[key].status = "canceled"
  BY DEF CancelAt, PaymentsInv, TypeOK, RowsOK, ProviderGrows, Provided

(* The open payment of an edited purchase is canceled at YooKassa.         *)
LEMMA CancelStep ==
  ASSUME PaymentsInv, NEW r \in Requests, Cancel(r)
  PROVE  PaymentsInv'
<1> DEFINE q == req[r]
<1>1. Holds(q) /\ q.base.status = "pending" /\ q.row = q.base /\ q.base.ext
  BY SessionType DEF Cancel, At, SessionOK, Holds, Truthful
<1>2. CancelAt(q.row.key) /\ UNCHANGED <<purchase, payments, nextId, lock, acked, crashes>>
  BY DEF Cancel
<1>3. PICK x \in Sessions :
        /\ req' = [req EXCEPT ![r] = x]
        /\ x.pid = q.pid /\ x.base = q.base /\ x.order = q.order /\ x.kind = q.kind /\ x.pc = "card"
        /\ x.dropped = q.pid /\ x.row.key = q.row.key /\ x.row.amount = q.row.amount
        /\ x.row.ext = q.row.ext /\ x.row.url = FALSE /\ x.row.status = "canceled"
  <2> DEFINE row == [q.row EXCEPT !.status = "canceled", !.url = FALSE]
             y == [q EXCEPT !.pc = "card", !.row = row, !.dropped = q.pid]
  <2>1. row \in PaymentRows
    BY SessionType DEF PaymentRows, PaymentStatus
  <2>2. y \in Sessions
    BY <2>1, SessionType DEF Sessions
  <2>3. req' = [req EXCEPT ![r] = y]
    BY DEF Cancel
  <2>4. /\ y.pid = q.pid /\ y.base = q.base /\ y.order = q.order /\ y.kind = q.kind /\ y.pc = "card"
        /\ y.dropped = q.pid /\ y.row.key = q.row.key /\ y.row.amount = q.row.amount
        /\ y.row.ext = q.row.ext /\ y.row.url = FALSE /\ y.row.status = "canceled"
    BY SessionType DEF Sessions, PaymentRows
  <2> QED  BY <2>2, <2>3, <2>4
<1>4. /\ ProviderGrows /\ provider' \in [Keys -> Provided] /\ provider'[x.row.key].status = "canceled"
      /\ \A k \in Keys : provider'[k].status = "succeeded" => provider'[k].url
  BY <1>2, <1>3, SessionType, CancelGrows
<1>5. TypeOK'
  BY <1>2, <1>3, <1>4 DEF PaymentsInv, TypeOK
<1>6. req'[r] = x
  BY <1>3, SessionType DEF TypeOK
<1>7. Truthful(x.base)'
  BY <1>1, <1>3, <1>4, SessionType, TruthfulStays DEF Holds
<1>8. Truthful(x.row)'
  <2>1. provider'[x.row.key].amount = x.row.amount
    BY <1>1, <1>3, <1>4, SessionType DEF Holds, Truthful, ProviderGrows
  <2> QED  BY <1>1, <1>3, <1>4, <2>1 DEF Truthful
<1>9. Holds(x)'
  BY <1>1, <1>2, <1>3, <1>7, <1>8 DEF Holds, Stored, SamePayment
<1>10. SessionOK(x)'
  <2>1. Stored(x.dropped)' /\ payments'[x.dropped].ext /\ payments'[x.dropped].key = x.row.key
    BY <1>1, <1>2, <1>3 DEF Holds, Stored, SamePayment
  <2>2. x.order.pay = x.pid /\ (x.kind # "repay" => x.order.status = "awaiting_payment")
    BY <1>3, SessionType DEF Cancel, At, SessionOK
  <2> QED  BY <1>3, <1>4, <1>9, <2>1, <2>2 DEF SessionOK
<1>11. SessionOK(req[r])'
  BY <1>6, <1>10, SessionType, SessionBecomes
<1>12. nextId <= nextId' /\ purchase'.pay \in {0, purchase.pay}
  BY <1>2, PaymentsAssumption DEF PaymentsInv, TypeOK
<1> QED  BY <1>2, <1>3, <1>4, <1>5, <1>11, <1>12, UncommittedStep

(* The cancellation fails, performed or not.                               *)
LEMMA CancelFailsStep ==
  ASSUME PaymentsInv, NEW r \in Requests, CancelFails(r)
  PROVE  PaymentsInv'
<1>1. nextId <= nextId' /\ nextId' \in 1 .. MaxPayments + 1
  BY PaymentsAssumption DEF CancelFails, PaymentsInv, TypeOK
<1>2. req[r].row.key \in Keys
  BY SessionType
<1> QED  BY <1>1, <1>2, ProviderStays, CancelGrows, CloseStep DEF CancelFails, PaymentsInv, TypeOK

(* One payment per idempotency key: the answer is the key's.               *)
LEMMA AcceptsGrows ==
  ASSUME PaymentsInv, NEW key \in Keys, NEW amount \in Prices \cup {0}, NEW url \in BOOLEAN, Accepts(key, amount, url)
  PROVE  /\ ProviderGrows /\ provider' \in [Keys -> Provided]
         /\ \A k \in Keys : provider'[k].status = "succeeded" => provider'[k].url
         /\ provider'[key].status \in {"pending", "succeeded", "canceled"}
         /\ provider'[key].amount = amount /\ (provider'[key].url <=> url)
<1>1. provider[key] \in Provided /\ provider \in [Keys -> Provided]
  BY DEF PaymentsInv, TypeOK
<1>2. CASE provider[key].status = "none"
  <2>1. provider' = [provider EXCEPT ![key] = [status |-> "pending", amount |-> amount, url |-> url]]
    BY <1>2 DEF Accepts
  <2>2. [status |-> "pending", amount |-> amount, url |-> url] \in Provided
    BY DEF Provided
  <2> QED  BY <1>1, <1>2, <2>1, <2>2 DEF PaymentsInv, RowsOK, ProviderGrows
<1>3. CASE provider[key].status # "none"
  <2>1. provider' = provider
    BY <1>1, <1>3 DEF Accepts
  <2>2. provider[key] = [provider[key] EXCEPT !.amount = amount, !.url = url]
    BY <1>3 DEF Accepts
  <2>3. provider[key].amount = amount /\ provider[key].url = url
    BY <1>1, <2>2 DEF Provided
  <2> QED  BY <1>1, <1>3, <2>1, <2>3, ProviderStays DEF Provided
<1> QED  BY <1>2, <1>3

(* The three outcomes of POST /payments, for a session q that asks again   *)
(* for an open payment or has flushed a new one.                           *)
Asks(q) ==
  /\ q.pc = "card" /\ q.order.pay = q.pid /\ (q.kind # "repay" => q.order.status = "awaiting_payment")
  /\ q.row.status = "pending" /\ q.row.amount = q.order.price /\ ~q.row.url
  /\ q.dropped # 0 => Stored(q.dropped) /\ payments[q.dropped].ext
                       /\ provider[payments[q.dropped].key].status = "canceled"

(* Each outcome of the call keeps the invariant.                           *)
LEMMA CallStep ==
  ASSUME PaymentsInv, NEW r \in Requests, NEW q \in Sessions, Asks(q), Call(r, q),
         \/ Holds(q) /\ nextId' = nextId
         \/ /\ q.pid = nextId /\ nextId \in Ids /\ nextId' = nextId + 1
            /\ q.base = NoRow /\ ~q.row.ext,
         UNCHANGED <<purchase, payments, acked, crashes>>
  PROVE  PaymentsInv'
<1> DEFINE key == q.row.key
<1>1. /\ q.row \in PaymentRows /\ q.base \in PaymentRows /\ key \in Keys /\ q.order.price \in Prices \cup {0}
      /\ TypeOK /\ RowsOK /\ q.order \in Orders /\ q.row.url = FALSE
  BY DEF PaymentsInv, Sessions, PaymentRows, Orders, Asks
<1>2. nextId \in Nat /\ nextId <= nextId' /\ nextId' \in 1 .. MaxPayments + 1
  BY <1>1, PaymentsAssumption DEF TypeOK, Ids
<1>3. q.pid = nextId /\ q.base = NoRow => payments[q.pid] = NoRow
  <2>1. nextId # 0 /\ q.pid \in {0} \cup Ids
    BY <1>1, PaymentsAssumption DEF TypeOK, Sessions
  <2>2. q.pid = nextId => ~Stored(q.pid)
    BY <1>1, <1>2 DEF RowsOK, Ids, Stored
  <2> QED  BY <1>1, <2>1, <2>2 DEF RowsOK, Stored
<1>4. q.order.pay = q.pid /\ (q.kind # "repay" => q.order.status = "awaiting_payment") /\ purchase'.pay \in {0, purchase.pay}
  BY DEF Asks
<1>5. ASSUME NEW x \in Sessions, req' = [req EXCEPT ![r] = x], lock' = lock, x.pc = "commit",
             x.pid = q.pid, x.base = q.base, x.order = q.order, x.kind = q.kind, x.dropped = q.dropped,
             x.row.key = q.row.key, x.row.amount = q.row.amount, x.row.status # "none", Truthful(x.row)',
             SamePayment(q.row, x.row) \/ q.base = NoRow,
             x.row.url = q.row.url \/ q.base = NoRow,
             q.base.status \in {"succeeded", "canceled"} => x.row.status = q.row.status,
             ProviderGrows, provider' \in [Keys -> Provided],
             \A k \in Keys : provider'[k].status = "succeeded" => provider'[k].url
      PROVE  PaymentsInv'
  <2>1. TypeOK'
    BY <1>1, <1>2, <1>5 DEF TypeOK
  <2>2. ASSUME Holds(q) PROVE Holds(x)' /\ x.base.status # "none"
    <3>1. Truthful(x.base)'
      BY <1>1, <1>5, <2>2, TruthfulStays DEF Holds
    <3>2. q.base.status \notin {"succeeded", "canceled"} /\ q.base.url = q.row.url /\ q.base # NoRow
      BY <2>2 DEF Holds, Asks, NoRow
    <3> QED  BY <1>5, <2>2, <3>1, <3>2 DEF Holds, Stored, SamePayment
  <2>3. ASSUME ~Holds(q) PROVE Makes(x)' /\ x.pid = nextId
    BY <1>2, <1>3, <1>5, <2>3 DEF Makes, Ids
  <2>4. x.dropped # 0 => /\ Stored(x.dropped)' /\ payments'[x.dropped].ext
                         /\ provider'[payments'[x.dropped].key].status = "canceled"
    BY <1>1, <1>5 DEF Asks, Stored, ProviderGrows, TypeOK, PaymentRows
  <2>5. SessionOK(x)'
    BY <1>4, <1>5, <2>2, <2>3, <2>4 DEF SessionOK
  <2>6. SessionOK(req[r])'
    <3>1. req'[r] = x
      BY <1>1, <1>5 DEF TypeOK
    <3> QED  BY <2>5, <3>1, SessionType, SessionBecomes
  <2> QED  BY <1>2, <1>4, <1>5, <2>1, <2>2, <2>3, <2>6, UncommittedStep
<1>6. ASSUME NEW url \in BOOLEAN, Accepts(key, q.order.price, url), UNCHANGED lock,
             req' = [req EXCEPT ![r] = [q EXCEPT !.pc = "commit",
                      !.row = [@ EXCEPT !.ext = TRUE, !.status = provider'[q.row.key].status, !.url = url]]]
      PROVE  PaymentsInv'
  <2> DEFINE row == [q.row EXCEPT !.ext = TRUE, !.status = provider'[q.row.key].status, !.url = url]
  <2>1. /\ ProviderGrows /\ provider' \in [Keys -> Provided]
        /\ \A k \in Keys : provider'[k].status = "succeeded" => provider'[k].url
        /\ provider'[key].status \in {"pending", "succeeded", "canceled"}
        /\ provider'[key].amount = q.order.price /\ (provider'[key].url <=> url)
    BY <1>1, <1>6, AcceptsGrows
  <2>2. row \in PaymentRows /\ row.ext = TRUE /\ row.url = url /\ row.key = key
        /\ row.amount = q.row.amount /\ row.status = provider'[key].status
    BY <1>1, <2>1 DEF PaymentRows, PaymentStatus
  <2>3. PICK x \in Sessions :
          /\ req' = [req EXCEPT ![r] = x] /\ x.pc = "commit" /\ x.row = row
          /\ x.pid = q.pid /\ x.base = q.base /\ x.order = q.order /\ x.kind = q.kind /\ x.dropped = q.dropped
    <3>1. [q EXCEPT !.pc = "commit", !.row = row] \in Sessions
      BY <2>2 DEF Sessions
    <3>2. req' = [req EXCEPT ![r] = [q EXCEPT !.pc = "commit", !.row = row]]
      BY <1>6
    <3> QED  BY <3>1, <3>2 DEF Sessions
  <2>4. Truthful(x.row)'
    BY <1>1, <2>1, <2>2, <2>3 DEF Truthful, Asks
  <2>5. ASSUME Holds(q) PROVE SamePayment(q.row, x.row) /\ x.row.url = q.row.url
    <3>1. q.row.ext /\ provider[key].status # "none" /\ ~provider[key].url /\ provider[key].url \in BOOLEAN
      BY <1>1, <2>5 DEF Holds, Truthful, Asks, TypeOK, Provided
    <3>2. provider'[key].url = provider[key].url
      BY <1>1, <2>1, <3>1 DEF ProviderGrows
    <3> QED  BY <1>1, <2>1, <2>2, <2>3, <3>1, <3>2 DEF SamePayment, PaymentRows
  <2>6. q.base.status \in {"succeeded", "canceled"} => x.row.status = q.row.status
    BY DEF Holds, Asks, NoRow
  <2>7. Holds(q) \/ q.base = NoRow
    OBVIOUS
  <2> QED  BY <1>5, <1>6, <2>1, <2>2, <2>3, <2>4, <2>5, <2>6, <2>7
<1>7. ASSUME req' = [req EXCEPT ![r] = [q EXCEPT !.pc = "commit", !.row = [@ EXCEPT !.status = "failed"]]],
             UNCHANGED <<provider, lock>>
      PROVE  PaymentsInv'
  <2> DEFINE row == [q.row EXCEPT !.status = "failed"]
  <2>1. row \in PaymentRows /\ row.ext = q.row.ext /\ row.url = FALSE /\ row.key = key
        /\ row.amount = q.row.amount /\ row.status = "failed"
    BY <1>1 DEF PaymentRows, PaymentStatus
  <2>2. PICK x \in Sessions :
          /\ req' = [req EXCEPT ![r] = x] /\ x.pc = "commit" /\ x.row = row
          /\ x.pid = q.pid /\ x.base = q.base /\ x.order = q.order /\ x.kind = q.kind /\ x.dropped = q.dropped
    <3>1. [q EXCEPT !.pc = "commit", !.row = row] \in Sessions
      BY <2>1 DEF Sessions
    <3> QED  BY <1>7, <3>1 DEF Sessions
  <2>3. Truthful(x.row)'
    <3>1. q.row.ext => Holds(q)
      OBVIOUS
    <3> QED  BY <1>1, <1>7, <2>1, <2>2, <3>1 DEF Truthful, Holds, Asks
  <2>4. q.base.status \in {"succeeded", "canceled"} => x.row.status = q.row.status
    BY DEF Holds, Asks, NoRow
  <2>5. SamePayment(q.row, x.row) /\ x.row.url = q.row.url
    BY <1>1, <2>1, <2>2 DEF SamePayment
  <2> QED  BY <1>5, <1>7, <2>1, <2>2, <2>3, <2>4, <2>5, ProviderStays
<1>8. ASSUME Close(r), UNCHANGED provider \/ \E url \in BOOLEAN : Accepts(key, q.order.price, url)
      PROVE  PaymentsInv'
  <2>1. /\ ProviderGrows /\ provider' \in [Keys -> Provided]
        /\ \A k \in Keys : provider'[k].status = "succeeded" => provider'[k].url
    BY <1>1, <1>8, ProviderStays, AcceptsGrows
  <2> QED  BY <1>1, <1>2, <1>8, <2>1, CloseStep DEF TypeOK
<1> QED  BY <1>6, <1>7, <1>8 DEF Call

(* The session of a new payment, when it asks YooKassa.                    *)
LEMMA NewPayment ==
  ASSUME PaymentsInv, NEW r \in Requests, CardNew(r), nextId \in Ids, ~Taken(NewKey(req[r]))
  PROVE  \E y \in Sessions :
           /\ Call(r, y) /\ y.pid = nextId /\ y.base = NoRow /\ y.pc = "card" /\ y.kind = req[r].kind
           /\ y.order.pay = nextId /\ y.order.status = req[r].order.status
           /\ y.order.price = req[r].order.price
           /\ y.dropped = req[r].dropped /\ y.row.status = "pending" /\ y.row.amount = req[r].order.price
           /\ y.row.ext = FALSE /\ y.row.url = FALSE
           /\ y.row.key = NewKey(req[r])
<1> DEFINE q == req[r]
           row == [status |-> "pending", amount |-> q.order.price, ext |-> FALSE,
                   url |-> FALSE, key |-> NewKey(q)]
           y == [q EXCEPT !.pid = nextId, !.order.pay = nextId, !.base = NoRow, !.row = row]
<1>1. Call(r, y) /\ q.pc = "card"
  BY DEF CardNew, At
<1>2. row \in PaymentRows /\ NoRow \in PaymentRows
  <2>1. q.order.price \in Prices \cup {0} /\ 0 \in Keys /\ nextId \in Keys
    BY SessionType, PaymentsAssumption DEF Sessions, Orders, Ids, Keys
  <2> QED  BY <2>1, RowType DEF PaymentRows, PaymentStatus, NewKey
<1>3. [q.order EXCEPT !.pay = nextId] \in Orders
  BY SessionType DEF Orders
<1>4. y \in Sessions
  BY <1>2, <1>3, SessionType DEF Sessions
<1>5. /\ y.pid = nextId /\ y.base = NoRow /\ y.row = row /\ y.pc = "card" /\ y.kind = q.kind
      /\ y.order.pay = nextId /\ y.order.status = q.order.status /\ y.order.price = q.order.price
      /\ y.dropped = q.dropped
  BY <1>1, SessionType DEF Sessions, Orders
<1>6. /\ row.status = "pending" /\ row.amount = q.order.price /\ row.ext = FALSE /\ row.url = FALSE
      /\ row.key = NewKey(q)
  OBVIOUS
<1> HIDE DEF y, row
<1> QED  BY <1>1, <1>4, <1>5, <1>6

(* An open payment is asked for again, or a new one made.                  *)
LEMMA CardSteps ==
  ASSUME PaymentsInv, NEW r \in Requests, CardReuse(r) \/ CardNew(r)
  PROVE  PaymentsInv'
<1> DEFINE q == req[r]
<1>1. q.pc = "card" /\ (Holds(q) \/ Lacks(q)) /\ q \in Sessions /\ SessionOK(q)
  BY SessionType DEF CardReuse, CardNew, At, SessionOK
<1>2. CASE CardReuse(r)
  <2>1. Holds(q) /\ nextId' = nextId /\ Call(r, q) /\ UNCHANGED <<purchase, payments, acked, crashes>>
    BY <1>1, <1>2 DEF CardReuse, Lacks, NoRow
  <2>2. Asks(q)
    BY <1>1, <1>2 DEF CardReuse, Asks, SessionOK, Lacks, NoRow
  <2> QED  BY <1>1, <2>1, <2>2, CallStep
<1>3. ASSUME CardNew(r), nextId \in Ids, ~Taken(NewKey(q)) PROVE PaymentsInv'
  <2>1. PICK y \in Sessions :
          /\ Call(r, y) /\ y.pid = nextId /\ y.base = NoRow /\ y.pc = "card" /\ y.kind = q.kind
          /\ y.order.pay = nextId /\ y.order.status = q.order.status /\ y.order.price = q.order.price
          /\ y.dropped = q.dropped /\ y.row.status = "pending" /\ y.row.amount = q.order.price
          /\ y.row.ext = FALSE /\ y.row.url = FALSE
    BY <1>3, NewPayment
  <2>2. nextId' = nextId + 1 /\ UNCHANGED <<purchase, payments, acked, crashes>>
    BY <1>3 DEF CardNew
  <2>3. Asks(y)
    BY <1>1, <2>1 DEF Asks, SessionOK
  <2> QED  BY <1>3, <2>1, <2>2, <2>3, CallStep
<1>4. ASSUME CardNew(r), nextId \notin Ids \/ Taken(NewKey(q)) PROVE PaymentsInv'
  <2>1. Close(r) /\ UNCHANGED <<provider, nextId, purchase, payments, acked, crashes>>
    BY <1>4 DEF CardNew
  <2>2. nextId <= nextId' /\ nextId' \in 1 .. MaxPayments + 1
    BY <2>1, PaymentsAssumption DEF PaymentsInv, TypeOK
  <2>3. provider' \in [Keys -> Provided] /\ purchase' \in Orders /\ acked' \subseteq Ids /\ purchase'.pay = purchase.pay
    BY <2>1 DEF PaymentsInv, TypeOK
  <2>4. UNCHANGED <<payments, crashes>>
    BY <2>1
  <2>5. ProviderGrows /\ \A k \in Keys : provider'[k].status = "succeeded" => provider'[k].url
    BY <2>1, ProviderStays
  <2> QED  BY <2>1, <2>2, <2>3, <2>4, <2>5, CloseStep
<1> QED  BY <1>2, <1>3, <1>4

-----------------------------------------------------------------------------
(* The two commits.                                                        *)

(* What a session leaves in the payments table.                            *)
LEMMA SavedKeeps ==
  ASSUME PaymentsInv, NEW r \in Requests, req[r].pc \in {"write", "commit"},
         payments' = Saved(r), UNCHANGED <<provider, nextId>>
  PROVE  /\ payments' \in [Ids -> PaymentRows] /\ PaymentsGrow
         /\ \A i \in Ids : payments'[i] = payments[i] \/ Stored(i) \/ (Making(r) /\ i = req[r].pid)
         /\ \A i \in Ids : payments'[i].status = "none" => payments'[i] = NoRow
         /\ \A i \in Ids : Truthful(payments'[i])
         /\ \A i \in Ids : payments'[i].status # "none" => i < nextId'
         /\ req[r].pid \in Ids /\ payments'[req[r].pid].status # "none"
         /\ req[r].row.status = "succeeded" => payments'[req[r].pid].status = "succeeded"
<1> DEFINE q == req[r]
           new == Flush(payments[q.pid], q.base, q.row)
<1>1. /\ q \in Sessions /\ q.base \in PaymentRows /\ q.row \in PaymentRows /\ SessionOK(q) /\ TypeOK /\ RowsOK
      /\ (Holds(q) \/ (Makes(q) /\ Making(r))) /\ q.pid \in Ids
  BY SessionType DEF SessionOK, Holds, Makes, Making, Stored, NoRow
<1>2. /\ new \in PaymentRows /\ new.status # "none" /\ Truthful(new)
      /\ payments[q.pid].status # "none" => SamePayment(payments[q.pid], new)
      /\ payments[q.pid].status = "succeeded" => new.status = "succeeded"
      /\ q.row.status = "succeeded" => new.status = "succeeded"
      /\ q.pid < nextId
  <2>1. CASE Holds(q)
    BY <1>1, <2>1, FlushKeeps DEF Holds, RowsOK
  <2>2. CASE Makes(q)
    <3>1. /\ new \in PaymentRows /\ new.status = q.row.status /\ new.amount = q.row.amount
          /\ new.key = q.row.key /\ new.ext = q.row.ext /\ new.url = q.row.url
      BY <1>1, <2>2, FlushMixes DEF Makes, NoRow, TypeOK
    <3> QED  BY <1>1, <2>2, <3>1 DEF Makes, NoRow, Truthful
  <2> QED  BY <1>1, <2>1, <2>2
<1>3. ASSUME NEW i \in Ids, i = q.dropped, i # q.pid
      PROVE  /\ payments'[i] = [payments[i] EXCEPT !.status = "canceled", !.url = FALSE]
             /\ payments'[i] \in PaymentRows /\ payments'[i].status = "canceled" /\ Stored(i)
             /\ SamePayment(payments[i], payments'[i]) /\ payments[i].status # "succeeded"
             /\ Truthful(payments'[i])
  <2>1. /\ payments'[i] = [payments[i] EXCEPT !.status = "canceled", !.url = FALSE]
        /\ payments[i] \in PaymentRows /\ Truthful(payments[i]) /\ payments[i].key \in Keys
    BY <1>1, <1>3 DEF Saved, TypeOK, RowsOK, PaymentRows
  <2>2. Stored(i) /\ payments[i].ext /\ provider[payments[i].key].status = "canceled"
    BY <1>1, <1>3 DEF SessionOK, Ids
  <2>3. /\ payments'[i] \in PaymentRows /\ payments'[i].status = "canceled" /\ payments'[i].url = FALSE
        /\ payments'[i].ext = payments[i].ext /\ payments'[i].key = payments[i].key
        /\ payments'[i].amount = payments[i].amount
    BY <2>1 DEF PaymentRows, PaymentStatus
  <2> QED  BY <2>1, <2>2, <2>3 DEF SamePayment, Truthful
<1>4. payments'[q.pid] = new
  BY <1>1 DEF Saved, Flush
<1>5. \A i \in Ids : i # q.pid /\ i # q.dropped => payments'[i] = payments[i]
  BY DEF Saved
<1>6. \A i \in Ids : payments[i] \in PaymentRows
  BY <1>1 DEF TypeOK
<1>7. payments' \in [Ids -> PaymentRows]
  <2>1. \A i \in Ids : payments'[i] \in PaymentRows
    BY <1>2, <1>3, <1>4, <1>5, <1>6
  <2>2. payments' = [i \in Ids |-> payments'[i]]
    BY DEF Saved
  <2> QED  BY <2>1, <2>2
<1>8. PaymentsGrow
  BY <1>2, <1>3, <1>4, <1>5 DEF PaymentsGrow, Stored, SamePayment
<1>9. \A i \in Ids : Truthful(payments'[i])
  BY <1>1, <1>2, <1>3, <1>4, <1>5 DEF RowsOK
<1> QED
  BY <1>1, <1>2, <1>3, <1>4, <1>5, <1>7, <1>8, <1>9 DEF RowsOK, Stored, Making, Holds

(* A step that commits what its session holds.                             *)
LEMMA CommittingStep ==
  ASSUME PaymentsInv, NEW r \in Requests, req[r].pc \in {"write", "commit"}, NEW x \in Sessions,
         payments' = Saved(r), UNCHANGED <<provider, nextId, crashes>>,
         req' = [req EXCEPT ![r] = x], SessionOK(x)', x.pc # "commit",
         lock' \in Requests \cup {NoRequest}, acked' \subseteq Ids,
         purchase' \in Orders, purchase'.pay \in {0, purchase.pay, req[r].pid}
  PROVE  PaymentsInv'
<1>1. TypeOK'
  BY SavedKeeps DEF PaymentsInv, TypeOK
<1>2. req'[r] = x /\ \A s \in Requests \ {r} : req'[s] = req[s]
  BY DEF PaymentsInv, TypeOK
<1>3. SessionOK(req[r])'
  BY <1>2, SessionBecomes
<1>4. nextId <= nextId'
  BY PaymentsAssumption DEF PaymentsInv, TypeOK
<1>5. SessionsOK'
  BY <1>1, <1>2, <1>3, <1>4, SavedKeeps, SessionStep, ProviderStays DEF Making
<1>6. RowsOK'
  <2>1. Stored(purchase.pay)' \/ purchase'.pay = 0
    <3>1. ASSUME Stored(purchase.pay), purchase'.pay = purchase.pay PROVE Stored(purchase.pay)'
      BY <3>1, SavedKeeps DEF Stored, PaymentsGrow
    <3>2. ASSUME purchase'.pay = req[r].pid PROVE Stored(purchase.pay)'
      BY <3>2, SavedKeeps DEF Stored
    <3> QED  BY <3>1, <3>2 DEF PaymentsInv, RowsOK
  <2>2. \A i \in Ids : /\ payments'[i].status = "none" => payments'[i] = NoRow
                       /\ Truthful(payments'[i])
                       /\ payments'[i].status # "none" => i < nextId'
    BY SavedKeeps
  <2>3. \A i \in Ids : Truthful(payments[i])'
    BY <2>2 DEF Truthful
  <2> QED  BY <2>1, <2>2, <2>3, ProviderStays DEF RowsOK, Stored
<1> QED  BY <1>1, <1>5, <1>6 DEF PaymentsInv

(* What is left to do for a payment that has been committed.               *)
LEMMA ApplyingSession ==
  ASSUME PaymentsInv, NEW r \in Requests, req[r].pc \in {"write", "commit"},
         payments' = Saved(r), UNCHANGED <<provider, nextId>>,
         NEW row \in PaymentRows, payments'[req[r].pid].status = "succeeded"
  PROVE  \E x \in Sessions : x = Applying(req[r], row) /\ SessionOK(x)' /\ x.pc # "commit"
<1> DEFINE q == req[r]
           y == Applying(q, row)
<1>1. y \in Sessions /\ y.pc = "apply" /\ y.pid = q.pid /\ y.dropped = 0
  BY SessionType, IdleType DEF Applying, Idle, Sessions
<1>2. PICK x \in Sessions : x = y
  BY <1>1
<1>3. SessionOK(x)'
  BY <1>1, <1>2, SavedKeeps DEF SessionOK, Stored
<1> QED  BY <1>1, <1>2, <1>3

(* A refreshed payment is committed, and the handler goes on or ends.      *)
LEMMA WriteStep ==
  ASSUME PaymentsInv, NEW r \in Requests, Write(r)
  PROVE  PaymentsInv'
<1> DEFINE q == req[r]
           row == IF q.kind = "webhook" THEN q.row ELSE payments'[q.pid]
<1>1. /\ q.pc = "write" /\ payments' = Saved(r) /\ Holds(q)
      /\ purchase' = purchase /\ UNCHANGED <<provider, nextId, crashes>>
  BY SessionType DEF Write, At, SessionOK
<1>2. /\ payments' \in [Ids -> PaymentRows] /\ q.pid \in Ids /\ PaymentsGrow
      /\ payments'[q.pid].status # "none" /\ Truthful(payments'[q.pid])
      /\ q.row.status = "succeeded" => payments'[q.pid].status = "succeeded"
  BY <1>1, SavedKeeps
<1>3. row \in PaymentRows /\ (row.status = "succeeded" => payments'[q.pid].status = "succeeded")
  BY <1>2, SessionType
<1>4. purchase' \in Orders /\ purchase'.pay = purchase.pay /\ acked \subseteq Ids /\ lock \in Requests \cup {NoRequest}
  BY <1>1, SessionType DEF TypeOK
<1>5. CASE row.status = "succeeded" /\ req' = [req EXCEPT ![r] = Applying(q, row)] /\ UNCHANGED <<lock, acked>>
  BY <1>1, <1>3, <1>4, <1>5, ApplyingSession, CommittingStep
<1>6. ASSUME q.kind = "repay", q.order.status = "awaiting_payment", UNCHANGED <<lock, acked>>,
             req' = [req EXCEPT ![r].pc = "card", ![r].base = row, ![r].row = row]
      PROVE  PaymentsInv'
  <2>1. PICK x \in Sessions :
          /\ req' = [req EXCEPT ![r] = x] /\ x.pc = "card" /\ x.base = payments'[q.pid] /\ x.row = payments'[q.pid]
          /\ x.pid = q.pid /\ x.order = q.order /\ x.kind = q.kind /\ x.dropped = q.dropped
    <3> DEFINE y == [q EXCEPT !.pc = "card", !.base = payments'[q.pid], !.row = payments'[q.pid]]
    <3>1. y \in Sessions
      BY <1>2, SessionType DEF Sessions
    <3>2. /\ y.pc = "card" /\ y.base = payments'[q.pid] /\ y.row = payments'[q.pid]
          /\ y.pid = q.pid /\ y.order = q.order /\ y.kind = q.kind /\ y.dropped = q.dropped
      BY SessionType DEF Sessions
    <3>3. req' = [req EXCEPT ![r] = y]
      BY <1>6
    <3> QED  BY <3>1, <3>2, <3>3
  <2>2. Holds(x)'
    <3>1. Truthful(payments'[q.pid]) /\ provider' = provider /\ x.base = payments'[x.pid] /\ x.row = x.base
      BY <1>1, <1>2, <2>1
    <3>2. Truthful(x.base)' /\ Truthful(x.row)'
      BY <2>1, <3>1 DEF Truthful
    <3>3. Stored(x.pid)' /\ x.base.status # "none"
      BY <1>2, <2>1 DEF Stored
    <3> QED  BY <3>1, <3>2, <3>3 DEF Holds, SamePayment
  <2>3. x.order.pay = x.pid
    BY <1>1, <1>6, <2>1, SessionType DEF SessionOK
  <2>4. x.dropped # 0 => Stored(x.dropped)' /\ payments'[x.dropped].ext
                           /\ provider'[payments'[x.dropped].key].status = "canceled"
    BY <1>1, <1>2, <2>1, SessionType DEF SessionOK, Stored, PaymentsGrow, SamePayment
  <2>5. SessionOK(x)'
    BY <1>6, <2>1, <2>2, <2>3, <2>4 DEF SessionOK
  <2> QED  BY <1>1, <1>4, <1>6, <2>1, <2>5, CommittingStep
<1>7. ASSUME Acknowledge(r), Close(r) PROVE PaymentsInv'
  <2>1. Idle \in Sessions /\ Idle.pc # "commit"
    BY IdleType DEF Idle
  <2>2. SessionOK(Idle)'
    BY DEF SessionOK, Idle
  <2>3. acked' \subseteq Ids /\ lock' \in Requests \cup {NoRequest} /\ req' = [req EXCEPT ![r] = Idle]
    BY <1>2, <1>4, <1>7 DEF Acknowledge, Close
  <2> QED  BY <1>1, <1>4, <2>1, <2>2, <2>3, CommittingStep
<1> QED  BY <1>5, <1>6, <1>7 DEF Write

(* The payment of a purchase is committed together with it.                *)
LEMMA CommitStep ==
  ASSUME PaymentsInv, NEW r \in Requests, Commit(r)
  PROVE  PaymentsInv'
<1> DEFINE q == req[r]
           row == payments'[q.pid]
<1>1. /\ q.pc = "commit" /\ payments' = Saved(r) /\ lock' = NoRequest
      /\ purchase' = Ordered(q) /\ UNCHANGED <<provider, nextId, acked, crashes>>
  BY DEF Commit, At
<1>2. row \in PaymentRows
  BY <1>1, SavedKeeps
<1>3. purchase' \in Orders /\ purchase'.pay \in {purchase.pay, q.pid} /\ acked' \subseteq Ids
  BY <1>1, SessionType DEF Ordered, SessionOK, Orders, TypeOK
<1>4. CASE row.status = "succeeded" /\ req' = [req EXCEPT ![r] = Applying(q, row)]
  BY <1>1, <1>2, <1>3, <1>4, ApplyingSession, CommittingStep
<1>5. CASE req' = [req EXCEPT ![r] = Idle]
  <2>1. Idle \in Sessions /\ Idle.pc # "commit"
    BY IdleType DEF Idle
  <2>2. SessionOK(Idle)'
    BY DEF SessionOK, Idle
  <2> QED  BY <1>1, <1>3, <1>5, <2>1, <2>2, CommittingStep
<1> QED  BY <1>4, <1>5 DEF Commit

-----------------------------------------------------------------------------
(* The steps outside the handlers, and the invariant.                      *)

(* Staff, YooKassa and its customers.                                      *)
LEMMA OutsideSteps ==
  ASSUME PaymentsInv,
         \/ MarkDelivering \/ Finish
         \/ \E k \in Keys : Pay(k) \/ ProviderExpires(k)
  PROVE  PaymentsInv'
<1>1. ASSUME NEW kind, NEW status \in PurchaseStatus, SetStatus(kind, status) PROVE PaymentsInv'
  <2>1. purchase' \in Orders /\ purchase'.pay = purchase.pay
    BY <1>1, SessionType, RowType DEF SetStatus, Orders
  <2>2. TypeOK'
    BY <1>1, <2>1 DEF SetStatus, PaymentsInv, TypeOK
  <2> QED  BY <1>1, <2>1, <2>2, ProviderStays, OutsideStep DEF SetStatus
<1>2. ASSUME NEW k \in Keys, Pay(k) \/ ProviderExpires(k) PROVE PaymentsInv'
  <2>1. PICK status \in {"succeeded", "canceled"} :
          /\ Settle(k, status) /\ provider[k].status = "pending"
          /\ status = "succeeded" => \E i \in Ids : payments[i].key = k /\ payments[i].url
    BY <1>2 DEF Pay, ProviderExpires, Payable
  <2>2. status = "succeeded" => provider[k].url
    BY <2>1 DEF PaymentsInv, RowsOK, Truthful
  <2>3. /\ provider' = [provider EXCEPT ![k].status = status]
        /\ UNCHANGED <<purchase, payments, nextId, lock, req, acked, crashes>>
    BY <2>1 DEF Settle
  <2>4. provider' \in [Keys -> Provided] /\ ProviderGrows
        /\ \A j \in Keys : provider'[j].status = "succeeded" => provider'[j].url
    BY <2>1, <2>2, <2>3 DEF PaymentsInv, RowsOK, TypeOK, Provided, ProviderGrows
  <2>5. TypeOK'
    BY <2>3, <2>4 DEF PaymentsInv, TypeOK
  <2> QED  BY <2>3, <2>4, <2>5, OutsideStep
<1> QED  BY <1>1, <1>2 DEF MarkDelivering, Finish, PurchaseStatus

(* A restart forgets every session.                                        *)
LEMMA CrashStep ==
  ASSUME PaymentsInv, Crash
  PROVE  PaymentsInv'
<1>1. TypeOK'
  <2>1. Idle \in Sessions
    BY IdleType
  <2>2. crashes' \in 0 .. MaxCrashes
    BY PaymentsAssumption DEF Crash, PaymentsInv, TypeOK
  <2> QED  BY <2>1, <2>2 DEF Crash, PaymentsInv, TypeOK
<1>2. \A r \in Requests : req'[r] = Idle
  BY DEF Crash
<1>3. SessionsOK'
  BY <1>2 DEF SessionsOK, SessionOK, Making, Idle
<1>4. RowsOK'
  BY DEF Crash, PaymentsInv, RowsOK, Stored, Truthful
<1> QED  BY <1>1, <1>3, <1>4 DEF PaymentsInv

(* An edit is refused.                                                     *)
LEMMA PatchFailsStep ==
  ASSUME PaymentsInv, NEW r \in Requests, PatchFails(r)
  PROVE  PaymentsInv'
<1>1. nextId <= nextId' /\ nextId' \in 1 .. MaxPayments + 1
  BY PaymentsAssumption DEF PatchFails, PaymentsInv, TypeOK
<1> QED  BY <1>1, ProviderStays, CloseStep DEF PatchFails, PaymentsInv, TypeOK

(* No purchase yet.                                                        *)
LEMMA PaymentsInit == Init => PaymentsInv
<1> SUFFICES ASSUME Init PROVE PaymentsInv
  OBVIOUS
<1>1. NoRow \in PaymentRows /\ NoOrder \in Orders /\ [status |-> "none", amount |-> 0, url |-> FALSE] \in Provided
  BY PaymentsAssumption DEF NoRow, NoOrder, PaymentRows, Orders, Keys, Provided
<1>2. Idle \in Sessions
  BY IdleType
<1>3. TypeOK
  BY <1>1, <1>2, PaymentsAssumption DEF Init, TypeOK
<1>4. RowsOK
  BY DEF Init, RowsOK, Stored, Truthful, NoRow, NoOrder
<1>5. SessionsOK
  BY DEF Init, SessionsOK, SessionOK, Making, Idle
<1> QED  BY <1>3, <1>4, <1>5 DEF PaymentsInv

(* Every step keeps the invariant.                                         *)
LEMMA PaymentsNext == PaymentsInv /\ [Next]_vars => PaymentsInv'
<1> SUFFICES ASSUME PaymentsInv, [Next]_vars PROVE PaymentsInv'
  OBVIOUS
<1>1. ASSUME NEW r \in Requests, Step(r) PROVE PaymentsInv'
  BY <1>1, GetStep, GetFailsStep, WriteStep, ApplyStep, CardKeepStep, CardSteps, CommitStep,
     CreateSteps, LockingSteps, PatchFailsStep, CancelStep, CancelFailsStep DEF Step
<1>2. CASE UNCHANGED vars
  <2>1. TypeOK'
    BY <1>2 DEF vars, PaymentsInv, TypeOK
  <2> QED  BY <1>2, <2>1, ProviderStays, OutsideStep DEF vars
<1> QED  BY <1>1, <1>2, BeginStep, OutsideSteps, CrashStep DEF Next

(* The invariant holds in every state of a purchase and its payments.      *)
THEOREM PaymentsInvariant == Spec => []PaymentsInv
  BY PaymentsInit, PaymentsNext, PTL DEF Spec

(* Type correctness of the tables, of YooKassa's payments and of the       *)
(* sessions of the handlers.                                               *)
THEOREM PaymentsTypes == Spec => []TypeOK
  BY PaymentsInvariant, PTL DEF PaymentsInv

(* No committed payment is open without YooKassa knowing it, for the same  *)
(* amount: _create_card_payment_for_purchase commits the row it has flushed*)
(* only with an answer of YooKassa, and _cancel_payment_for_purchase never *)
(* meets a payment without an external id.                                 *)
THEOREM OpenIsRegistered == Spec => []PendingIsRegistered
<1>1. PaymentsInv => PendingIsRegistered
  BY DEF PaymentsInv, RowsOK, Truthful, PendingIsRegistered
<1> QED  BY <1>1, PaymentsInvariant, PTL

(* Only the two commits write the payments table.                          *)
LEMMA PaymentsWriters ==
  ASSUME PaymentsInv, [Next]_vars
  PROVE  UNCHANGED payments \/ \E r \in Requests : Write(r) \/ Commit(r)
<1>1. ASSUME NEW r \in Requests, Begin(r) PROVE UNCHANGED payments
  BY <1>1 DEF Begin, BeginCreate, BeginRefresh, BeginWebhook, BeginRepay, BeginPatch, Load
<1>2. ASSUME NEW r \in Requests, Step(r), ~Write(r), ~Commit(r) PROVE UNCHANGED payments
  <2>1. CASE Get(r) \/ GetFails(r) \/ Apply(r) \/ CardKeep(r) \/ CardReuse(r) \/ CardNew(r)
    BY <2>1 DEF Get, GetFails, Apply, CardKeep, CardReuse, CardNew
  <2>2. CASE CreateInsert(r) \/ CreateStart(r) \/ CreateReturns(r) \/ PatchFails(r)
    BY <2>2 DEF CreateInsert, CreateStart, CreateReturns, PatchFails, Locked
  <2>3. CASE Cancel(r) \/ CancelFails(r) \/ \E price \in Prices, edited \in BOOLEAN : Patch(r, price, edited)
    BY <2>3 DEF Cancel, CancelFails, Patch, Locked
  <2> QED  BY <1>2, <2>1, <2>2, <2>3 DEF Step
<1>3. CASE MarkDelivering \/ Finish \/ Crash \/ \E k \in Keys : Pay(k) \/ ProviderExpires(k)
  BY <1>3 DEF MarkDelivering, Finish, SetStatus, Crash, Pay, ProviderExpires, Settle
<1>4. CASE UNCHANGED vars
  BY <1>4 DEF vars
<1> QED  BY <1>1, <1>2, <1>3, <1>4 DEF Next

(* What any step does to the payments that are stored.                     *)
LEMMA GrowStep ==
  ASSUME PaymentsInv, [Next]_vars
  PROVE  PaymentsGrow
<1>1. ASSUME NEW r \in Requests, Write(r) \/ Commit(r) PROVE PaymentsGrow
  BY <1>1, SavedKeeps DEF Write, Commit, At
<1>2. CASE UNCHANGED payments
  BY <1>2 DEF PaymentsGrow, SamePayment, Stored
<1> QED  BY <1>1, <1>2, PaymentsWriters

(* A payment stored as succeeded stays succeeded, whatever older copies the*)
(* webhook, the polls and the repayments write over it without a lock.     *)
THEOREM ConfirmedStays == Spec => ConfirmedIsFinal
<1>1. PaymentsInv /\ [Next]_vars =>
        \A i \in Ids : payments[i].status = "succeeded" => payments'[i].status = "succeeded"
  BY GrowStep DEF PaymentsGrow, Stored
<1> QED  BY <1>1, PaymentsInvariant, PTL DEF Spec, ConfirmedIsFinal

(* A purchase goes to assembly only with a payment that YooKassa has been  *)
(* paid, the one the purchase refers to at that moment: not one that has   *)
(* been superseded, and not one a session believes to be paid.             *)
THEOREM AdvanceIsPaid == Spec => AdvanceOnlyWhenPaid
<1> DEFINE Advance ==
      purchase.status # "assembling" /\ purchase'.status = "assembling" =>
        purchase'.pay # 0 /\ provider[payments[purchase'.pay].key].status = "succeeded"
<1>1. PaymentsInv /\ [Next]_vars => Advance
  <2> SUFFICES ASSUME PaymentsInv, [Next]_vars PROVE Advance
    OBVIOUS
  <2>1. ASSUME NEW r \in Requests, Begin(r) PROVE Advance
    BY <2>1 DEF Begin, BeginCreate, BeginRefresh, BeginWebhook, BeginRepay, BeginPatch, Load
  <2>2. ASSUME NEW r \in Requests, Apply(r) PROVE Advance
    <3>1. /\ req[r].pid \in Ids /\ payments[req[r].pid].status = "succeeded"
          /\ Truthful(payments[req[r].pid]) /\ req[r].pid # 0
      BY <2>2, SessionType DEF Apply, At, SessionOK, Stored, RowsOK, Ids
    <3>2. Applies(req[r].pid) => purchase'.pay = req[r].pid
      BY <2>2, RowType DEF Apply, Applies, Orders
    <3> QED  BY <2>2, <3>1, <3>2 DEF Apply, Truthful
  <2>3. ASSUME NEW r \in Requests, Commit(r) PROVE Advance
    BY <2>3, SessionType, RowType DEF Commit, At, Ordered, SessionOK, Orders
  <2>4. ASSUME NEW r \in Requests, CreateInsert(r) PROVE Advance
    BY <2>4, RowType DEF CreateInsert, Orders
  <2>5. ASSUME NEW r \in Requests, Get(r) \/ GetFails(r) \/ Write(r) \/ CardKeep(r) \/ CardReuse(r) \/ CardNew(r)
        PROVE  Advance
    BY <2>5 DEF Get, GetFails, Write, CardKeep, CardReuse, CardNew
  <2>6. ASSUME NEW r \in Requests,
               \/ CreateStart(r) \/ CreateReturns(r) \/ PatchFails(r) \/ Cancel(r) \/ CancelFails(r)
               \/ \E price \in Prices, edited \in BOOLEAN : Patch(r, price, edited)
        PROVE  Advance
    BY <2>6 DEF CreateStart, CreateReturns, PatchFails, Cancel, CancelFails, Patch, Locked
  <2>7. CASE MarkDelivering \/ Finish
    BY <2>7, RowType DEF MarkDelivering, Finish, SetStatus, Orders
  <2>8. CASE Crash \/ \E k \in Keys : Pay(k) \/ ProviderExpires(k)
    BY <2>8 DEF Crash, Pay, ProviderExpires, Settle
  <2>9. CASE UNCHANGED vars
    BY <2>9 DEF vars
  <2> QED  BY <2>1, <2>2, <2>3, <2>4, <2>5, <2>6, <2>7, <2>8, <2>9 DEF Next, Step
<1> QED  BY <1>1, PaymentsInvariant, PTL DEF Spec, AdvanceOnlyWhenPaid

-----------------------------------------------------------------------------
(* Money: what the customer of a purchase is offered to pay, and that one  *)
(* purchase is charged at most once.                                       *)

(* What is offered, and what is charged, without the unlocked repayment.   *)
OfferInv ==
  /\ \A r \in Requests : req[r].kind # "repay"
  /\ \A r \in Requests : req[r].pc = "commit" =>
       req[r].row.status = "succeeded" \/ req[r].row.amount = req[r].order.price
  /\ purchase.status = "awaiting_payment" /\ purchase.pay # 0 =>
       payments[purchase.pay].status = "succeeded" \/ payments[purchase.pay].amount = purchase.price

(* What the customer can be charged, or has been.                          *)
Live(k) ==
  \/ provider[k].status = "succeeded"
  \/ provider[k].status = "pending" /\ \E i \in Ids : payments[i].key = k /\ payments[i].ext /\ payments[i].url

(* Only the current payment is live, and a row has a key of its own.       *)
PurchaseOK ==
  /\ purchase.status \in {"none", "created"} => purchase.pay = 0
  /\ purchase.status = "assembling" => purchase.pay # 0 /\ payments[purchase.pay].status = "succeeded"
  /\ purchase.status \notin {"delivering", "finished"}
  /\ \A k \in Keys : Live(k) => purchase.pay # 0 /\ payments[purchase.pay].key = k
  /\ \A k \in Keys : provider[k].status = "succeeded" =>
       \E i \in Ids : Stored(i) /\ payments[i].key = k /\ payments[i].ext
  /\ \A i \in Ids : Stored(i) => purchase.pay # 0 /\ payments[i].key \in {0, i}
  /\ \A i, j \in Ids : Stored(i) /\ Stored(j) /\ payments[i].key = payments[j].key => i = j

(* The session that has locked the purchase.                               *)
DeskOK(q) ==
  /\ q.pc \in {"cancel", "card"} => q.pid = purchase.pay
  /\ q.pc = "card" /\ q.row.status = "pending" => q.row.amount = q.order.price
  /\ q.pc = "commit" /\ q.base.status # "none" => q.pid = purchase.pay
  /\ q.pc = "commit" /\ q.base.status = "none" =>
       /\ \A k \in Keys : ~Live(k)
       /\ q.row.key \in {0, q.pid}
       /\ q.row.key = 0 => purchase.pay = 0

ChargeInv ==
  /\ PurchaseOK
  /\ \A r \in Requests : DeskOK(req[r]) /\ (req[r].pc \in {"cancel", "card", "commit"} => lock = r)

(* What a commit writes is the session's payment; no URL appears in a      *)
(* payment that was stored.                                                *)
LEMMA SavedIs ==
  ASSUME PaymentsInv, NEW r \in Requests, req[r].pc \in {"write", "commit"}, payments' = Saved(r)
  PROVE  /\ payments'[req[r].pid].amount = req[r].row.amount
         /\ payments'[req[r].pid].key = req[r].row.key
         /\ payments'[req[r].pid].ext = req[r].row.ext
         /\ \A i \in Ids : Stored(i) => (payments'[i].url => payments[i].url)
         /\ Holds(req[r]) \/ (Makes(req[r]) /\ Making(r))
<1> DEFINE q == req[r]
           new == Flush(payments[q.pid], q.base, q.row)
<1>1. /\ q.base \in PaymentRows /\ q.row \in PaymentRows /\ payments[q.pid] \in PaymentRows
      /\ q.pid \in Ids /\ (Holds(q) \/ (Makes(q) /\ Making(r)))
  BY SessionType DEF SessionOK, Holds, Makes, Making, Stored, NoRow
<1>2. payments'[q.pid] = new
  BY <1>1 DEF Saved
<1>3. new.amount = q.row.amount /\ new.key = q.row.key /\ new.ext = q.row.ext
  BY <1>1, FlushMixes DEF Holds, Makes, NoRow, SamePayment
<1>4. Stored(q.pid) /\ new.url => payments[q.pid].url
  <2> SUFFICES ASSUME Stored(q.pid), new.url PROVE payments[q.pid].url
    OBVIOUS
  <2>1. Holds(q)
    BY <1>1 DEF Makes, Stored, NoRow
  <2>2. q.base.url = q.row.url
    <3> SUFFICES ASSUME q.base.url # q.row.url PROVE FALSE
      OBVIOUS
    <3>1. q.row.url = new.url
      BY <1>1, FlushUrl
    <3>2. q.row.url \in BOOLEAN /\ q.base.url \in BOOLEAN
      BY <1>1 DEF PaymentRows
    <3>4. q.row.url = TRUE /\ q.base.url = FALSE
      BY <3>1, <3>2
    <3>3. q.base.status = "pending" /\ q.base.key = q.row.key /\ Truthful(q.base) /\ Truthful(q.row)
      BY <2>1 DEF Holds, SamePayment
    <3> QED  BY <3>3, <3>4 DEF Truthful
  <2> QED  BY <1>1, <2>1, <2>2, FlushMixes DEF Holds
<1>5. ASSUME NEW i \in Ids, i # q.pid, payments'[i].url PROVE payments[i].url
  <2>1. payments'[i] \in {payments[i], [payments[i] EXCEPT !.status = "canceled", !.url = FALSE]}
    BY <1>5 DEF Saved
  <2> QED  BY <1>5, <2>1, SessionType DEF PaymentRows
<1> QED  BY <1>1, <1>2, <1>3, <1>4, <1>5

(* A session after its call to POST /payments.                             *)
LEMMA CallOutcome ==
  ASSUME PaymentsInv, NEW r \in Requests, NEW q \in Sessions, Call(r, q)
  PROVE  /\ provider' = provider \/ \E url \in BOOLEAN : Accepts(q.row.key, q.order.price, url)
         /\ \/ Close(r)
            \/ \E x : /\ req' = [req EXCEPT ![r] = x] /\ lock' = lock /\ x.pc = "commit"
                      /\ x.kind = q.kind /\ x.pid = q.pid /\ x.order = q.order /\ x.base = q.base
                      /\ x.row.key = q.row.key /\ x.row.amount = q.row.amount
<1>1. ASSUME NEW row, row.key = q.row.key, row.amount = q.row.amount, lock' = lock,
             req' = [req EXCEPT ![r] = [q EXCEPT !.pc = "commit", !.row = row]]
      PROVE  \E x : /\ req' = [req EXCEPT ![r] = x] /\ lock' = lock /\ x.pc = "commit"
                    /\ x.kind = q.kind /\ x.pid = q.pid /\ x.order = q.order /\ x.base = q.base
                    /\ x.row.key = q.row.key /\ x.row.amount = q.row.amount
  <2> DEFINE y == [q EXCEPT !.pc = "commit", !.row = row]
  <2>1. /\ y.pc = "commit" /\ y.kind = q.kind /\ y.pid = q.pid /\ y.order = q.order /\ y.base = q.base
        /\ y.row = row
    BY DEF Sessions
  <2>2. req' = [req EXCEPT ![r] = y]
    BY <1>1
  <2> HIDE DEF y
  <2> QED  BY <1>1, <2>1, <2>2
<1>2. q.row \in PaymentRows
  BY DEF Sessions
<1>3. ASSUME NEW url \in BOOLEAN, Accepts(q.row.key, q.order.price, url), UNCHANGED lock,
             req' = [req EXCEPT ![r] = [q EXCEPT !.pc = "commit",
                      !.row = [@ EXCEPT !.ext = TRUE, !.status = provider'[q.row.key].status, !.url = url]]]
      PROVE  \E x : /\ req' = [req EXCEPT ![r] = x] /\ lock' = lock /\ x.pc = "commit"
                    /\ x.kind = q.kind /\ x.pid = q.pid /\ x.order = q.order /\ x.base = q.base
                    /\ x.row.key = q.row.key /\ x.row.amount = q.row.amount
  <2> DEFINE row == [q.row EXCEPT !.ext = TRUE, !.status = provider'[q.row.key].status, !.url = url]
  <2>1. row.key = q.row.key /\ row.amount = q.row.amount
    BY <1>2 DEF PaymentRows
  <2>2. req' = [req EXCEPT ![r] = [q EXCEPT !.pc = "commit", !.row = row]]
    BY <1>3
  <2> HIDE DEF row
  <2> QED  BY <1>1, <1>3, <2>1, <2>2
<1>4. ASSUME req' = [req EXCEPT ![r] = [q EXCEPT !.pc = "commit", !.row = [@ EXCEPT !.status = "failed"]]],
             UNCHANGED <<provider, lock>>
      PROVE  \E x : /\ req' = [req EXCEPT ![r] = x] /\ lock' = lock /\ x.pc = "commit"
                    /\ x.kind = q.kind /\ x.pid = q.pid /\ x.order = q.order /\ x.base = q.base
                    /\ x.row.key = q.row.key /\ x.row.amount = q.row.amount
  <2> DEFINE row == [q.row EXCEPT !.status = "failed"]
  <2>1. row.key = q.row.key /\ row.amount = q.row.amount
    BY <1>2 DEF PaymentRows
  <2>2. req' = [req EXCEPT ![r] = [q EXCEPT !.pc = "commit", !.row = row]]
    BY <1>4
  <2> HIDE DEF row
  <2> QED  BY <1>1, <1>4, <2>1, <2>2
<1> QED  BY <1>3, <1>4 DEF Call

(* A step of a session, and of the purchase if at all away from            *)
(* awaiting_payment, keeps the offer.                                      *)
LEMMA OfferStep ==
  ASSUME PaymentsInv, OfferInv, NEW r \in Requests, NEW x, req' = [req EXCEPT ![r] = x], PaymentsGrow,
         x.kind # "repay", x.pc = "commit" => x.row.status = "succeeded" \/ x.row.amount = x.order.price,
         purchase' = purchase \/ purchase'.status # "awaiting_payment"
  PROVE  OfferInv'
<1>1. req'[r] = x /\ \A s \in Requests \ {r} : req'[s] = req[s]
  BY SessionType DEF TypeOK
<1>2. purchase'.status = "awaiting_payment" /\ purchase'.pay # 0 =>
        payments'[purchase'.pay].status = "succeeded" \/ payments'[purchase'.pay].amount = purchase'.price
  BY RowType DEF OfferInv, PaymentsGrow, SamePayment, Stored
<1> QED  BY <1>1, <1>2 DEF OfferInv

(* The end of a session.                                                   *)
LEMMA OfferClose ==
  ASSUME PaymentsInv, OfferInv, NEW r \in Requests, Close(r), PaymentsGrow,
         purchase' = purchase \/ purchase'.status # "awaiting_payment"
  PROVE  OfferInv'
<1>1. req' = [req EXCEPT ![r] = Idle] /\ Idle.kind # "repay" /\ Idle.pc # "commit"
  BY DEF Close, Idle
<1> HIDE DEF Idle
<1> QED  BY <1>1, OfferStep

(* The first step of a handler that is not a repayment.                    *)
LEMMA OfferBegin ==
  ASSUME PaymentsInv, OfferInv, "repay" \notin Kinds, NEW r \in Requests, Begin(r), PaymentsGrow
  PROVE  OfferInv'
<1>1. ASSUME NEW kind \in Kinds, NEW pc \in {"get", "apply"}, NEW i, Load(r, kind, i, pc) PROVE OfferInv'
  <2> DEFINE x == [Idle EXCEPT !.pc = pc, !.kind = kind, !.pid = i,
                     !.order = IF kind = "repay" THEN purchase ELSE NoOrder, !.base = Row(i), !.row = Row(i)]
  <2>1. req' = [req EXCEPT ![r] = x] /\ purchase' = purchase
    BY <1>1 DEF Load
  <2>2. x.kind # "repay" /\ x.pc # "commit"
    BY DEF Idle
  <2> HIDE DEF x
  <2> QED  BY <2>1, <2>2, OfferStep
<1>2. ASSUME NEW price \in Prices, BeginCreate(r, price) PROVE OfferInv'
  <2> DEFINE x == [Idle EXCEPT !.kind = "create", !.order.price = price, !.pc = IF Exists THEN "retry" ELSE "insert",
                     !.snap = IF Exists THEN Snapshot("create") ELSE Unread]
  <2>1. req' = [req EXCEPT ![r] = x] /\ purchase' = purchase
    BY <1>2 DEF BeginCreate
  <2>2. x.kind # "repay" /\ x.pc # "commit"
    BY DEF Idle
  <2> HIDE DEF x
  <2> QED  BY <2>1, <2>2, OfferStep
<1>3. CASE BeginPatch(r)
  <2> DEFINE x == [Idle EXCEPT !.kind = "patch", !.pc = "patch", !.snap = Snapshot("patch")]
  <2>1. req' = [req EXCEPT ![r] = x] /\ purchase' = purchase
    BY <1>3 DEF BeginPatch
  <2>2. x.kind # "repay" /\ x.pc # "commit"
    BY DEF Idle
  <2> HIDE DEF x
  <2> QED  BY <2>1, <2>2, OfferStep
<1>4. ~BeginRepay(r)
  BY DEF BeginRepay, Free
<1>5. ASSUME NEW i \in Ids, BeginRefresh(r, i) \/ BeginWebhook(r, i) PROVE OfferInv'
  BY <1>1, <1>5 DEF BeginRefresh, BeginWebhook, Free
<1> QED  BY <1>2, <1>3, <1>4, <1>5 DEF Begin

(* The call to POST /payments is for the price of the order.               *)
LEMMA OfferCall ==
  ASSUME PaymentsInv, OfferInv, NEW r \in Requests, NEW q \in Sessions, Call(r, q), PaymentsGrow,
         q.kind # "repay", q.row.amount = q.order.price, purchase' = purchase
  PROVE  OfferInv'
<1>1. CASE Close(r)
  BY <1>1, OfferClose
<1>2. ASSUME NEW x, req' = [req EXCEPT ![r] = x], x.kind = q.kind, x.order = q.order, x.row.amount = q.row.amount
      PROVE  OfferInv'
  BY <1>2, OfferStep
<1> QED  BY <1>1, <1>2, CallOutcome

(* The session's payment is one for the price of its order.                *)
LEMMA OfferCard ==
  ASSUME PaymentsInv, OfferInv, NEW r \in Requests, CardKeep(r) \/ CardReuse(r) \/ CardNew(r), PaymentsGrow
  PROVE  OfferInv'
<1> DEFINE q == req[r]
<1>1. q \in Sessions /\ q.kind # "repay" /\ purchase' = purchase
  BY SessionType DEF OfferInv, CardKeep, CardReuse, CardNew
<1>2. CASE CardKeep(r)
  <2> DEFINE x == [q EXCEPT !.pc = "commit"]
  <2>1. x.kind = q.kind /\ x.row = q.row /\ x.order = q.order /\ req' = [req EXCEPT ![r] = x]
    BY <1>1, <1>2 DEF CardKeep, Sessions
  <2>2. q.row.status = "succeeded" \/ q.row.amount = q.order.price
    BY <1>2 DEF CardKeep, Keeps
  <2> HIDE DEF x
  <2> QED  BY <1>1, <2>1, <2>2, OfferStep
<1>3. CASE CardReuse(r)
  BY <1>1, <1>3, OfferCall DEF CardReuse
<1>4. ASSUME CardNew(r), nextId \in Ids, ~Taken(NewKey(q)) PROVE OfferInv'
  <2>1. PICK y \in Sessions : Call(r, y) /\ y.kind = q.kind /\ y.order.price = q.order.price /\ y.row.amount = q.order.price
    BY <1>4, NewPayment
  <2> QED  BY <1>1, <2>1, OfferCall
<1>5. ASSUME CardNew(r), nextId \notin Ids \/ Taken(NewKey(q)) PROVE OfferInv'
  BY <1>1, <1>5, OfferClose DEF CardNew
<1> QED  BY <1>2, <1>3, <1>4, <1>5

(* The commit offers it.                                                   *)
LEMMA OfferCommit ==
  ASSUME PaymentsInv, OfferInv, NEW r \in Requests, Commit(r), PaymentsGrow
  PROVE  OfferInv'
<1> DEFINE q == req[r]
<1>1. /\ q.pc = "commit" /\ q.kind # "repay" /\ payments' = Saved(r) /\ purchase' = q.order /\ q.order.pay = q.pid
      /\ UNCHANGED <<provider, nextId>>
  BY SessionType DEF Commit, At, OfferInv, Ordered, SessionOK
<1>2. payments'[purchase'.pay].status = "succeeded" \/ payments'[purchase'.pay].amount = purchase'.price
  BY <1>1, SavedKeeps, SavedIs DEF OfferInv
<1>3. PICK x : req' = [req EXCEPT ![r] = x] /\ x.kind # "repay" /\ x.pc # "commit"
  <2>1. Idle.kind # "repay" /\ Idle.pc # "commit"
    BY DEF Idle
  <2>2. \A row : Applying(q, row).kind = q.kind /\ Applying(q, row).pc = "apply"
    BY DEF Applying, Idle
  <2> QED  BY <1>1, <2>1, <2>2 DEF Commit
<1>4. req'[r] = x /\ \A s \in Requests \ {r} : req'[s] = req[s]
  BY <1>3, SessionType DEF TypeOK
<1> QED  BY <1>2, <1>3, <1>4 DEF OfferInv

(* A refreshed payment keeps its amount.                                   *)
LEMMA OfferWrite ==
  ASSUME PaymentsInv, OfferInv, NEW r \in Requests, Write(r), PaymentsGrow
  PROVE  OfferInv'
<1> DEFINE q == req[r]
<1>1. q.kind # "repay" /\ purchase' = purchase
  BY DEF Write, OfferInv
<1>2. Close(r) \/ \E row : req' = [req EXCEPT ![r] = Applying(q, row)]
  BY <1>1 DEF Write
<1>3. \A row : Applying(q, row).kind = q.kind /\ Applying(q, row).pc = "apply"
  BY DEF Applying, Idle
<1> QED  BY <1>1, <1>2, <1>3, OfferClose, OfferStep

(* The other steps of a handler.                                           *)
LEMMA OfferOther ==
  ASSUME PaymentsInv, OfferInv, NEW r \in Requests, PaymentsGrow,
         \/ Get(r) \/ GetFails(r) \/ Apply(r) \/ CreateInsert(r) \/ CreateReturns(r)
         \/ PatchFails(r) \/ Cancel(r) \/ CancelFails(r) \/ CreateStart(r)
         \/ \E price \in Prices, edited \in BOOLEAN : Patch(r, price, edited)
  PROVE  OfferInv'
<1> DEFINE q == req[r]
<1>1. q.kind # "repay" /\ q \in Sessions
  BY SessionType DEF OfferInv
<1>2. CASE Get(r) \/ CreateInsert(r) \/ Cancel(r)
  <2>1. PICK x : req' = [req EXCEPT ![r] = x] /\ x.kind = q.kind /\ x.pc # "commit"
    <3>1. CASE Get(r)
      <4> DEFINE x == [q EXCEPT !.row.status = provider[q.row.key].status, !.pc = "write"]
      <4>1. x.kind = q.kind /\ x.pc # "commit"
        BY <1>1 DEF Sessions
      <4> QED  BY <3>1, <4>1 DEF Get
    <3>2. CASE CreateInsert(r)
      <4> DEFINE x == [q EXCEPT !.pc = IF Exists THEN "second" ELSE "start",
                                !.snap = IF Exists THEN Snapshot("create") ELSE Unread]
      <4>1. x.kind = q.kind /\ x.pc # "commit"
        BY <1>1 DEF Sessions
      <4> QED  BY <3>2, <4>1 DEF CreateInsert
    <3>3. CASE Cancel(r)
      <4> DEFINE row == [q.row EXCEPT !.status = "canceled", !.url = FALSE]
                 x == [q EXCEPT !.pc = "card", !.dropped = q.pid, !.row = row]
      <4>1. x.kind = q.kind /\ x.pc # "commit"
        BY <1>1 DEF Sessions
      <4>2. req' = [req EXCEPT ![r] = x]
        BY <3>3 DEF Cancel
      <4> QED  BY <4>1, <4>2
    <3> QED  BY <1>2, <3>1, <3>2, <3>3
  <2>2. purchase' = purchase \/ purchase'.status # "awaiting_payment"
    BY <1>2 DEF Get, CreateInsert, Cancel
  <2> QED  BY <1>1, <2>1, <2>2, OfferStep
<1>3. ASSUME NEW pc \in {"cancel", "card"}, NEW order, Locked(r, pc, order) PROVE OfferInv'
  <2> DEFINE row == Seen(r, order.pay)
             x == [Idle EXCEPT !.pc = pc, !.kind = q.kind, !.order = order,
                     !.pid = IF row.status = "none" THEN 0 ELSE order.pay, !.base = row, !.row = row]
  <2>1. req' = [req EXCEPT ![r] = x] /\ purchase' = purchase
    BY <1>3 DEF Locked
  <2>2. x.kind = q.kind /\ x.pc # "commit"
    BY DEF Idle
  <2> HIDE DEF x
  <2> QED  BY <1>1, <2>1, <2>2, OfferStep
<1>4. CASE CreateStart(r) \/ \E price \in Prices, edited \in BOOLEAN : Patch(r, price, edited)
  BY <1>3, <1>4 DEF CreateStart, Patch
<1>5. CASE GetFails(r) \/ CreateReturns(r) \/ PatchFails(r) \/ CancelFails(r)
  BY <1>5, OfferClose DEF GetFails, CreateReturns, PatchFails, CancelFails
<1>6. CASE Apply(r)
  <2>1. purchase' = purchase \/ purchase'.status # "awaiting_payment"
    BY <1>6, RowType DEF Apply, Orders
  <2> QED  BY <1>6, <2>1, OfferClose DEF Apply
<1> QED  BY <1>2, <1>4, <1>5, <1>6

(* Every step keeps the offer, where nobody repays.                        *)
LEMMA OfferNext ==
  "repay" \notin Kinds /\ PaymentsInv /\ OfferInv /\ [Next]_vars => OfferInv'
<1> SUFFICES ASSUME "repay" \notin Kinds, PaymentsInv, OfferInv, [Next]_vars PROVE OfferInv'
  OBVIOUS
<1>1. PaymentsGrow
  BY GrowStep
<1>2. ASSUME NEW r \in Requests, Step(r) PROVE OfferInv'
  BY <1>1, <1>2, OfferCard, OfferCommit, OfferWrite, OfferOther DEF Step
<1>3. CASE MarkDelivering \/ Finish
  BY <1>3, RowType DEF MarkDelivering, Finish, SetStatus, OfferInv, Orders
<1>4. CASE Crash
  BY <1>4 DEF Crash, OfferInv, Idle
<1>5. CASE UNCHANGED vars \/ \E k \in Keys : Pay(k) \/ ProviderExpires(k)
  BY <1>5 DEF vars, Pay, ProviderExpires, Settle, OfferInv
<1> QED  BY <1>1, <1>2, <1>3, <1>4, <1>5, OfferBegin DEF Next

(* Without the repayment, which locks nothing, what the customer of a      *)
(* purchase awaiting payment is offered is its price, through every edit,  *)
(* whichever handlers know the payment as it was before the lock.          *)
THEOREM OfferIsThePrice == ASSUME "repay" \notin Kinds PROVE Spec => []OfferMatchesPrice
<1>1. Init => OfferInv
  BY DEF Init, OfferInv, Idle, NoOrder
<1>2. PaymentsInv /\ OfferInv /\ [Next]_vars => OfferInv'
  BY OfferNext
<1>3. PaymentsInv /\ OfferInv => OfferMatchesPrice
  <2> SUFFICES ASSUME PaymentsInv, OfferInv, purchase.status = "awaiting_payment", Row(purchase.pay).status = "pending"
               PROVE  Row(purchase.pay).amount = purchase.price
    BY DEF OfferMatchesPrice
  <2>1. purchase.pay # 0 /\ Row(purchase.pay) = payments[purchase.pay]
    BY DEF Row, NoRow
  <2> QED  BY <2>1 DEF OfferInv
<1> QED  BY <1>1, <1>2, <1>3, PaymentsInvariant, PTL DEF Spec

-----------------------------------------------------------------------------
(* One charge.                                                             *)

(* A step that brings no new payment: rows change only where they were     *)
(* stored, no URL appears, and only a live payment is paid.                *)
NoNewPayment ==
  /\ ProviderGrows /\ PaymentsGrow
  /\ \A i \in Ids : payments'[i] = payments[i] \/ (Stored(i) /\ (payments'[i].url => payments[i].url))
  /\ \A k \in Keys : provider'[k].status = "succeeded" => Live(k)

Locking == {"cancel", "card", "commit"}

(* What cannot be charged stays so.                                        *)
LEMMA StillDead ==
  ASSUME PaymentsInv, NoNewPayment, NEW k \in Keys, ~Live(k)
  PROVE  ~Live(k)'
<1> SUFFICES ASSUME Live(k)' PROVE FALSE
  OBVIOUS
<1>1. provider'[k].status # "succeeded"
  BY DEF NoNewPayment
<1>2. PICK i \in Ids : payments'[i].key = k /\ payments'[i].ext /\ payments'[i].url /\ provider'[k].status = "pending"
  BY <1>1 DEF Live
<1>3. payments[i].key = k /\ payments[i].ext /\ payments[i].url
  BY <1>2 DEF NoNewPayment, PaymentsGrow, SamePayment
<1>4. provider[k].status # "none"
  BY <1>3 DEF PaymentsInv, RowsOK, Truthful
<1>5. provider[k].status \notin {"succeeded", "canceled"}
  BY <1>1, <1>2 DEF NoNewPayment, ProviderGrows
<1>6. provider[k].status = "pending"
  BY <1>4, <1>5, SessionType DEF PaymentsInv, TypeOK, Provided
<1> QED  BY <1>3, <1>6 DEF Live

(* The purchase and its payments, in such a step.                          *)
LEMMA PurchaseStays ==
  ASSUME PaymentsInv, PurchaseOK, NoNewPayment, purchase'.pay = purchase.pay,
         \/ purchase'.status = purchase.status
         \/ purchase'.status = "created" /\ purchase.pay = 0
         \/ purchase'.status = "awaiting_payment"
         \/ purchase'.status = "assembling" /\ purchase.pay # 0 /\ payments[purchase.pay].status = "succeeded"
  PROVE  PurchaseOK'
<1>1. \A i \in Ids : payments[i].status = "none" => ~payments[i].ext
  BY DEF PaymentsInv, RowsOK, NoRow
<1>2. \A i \in Ids : Stored(i)' => Stored(i) /\ SamePayment(payments[i], payments'[i])
  BY DEF Stored, NoNewPayment, PaymentsGrow, SamePayment
<1>3. \A i \in Ids : Stored(i) => Stored(i)' /\ SamePayment(payments[i], payments'[i])
  BY DEF Stored, NoNewPayment, PaymentsGrow
<1>4. purchase.pay # 0 => Stored(purchase.pay)
  BY DEF PaymentsInv, RowsOK
<1>5. \A k \in Keys : Live(k)' => Live(k)
  BY StillDead
<1>6. \A k \in Keys : Live(k)' => purchase'.pay # 0 /\ payments'[purchase'.pay].key = k
  BY <1>3, <1>4, <1>5 DEF PurchaseOK, SamePayment, Stored
<1>7. ASSUME NEW k \in Keys, provider'[k].status = "succeeded"
      PROVE  \E i \in Ids : Stored(i)' /\ payments'[i].key = k /\ payments'[i].ext
  <2>1. Live(k)
    BY <1>7 DEF NoNewPayment
  <2>2. \E i \in Ids : Stored(i) /\ payments[i].key = k /\ payments[i].ext
    BY <1>1, <2>1 DEF Live, PurchaseOK, Stored
  <2> QED  BY <1>3, <2>2 DEF SamePayment
<1>8. \A i \in Ids : Stored(i)' => purchase'.pay # 0 /\ payments'[i].key \in {0, i}
  BY <1>2 DEF PurchaseOK, SamePayment
<1>9. \A i, j \in Ids : Stored(i)' /\ Stored(j)' /\ payments'[i].key = payments'[j].key => i = j
  BY <1>2 DEF PurchaseOK, SamePayment
<1>10. purchase'.status \in {"none", "created"} => purchase'.pay = 0
  BY DEF PurchaseOK
<1>11. purchase'.status = "assembling" => purchase'.pay # 0 /\ payments'[purchase'.pay].status = "succeeded"
  BY <1>4 DEF PurchaseOK, NoNewPayment, PaymentsGrow, Stored
<1>12. purchase'.status \notin {"delivering", "finished"}
  BY DEF PurchaseOK
<1> QED  BY <1>6, <1>7, <1>8, <1>9, <1>10, <1>11, <1>12 DEF PurchaseOK, Stored

(* A session that holds the lock, in such a step of another.               *)
LEMMA DeskStays ==
  ASSUME PaymentsInv, NoNewPayment, NEW q, DeskOK(q), purchase'.pay = purchase.pay
  PROVE  DeskOK(q)'
  BY StillDead DEF DeskOK

(* A step of one session that brings no new payment.                       *)
LEMMA ChargeStep ==
  ASSUME PaymentsInv, ChargeInv, NEW r \in Requests, NEW x, req' = [req EXCEPT ![r] = x],
         NoNewPayment, purchase'.pay = purchase.pay, PurchaseOK', DeskOK(x)',
         x.pc \in Locking => lock' = r,
         lock' = lock \/ lock \in {r, NoRequest}
  PROVE  ChargeInv'
<1>1. req'[r] = x /\ \A s \in Requests \ {r} : req'[s] = req[s]
  BY SessionType DEF TypeOK
<1>2. DeskOK(req[r])'
  BY <1>1 DEF DeskOK, Live
<1>3. \A s \in Requests \ {r} : DeskOK(req[s])'
  <2> TAKE s \in Requests \ {r}
  <2>1. PICK q : q = req[s] /\ DeskOK(q)
    BY DEF ChargeInv
  <2>2. DeskOK(q)'
    BY <2>1, DeskStays
  <2> QED  BY <1>1, <2>1, <2>2 DEF DeskOK, Live
<1>4. \A s \in Requests \ {r} : req'[s].pc \in Locking => lock' = s
  BY <1>1, PaymentsAssumption DEF ChargeInv, Locking
<1> QED  BY <1>1, <1>2, <1>3, <1>4 DEF ChargeInv, Locking

(* A session goes on, or ends, without the lock.                           *)
LEMMA ChargeQuiet ==
  ASSUME PaymentsInv, ChargeInv, NEW r \in Requests, NEW x, req' = [req EXCEPT ![r] = x],
         NoNewPayment, purchase'.pay = purchase.pay, x.pc \notin Locking,
         lock' = lock \/ lock = r,
         \/ purchase'.status = purchase.status
         \/ purchase'.status = "created" /\ purchase.pay = 0
         \/ purchase'.status = "awaiting_payment"
         \/ purchase'.status = "assembling" /\ purchase.pay # 0 /\ payments[purchase.pay].status = "succeeded"
  PROVE  ChargeInv'
<1>1. PurchaseOK'
  BY PurchaseStays DEF ChargeInv
<1>2. DeskOK(x)'
  BY DEF DeskOK, Locking
<1> QED  BY <1>1, <1>2, ChargeStep

(* A session ends, and its lock with it.                                   *)
LEMMA ChargeClose ==
  ASSUME PaymentsInv, ChargeInv, NEW r \in Requests, Close(r), NoNewPayment, purchase'.pay = purchase.pay,
         \/ purchase'.status = purchase.status
         \/ purchase'.status = "awaiting_payment"
         \/ purchase'.status = "assembling" /\ purchase.pay # 0 /\ payments[purchase.pay].status = "succeeded"
  PROVE  ChargeInv'
<1>1. req' = [req EXCEPT ![r] = Idle] /\ Idle.pc \notin Locking /\ (lock' = lock \/ lock = r)
  BY DEF Close, Idle, Locking
<1> HIDE DEF Idle
<1> QED  BY <1>1, ChargeQuiet

(* A step that leaves the payments and YooKassa alone.                     *)
LEMMA NothingNew ==
  ASSUME PaymentsInv, UNCHANGED <<payments, provider>>
  PROVE  NoNewPayment
<1>1. ProviderGrows /\ PaymentsGrow
  BY DEF ProviderGrows, PaymentsGrow, SamePayment, Stored
<1>2. \A k \in Keys : provider'[k].status = "succeeded" => Live(k)
  BY DEF Live
<1> QED  BY <1>1, <1>2 DEF NoNewPayment

(* The first step of a handler, which holds no lock.                       *)
LEMMA ChargeBegin ==
  ASSUME PaymentsInv, ChargeInv, "repay" \notin Kinds, NEW r \in Requests, Begin(r)
  PROVE  ChargeInv'
<1>1. ASSUME NEW kind, NEW pc \in {"get", "apply"}, NEW i, Load(r, kind, i, pc) PROVE ChargeInv'
  <2> DEFINE x == [Idle EXCEPT !.pc = pc, !.kind = kind, !.pid = i,
                     !.order = IF kind = "repay" THEN purchase ELSE NoOrder, !.base = Row(i), !.row = Row(i)]
  <2>1. req' = [req EXCEPT ![r] = x] /\ UNCHANGED <<purchase, payments, provider, lock>>
    BY <1>1 DEF Load
  <2>2. x.pc \notin Locking
    BY DEF Idle, Locking
  <2> HIDE DEF x
  <2> QED  BY <2>1, <2>2, NothingNew, ChargeQuiet
<1>2. ASSUME NEW price \in Prices, BeginCreate(r, price) PROVE ChargeInv'
  <2> DEFINE x == [Idle EXCEPT !.kind = "create", !.order.price = price, !.pc = IF Exists THEN "retry" ELSE "insert",
                     !.snap = IF Exists THEN Snapshot("create") ELSE Unread]
  <2>1. req' = [req EXCEPT ![r] = x] /\ UNCHANGED <<purchase, payments, provider, lock>>
    BY <1>2 DEF BeginCreate
  <2>2. x.pc \notin Locking
    BY DEF Idle, Locking
  <2> HIDE DEF x
  <2> QED  BY <2>1, <2>2, NothingNew, ChargeQuiet
<1>3. CASE BeginPatch(r)
  <2> DEFINE x == [Idle EXCEPT !.kind = "patch", !.pc = "patch", !.snap = Snapshot("patch")]
  <2>1. req' = [req EXCEPT ![r] = x] /\ UNCHANGED <<purchase, payments, provider, lock>>
    BY <1>3 DEF BeginPatch
  <2>2. x.pc \notin Locking
    BY DEF Idle, Locking
  <2> HIDE DEF x
  <2> QED  BY <2>1, <2>2, NothingNew, ChargeQuiet
<1>4. ~BeginRepay(r)
  BY DEF BeginRepay, Free
<1>5. ASSUME NEW i \in Ids, BeginRefresh(r, i) \/ BeginWebhook(r, i) PROVE ChargeInv'
  BY <1>1, <1>5 DEF BeginRefresh, BeginWebhook
<1> QED  BY <1>2, <1>3, <1>4, <1>5 DEF Begin

(* The steps of a handler that does not hold the lock of the purchase.     *)
LEMMA ChargeUnlocked ==
  ASSUME PaymentsInv, ChargeInv, NEW r \in Requests,
         \/ Get(r) \/ GetFails(r) \/ Apply(r) \/ CreateInsert(r) \/ CreateReturns(r) \/ PatchFails(r)
  PROVE  ChargeInv'
<1> DEFINE q == req[r]
<1>1. q \in Sessions
  BY SessionType
<1>2. CASE Get(r)
  <2> DEFINE x == [q EXCEPT !.row.status = provider[q.row.key].status, !.pc = "write"]
  <2>1. req' = [req EXCEPT ![r] = x] /\ UNCHANGED <<purchase, payments, provider, lock>>
    BY <1>2 DEF Get
  <2>2. x.pc \notin Locking
    BY <1>1 DEF Sessions, Locking
  <2> HIDE DEF x
  <2> QED  BY <2>1, <2>2, NothingNew, ChargeQuiet
<1>3. CASE CreateInsert(r)
  <2> DEFINE x == [q EXCEPT !.pc = IF Exists THEN "second" ELSE "start",
                            !.snap = IF Exists THEN Snapshot("create") ELSE Unread]
  <2>1. req' = [req EXCEPT ![r] = x] /\ UNCHANGED <<payments, provider, lock>>
    BY <1>3 DEF CreateInsert
  <2>2. x.pc \notin Locking
    BY <1>1 DEF Sessions, Locking
  <2>3. purchase'.pay = purchase.pay /\ (purchase'.status = purchase.status \/ (purchase'.status = "created" /\ purchase.pay = 0))
    BY <1>3 DEF CreateInsert, Exists, ChargeInv, PurchaseOK
  <2> HIDE DEF x
  <2> QED  BY <2>1, <2>2, <2>3, NothingNew, ChargeQuiet
<1>4. CASE GetFails(r) \/ CreateReturns(r) \/ PatchFails(r)
  <2>1. Close(r) /\ UNCHANGED <<purchase, payments, provider>>
    BY <1>4 DEF GetFails, CreateReturns, PatchFails
  <2> QED  BY <2>1, NothingNew, ChargeClose
<1>5. CASE Apply(r)
  <2>1. /\ purchase'.pay = purchase.pay
        /\ \/ purchase'.status = purchase.status
           \/ purchase'.status = "assembling" /\ purchase.pay = q.pid
    BY <1>5, RowType DEF Apply, Applies, Orders
  <2>2. q.pid # 0 /\ payments[q.pid].status = "succeeded"
    BY <1>5, SessionType DEF Apply, At, SessionOK, Stored, Ids
  <2>3. Close(r) /\ UNCHANGED <<payments, provider>>
    BY <1>5 DEF Apply
  <2> QED  BY <2>1, <2>2, <2>3, NothingNew, ChargeClose
<1> QED  BY <1>2, <1>3, <1>4, <1>5

(* A refreshed payment is committed without the lock.                      *)
LEMMA ChargeWrite ==
  ASSUME PaymentsInv, OfferInv, ChargeInv, NEW r \in Requests, Write(r)
  PROVE  ChargeInv'
<1> DEFINE q == req[r]
<1>1. /\ q.kind # "repay" /\ q.pc = "write" /\ payments' = Saved(r) /\ purchase' = purchase
      /\ provider' = provider /\ nextId' = nextId
  BY DEF Write, OfferInv, At
<1>2. Holds(q)
  BY <1>1, SessionType DEF SessionOK
<1>3. NoNewPayment
  <2>1. PaymentsGrow /\ \A i \in Ids : payments'[i] = payments[i] \/ Stored(i)
    BY <1>1, SavedKeeps DEF Making
  <2>2. \A i \in Ids : Stored(i) => (payments'[i].url => payments[i].url)
    BY <1>1, SavedIs
  <2>3. \A k \in Keys : provider'[k].status = "succeeded" => Live(k)
    BY <1>1 DEF Live
  <2> QED  BY <1>1, <2>1, <2>2, <2>3, ProviderStays DEF NoNewPayment
<1>4. CASE Close(r)
  BY <1>1, <1>3, <1>4, ChargeClose
<1>5. ASSUME NEW row, req' = [req EXCEPT ![r] = Applying(q, row)], lock' = lock PROVE ChargeInv'
  <2>1. PICK x : req' = [req EXCEPT ![r] = x] /\ x.pc \notin Locking
    <3>1. Applying(q, row).pc = "apply"
      BY DEF Applying, Idle
    <3> QED  BY <1>5, <3>1 DEF Locking
  <2> QED  BY <1>1, <1>3, <1>5, <2>1, ChargeQuiet
<1> QED  BY <1>1, <1>4, <1>5 DEF Write

(* A session that takes the lock.                                          *)
LEMMA ChargeLocked ==
  ASSUME PaymentsInv, ChargeInv, NEW r \in Requests, NEW pc \in {"cancel", "card"}, NEW order \in Orders,
         Locked(r, pc, order), ReadLatest, order.pay = purchase.pay,
         pc = "card" /\ Row(purchase.pay).status = "pending" => Row(purchase.pay).amount = order.price
  PROVE  ChargeInv'
<1> DEFINE row == Seen(r, order.pay)
           y == [Idle EXCEPT !.pc = pc, !.kind = req[r].kind, !.order = order,
                   !.pid = IF row.status = "none" THEN 0 ELSE order.pay, !.base = row, !.row = row]
<1>1. PICK x : /\ req' = [req EXCEPT ![r] = x] /\ x.pc = pc /\ x.pid = purchase.pay /\ x.row = Row(purchase.pay)
               /\ x.order = order
  <2>1. req' = [req EXCEPT ![r] = y]
    BY DEF Locked
  <2>2. row = Row(purchase.pay)
    BY PaymentsAssumption DEF Locked, ReadLatest
  <2>3. row.status = "none" <=> purchase.pay = 0
    <3>1. purchase.pay \in {0} \cup Ids /\ (purchase.pay # 0 => payments[purchase.pay].status # "none")
      BY RowType DEF Stored
    <3>2. row = IF purchase.pay = 0 THEN NoRow ELSE payments[purchase.pay]
      BY <2>2 DEF Row
    <3> HIDE DEF row
    <3> QED  BY <3>1, <3>2 DEF NoRow
  <2>4. y.pc = pc /\ y.pid = (IF row.status = "none" THEN 0 ELSE order.pay) /\ y.row = row /\ y.order = order
    BY DEF Idle
  <2> HIDE DEF y, row
  <2> QED  BY <2>1, <2>2, <2>3, <2>4
<1>2. lock = NoRequest /\ lock' = r /\ UNCHANGED <<purchase, payments, provider>>
  BY DEF Locked
<1>3. DeskOK(x)'
  BY <1>1, <1>2 DEF DeskOK
<1>4. PurchaseOK'
  BY <1>2, NothingNew, PurchaseStays DEF ChargeInv
<1> QED  BY <1>1, <1>2, <1>3, <1>4, NothingNew, ChargeStep

(* The two handlers that lock the purchase: an open payment for another    *)
(* amount is always canceled first.                                        *)
LEMMA ChargeLocking ==
  ASSUME PaymentsInv, OfferInv, ChargeInv, ReadLatest, NEW r \in Requests,
         CreateStart(r) \/ \E price \in Prices, edited \in BOOLEAN : Patch(r, price, edited)
  PROVE  ChargeInv'
<1>1. purchase.pay = 0 => Row(purchase.pay).status # "pending"
  BY DEF Row, NoRow
<1>2. purchase.pay # 0 => Row(purchase.pay) = payments[purchase.pay]
  BY DEF Row
<1>3. CASE CreateStart(r)
  <2> DEFINE order == [purchase EXCEPT !.status = "awaiting_payment"]
  <2>1. order \in Orders /\ order.pay = purchase.pay /\ order.price = purchase.price /\ Locked(r, "card", order)
    BY <1>3, RowType DEF CreateStart, Orders, PurchaseStatus
  <2>2. Row(purchase.pay).status = "pending" => Row(purchase.pay).amount = order.price
    <3>1. ASSUME Row(purchase.pay).status = "pending"
          PROVE  purchase.pay # 0 /\ payments[purchase.pay].status = "pending" /\ purchase.status = "awaiting_payment"
      <4>1. purchase.pay # 0 /\ payments[purchase.pay].status = "pending"
        BY <1>1, <1>2, <3>1
      <4> QED  BY <4>1, RowType DEF ChargeInv, PurchaseOK, Orders, PurchaseStatus
    <3> QED  BY <1>2, <2>1, <3>1 DEF OfferInv
  <2> HIDE DEF order
  <2> QED  BY <2>1, <2>2, ChargeLocked
<1>4. ASSUME NEW price \in Prices, NEW edited \in BOOLEAN, Patch(r, price, edited) PROVE ChargeInv'
  <2> DEFINE order == [purchase EXCEPT !.price = price, !.status = "awaiting_payment"]
  <2>1. order \in Orders /\ order.pay = purchase.pay /\ order.price = price
    BY RowType DEF Orders, PurchaseStatus
  <2> DEFINE row == Row(purchase.pay)
  <2>2. ASSUME ~Cancels(row, price, edited), row.status = "pending" PROVE row.amount = price
    <3>1. purchase.pay # 0 /\ payments[purchase.pay].status = "pending"
      BY <1>1, <1>2, <2>2
    <3>2. purchase.status = "awaiting_payment"
      BY <3>1, RowType DEF ChargeInv, PurchaseOK, Orders, PurchaseStatus
    <3> QED  BY <2>2, <3>1, <3>2 DEF Cancels, Changed
  <2>3. Locked(r, IF Cancels(row, price, edited) THEN "cancel" ELSE "card", order)
    <3>1. PICK pc : Locked(r, pc, order) /\ pc = IF Cancels(Seen(r, purchase.pay), price, edited) THEN "cancel" ELSE "card"
      BY <1>4 DEF Patch
    <3>2. lock' = r /\ lock # r
      BY <3>1, PaymentsAssumption DEF Locked
    <3>3. Seen(r, purchase.pay) = row
      BY <3>2 DEF ReadLatest
    <3> QED  BY <3>1, <3>3
  <2> HIDE DEF order, row
  <2>4. CASE Cancels(row, price, edited)
    <3>1. Locked(r, "cancel", order)
      BY <2>3, <2>4
    <3> QED  BY <2>1, <3>1, ChargeLocked
  <2>5. CASE ~Cancels(row, price, edited)
    <3>1. Locked(r, "card", order)
      BY <2>3, <2>5
    <3> QED  BY <2>1, <2>2, <2>5, <3>1, ChargeLocked DEF row
  <2> QED  BY <2>4, <2>5
<1> QED  BY <1>3, <1>4

(* Cancelling brings nothing new.                                          *)
LEMMA CancelsNothingNew ==
  ASSUME PaymentsInv, NEW key \in Keys, CancelAt(key), payments' = payments
  PROVE  NoNewPayment
<1>1. PaymentsGrow
  BY DEF PaymentsGrow, SamePayment, Stored
<1>2. \A k \in Keys : provider'[k].status = "succeeded" => provider[k].status = "succeeded"
  BY SessionType DEF CancelAt, PaymentsInv, TypeOK, Provided
<1> QED  BY <1>1, <1>2, CancelGrows DEF NoNewPayment, Live

(* The open payment is canceled, with the lock held.                       *)
LEMMA ChargeCancel ==
  ASSUME PaymentsInv, ChargeInv, NEW r \in Requests, Cancel(r) \/ CancelFails(r)
  PROVE  ChargeInv'
<1> DEFINE q == req[r]
<1>1. q.pc = "cancel" /\ q \in Sessions /\ lock = r /\ DeskOK(q) /\ UNCHANGED <<purchase, payments>> /\ q.row.key \in Keys
  BY SessionType DEF Cancel, CancelFails, At, ChargeInv
<1>2. provider' = provider \/ CancelAt(q.row.key)
  BY DEF Cancel, CancelFails
<1>3. NoNewPayment
  BY <1>1, <1>2, NothingNew, CancelsNothingNew
<1>4. CASE CancelFails(r)
  BY <1>1, <1>3, <1>4, ChargeClose DEF CancelFails
<1>5. CASE Cancel(r)
  <2> DEFINE row == [q.row EXCEPT !.status = "canceled", !.url = FALSE]
             y == [q EXCEPT !.pc = "card", !.dropped = q.pid, !.row = row]
  <2>1. PICK x : req' = [req EXCEPT ![r] = x] /\ x.pc = "card" /\ x.pid = q.pid /\ x.row.status = "canceled"
    <3>1. req' = [req EXCEPT ![r] = y]
      BY <1>5 DEF Cancel
    <3>2. row.status = "canceled"
      BY SessionType DEF PaymentRows
    <3>3. y.pc = "card" /\ y.pid = q.pid /\ y.row = row
      BY <1>1 DEF Sessions
    <3> HIDE DEF y, row
    <3> QED  BY <3>1, <3>2, <3>3
  <2>2. DeskOK(x)'
    BY <1>1, <2>1 DEF DeskOK
  <2>3. PurchaseOK'
    BY <1>1, <1>3, PurchaseStays DEF ChargeInv
  <2>4. lock' = lock
    BY <1>5 DEF Cancel
  <2> QED  BY <1>1, <1>3, <2>1, <2>2, <2>3, <2>4, ChargeStep
<1> QED  BY <1>4, <1>5

(* A session that needs a new payment has nothing left that can be charged.*)
LEMMA AllDead ==
  ASSUME PaymentsInv, ChargeInv, NEW r \in Requests, CardNew(r)
  PROVE  \A k \in Keys : ~Live(k)
<1> DEFINE q == req[r]
           i == purchase.pay
<1> SUFFICES ASSUME NEW k \in Keys, Live(k) PROVE FALSE
  OBVIOUS
<1>1. q.pc = "card" /\ q.pid = i /\ i # 0 /\ payments[i].key = k /\ DeskOK(q)
  BY DEF CardNew, At, ChargeInv, DeskOK, PurchaseOK
<1>2. Holds(q) /\ q.row \in PaymentRows /\ i \in Ids
  BY <1>1, SessionType DEF SessionOK, Lacks, Holds, Stored
<1>3. q.row.key = k /\ q.row.ext = payments[i].ext /\ Truthful(q.row) /\ q.row.status # "none" /\ Stored(i)
  BY <1>1, <1>2 DEF Holds, SamePayment
<1>4. q.row.status # "succeeded" /\ q.row.status # "pending"
  BY <1>1 DEF CardNew, Keeps, DeskOK
<1>5. CASE q.row.status = "canceled"
  BY <1>3, <1>5 DEF Live, Truthful
<1>6. CASE q.row.status = "failed" /\ q.row.ext
  <2>1. ~provider[k].url
    BY <1>3, <1>6 DEF Truthful
  <2>2. \A j \in Ids : payments[j].key = k => ~payments[j].url
    BY <2>1 DEF PaymentsInv, RowsOK, Truthful
  <2> QED  BY <2>1, <2>2 DEF Live, PaymentsInv, RowsOK
<1>7. CASE ~q.row.ext
  <2>1. PICK j \in Ids : payments[j].key = k /\ payments[j].ext
    BY DEF Live, ChargeInv, PurchaseOK
  <2>2. Stored(j)
    BY <2>1 DEF PaymentsInv, RowsOK, NoRow, Stored
  <2>3. j = i
    BY <1>1, <1>2, <1>3, <2>1, <2>2 DEF ChargeInv, PurchaseOK
  <2> QED  BY <1>3, <1>7, <2>1, <2>3
<1> QED  BY <1>2, <1>3, <1>4, <1>5, <1>6, <1>7 DEF PaymentRows, PaymentStatus

(* Asking YooKassa for a payment brings nothing that can be charged yet.   *)
LEMMA AcceptsNothingNew ==
  ASSUME PaymentsInv, NEW key \in Keys, NEW amount \in Prices \cup {0},
         provider' = provider \/ \E url \in BOOLEAN : Accepts(key, amount, url),
         payments' = payments
  PROVE  NoNewPayment
<1>1. PaymentsGrow
  BY DEF PaymentsGrow, SamePayment, Stored
<1>2. ProviderGrows
  BY ProviderStays, AcceptsGrows
<1>3. \A k \in Keys : provider'[k].status = "succeeded" => provider[k].status = "succeeded"
  <2> SUFFICES ASSUME NEW url \in BOOLEAN, Accepts(key, amount, url), NEW k \in Keys, provider'[k].status = "succeeded"
               PROVE  provider[k].status = "succeeded"
    OBVIOUS
  <2>1. provider' = [provider EXCEPT ![key] =
          IF provider[key].status = "none" THEN [status |-> "pending", amount |-> amount, url |-> url] ELSE provider[key]]
    BY DEF Accepts
  <2>2. CASE provider[key].status = "none"
    BY <2>1, <2>2 DEF PaymentsInv, TypeOK
  <2>3. CASE provider[key].status # "none"
    BY <2>1, <2>3 DEF PaymentsInv, TypeOK
  <2> QED  BY <2>2, <2>3
<1> QED  BY <1>1, <1>2, <1>3 DEF NoNewPayment, Live

(* The call to POST /payments, with the lock.                              *)
LEMMA ChargeCall ==
  ASSUME PaymentsInv, ChargeInv, NEW r \in Requests, NEW q \in Sessions, Call(r, q),
         UNCHANGED <<purchase, payments>>, lock = r,
         q.base.status # "none" => q.pid = purchase.pay,
         q.base.status = "none" =>
           /\ \A k \in Keys : ~Live(k)
           /\ q.row.key \in {0, q.pid}
           /\ q.row.key = 0 => purchase.pay = 0
  PROVE  ChargeInv'
<1>1. q.row.key \in Keys /\ q.order.price \in Prices \cup {0}
  BY DEF Sessions, PaymentRows, Orders
<1>2. NoNewPayment
  BY <1>1, CallOutcome, AcceptsNothingNew
<1>3. CASE Close(r)
  BY <1>2, <1>3, ChargeClose
<1>4. ASSUME NEW x, req' = [req EXCEPT ![r] = x], lock' = lock, x.pc = "commit", x.pid = q.pid,
             x.base = q.base, x.row.key = q.row.key
      PROVE  ChargeInv'
  <2>1. \A k \in Keys : ~Live(k) => ~Live(k)'
    BY <1>2, StillDead
  <2>2. DeskOK(x)'
    BY <1>4, <2>1 DEF DeskOK
  <2>3. PurchaseOK'
    BY <1>2, PurchaseStays DEF ChargeInv
  <2> QED  BY <1>2, <1>4, <2>2, <2>3, ChargeStep
<1> QED  BY <1>3, <1>4, CallOutcome

(* The card payment of a locked purchase.                                  *)
LEMMA ChargeCard ==
  ASSUME PaymentsInv, ChargeInv, NEW r \in Requests, CardKeep(r) \/ CardReuse(r) \/ CardNew(r)
  PROVE  ChargeInv'
<1> DEFINE q == req[r]
<1>1. /\ q.pc = "card" /\ q \in Sessions /\ lock = r /\ q.pid = purchase.pay /\ (Holds(q) \/ Lacks(q))
      /\ UNCHANGED <<purchase, payments>>
  BY SessionType DEF CardKeep, CardReuse, CardNew, At, ChargeInv, DeskOK, SessionOK
<1>2. CASE CardKeep(r)
  <2>1. PICK x : req' = [req EXCEPT ![r] = x] /\ x.pc = "commit" /\ x.pid = q.pid /\ x.base = q.base
    <3> DEFINE y == [q EXCEPT !.pc = "commit"]
    <3>1. req' = [req EXCEPT ![r] = y]
      BY <1>2 DEF CardKeep
    <3>2. y.pc = "commit" /\ y.pid = q.pid /\ y.base = q.base
      BY <1>1 DEF Sessions
    <3> HIDE DEF y
    <3> QED  BY <3>1, <3>2
  <2>2. q.base.status # "none" /\ UNCHANGED <<provider, lock>>
    BY <1>1, <1>2 DEF CardKeep, Keeps, Holds, Lacks, NoRow
  <2>3. DeskOK(x)'
    BY <1>1, <2>1, <2>2 DEF DeskOK
  <2>4. PurchaseOK'
    BY <1>1, <2>2, NothingNew, PurchaseStays DEF ChargeInv
  <2> QED  BY <1>1, <2>1, <2>2, <2>3, <2>4, NothingNew, ChargeStep
<1>3. CASE CardReuse(r)
  <2>1. q.base.status # "none" /\ Call(r, q)
    BY <1>1, <1>3 DEF CardReuse, Holds, Lacks, NoRow
  <2> QED  BY <1>1, <2>1, ChargeCall
<1>4. ASSUME CardNew(r), nextId \in Ids, ~Taken(NewKey(q)) PROVE ChargeInv'
  <2>1. PICK y \in Sessions : /\ Call(r, y) /\ y.pid = nextId /\ y.base = NoRow
                              /\ y.row.key = NewKey(q)
    BY <1>4, NewPayment
  <2>2. \A k \in Keys : ~Live(k)
    BY <1>4, AllDead
  <2>3. y.base.status = "none" /\ y.row.key \in {0, y.pid} /\ (y.row.key = 0 => purchase.pay = 0)
    BY <1>1, <1>4, <2>1 DEF NoRow, Ids, NewKey
  <2> QED  BY <1>1, <2>1, <2>2, <2>3, ChargeCall
<1>5. ASSUME CardNew(r), nextId \notin Ids \/ Taken(NewKey(q)) PROVE ChargeInv'
  <2>1. Close(r) /\ provider' = provider
    BY <1>5 DEF CardNew
  <2> QED  BY <1>1, <2>1, NothingNew, ChargeClose
<1> QED  BY <1>2, <1>3, <1>4, <1>5

(* The commit of a new payment: it is the only live one from now on.       *)
LEMMA ChargeNewPayment ==
  ASSUME PaymentsInv, ChargeInv, NEW r \in Requests, req[r].pc = "commit", req[r].base.status = "none",
         payments' = Saved(r), UNCHANGED <<provider, nextId>>,
         purchase' = req[r].order, req[r].order.pay = req[r].pid, req[r].order.status = "awaiting_payment"
  PROVE  PurchaseOK'
<1> DEFINE q == req[r]
           j == req[r].pid
<1>1. /\ j \in Ids /\ j # 0 /\ ~Stored(j) /\ \A k \in Keys : ~Live(k)
      /\ q.row.key \in {0, j} /\ (q.row.key = 0 => purchase.pay = 0)
  BY SessionType DEF SessionOK, Holds, Makes, Stored, NoRow, ChargeInv, DeskOK, Ids
<1>2. /\ payments'[j].key = q.row.key /\ purchase'.pay = j /\ purchase'.status = "awaiting_payment"
      /\ payments'[j].status # "none"
  BY SavedIs, SavedKeeps
<1>3. \A i \in Ids \ {j} : payments'[i] = payments[i] \/ (Stored(i) /\ (payments'[i].url => payments[i].url))
  BY SavedIs, SavedKeeps
<1>4. PaymentsGrow
  BY SavedKeeps
<1>5. \A i \in Ids \ {j} : payments'[i].status # "none" => Stored(i) /\ SamePayment(payments[i], payments'[i])
  BY <1>3, <1>4 DEF PaymentsGrow, SamePayment, Stored
<1>6. ASSUME NEW k \in Keys, Live(k)' PROVE payments'[j].key = k
  <2>1. provider'[k].status # "succeeded"
    BY <1>1 DEF Live
  <2>2. PICK i \in Ids : payments'[i].key = k /\ payments'[i].ext /\ payments'[i].url /\ provider'[k].status = "pending"
    BY <1>6, <2>1 DEF Live
  <2>3. CASE i # j
    <3>1. payments[i].key = k /\ payments[i].ext /\ payments[i].url
      BY <1>3, <1>4, <2>2, <2>3 DEF PaymentsGrow, SamePayment
    <3> QED  BY <1>1, <2>2, <3>1 DEF Live
  <2> QED  BY <2>2, <2>3
<1>7. \A k \in Keys : provider'[k].status # "succeeded"
  BY <1>1 DEF Live
<1>8. \A i \in Ids : payments'[i].status # "none" => payments'[i].key \in {0, i}
  BY <1>1, <1>2, <1>5 DEF ChargeInv, PurchaseOK, SamePayment
<1>9. ASSUME NEW i \in Ids \ {j}, payments'[i].status # "none" PROVE payments'[i].key # payments'[j].key
  <2>1. purchase.pay # 0 /\ payments'[i].key \in {0, i} /\ i # 0
    BY <1>5, <1>8, <1>9 DEF ChargeInv, PurchaseOK, Ids
  <2> QED  BY <1>1, <1>2, <1>9, <2>1
<1>10. \A i, m \in Ids : payments'[i].status # "none" /\ payments'[m].status # "none" /\ payments'[i].key = payments'[m].key
         => i = m
  <2> SUFFICES ASSUME NEW i \in Ids, NEW m \in Ids, payments'[i].status # "none", payments'[m].status # "none",
                      payments'[i].key = payments'[m].key, i # m
               PROVE  FALSE
    OBVIOUS
  <2>1. CASE i = j \/ m = j
    BY <1>9, <2>1
  <2>2. CASE i # j /\ m # j
    BY <1>5, <2>2 DEF ChargeInv, PurchaseOK, SamePayment
  <2> QED  BY <2>1, <2>2
<1> QED  BY <1>1, <1>2, <1>6, <1>7, <1>8, <1>10 DEF PurchaseOK, Stored

(* The commit releases the lock.                                           *)
LEMMA ChargeCommit ==
  ASSUME PaymentsInv, OfferInv, ChargeInv, NEW r \in Requests, Commit(r)
  PROVE  ChargeInv'
<1> DEFINE q == req[r]
<1>1. /\ q.pc = "commit" /\ q.kind # "repay" /\ payments' = Saved(r) /\ purchase' = q.order
      /\ q.order.pay = q.pid /\ q.order.status = "awaiting_payment"
      /\ UNCHANGED <<provider, nextId>> /\ lock = r /\ lock' = NoRequest
  BY SessionType DEF Commit, At, OfferInv, Ordered, SessionOK, ChargeInv
<1>2. PICK x : req' = [req EXCEPT ![r] = x] /\ x.pc \notin Locking
  <2>1. Idle.pc \notin Locking
    BY DEF Idle, Locking
  <2>2. \A row : Applying(q, row).pc \notin Locking
    BY DEF Applying, Idle, Locking
  <2> QED  BY <2>1, <2>2 DEF Commit
<1>3. CASE q.base.status # "none"
  <2>1. q.pid = purchase.pay
    BY <1>1, <1>3 DEF ChargeInv, DeskOK
  <2>2. PaymentsGrow /\ \A i \in Ids : payments'[i] = payments[i] \/ Stored(i)
    BY <1>1, <1>3, SavedKeeps DEF Making
  <2>3. \A i \in Ids : Stored(i) => (payments'[i].url => payments[i].url)
    BY <1>1, SavedIs
  <2>4. \A k \in Keys : provider'[k].status = "succeeded" => Live(k)
    BY <1>1 DEF Live
  <2>5. NoNewPayment
    BY <1>1, <2>2, <2>3, <2>4, ProviderStays DEF NoNewPayment
  <2> QED  BY <1>1, <1>2, <2>1, <2>5, ChargeQuiet
<1>4. CASE q.base.status = "none"
  <2>1. PurchaseOK'
    BY <1>1, <1>4, ChargeNewPayment
  <2>2. req'[r] = x /\ \A s \in Requests \ {r} : req'[s] = req[s] /\ req[s].pc \notin Locking
    BY <1>1, <1>2, SessionType DEF TypeOK, ChargeInv, Locking
  <2>3. \A s \in Requests : req'[s].pc \notin Locking
    BY <1>2, <2>2
  <2> QED  BY <2>1, <2>3 DEF ChargeInv, DeskOK, Locking
<1> QED  BY <1>3, <1>4

(* The steps outside the handlers.                                         *)
LEMMA ChargeOutside ==
  ASSUME PaymentsInv, ChargeInv, UNCHANGED vars \/ \E k \in Keys : Pay(k) \/ ProviderExpires(k)
  PROVE  ChargeInv'
<1>1. UNCHANGED <<purchase, payments, req, lock>>
  BY DEF vars, Pay, ProviderExpires, Settle
<1>2. NoNewPayment
  <2>1. CASE UNCHANGED vars
    BY <2>1, NothingNew DEF vars
  <2>2. ASSUME NEW k \in Keys, Pay(k) \/ ProviderExpires(k) PROVE NoNewPayment
    <3>1. PICK status \in {"succeeded", "canceled"} :
            /\ provider' = [provider EXCEPT ![k].status = status] /\ provider[k].status = "pending"
            /\ status = "succeeded" => Live(k)
      BY <2>2 DEF Pay, ProviderExpires, Payable, Settle, Live
    <3>2. ProviderGrows
      BY <3>1, SessionType DEF ProviderGrows, PaymentsInv, TypeOK, Provided
    <3>3. PaymentsGrow
      BY <1>1 DEF PaymentsGrow, SamePayment, Stored
    <3>4. \A j \in Keys : provider'[j].status = "succeeded" => Live(j)
      BY <3>1, SessionType DEF PaymentsInv, TypeOK, Provided, Live
    <3> QED  BY <1>1, <3>2, <3>3, <3>4 DEF NoNewPayment
  <2> QED  BY <2>1, <2>2
<1>3. PurchaseOK'
  BY <1>1, <1>2, PurchaseStays DEF ChargeInv
<1>4. ASSUME NEW s \in Requests PROVE DeskOK(req[s])'
  <2>1. PICK q : q = req[s] /\ DeskOK(q)
    BY DEF ChargeInv
  <2>2. DeskOK(q)'
    BY <1>1, <1>2, <2>1, DeskStays
  <2> QED  BY <1>1, <2>1, <2>2 DEF DeskOK, Live
<1> QED  BY <1>1, <1>3, <1>4 DEF ChargeInv

(* A restart releases the lock.                                            *)
LEMMA ChargeCrash ==
  ASSUME PaymentsInv, ChargeInv, Crash
  PROVE  ChargeInv'
<1>1. PurchaseOK'
  BY NothingNew, PurchaseStays DEF Crash, ChargeInv
<1>2. \A r \in Requests : req'[r].pc \notin Locking
  BY DEF Crash, Idle, Locking
<1> QED  BY <1>1, <1>2 DEF ChargeInv, DeskOK, Locking

(* Every step keeps it, where nobody repays or moves an unpaid purchase.   *)
LEMMA ChargeNext ==
  ASSUME Kinds \subseteq {"create", "refresh", "webhook", "patch"}, PaymentsInv, OfferInv, ChargeInv,
         [Next /\ ReadLatest]_vars
  PROVE  ChargeInv'
<1>1. "repay" \notin Kinds /\ ~MarkDelivering /\ ~Finish
  BY DEF MarkDelivering, Finish, SetStatus
<1>2. ASSUME NEW r \in Requests, Step(r), ReadLatest PROVE ChargeInv'
  BY <1>2, ChargeUnlocked, ChargeWrite, ChargeLocking, ChargeCancel, ChargeCard, ChargeCommit DEF Step
<1> QED  BY <1>1, <1>2, ChargeBegin, ChargeOutside, ChargeCrash DEF Next

(* The customer is charged at most once, if whoever has waited for the lock *)
(* of the purchase reads its payment as it is then (on SQLite, not on MySQL*)
(* at its default isolation level), and as long as staff do not move an    *)
(* unpaid purchase by hand and nobody uses the unlocked repayment: through *)
(* edits, lost answers, refusals, restarts and notifications, whatever is  *)
(* payable or paid at YooKassa is the payment the purchase refers to.      *)
THEOREM OneCharge ==
  ASSUME Kinds \subseteq {"create", "refresh", "webhook", "patch"} PROVE AllReadLatest => []ChargedAtMostOnce
<1>1. Init => OfferInv /\ ChargeInv
  <2>1. Init => OfferInv
    BY DEF Init, OfferInv, Idle, NoOrder
  <2>2. Init => ChargeInv
    BY DEF Init, ChargeInv, PurchaseOK, DeskOK, Idle, NoOrder, NoRow, Live, Stored
  <2> QED  BY <2>1, <2>2
<1>2. PaymentsInv /\ OfferInv /\ ChargeInv /\ [Next /\ ReadLatest]_vars =>
        PaymentsInv' /\ OfferInv' /\ ChargeInv'
  <2>1. [Next /\ ReadLatest]_vars => [Next]_vars
    OBVIOUS
  <2> QED  BY <2>1, PaymentsNext, OfferNext, ChargeNext
<1>3. ChargeInv => ChargedAtMostOnce
  <2> SUFFICES ASSUME ChargeInv PROVE ChargedAtMostOnce
    OBVIOUS
  <2> DEFINE Paid == {k \in Keys : provider[k].status = "succeeded"}
  <2>1. \A k \in Paid : k = payments[purchase.pay].key
    BY DEF ChargeInv, PurchaseOK, Live
  <2>2. CASE Paid = {}
    BY <2>2, FS_EmptySet DEF ChargedAtMostOnce
  <2>3. ASSUME NEW k \in Paid PROVE ChargedAtMostOnce
    <3>1. Paid = {k}
      BY <2>1
    <3>2. Cardinality({k}) = 1
      BY FS_Singleton
    <3> QED  BY <3>1, <3>2 DEF ChargedAtMostOnce
  <2> QED  BY <2>2, <2>3
<1> QED  BY <1>1, <1>2, <1>3, PaymentsInit, PTL DEF AllReadLatest

=============================================================================
