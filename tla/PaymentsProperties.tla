------------------------ MODULE PaymentsProperties ------------------------
(* What Payments promises.                                                 *)
EXTENDS Payments

PaymentRows ==
  [status : PaymentStatus \cup {"none"}, amount : Prices \cup {0}, key : Keys,
   ext : BOOLEAN, url : BOOLEAN]

Orders == [status : PurchaseStatus \cup {"none"}, pay : {0} \cup Ids, price : Prices \cup {0}]

Provided == [status : {"none", "pending", "succeeded", "canceled"}, amount : Prices \cup {0}, url : BOOLEAN]

Sessions ==
  [pc : {"idle", "insert", "retry", "second", "start", "patch", "cancel", "card", "commit", "get", "write", "apply"},
   kind : AllKinds \cup {"none"}, snap : [Ids -> PaymentRows], pid : {0} \cup Ids, order : Orders,
   base : PaymentRows, row : PaymentRows, dropped : {0} \cup Ids]

\* Type correctness of the tables, of YooKassa's and of what the sessions hold.
TypeOK ==
  /\ purchase \in Orders
  /\ payments \in [Ids -> PaymentRows]
  /\ provider \in [Keys -> Provided]
  /\ nextId \in 1 .. MaxPayments + 1
  /\ lock \in Requests \cup {NoRequest}
  /\ req \in [Requests -> Sessions]
  /\ acked \subseteq Ids
  /\ crashes \in 0 .. MaxCrashes

\* A committed payment that is open is one YooKassa knows, for the same amount:
\* no crash, refusal or lost answer between the flush of the new row and the
\* commit (purchases.py:480-527) leaves a row the customer waits for in vain.
\* (A payment that a repayment makes beside another is one YooKassa knows, too.)
\* So the branch of _cancel_payment_for_purchase that cancels a payment without
\* an external id (purchases.py:439-443) is never taken.
PendingIsRegistered ==
  \A i \in Ids : payments[i].status = "pending" =>
    /\ payments[i].ext
    /\ provider[payments[i].key].status # "none"
    /\ provider[payments[i].key].amount = payments[i].amount

\* A payment once stored as succeeded stays succeeded, although a webhook, a
\* poll and a repayment of the same row write it without a lock, each from its
\* own older copy (payment_sync.py:44-51, api/yookassa.py:64-75).
ConfirmedIsFinal ==
  [][\A i \in Ids : payments[i].status = "succeeded" => payments'[i].status = "succeeded"]_vars

\* The purchase goes to assembly only when the payment it refers to at that
\* moment is paid at YooKassa: a notification for a superseded payment does not
\* move it (payment_sync.py:19-23).
AdvanceOnlyWhenPaid ==
  [][purchase.status # "assembling" /\ purchase'.status = "assembling" =>
       /\ purchase'.pay # 0
       /\ provider[payments[purchase'.pay].key].status = "succeeded"]_vars

\* Without the unlocked repayment, what the customer of a purchase awaiting
\* payment is offered to pay is its price, whatever was edited in between
\* (purchases.py:763-776).  It holds also when the payment is read as of before
\* the lock, since the amount of a row never changes.
OfferMatchesPrice ==
  purchase.status = "awaiting_payment" /\ Row(purchase.pay).status = "pending" =>
    Row(purchase.pay).amount = purchase.price

-----------------------------------------------------------------------------
(* The row lock serializes the edits and the repeated creations, but one    *)
(* that has waited for it knows the payment as its transaction first read  *)
(* it, before the lock: in DEV that is the latest row, in production it    *)
(* need not be.                                                            *)

\* Whoever gets the lock sees the payment as it is then.
ReadLatest ==
  \A r \in Requests : lock # r /\ lock' = r => Seen(r, purchase.pay) = Row(purchase.pay)

AllReadLatest == Init /\ [][Next /\ ReadLatest]_vars

\* The customer is not charged twice: without the unlocked repayment and the
\* manual changes of the status of an unpaid purchase, an edit cancels the open
\* payment at YooKassa before another one is created (purchases.py:775-776).
\* Under AllReadLatest: an edit that began before a notification was stored may
\* find the purchase in assembly and yet the payment open, and a repeated
\* creation an edited price beside it; each asks for another payment then
\* (violated by Spec).
ChargedAtMostOnce ==
  Cardinality({k \in Keys : provider[k].status = "succeeded"}) <= 1

\* A purchase whose current payment is paid at YooKassa leaves
\* awaiting_payment in the end (or refers to another payment).
PaidIsApplied ==
  \A i \in Ids :
    purchase.pay = i /\ provider[payments[i].key].status = "succeeded" ~>
      purchase.pay # i \/ purchase.status # "awaiting_payment"
=============================================================================
