------------------------------ MODULE Checkout ------------------------------
(***************************************************************************)
(* What a customer is charged for and what is declared to CDEK: the items  *)
(* and totals of a purchase with a CDEK delivery, the receipt of a payment *)
(* (api/purchases.py) and paid_items (services/paid_items.py), while the   *)
(* catalog's prices, names and offers change under the purchase.           *)
(*                                                                         *)
(* A handler is one step from the commit that it ends with; Payments has   *)
(* what comes between.  The offers an import leaves are those of           *)
(* CatalogImport: one that is archived is inactive.                        *)
(***************************************************************************)
EXTENDS Naturals, FiniteSetsExt, SequencesExt

CONSTANTS
  Products,     \* ids of product variants
  Names,        \* the names each of them can have, its first one first
  FirstPrices,  \* their prices at first
  Prices,       \* amounts of offers, in units of 1/Unit rubles
  Unit,
  Contacts,     \* the e-mail addresses of a purchase
  MaxQuantity,  \* bound: of one item, which the schemas do not bound
  ShipLimit,    \* 999: the largest quantity that can be declared
  MaxPayments,  \* bound: rows of the payments table
  MaxChanges    \* bound: changes of the catalog

ASSUME CheckoutAssumption ==
  /\ Products \subseteq Nat \ {0} /\ IsFiniteSet(Products)
  /\ DOMAIN Names = Products /\ \A p \in Products : 1 \in DOMAIN Names[p]
  \* Variants may come to have the same name, but do not exchange their first
  \* ones, neither two of them nor several in a circle.
  /\ \A variants \in SUBSET Products :
       variants # {} => \E p \in variants : \A q \in variants \ {p} : Names[p][1] \notin ToSet(Names[q])
  /\ Prices \subseteq Nat
  /\ FirstPrices \in [Products -> Prices]
  /\ {Unit, MaxQuantity, ShipLimit, MaxPayments} \subseteq Nat \ {0}
  /\ MaxChanges \in Nat

VARIABLES
  catalog,   \* per variant: name, and price and active of its offer
  purchase,  \* the purchases row
  payments,  \* the payments table, from the oldest
  declared,  \* what has been sent to CDEK: the payment and its items
  changes

vars == <<catalog, purchase, payments, declared, changes>>

-----------------------------------------------------------------------------
(* Items, totals and receipts.                                             *)

\* Quantities by variant; a variant that is not in the purchase has 0.
Items == {q \in [Products -> 0 .. MaxQuantity] : \E p \in Products : q[p] > 0}

Chosen(items) == {p \in Products : items[p] > 0}

\* _primary_offer raises without an active offer.
Priced(items) == \A p \in Chosen(items) : catalog[p].active

\* _price_int: the amount is a whole number of rubles.
Whole(amount) == amount % Unit = 0

\* The order in which a purchase keeps its variants.
Ordered == [variants \in SUBSET Products |-> SetToSeq(variants)]

Ids(items) == Ordered[Chosen(items)]

Lines(items) ==
  LET ids == Ids(items)
  IN  [i \in DOMAIN ids |->
         [name |-> catalog[ids[i]].name, quantity |-> items[ids[i]], cost |-> catalog[ids[i]].price]]

LinesTotal(lines) == MapThenSumSet(LAMBDA i : lines[i].quantity * lines[i].cost, DOMAIN lines)

Total(items) == LinesTotal(Lines(items))

\* _build_receipt_for_purchase refuses a total that is not the payment's.
Receivable(order) == Priced(order.items) /\ Total(order.items) = order.price

-----------------------------------------------------------------------------
(* Payments.                                                               *)

NoPayment == [status |-> "none", amount |-> 0, lines |-> <<>>, email |-> 0, url |-> FALSE,
              ids |-> <<>>, older |-> FALSE, sold |-> <<>>]

PaymentOf(order) == IF order.pay = 0 THEN NoPayment ELSE payments[order.pay]

\* (mutant) The ids in another order than the lines.
NewPaymentDisordered(order, url) ==
  [status |-> "pending", amount |-> order.price, lines |-> Lines(order.items), email |-> order.contact,
   url |-> url, ids |-> Reverse(Ids(order.items)), older |-> FALSE, sold |-> Ids(order.items)]

\* lines and email are the receipt YooKassa has, and request_payload except in
\* the oldest payments; ids is receipt_item_variant_ids, empty in older payments.
\* sold is the variants the customer ordered, which the program may not know.
NewPayment(order, url) ==
  [status |-> "pending", amount |-> order.price, lines |-> Lines(order.items), email |-> order.contact,
   url |-> url, ids |-> Ids(order.items), older |-> FALSE, sold |-> Ids(order.items)]

\* What YooKassa answers to a payment prepared for the order: it is open, or
\* refused, which is committed as failed.
Answers(order) ==
  {NewPayment(order, url) : url \in BOOLEAN} \cup {[NewPayment(order, FALSE) EXCEPT !.status = "failed"]}

Keeps(payment, order) ==
  \/ payment.status = "succeeded"
  \/ payment.status = "pending" /\ payment.amount = order.price /\ payment.url

\* The same idempotency key again: YooKassa repeats its answer if the request is
\* the same, and refuses another one.
Repeats(payment, order) ==
  LET again == NewPayment(order, TRUE)
  IN  IF again.lines = payment.lines /\ again.email = payment.email THEN {again}
      ELSE {[NewPayment(order, FALSE) EXCEPT !.status = "failed"]}

\* A payment that succeeded before the purchase was saved is applied to it.
Advanced(order, payment) ==
  IF payment.status = "succeeded" /\ order.status \in {"created", "awaiting_payment"}
    THEN [order EXCEPT !.status = "assembling"] ELSE order

\* _create_card_payment_for_purchase, with rows for the payments table, the
\* commit and apply_successful_payment.
Card(order, rows) ==
  LET payment == IF order.pay = 0 THEN NoPayment ELSE rows[order.pay]
  IN  \/ /\ Keeps(payment, order)
         /\ payments' = rows
         /\ purchase' = Advanced(order, payment)
      \/ /\ ~Keeps(payment, order)
         /\ Receivable(order)
         /\ payment.status = "pending" /\ payment.amount = order.price
         /\ \E answer \in Repeats(payment, order) : payments' = [rows EXCEPT ![order.pay] = answer]
         /\ purchase' = order
      \/ /\ ~Keeps(payment, order)
         /\ Receivable(order)
         /\ payment.status = "pending" => payment.amount # order.price
         /\ Len(rows) < MaxPayments
         /\ \E answer \in Answers(order) : payments' = Append(rows, answer)
         /\ purchase' = [order EXCEPT !.pay = Len(rows) + 1]

-----------------------------------------------------------------------------
(* The handlers of api/purchases.py.                                       *)

\* POST: the total of the request must be that of the catalog.  The purchase is
\* committed before its payment is started.
Create(items, contact) ==
  /\ purchase.status = "none"
  /\ Priced(items) /\ Whole(Total(items))
  /\ purchase' = [status |-> "created", pay |-> 0, items |-> items, price |-> Total(items), contact |-> contact]
  /\ UNCHANGED <<catalog, payments, declared, changes>>

\* _start_purchase_payment, at once or for a request repeated with its key.
Start ==
  /\ purchase.status \in {"created", "awaiting_payment"}
  /\ Card([purchase EXCEPT !.status = "awaiting_payment"], payments)
  /\ UNCHANGED <<catalog, declared, changes>>

\* POST by-uuid/payment, for a payment that YooKassa does not report as paid.
Repay ==
  /\ purchase.status = "awaiting_payment"
  /\ PaymentOf(purchase).status # "succeeded"
  /\ Card(purchase, payments)
  /\ UNCHANGED <<catalog, declared, changes>>

\* (mutant) Only the amount of the payment counts.
ChangedAmount(order) == order.pay # 0 /\ PaymentOf(order).amount # order.price

\* The contents as the receipt has them, both at the prices of the day, or the
\* amount of the payment.
Changed(order) ==
  \/ order.items # purchase.items
  \/ order.contact # purchase.contact
  \/ order.pay # 0 /\ PaymentOf(order).amount # order.price

\* _cancel_payment_for_purchase.
Canceled(order) ==
  IF purchase.status = "awaiting_payment" /\ Changed(order) /\ PaymentOf(order).status = "pending"
    THEN [payments EXCEPT ![order.pay].status = "canceled", ![order.pay].url = FALSE] ELSE payments

\* PATCH: every price must be a whole number, of the old items and of the new.
Edit(items, contact) ==
  /\ purchase.status # "none"
  /\ Priced(items) /\ Priced(purchase.items)
  /\ \A p \in Chosen(items) \cup Chosen(purchase.items) : Whole(catalog[p].price)
  /\ LET order == [purchase EXCEPT !.items = items, !.contact = contact, !.price = Total(items)]
     IN  /\ ~(purchase.status = "awaiting_payment" /\ Changed(order) /\ PaymentOf(order).status = "succeeded")
         /\ Card([order EXCEPT !.status = "awaiting_payment"], Canceled(order))
  /\ UNCHANGED <<catalog, declared, changes>>

-----------------------------------------------------------------------------
(* paid_items.                                                             *)

NoId == 0

\* Older receipts have no ids: a line belongs to the variant of the purchase that
\* has its name now.
Matched(payment) ==
  [i \in DOMAIN payment.lines |->
     LET named == {p \in Chosen(purchase.items) : catalog[p].name = payment.lines[i].name}
     IN  IF named = {} THEN NoId ELSE CHOOSE p \in named : TRUE]

\* "Cannot unambiguously match paid receipt items"
Unambiguous == \A p, q \in Chosen(purchase.items) : p # q => catalog[p].name # catalog[q].name

LineIds(payment) == IF payment.ids # <<>> THEN payment.ids ELSE Matched(payment)

\* (mutant) The costs must be those of the catalog.
AgreesToday(payment, ids) ==
  /\ ids # <<>>
  /\ IsInjective(ids) /\ ToSet(ids) = Chosen(purchase.items)
  /\ \A i \in DOMAIN ids : payment.lines[i].quantity = purchase.items[ids[i]] /\ payment.lines[i].quantity <= ShipLimit
  /\ \A i \in DOMAIN ids : payment.lines[i].cost = catalog[ids[i]].price
  /\ payment.amount = purchase.price

\* "Paid receipt does not match order items, quantities or total"
Agrees(payment, ids) ==
  /\ ids # <<>>
  /\ IsInjective(ids) /\ ToSet(ids) = Chosen(purchase.items)
  /\ \A i \in DOMAIN ids : payment.lines[i].quantity = purchase.items[ids[i]] /\ payment.lines[i].quantity <= ShipLimit
  /\ LinesTotal(payment.lines) = payment.amount
  /\ payment.amount = purchase.price

PaidItems(payment) ==
  LET ids == LineIds(payment)
  IN  {[product |-> ids[i], quantity |-> payment.lines[i].quantity, cost |-> payment.lines[i].cost] : i \in DOMAIN ids}

Payable(payment) ==
  /\ payment.status = "succeeded"
  /\ payment.ids = <<>> => Unambiguous
  /\ Agrees(payment, LineIds(payment))

\* The registration or a later edit of the shipment: recovered lines and matched
\* ids are kept.
Declare ==
  /\ purchase.status = "assembling"
  /\ LET payment == PaymentOf(purchase)
     IN  /\ Payable(payment)
         /\ declared' = declared \cup {[pay |-> purchase.pay, items |-> PaidItems(payment)]}
         /\ payments' = [payments EXCEPT ![purchase.pay].ids = LineIds(payment)]
  /\ UNCHANGED <<catalog, purchase, changes>>

\* PUT and POST of a purchase with a shipment.
Deliver ==
  /\ purchase.status = "assembling" /\ declared # {}
  /\ PaymentOf(purchase).status = "succeeded"
  /\ purchase' = [purchase EXCEPT !.status = "delivering"]
  /\ UNCHANGED <<catalog, payments, declared, changes>>

Finish ==
  /\ declared # {}
  /\ purchase' = [purchase EXCEPT !.status = "finished"]
  /\ UNCHANGED <<catalog, payments, declared, changes>>

-----------------------------------------------------------------------------
(* YooKassa and the catalog.                                               *)

Settle(i) ==
  /\ payments[i].status = "pending" /\ payments[i].url
  /\ payments' = [payments EXCEPT ![i].status = "succeeded"]
  /\ purchase' = IF purchase.pay = i THEN Advanced(purchase, payments'[i]) ELSE purchase
  /\ UNCHANGED <<catalog, declared, changes>>

Expire(i) ==
  /\ payments[i].status = "pending"
  /\ payments' = [payments EXCEPT ![i].status = "canceled", ![i].url = FALSE]
  /\ UNCHANGED <<catalog, purchase, declared, changes>>

ChangeCatalog(p) ==
  /\ changes < MaxChanges
  /\ changes' = changes + 1
  /\ \/ \E price \in Prices \ {catalog[p].price} : catalog' = [catalog EXCEPT ![p].price = price]
     \/ \E name \in ToSet(Names[p]) \ {catalog[p].name} : catalog' = [catalog EXCEPT ![p].name = name]
     \/ catalog' = [catalog EXCEPT ![p].active = ~@]
  /\ UNCHANGED <<purchase, payments, declared>>

-----------------------------------------------------------------------------

NoPurchase == [status |-> "none", pay |-> 0, items |-> [p \in Products |-> 0], price |-> 0, contact |-> 0]

\* A purchase paid before ids were kept.
Older(items, contact) ==
  LET order == [status |-> "assembling", pay |-> 1, items |-> items, price |-> Total(items), contact |-> contact]
  IN  /\ purchase = order
      /\ payments = <<[NewPayment(order, TRUE) EXCEPT !.status = "succeeded", !.older = TRUE, !.ids = <<>>]>>

Init ==
  /\ catalog = [p \in Products |-> [name |-> Names[p][1], price |-> FirstPrices[p], active |-> TRUE]]
  /\ \/ purchase = NoPurchase /\ payments = <<>>
     \/ \E items \in Items, contact \in Contacts : Whole(Total(items)) /\ Older(items, contact)
  /\ declared = {}
  /\ changes = 0

Next ==
  \/ \E items \in Items, contact \in Contacts : Create(items, contact) \/ Edit(items, contact)
  \/ Start \/ Repay \/ Declare \/ Deliver \/ Finish
  \/ \E i \in DOMAIN payments : Settle(i) \/ Expire(i)
  \/ \E p \in Products : ChangeCatalog(p)

Spec == Init /\ [][Next]_vars

-----------------------------------------------------------------------------
(* Properties.                                                             *)

Statuses == {"none", "created", "awaiting_payment", "assembling", "delivering", "finished"}

LineRows == [name : UNION {ToSet(Names[p]) : p \in Products}, quantity : 1 .. MaxQuantity, cost : Prices]

\* The ids that are kept are as many as the lines.
TypeOK ==
  /\ purchase.status \in Statuses
  /\ purchase.pay \in {0} \cup DOMAIN payments
  /\ purchase.items \in [Products -> 0 .. MaxQuantity]
  /\ purchase.contact \in Contacts \cup {0}
  /\ \A i \in DOMAIN payments :
       /\ payments[i].status \in {"pending", "succeeded", "canceled", "failed"}
       /\ payments[i].lines \in Seq(LineRows)
       /\ payments[i].ids \in Seq(Products)
       /\ payments[i].ids # <<>> => Len(payments[i].ids) = Len(payments[i].lines)

\* The payment a customer is offered is for what the purchase contains, with a
\* receipt over its price to its address, whatever edits, repeated requests and
\* changes of the catalog came between; only the prices may be yesterday's.  And the
\* rows keep their types.
OfferIsForOrder ==
  LET payment == PaymentOf(purchase)
  IN  /\ TypeOK
      /\ purchase.status = "awaiting_payment" /\ payment.status = "pending" /\ payment.url =>
           /\ payment.amount = purchase.price
           /\ LinesTotal(payment.lines) = purchase.price
           /\ payment.email = purchase.contact
           /\ payment.sold = Ids(purchase.items)
           /\ \A i \in DOMAIN payment.sold : payment.lines[i].quantity = purchase.items[payment.sold[i]]

\* What is declared to CDEK is what the customer has paid: the variants, the
\* quantities and the costs of the receipt, never the prices or the names of the
\* day (README.md:55).  A receipt without ids is matched right as long as the
\* variants of the purchase are those that were sold: an edit of a paid purchase
\* may have put one with the same name and price in their place.
DeclaredIsPaid ==
  \A d \in declared :
    LET payment == payments[d.pay]
    IN  payment.status = "succeeded" /\ (payment.older => {item.product : item \in d.items} = ToSet(payment.sold))
        => d.items = {[product |-> payment.sold[i], quantity |-> payment.lines[i].quantity,
                       cost |-> payment.lines[i].cost] : i \in DOMAIN payment.sold}

\* A paid purchase that still is what was paid for can be declared, unless a
\* quantity exceeds what paid_items accepts or an older receipt has lost its
\* names: no check refuses a receipt this program has issued.
PaidIsDeclarable ==
  LET payment == PaymentOf(purchase)
  IN  /\ purchase.status = "assembling"
      /\ ~payment.older
      /\ payment.sold = Ids(purchase.items)
      /\ payment.amount = purchase.price
      /\ \A i \in DOMAIN payment.sold :
           payment.lines[i].quantity = purchase.items[payment.sold[i]] /\ purchase.items[payment.sold[i]] <= ShipLimit
      => Payable(payment)
=============================================================================
