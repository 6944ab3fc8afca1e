--------------------------- MODULE CheckoutProofs ---------------------------
(***************************************************************************)
(* Proofs about what a customer is charged for and what is declared to     *)
(* CDEK, for every catalog, purchase and number of changes.                *)
(***************************************************************************)
EXTENDS Checkout, FiniteSetTheorems, TLAPS

Paid == {"assembling", "delivering", "finished"}

Amounts == {LinesTotal(lines) : lines \in Seq(LineRows)}

Offers == [Products -> [name : UNION {ToSet(Names[p]) : p \in Products}, price : Prices, active : BOOLEAN]]

Orders ==
  [status : Statuses, pay : Nat, items : [Products -> 0 .. MaxQuantity], price : Amounts \cup {0},
   contact : Contacts \cup {0}]

PaymentRows ==
  [status : {"pending", "succeeded", "canceled", "failed"}, amount : Amounts, lines : Seq(LineRows),
   email : Contacts \cup {0}, url : BOOLEAN, ids : Seq(Products), older : BOOLEAN, sold : Seq(Products)]

(* The catalog sells every variant under one of its names.                 *)
Sells(offers) == offers \in Offers /\ \A p \in Products : offers[p].name \in ToSet(Names[p])

(* A receipt adds up, and its ids are those of what was sold.  An older    *)
(* one has the first names, and the ids found for it are of variants that  *)
(* could have the names of its lines.                                      *)
Sound(payment) ==
  /\ DOMAIN payment.lines = DOMAIN payment.sold
  /\ LinesTotal(payment.lines) = payment.amount
  /\ ~payment.older => payment.ids = payment.sold
  /\ payment.older =>
       /\ payment.status = "succeeded"
       /\ \A i \in DOMAIN payment.sold : payment.lines[i].name = Names[payment.sold[i]][1]
       /\ payment.ids # <<>> =>
            /\ IsInjective(payment.ids) /\ DOMAIN payment.ids = DOMAIN payment.sold
            /\ \A i \in DOMAIN payment.ids : payment.lines[i].name \in ToSet(Names[payment.ids[i]])

(* A payment is for what the purchase contains.                            *)
IsFor(payment, order) ==
  /\ payment.amount = order.price /\ payment.email = order.contact /\ payment.sold = Ids(order.items)
  /\ \A i \in DOMAIN payment.sold : payment.lines[i].quantity = order.items[payment.sold[i]]

(* The purchase is paid when its payment is, and may only be offered one   *)
(* that is for it.                                                         *)
Consistent(order, rows) ==
  /\ order \in Orders /\ rows \in Seq(PaymentRows)
  /\ order.pay \in 0 .. Len(rows)
  /\ \A i \in 1 .. Len(rows) : Sound(rows[i])
  /\ order.status \in {"none", "created"} => order.pay = 0
  /\ order.status # "none" => order.items \in Items
  /\ order.status \in Paid <=> order.pay # 0 /\ rows[order.pay].status = "succeeded"
  /\ order.pay # 0 /\ rows[order.pay].status = "pending" /\ rows[order.pay].url => IsFor(rows[order.pay], order)

ItemsOf(payment) ==
  {[product |-> payment.ids[i], quantity |-> payment.lines[i].quantity, cost |-> payment.lines[i].cost] :
     i \in DOMAIN payment.ids}

(* What was declared is the purchase's payment, which is settled.          *)
Sent(order, rows, items) ==
  \A d \in items :
    /\ order.pay # 0 /\ d.pay = order.pay /\ rows[d.pay].status = "succeeded"
    /\ rows[d.pay].ids # <<>> /\ d.items = ItemsOf(rows[d.pay])

CheckoutInv == Sells(catalog) /\ Consistent(purchase, payments) /\ Sent(purchase, payments, declared)

-----------------------------------------------------------------------------
(* Receipts.                                                               *)

(* The ids of a receipt are the chosen variants, each once.                *)
LEMMA IdsAre ==
  ASSUME NEW items \in [Products -> 0 .. MaxQuantity]
  PROVE  /\ Ids(items) \in Seq(Chosen(items)) /\ Ids(items) \in Seq(Products)
         /\ DOMAIN Ids(items) = 1 .. Len(Ids(items))
         /\ IsInjective(Ids(items))
         /\ ToSet(Ids(items)) = Chosen(items)
<1> DEFINE S == Chosen(items)
           n == Cardinality(S)
<1>1. S \subseteq Products /\ IsFiniteSet(S)
  BY CheckoutAssumption, FS_Subset DEF Chosen
<1>2. n \in Nat /\ ExistsBijection(1 .. n, S)
  BY <1>1, FS_CardinalityType
<1>3. \E f \in [1 .. n -> S] : IsInjective(f)
  BY <1>2 DEF ExistsBijection, Bijection, Injection
<1>4. Ids(items) \in [1 .. n -> S] /\ IsInjective(Ids(items))
  <2>1. Ids(items) = SetToSeq(S)
    BY <1>1 DEF Ids, Ordered
  <2> QED
    BY <1>3, <2>1 DEF SetToSeq
<1> HIDE DEF S, n
<1>5. Ids(items) \in Seq(S) /\ Len(Ids(items)) = n /\ DOMAIN Ids(items) = 1 .. n
  BY <1>2, <1>4
<1>6. ToSet(Ids(items)) = S
  <2> DEFINE T == ToSet(Ids(items))
  <2>1. T \subseteq S /\ Ids(items) \in Surjection(1 .. n, T)
    BY <1>4 DEF ToSet, Surjection
  <2>2. IsFiniteSet(1 .. n) /\ Cardinality(1 .. n) = n
    BY <1>2, FS_Interval
  <2>3. Ids(items) \in Injection(1 .. n, T)
    BY <1>4, <2>1 DEF Surjection, Injection
  <2>4. Cardinality(T) = n
    BY <2>1, <2>2, <2>3, FS_Surjection
  <2> QED
    BY <1>1, <2>1, <2>4, FS_Subset DEF n
<1> QED
  BY <1>1, <1>4, <1>5, <1>6 DEF S

(* The lines of a receipt, from the items and the catalog of the day.      *)
LEMMA LinesAre ==
  ASSUME Sells(catalog), NEW items \in [Products -> 0 .. MaxQuantity]
  PROVE  /\ Lines(items) \in Seq(LineRows) /\ Total(items) = LinesTotal(Lines(items)) /\ Total(items) \in Amounts
         /\ DOMAIN Lines(items) = DOMAIN Ids(items)
         /\ \A i \in DOMAIN Ids(items) : /\ Lines(items)[i].name = catalog[Ids(items)[i]].name
                                         /\ Lines(items)[i].quantity = items[Ids(items)[i]]
<1> DEFINE ids == Ids(items)
<1>1. ids \in Seq(Chosen(items)) /\ DOMAIN ids = 1 .. Len(ids) /\ Len(ids) \in Nat
  BY IdsAre
<1>2. \A i \in DOMAIN ids : ids[i] \in Products /\ items[ids[i]] > 0 /\ items[ids[i]] \in 1 .. MaxQuantity
  <2>1. \A i \in DOMAIN ids : ids[i] \in Chosen(items)
    BY <1>1
  <2> QED
    BY <2>1, CheckoutAssumption DEF Chosen
<1>3. Lines(items) = [i \in DOMAIN ids |->
         [name |-> catalog[ids[i]].name, quantity |-> items[ids[i]], cost |-> catalog[ids[i]].price]]
  BY DEF Lines
<1> HIDE DEF ids
<1>4. \A i \in DOMAIN ids : [name |-> catalog[ids[i]].name, quantity |-> items[ids[i]], cost |-> catalog[ids[i]].price] \in LineRows
  BY <1>2 DEF Sells, Offers, LineRows
<1>5. Lines(items) \in Seq(LineRows)
  BY <1>1, <1>3, <1>4
<1>6. Total(items) = LinesTotal(Lines(items)) /\ Total(items) \in Amounts
  BY <1>5 DEF Total, Amounts
<1> QED
  BY <1>3, <1>5, <1>6 DEF ids

(* The payment that is prepared for an order is for it.                    *)
LEMMA NewPaymentIs ==
  ASSUME Sells(catalog), NEW order \in Orders, Receivable(order), NEW url \in BOOLEAN
  PROVE  LET payment == NewPayment(order, url)
         IN  /\ payment \in PaymentRows /\ Sound(payment) /\ IsFor(payment, order)
             /\ payment.status = "pending" /\ ~payment.older
<1> DEFINE payment == NewPayment(order, url)
           items == order.items
<1>1. items \in [Products -> 0 .. MaxQuantity] /\ order.contact \in Contacts \cup {0}
  BY DEF Orders
<1>2. /\ Lines(items) \in Seq(LineRows) /\ LinesTotal(Lines(items)) = order.price /\ order.price \in Amounts
      /\ DOMAIN Lines(items) = DOMAIN Ids(items)
      /\ \A i \in DOMAIN Ids(items) : Lines(items)[i].quantity = items[Ids(items)[i]]
  BY <1>1, LinesAre DEF Receivable
<1>3. Ids(items) \in Seq(Products)
  BY <1>1, IdsAre
<1>4. payment = [status |-> "pending", amount |-> order.price, lines |-> Lines(items), email |-> order.contact,
                 url |-> url, ids |-> Ids(items), older |-> FALSE, sold |-> Ids(items)]
  BY DEF NewPayment
<1> HIDE DEF payment, items
<1>5. payment \in PaymentRows
  BY <1>1, <1>2, <1>3, <1>4 DEF PaymentRows
<1>6. Sound(payment) /\ payment.status = "pending" /\ ~payment.older
  BY <1>2, <1>4 DEF Sound
<1>7. IsFor(payment, order)
  BY <1>2, <1>4 DEF IsFor, items
<1> QED
  BY <1>5, <1>6, <1>7 DEF payment

(* A payment of which only the status and the confirmation url change.     *)
LEMMA SoundStays ==
  ASSUME NEW payment \in PaymentRows, Sound(payment), ~payment.older,
         NEW status \in {"pending", "succeeded", "canceled", "failed"}
  PROVE  /\ [payment EXCEPT !.status = status] \in PaymentRows /\ Sound([payment EXCEPT !.status = status])
         /\ [payment EXCEPT !.status = status].status = status
         /\ [payment EXCEPT !.status = status, !.url = FALSE] \in PaymentRows
         /\ Sound([payment EXCEPT !.status = status, !.url = FALSE])
         /\ [payment EXCEPT !.status = status, !.url = FALSE].status = status
  BY DEF PaymentRows, Sound

-----------------------------------------------------------------------------
(* Payments.                                                               *)

(* A payment for an order that awaits one: the one there is, its request   *)
(* repeated, or a new one.                                                 *)
LEMMA CardKeeps ==
  ASSUME Sells(catalog), NEW order \in Orders, order.items \in Items, order.status = "awaiting_payment",
         NEW rows \in Seq(PaymentRows), order.pay \in 0 .. Len(rows), \A i \in 1 .. Len(rows) : Sound(rows[i]),
         order.pay # 0 /\ rows[order.pay].status = "pending" /\ rows[order.pay].url
           /\ rows[order.pay].amount = order.price => IsFor(rows[order.pay], order),
         NEW items, Sent(order, rows, items),
         Card(order, rows)
  PROVE  Consistent(purchase', payments') /\ Sent(purchase', payments', items)
<1> DEFINE payment == IF order.pay = 0 THEN NoPayment ELSE rows[order.pay]
<1>0. NoPayment.status = "none"
  BY DEF NoPayment
<1>1. CASE Keeps(payment, order) /\ payments' = rows /\ purchase' = Advanced(order, payment)
  <2>1. order.pay # 0 /\ payment = rows[order.pay]
    BY <1>0, <1>1 DEF Keeps
  <2>2. CASE payment.status = "succeeded"
    <3>1. purchase' = [order EXCEPT !.status = "assembling"]
      BY <1>1, <2>2 DEF Advanced
    <3>2. /\ purchase' \in Orders /\ purchase'.status = "assembling" /\ purchase'.pay = order.pay
          /\ purchase'.items = order.items
      BY <3>1 DEF Orders, Statuses
    <3> QED
      BY <1>1, <2>1, <2>2, <3>2 DEF Consistent, Sent, Paid
  <2>3. CASE payment.status # "succeeded"
    <3>1. payment.status = "pending" /\ payment.amount = order.price /\ payment.url /\ purchase' = order
      BY <1>1, <2>3 DEF Keeps, Advanced
    <3> QED
      BY <1>1, <2>1, <3>1 DEF Consistent, Sent, Paid
  <2> QED
    BY <2>2, <2>3
<1>2. ASSUME NEW i \in 1 .. Len(payments'), payments' \in Seq(PaymentRows), \A j \in 1 .. Len(payments') : Sound(payments'[j]),
             purchase' \in Orders, purchase'.pay = i, purchase'.items = order.items, purchase'.status = order.status,
             payments'[i].status # "succeeded",
             payments'[i].status = "pending" => IsFor(payments'[i], purchase'), items = {}
      PROVE  Consistent(purchase', payments') /\ Sent(purchase', payments', items)
  BY <1>2 DEF Consistent, Sent, Paid
<1>3. ~Keeps(payment, order) => items = {}
  <2>1. order.pay # 0 /\ rows[order.pay].status = "succeeded" => Keeps(payment, order)
    BY DEF Keeps
  <2> QED
    BY <2>1 DEF Sent
<1>4. ASSUME Receivable(order), NEW url \in BOOLEAN,
             NEW answer, answer = NewPayment(order, url) \/ answer = [NewPayment(order, url) EXCEPT !.status = "failed"]
      PROVE  /\ answer \in PaymentRows /\ Sound(answer) /\ answer.status \in {"pending", "failed"}
             /\ answer.status = "pending" => IsFor(answer, order)
  <2> DEFINE new == NewPayment(order, url)
  <2>1. new \in PaymentRows /\ Sound(new) /\ IsFor(new, order) /\ new.status = "pending" /\ ~new.older
    BY <1>4, NewPaymentIs
  <2> HIDE DEF new
  <2>2. CASE answer = new
    BY <2>1, <2>2
  <2>3. CASE answer = [new EXCEPT !.status = "failed"]
    BY <2>1, <2>3, SoundStays
  <2> QED
    BY <1>4, <2>2, <2>3 DEF new
<1>5. CASE /\ ~Keeps(payment, order) /\ Receivable(order)
           /\ payment.status = "pending" /\ payment.amount = order.price
           /\ \E answer \in Repeats(payment, order) : payments' = [rows EXCEPT ![order.pay] = answer]
           /\ purchase' = order
  <2>1. PICK answer \in Repeats(payment, order) : payments' = [rows EXCEPT ![order.pay] = answer]
    BY <1>5
  <2>2. order.pay \in 1 .. Len(rows)
    BY <1>0, <1>5
  <2>3. /\ answer \in PaymentRows /\ Sound(answer) /\ answer.status \in {"pending", "failed"}
        /\ answer.status = "pending" => IsFor(answer, order)
    <3>1. answer = NewPayment(order, TRUE) \/ answer = [NewPayment(order, FALSE) EXCEPT !.status = "failed"]
      BY <2>1 DEF Repeats
    <3> QED
      BY <1>4, <1>5, <3>1
  <2>4. /\ payments' \in Seq(PaymentRows) /\ Len(payments') = Len(rows) /\ payments'[order.pay] = answer
        /\ \A j \in 1 .. Len(rows) : j # order.pay => payments'[j] = rows[j]
    BY <2>1, <2>2, <2>3
  <2> QED
    BY <1>2, <1>3, <1>5, <2>2, <2>3, <2>4
<1>6. CASE /\ ~Keeps(payment, order) /\ Receivable(order)
           /\ \E answer \in Answers(order) : payments' = Append(rows, answer)
           /\ purchase' = [order EXCEPT !.pay = Len(rows) + 1]
  <2>1. PICK answer \in Answers(order) : payments' = Append(rows, answer)
    BY <1>6
  <2>2. /\ answer \in PaymentRows /\ Sound(answer) /\ answer.status \in {"pending", "failed"}
        /\ answer.status = "pending" => IsFor(answer, order)
    <3>1. (\E url \in BOOLEAN : answer = NewPayment(order, url)) \/ answer = [NewPayment(order, FALSE) EXCEPT !.status = "failed"]
      BY <2>1 DEF Answers
    <3> QED
      BY <1>4, <1>6, <3>1
  <2>3. /\ payments' \in Seq(PaymentRows) /\ Len(payments') = Len(rows) + 1 /\ payments'[Len(rows) + 1] = answer
        /\ \A j \in 1 .. Len(rows) : payments'[j] = rows[j]
    BY <2>1, <2>2
  <2>4. Len(rows) \in Nat
    OBVIOUS
  <2>5. /\ purchase' \in Orders /\ purchase'.pay = Len(rows) + 1 /\ purchase'.items = order.items
        /\ purchase'.status = order.status /\ purchase'.price = order.price /\ purchase'.contact = order.contact
    BY <1>6, <2>4 DEF Orders
  <2>6. IsFor(answer, order) => IsFor(answer, purchase')
    BY <2>5 DEF IsFor
  <2>7. \A j \in 1 .. Len(payments') : Sound(payments'[j])
    BY <2>2, <2>3, <2>4
  <2> QED
    BY <1>2, <1>3, <1>6, <2>2, <2>3, <2>4, <2>5, <2>6, <2>7
<1> QED
  BY <1>1, <1>5, <1>6 DEF Card

(* A purchase that was paid before ids were kept, or none.                 *)
LEMMA CheckoutInit ==
  ASSUME Init
  PROVE  CheckoutInv
<1>1. Sells(catalog)
  BY CheckoutAssumption DEF Init, Sells, Offers, ToSet
<1>2. declared = {}
  BY DEF Init
<1>3. CASE purchase = NoPurchase /\ payments = <<>>
  <2>1. NoPurchase \in Orders /\ NoPurchase.status = "none" /\ NoPurchase.pay = 0
    BY CheckoutAssumption DEF NoPurchase, Orders, Statuses
  <2> QED
    BY <1>1, <1>2, <1>3, <2>1 DEF CheckoutInv, Consistent, Sent, Paid
<1>4. ASSUME NEW items \in Items, NEW contact \in Contacts, Older(items, contact) PROVE CheckoutInv
  <2> DEFINE order == [status |-> "assembling", pay |-> 1, items |-> items, price |-> Total(items), contact |-> contact]
             new == NewPayment(order, TRUE)
             payment == [new EXCEPT !.status = "succeeded", !.older = TRUE, !.ids = <<>>]
  <2>1. items \in [Products -> 0 .. MaxQuantity]
    BY DEF Items
  <2>2. order \in Orders /\ order.status = "assembling" /\ order.pay = 1 /\ order.items = items /\ order.price = Total(items)
    BY <1>1, <2>1, LinesAre DEF Orders, Statuses
  <2>3. purchase = order /\ payments = <<payment>>
    BY <1>4 DEF Older
  <2>4. new.sold = Ids(items) /\ new.lines = Lines(items)
    BY DEF NewPayment
  <2> HIDE DEF order, new
  <2>5. Receivable(order)
    BY <2>2 DEF Receivable, Priced, Chosen, Init
  <2>6. new \in PaymentRows /\ Sound(new)
    BY <1>1, <2>2, <2>5, NewPaymentIs DEF new
  <2>7. payment \in PaymentRows /\ payment.status = "succeeded" /\ payment.older /\ payment.ids = <<>>
        /\ payment.sold = new.sold /\ payment.lines = new.lines /\ payment.amount = new.amount
    <3> DEFINE none == <<>>
    <3>1. none \in Seq(Products)
      OBVIOUS
    <3> HIDE DEF none
    <3>2. payment = [new EXCEPT !.status = "succeeded", !.older = TRUE, !.ids = none]
      BY DEF none
    <3> HIDE DEF payment
    <3>3. payment \in PaymentRows /\ payment.status = "succeeded" /\ payment.older /\ payment.ids = none
          /\ payment.sold = new.sold /\ payment.lines = new.lines /\ payment.amount = new.amount
      BY <2>6, <3>1, <3>2 DEF PaymentRows
    <3> QED
      BY <3>3 DEF none
  <2>8. \A i \in DOMAIN new.sold : new.lines[i].name = Names[new.sold[i]][1]
    <3>1. \A i \in DOMAIN Ids(items) : Ids(items)[i] \in Products /\ Lines(items)[i].name = catalog[Ids(items)[i]].name
      BY <1>1, <2>1, IdsAre, LinesAre
    <3> QED
      BY <2>4, <3>1 DEF Init
  <2>9. Sound(payment)
    BY <2>6, <2>7, <2>8 DEF Sound
  <2> HIDE DEF payment
  <2>10. payments \in Seq(PaymentRows) /\ Len(payments) = 1 /\ payments[1] = payment
    BY <2>3, <2>7
  <2> QED
    BY <1>1, <1>2, <2>2, <2>3, <2>7, <2>9, <2>10 DEF CheckoutInv, Consistent, Sent, Paid
<1> QED
  BY <1>3, <1>4 DEF Init

(* A purchase that awaits a payment gets one.                              *)
LEMMA PayingKeeps ==
  ASSUME CheckoutInv, Start \/ Repay
  PROVE  CheckoutInv'
<1> DEFINE order == [purchase EXCEPT !.status = "awaiting_payment"]
<1>1. purchase \in Orders /\ purchase.status \in {"created", "awaiting_payment"} /\ UNCHANGED <<catalog, declared>>
  BY DEF CheckoutInv, Consistent, Start, Repay
<1>2. /\ order \in Orders /\ order.status = "awaiting_payment" /\ order.items = purchase.items /\ order.pay = purchase.pay
      /\ order.price = purchase.price /\ order.contact = purchase.contact
  BY <1>1 DEF Orders, Statuses
<1>3. Card(order, payments)
  <2>1. purchase.status = "awaiting_payment" => order = purchase
    BY <1>1 DEF Orders
  <2> QED
    BY <2>1 DEF Start, Repay
<1> HIDE DEF order
<1>4. /\ order.items \in Items /\ payments \in Seq(PaymentRows) /\ order.pay \in 0 .. Len(payments)
      /\ \A i \in 1 .. Len(payments) : Sound(payments[i])
  BY <1>1, <1>2 DEF CheckoutInv, Consistent
<1>5. order.pay # 0 /\ payments[order.pay].status = "pending" /\ payments[order.pay].url => IsFor(payments[order.pay], order)
  BY <1>2 DEF CheckoutInv, Consistent, IsFor
<1>6. Sent(order, payments, declared)
  BY <1>2 DEF CheckoutInv, Sent
<1>7. Consistent(purchase', payments') /\ Sent(purchase', payments', declared)
  BY <1>2, <1>3, <1>4, <1>5, <1>6, CardKeeps DEF CheckoutInv
<1> QED
  BY <1>1, <1>7 DEF CheckoutInv

(* What changes with an edit is paid anew, unless it has been paid.        *)
LEMMA EditKeeps ==
  ASSUME CheckoutInv, NEW items \in Items, NEW contact \in Contacts, Edit(items, contact)
  PROVE  CheckoutInv'
<1> DEFINE edited == [purchase EXCEPT !.items = items, !.contact = contact, !.price = Total(items)]
           order == [edited EXCEPT !.status = "awaiting_payment"]
           rows == Canceled(edited)
<1>1. /\ purchase \in Orders /\ purchase.status # "none" /\ items \in [Products -> 0 .. MaxQuantity]
      /\ UNCHANGED <<catalog, declared>> /\ payments \in Seq(PaymentRows) /\ purchase.pay \in 0 .. Len(payments)
      /\ \A i \in 1 .. Len(payments) : Sound(payments[i])
  BY DEF CheckoutInv, Consistent, Edit, Items
<1>2. /\ edited \in Orders /\ edited.pay = purchase.pay /\ edited.items = items /\ edited.contact = contact
      /\ edited.status = purchase.status
  BY <1>1, LinesAre DEF CheckoutInv, Orders
<1>3. Card(order, rows)
  BY DEF Edit
<1> HIDE DEF edited
<1>4. /\ order \in Orders /\ order.status = "awaiting_payment" /\ order.items = items /\ order.pay = purchase.pay
      /\ order.price = edited.price /\ order.contact = contact
  BY <1>2 DEF Orders, Statuses
<1> HIDE DEF order
<1> DEFINE cancels == purchase.status = "awaiting_payment" /\ Changed(edited) /\ PaymentOf(edited).status = "pending"
<1>5. CASE cancels
  <2> DEFINE payment == payments[purchase.pay]
  <2>1. purchase.pay \in 1 .. Len(payments) /\ payment.status = "pending"
    BY <1>1, <1>2, <1>5 DEF PaymentOf, NoPayment
  <2>2. payment \in PaymentRows /\ Sound(payment) /\ ~payment.older
    <3>1. payment \in PaymentRows /\ Sound(payment)
      BY <1>1, <2>1
    <3> QED
      BY <2>1, <3>1 DEF Sound
  <2> DEFINE canceled == [payment EXCEPT !.status = "canceled", !.url = FALSE]
  <2>3. canceled \in PaymentRows /\ Sound(canceled) /\ canceled.status = "canceled"
    BY <2>2, SoundStays
  <2>4. rows = [payments EXCEPT ![purchase.pay] = canceled]
    BY <1>1, <1>2, <1>5 DEF Canceled
  <2> HIDE DEF canceled, rows
  <2>5. /\ rows \in Seq(PaymentRows) /\ Len(rows) = Len(payments) /\ rows[purchase.pay] = canceled
        /\ \A i \in 1 .. Len(rows) : i # purchase.pay => rows[i] = payments[i]
    BY <1>1, <2>1, <2>3, <2>4
  <2>6. declared = {}
    BY <2>1 DEF CheckoutInv, Sent
  <2>7. Sent(order, rows, declared)
    BY <2>6 DEF Sent
  <2>8. \A i \in 1 .. Len(rows) : Sound(rows[i])
    BY <1>1, <2>3, <2>5
  <2>9. Consistent(purchase', payments') /\ Sent(purchase', payments', declared)
    BY <1>1, <1>3, <1>4, <2>3, <2>5, <2>7, <2>8, CardKeeps DEF CheckoutInv
  <2> QED
    BY <1>1, <2>9 DEF CheckoutInv
<1>6. CASE ~cancels
  <2>1. rows = payments
    BY <1>6 DEF Canceled
  <2>2. Sent(order, payments, declared)
    BY <1>4 DEF CheckoutInv, Sent
  <2>3. ASSUME order.pay # 0, payments[order.pay].status = "pending", payments[order.pay].url,
               payments[order.pay].amount = order.price
        PROVE  IsFor(payments[order.pay], order)
    <3>1. purchase.status = "awaiting_payment" /\ IsFor(payments[order.pay], purchase)
      BY <1>1, <1>4, <2>3 DEF CheckoutInv, Consistent, Orders, Statuses, Paid
    <3>2. ~Changed(edited)
      BY <1>2, <1>4, <1>6, <2>3, <3>1 DEF PaymentOf
    <3> QED
      BY <1>2, <1>4, <2>3, <3>1, <3>2 DEF Changed, IsFor
  <2>4. Consistent(purchase', payments') /\ Sent(purchase', payments', declared)
    BY <1>1, <1>3, <1>4, <2>1, <2>2, <2>3, CardKeeps DEF CheckoutInv
  <2> QED
    BY <1>1, <2>4 DEF CheckoutInv
<1> QED
  BY <1>5, <1>6

(* The purchase is one that can be created: nothing is known of it.        *)
LEMMA CreateKeeps ==
  ASSUME CheckoutInv, NEW items \in Items, NEW contact \in Contacts, Create(items, contact)
  PROVE  CheckoutInv'
<1>1. items \in [Products -> 0 .. MaxQuantity] /\ purchase.pay = 0 /\ UNCHANGED <<catalog, payments, declared>>
  BY DEF Items, Create, CheckoutInv, Consistent
<1>2. purchase' = [status |-> "created", pay |-> 0, items |-> items, price |-> Total(items), contact |-> contact]
  BY DEF Create
<1>3. Total(items) \in Amounts
  BY <1>1, LinesAre DEF CheckoutInv
<1>4. /\ purchase' \in Orders /\ purchase'.status = "created" /\ purchase'.pay = 0 /\ purchase'.items = items
  BY <1>1, <1>2, <1>3 DEF Orders, Statuses
<1> QED
  BY <1>1, <1>4 DEF CheckoutInv, Consistent, Sent, Paid

(* What is declared are the lines that were paid, for the ids that are     *)
(* kept with the payment from then on.                                     *)
LEMMA DeclareKeeps ==
  ASSUME CheckoutInv, Declare
  PROVE  CheckoutInv'
<1> DEFINE payment == payments[purchase.pay]
           ids == LineIds(payment)
           kept == [payment EXCEPT !.ids = ids]
<1>1. /\ purchase \in Orders /\ payments \in Seq(PaymentRows) /\ purchase.pay \in 1 .. Len(payments)
      /\ payment.status = "succeeded" /\ purchase.items \in Items /\ PaymentOf(purchase) = payment
      /\ UNCHANGED <<catalog, purchase>>
  BY DEF CheckoutInv, Consistent, Declare, Paid, PaymentOf
<1>2. payment \in PaymentRows /\ Sound(payment)
  BY <1>1 DEF CheckoutInv, Consistent
<1>3. Agrees(payment, ids) /\ payments' = [payments EXCEPT ![purchase.pay] = kept]
      /\ declared' = declared \cup {[pay |-> purchase.pay, items |-> PaidItems(payment)]}
  BY <1>1 DEF Declare, Payable
<1>4. ids # <<>> /\ IsInjective(ids) /\ ToSet(ids) = Chosen(purchase.items)
  BY <1>3 DEF Agrees
<1>5. payment.ids # <<>> => ids = payment.ids
  BY DEF LineIds
<1>6. payment.ids = <<>> =>
        /\ ids = Matched(payment) /\ DOMAIN ids = DOMAIN payment.lines
        /\ \A i \in DOMAIN ids : ids[i] \in Products => catalog[ids[i]].name = payment.lines[i].name
  <2>1. payment.ids = <<>> => ids = Matched(payment)
    BY DEF LineIds
  <2> HIDE DEF payment
  <2>2. DOMAIN Matched(payment) = DOMAIN payment.lines
    BY DEF Matched
  <2>3. ASSUME NEW i \in DOMAIN payment.lines, Matched(payment)[i] \in Products
        PROVE  catalog[Matched(payment)[i]].name = payment.lines[i].name
    <3> DEFINE named == {p \in Chosen(purchase.items) : catalog[p].name = payment.lines[i].name}
    <3>1. Matched(payment)[i] = IF named = {} THEN NoId ELSE CHOOSE p \in named : TRUE
      BY DEF Matched
    <3>2. NoId \notin Products
      BY CheckoutAssumption DEF NoId
    <3>3. Matched(payment)[i] \in named
      BY <2>3, <3>1, <3>2
    <3> QED
      BY <3>3
  <2> QED
    BY <2>1, <2>2, <2>3
<1> HIDE DEF ids, kept
<1>7. Chosen(purchase.items) \subseteq Products /\ Chosen(purchase.items) # {}
  BY <1>1 DEF Chosen, Items
<1>8. \A i \in DOMAIN ids : ids[i] \in Products
  BY <1>4, <1>7 DEF ToSet
<1>9. DOMAIN ids # {}
  BY <1>4, <1>7 DEF ToSet
<1>10. ids \in Seq(Products) /\ DOMAIN ids = DOMAIN payment.sold
  <2>1. /\ payment.ids \in Seq(Products) /\ payment.lines \in Seq(LineRows)
        /\ DOMAIN payment.lines = DOMAIN payment.sold
    BY <1>2 DEF PaymentRows, Sound
  <2>2. CASE payment.ids # <<>>
    BY <1>2, <1>5, <2>1, <2>2 DEF Sound
  <2>3. CASE payment.ids = <<>>
    <3>1. ids = [i \in DOMAIN payment.lines |-> ids[i]] /\ DOMAIN payment.lines = 1 .. Len(payment.lines)
      BY <1>6, <2>1, <2>3 DEF Matched
    <3>2. ids \in [1 .. Len(payment.lines) -> Products] /\ Len(payment.lines) \in Nat
      BY <1>6, <1>8, <2>1, <2>3, <3>1
    <3> QED
      BY <1>6, <2>1, <2>3, <3>2
  <2> QED
    BY <2>2, <2>3
<1>11. kept \in PaymentRows /\ Sound(kept) /\ kept.status = "succeeded" /\ kept.ids = ids /\ kept.lines = payment.lines
  <2>1. /\ kept \in PaymentRows /\ kept.ids = ids /\ kept.lines = payment.lines /\ kept.sold = payment.sold
        /\ kept.older = payment.older /\ kept.status = payment.status /\ kept.amount = payment.amount
    BY <1>2, <1>10 DEF kept, PaymentRows
  <2>2. ~payment.older => ids = payment.sold
    <3>1. payment.ids = <<>> /\ payment.ids = payment.sold => DOMAIN payment.sold = {}
      BY <1>2 DEF PaymentRows
    <3> QED
      BY <1>2, <1>5, <1>9, <1>10, <3>1 DEF Sound
  <2>3. payment.older => \A i \in DOMAIN ids : payment.lines[i].name \in ToSet(Names[ids[i]])
    <3>1. CASE payment.ids # <<>>
      BY <1>2, <1>5, <3>1 DEF Sound
    <3>2. CASE payment.ids = <<>>
      BY <1>6, <1>8, <3>2 DEF CheckoutInv, Sells
    <3> QED
      BY <3>1, <3>2
  <2>4. Sound(kept)
    BY <1>2, <1>4, <1>10, <2>1, <2>2, <2>3 DEF Sound
  <2> QED
    BY <1>1, <2>1, <2>4
<1>12. PaidItems(payment) = ItemsOf(kept)
  BY <1>11 DEF PaidItems, ItemsOf, ids
<1>13. /\ payments' \in Seq(PaymentRows) /\ Len(payments') = Len(payments) /\ payments'[purchase.pay] = kept
       /\ \A i \in 1 .. Len(payments) : i # purchase.pay => payments'[i] = payments[i]
  BY <1>1, <1>3, <1>11
<1>14. Consistent(purchase', payments')
  BY <1>1, <1>11, <1>13 DEF CheckoutInv, Consistent
<1>15. Sent(purchase', payments', declared')
  <2>1. ASSUME NEW d \in declared
        PROVE  purchase.pay # 0 /\ d.pay = purchase.pay /\ d.items = ItemsOf(kept)
    <3>1. purchase.pay # 0 /\ d.pay = purchase.pay /\ payment.ids # <<>> /\ d.items = ItemsOf(payment)
      BY DEF CheckoutInv, Sent
    <3>2. kept.ids = payment.ids
      BY <1>5, <1>11, <3>1
    <3> QED
      BY <1>11, <3>1, <3>2 DEF ItemsOf
  <2>2. ASSUME NEW d \in declared'
        PROVE  purchase.pay # 0 /\ d.pay = purchase.pay /\ d.items = ItemsOf(kept)
    BY <1>1, <1>3, <1>12, <2>1
  <2> QED
    BY <1>1, <1>4, <1>11, <1>13, <2>2 DEF Sent
<1> QED
  BY <1>1, <1>14, <1>15 DEF CheckoutInv

(* Parcels, YooKassa and the catalog.                                      *)
LEMMA OthersKeep ==
  ASSUME CheckoutInv,
         \/ Deliver \/ Finish
         \/ \E i \in DOMAIN payments : Settle(i) \/ Expire(i)
         \/ \E p \in Products : ChangeCatalog(p)
         \/ UNCHANGED vars
  PROVE  CheckoutInv'
<1>1. /\ purchase \in Orders /\ payments \in Seq(PaymentRows) /\ DOMAIN payments = 1 .. Len(payments)
      /\ purchase.pay \in 0 .. Len(payments)
  BY DEF CheckoutInv, Consistent
<1>2. CASE Deliver \/ Finish
  <2>1. PICK status \in Paid : purchase' = [purchase EXCEPT !.status = status]
    BY <1>2 DEF Deliver, Finish, Paid
  <2>2. /\ purchase' \in Orders /\ purchase'.status = status /\ purchase'.pay = purchase.pay /\ purchase'.items = purchase.items
        /\ purchase'.price = purchase.price /\ purchase'.contact = purchase.contact
    BY <1>1, <2>1 DEF Orders, Statuses, Paid
  <2>3. UNCHANGED <<catalog, payments, declared>> /\ declared # {}
    BY <1>2 DEF Deliver, Finish
  <2>4. purchase.status \in Paid
    BY <2>3 DEF CheckoutInv, Consistent, Sent
  <2> QED
    BY <2>1, <2>2, <2>3, <2>4 DEF CheckoutInv, Consistent, Sent, Paid
<1>3. ASSUME NEW i \in DOMAIN payments, Settle(i) \/ Expire(i) PROVE CheckoutInv'
  <2> DEFINE payment == payments[i]
  <2>1. payment \in PaymentRows /\ Sound(payment) /\ payment.status = "pending" /\ ~payment.older
    <3>1. payment \in PaymentRows /\ Sound(payment) /\ payment.status = "pending"
      BY <1>1, <1>3 DEF CheckoutInv, Consistent, Settle, Expire
    <3> QED
      BY <3>1 DEF Sound
  <2>2. PICK new : /\ payments' = [payments EXCEPT ![i] = new]
                   /\ \/ Settle(i) /\ new = [payment EXCEPT !.status = "succeeded"]
                      \/ Expire(i) /\ new = [payment EXCEPT !.status = "canceled", !.url = FALSE]
    BY <1>3 DEF Settle, Expire
  <2>3. /\ new \in PaymentRows /\ Sound(new)
        /\ \/ Settle(i) /\ new.status = "succeeded"
           \/ Expire(i) /\ new.status = "canceled"
    <3> HIDE DEF payment
    <3>1. CASE Settle(i) /\ new = [payment EXCEPT !.status = "succeeded"]
      BY <2>1, <3>1, SoundStays
    <3>2. CASE Expire(i) /\ new = [payment EXCEPT !.status = "canceled", !.url = FALSE]
      BY <2>1, <3>2, SoundStays
    <3> QED
      BY <2>2, <3>1, <3>2
  <2>4. /\ payments' \in Seq(PaymentRows) /\ Len(payments') = Len(payments) /\ payments'[i] = new
        /\ \A j \in 1 .. Len(payments) : j # i => payments'[j] = payments[j]
    BY <1>1, <2>2, <2>3
  <2>5. purchase.pay = i => purchase.status = "awaiting_payment" /\ declared = {}
    BY <1>1, <2>1 DEF CheckoutInv, Consistent, Sent, Orders, Statuses, Paid
  <2>6. /\ UNCHANGED <<catalog, declared>>
        /\ \/ purchase' = purchase /\ (purchase.pay = i => new.status # "succeeded")
           \/ /\ purchase.pay = i /\ new.status = "succeeded"
              /\ purchase' = [purchase EXCEPT !.status = "assembling"]
    BY <2>3, <2>4, <2>5 DEF Settle, Expire, Advanced
  <2>7. CASE purchase' = purchase /\ (purchase.pay = i => new.status # "succeeded")
    <3>1. \A j \in 1 .. Len(payments) : Sound(payments'[j])
      BY <1>1, <2>3, <2>4 DEF CheckoutInv, Consistent
    <3>2. CASE purchase.pay = i
      BY <1>1, <2>3, <2>4, <2>5, <2>6, <2>7, <3>1, <3>2 DEF CheckoutInv, Consistent, Sent, Paid
    <3>3. CASE purchase.pay # i
      <4>1. purchase.pay # 0 => payments'[purchase.pay] = payments[purchase.pay]
        BY <1>1, <2>4, <3>3
      <4>2. Consistent(purchase', payments')
        BY <1>1, <2>4, <2>7, <3>1, <4>1 DEF CheckoutInv, Consistent
      <4>3. Sent(purchase', payments', declared')
        BY <2>6, <2>7, <4>1 DEF CheckoutInv, Sent
      <4> QED
        BY <2>6, <4>2, <4>3 DEF CheckoutInv
    <3> QED
      BY <3>2, <3>3
  <2>8. CASE /\ purchase.pay = i /\ new.status = "succeeded"
             /\ purchase' = [purchase EXCEPT !.status = "assembling"]
    <3>1. /\ purchase' \in Orders /\ purchase'.status = "assembling" /\ purchase'.pay = purchase.pay
          /\ purchase'.items = purchase.items
      BY <1>1, <2>8 DEF Orders, Statuses
    <3> QED
      BY <1>1, <2>3, <2>4, <2>5, <2>6, <2>8, <3>1 DEF CheckoutInv, Consistent, Sent, Paid
  <2> QED
    BY <2>6, <2>7, <2>8
<1>4. ASSUME NEW p \in Products, ChangeCatalog(p) PROVE CheckoutInv'
  <2>1. UNCHANGED <<purchase, payments, declared>> /\ catalog \in Offers
    BY <1>4 DEF ChangeCatalog, CheckoutInv, Sells
  <2>2. PICK price \in Prices, name \in ToSet(Names[p]), active \in BOOLEAN :
          \/ catalog' = [catalog EXCEPT ![p].price = price]
          \/ catalog' = [catalog EXCEPT ![p].name = name]
          \/ catalog' = [catalog EXCEPT ![p].active = active]
    <3>1. catalog[p].price \in Prices /\ catalog[p].name \in ToSet(Names[p])
      BY <2>1 DEF Offers, CheckoutInv, Sells
    <3> QED
      BY <1>4, <3>1 DEF ChangeCatalog
  <2>3. name \in UNION {ToSet(Names[q]) : q \in Products}
    BY <2>2
  <2>4. catalog' \in Offers /\ \A q \in Products : catalog'[q].name = IF q = p THEN catalog'[p].name ELSE catalog[q].name
    BY <2>1, <2>2, <2>3 DEF Offers
  <2>5. catalog'[p].name \in {name, catalog[p].name}
    BY <2>1, <2>2 DEF Offers
  <2>6. Sells(catalog')
    BY <2>2, <2>4, <2>5 DEF CheckoutInv, Sells
  <2> QED
    BY <2>1, <2>6 DEF CheckoutInv
<1>5. CASE UNCHANGED vars
  BY <1>5 DEF vars, CheckoutInv
<1> QED
  BY <1>2, <1>3, <1>4, <1>5

(* The purchase, its payments and what was declared agree in every state.  *)
THEOREM CheckoutInvariant == Spec => []CheckoutInv
<1>1. Init => CheckoutInv
  BY CheckoutInit
<1>2. CheckoutInv /\ [Next]_vars => CheckoutInv'
  BY CreateKeeps, EditKeeps, PayingKeeps, DeclareKeeps, OthersKeep DEF Next
<1> QED
  BY <1>1, <1>2, PTL DEF Spec

-----------------------------------------------------------------------------
(* What is promised.                                                       *)

(* The payment a customer is offered is for what the purchase contains     *)
(* (api/purchases.py:468-530), and the rows keep their types.              *)
THEOREM OfferHolds == Spec => []OfferIsForOrder
<1>1. ASSUME CheckoutInv PROVE TypeOK
  <2>1. /\ purchase \in Orders /\ purchase.pay \in 0 .. Len(payments) /\ DOMAIN payments = 1 .. Len(payments)
        /\ payments \in Seq(PaymentRows)
    BY <1>1 DEF CheckoutInv, Consistent
  <2>2. ASSUME NEW i \in DOMAIN payments
        PROVE  /\ payments[i].status \in {"pending", "succeeded", "canceled", "failed"}
               /\ payments[i].lines \in Seq(LineRows) /\ payments[i].ids \in Seq(Products)
               /\ payments[i].ids # <<>> => Len(payments[i].ids) = Len(payments[i].lines)
    <3>1. payments[i] \in PaymentRows /\ Sound(payments[i])
      BY <1>1, <2>1 DEF CheckoutInv, Consistent
    <3>2. payments[i].lines \in Seq(LineRows) /\ payments[i].ids \in Seq(Products)
      BY <3>1 DEF PaymentRows
    <3>3. payments[i].ids # <<>> => DOMAIN payments[i].ids = DOMAIN payments[i].lines
      BY <3>1 DEF Sound
    <3> QED
      BY <3>1, <3>2, <3>3 DEF PaymentRows
  <2> QED
    BY <2>1, <2>2 DEF TypeOK, Orders
<1>2. ASSUME CheckoutInv, PaymentOf(purchase).status = "pending", PaymentOf(purchase).url
      PROVE  IsFor(PaymentOf(purchase), purchase) /\ LinesTotal(PaymentOf(purchase).lines) = PaymentOf(purchase).amount
  <2>1. purchase.pay \in 1 .. Len(payments) /\ PaymentOf(purchase) = payments[purchase.pay]
    BY <1>2 DEF PaymentOf, NoPayment, CheckoutInv, Consistent
  <2> QED
    BY <1>2, <2>1 DEF CheckoutInv, Consistent, Sound
<1>3. CheckoutInv => OfferIsForOrder
  BY <1>1, <1>2 DEF OfferIsForOrder, IsFor
<1> QED
  BY <1>3, CheckoutInvariant, PTL

(* Ids that are those of the variants sold, or that have the names of the  *)
(* lines and are of the same variants, are in the order of the lines: the  *)
(* variants whose lines were matched with another one would be exchanging  *)
(* their names.                                                            *)
LEMMA SameOrder ==
  ASSUME NEW payment \in PaymentRows, Sound(payment), payment.ids # <<>>,
         payment.older => ToSet(payment.ids) = ToSet(payment.sold)
  PROVE  payment.ids = payment.sold
<1>1. CASE ~payment.older
  BY <1>1 DEF Sound
<1>2. CASE payment.older
  <2> DEFINE ids == payment.ids
             sold == payment.sold
             moved == {sold[i] : i \in {j \in DOMAIN sold : ids[j] # sold[j]}}
  <2>1. /\ ids \in Seq(Products) /\ sold \in Seq(Products) /\ DOMAIN ids = DOMAIN sold /\ IsInjective(ids)
        /\ \A i \in DOMAIN ids : payment.lines[i].name = Names[sold[i]][1] /\ payment.lines[i].name \in ToSet(Names[ids[i]])
        /\ ToSet(ids) = ToSet(sold)
    BY <1>2 DEF PaymentRows, Sound
  <2> HIDE DEF ids, sold
  <2>2. \A i \in DOMAIN sold : ids[i] \in Products /\ sold[i] \in Products
    BY <2>1
  <2>3. moved \in SUBSET Products
    BY <2>2
  <2>4. ASSUME NEW p \in moved PROVE \E q \in moved \ {p} : Names[p][1] \in ToSet(Names[q])
    <3>1. PICK i \in DOMAIN sold : p = sold[i] /\ ids[i] # sold[i]
      OBVIOUS
    <3>2. PICK j \in DOMAIN sold : sold[j] = ids[i]
      BY <2>1, <3>1 DEF ToSet
    <3>3. ids[j] # sold[j]
      BY <2>1, <3>1, <3>2 DEF IsInjective
    <3> QED
      BY <2>1, <3>1, <3>2, <3>3
  <2>5. moved = {}
    <3> HIDE DEF moved
    <3> QED
      BY <2>3, <2>4, CheckoutAssumption
  <2>6. \A i \in DOMAIN sold : ids[i] = sold[i]
    BY <2>5
  <2> QED
    BY <2>1, <2>6 DEF ids, sold
<1> QED
  BY <1>1, <1>2

(* What is declared to CDEK is what the customer has paid, whatever the    *)
(* catalog says (paid_items.py).                                           *)
THEOREM DeclaredHolds == Spec => []DeclaredIsPaid
<1>1. ASSUME CheckoutInv, NEW d \in declared,
             payments[d.pay].older => {item.product : item \in d.items} = ToSet(payments[d.pay].sold)
      PROVE  d.items = {[product |-> payments[d.pay].sold[i], quantity |-> payments[d.pay].lines[i].quantity,
                         cost |-> payments[d.pay].lines[i].cost] : i \in DOMAIN payments[d.pay].sold}
  <2> DEFINE payment == payments[d.pay]
  <2>1. /\ payment \in PaymentRows /\ Sound(payment) /\ payment.ids # <<>> /\ d.items = ItemsOf(payment)
    BY <1>1 DEF CheckoutInv, Consistent, Sent
  <2>2. {item.product : item \in d.items} = ToSet(payment.ids)
    <3> DEFINE Item(i) == [product |-> payment.ids[i], quantity |-> payment.lines[i].quantity, cost |-> payment.lines[i].cost]
    <3>1. \A i : Item(i).product = payment.ids[i]
      OBVIOUS
    <3>2. d.items = {Item(i) : i \in DOMAIN payment.ids}
      BY <2>1 DEF ItemsOf
    <3> HIDE DEF Item
    <3> QED
      BY <3>1, <3>2 DEF ToSet
  <2>3. payment.ids = payment.sold
    BY <1>1, <2>1, <2>2, SameOrder
  <2> QED
    BY <2>1, <2>3 DEF ItemsOf
<1>2. CheckoutInv => DeclaredIsPaid
  BY <1>1 DEF DeclaredIsPaid
<1> QED
  BY <1>2, CheckoutInvariant, PTL

(* No check of paid_items refuses a receipt that this program has issued   *)
(* (paid_items.py).                                                        *)
THEOREM DeclarableHolds == Spec => []PaidIsDeclarable
<1>1. ASSUME CheckoutInv, purchase.status = "assembling", ~PaymentOf(purchase).older,
             PaymentOf(purchase).sold = Ids(purchase.items), PaymentOf(purchase).amount = purchase.price,
             \A i \in DOMAIN PaymentOf(purchase).sold :
               /\ PaymentOf(purchase).lines[i].quantity = purchase.items[PaymentOf(purchase).sold[i]]
               /\ purchase.items[PaymentOf(purchase).sold[i]] <= ShipLimit
      PROVE  Payable(PaymentOf(purchase))
  <2> DEFINE payment == PaymentOf(purchase)
  <2>1. /\ payment.status = "succeeded" /\ Sound(payment) /\ purchase.items \in Items
    BY <1>1 DEF CheckoutInv, Consistent, PaymentOf, Paid
  <2>2. /\ payment.ids = Ids(purchase.items) /\ LinesTotal(payment.lines) = purchase.price
    BY <1>1, <2>1 DEF Sound
  <2>3. IsInjective(Ids(purchase.items)) /\ ToSet(Ids(purchase.items)) = Chosen(purchase.items)
    BY <2>1, IdsAre DEF Items
  <2>4. payment.ids # <<>>
    <3>1. Chosen(purchase.items) # {}
      BY <2>1 DEF Chosen, Items
    <3> QED
      BY <2>2, <2>3, <3>1 DEF ToSet
  <2>5. LineIds(payment) = payment.ids
    BY <2>4 DEF LineIds
  <2>6. Agrees(payment, payment.ids)
    BY <1>1, <2>2, <2>3, <2>4 DEF Agrees
  <2> QED
    BY <2>1, <2>4, <2>5, <2>6 DEF Payable
<1>2. CheckoutInv => PaidIsDeclarable
  BY <1>1 DEF PaidIsDeclarable
<1> QED
  BY <1>2, CheckoutInvariant, PTL
=============================================================================
