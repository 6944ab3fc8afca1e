-------------------------- MODULE MigrationProofs ---------------------------
(***************************************************************************)
(* Proofs about the migrations of alembic/versions, statement by statement: *)
(* from every schema that some applied and some begun revisions can have   *)
(* left, the statements of the next one run, and leave such a schema, for  *)
(* any set of revisions applied and begun and from any tables before.      *)
(* DeploymentProofs combines them with the steps of a container.           *)
(***************************************************************************)
EXTENDS Migrations, SequenceTheorems, TLAPS

(* The facts that are anybody's work, by the revisions that add them.      *)
LocaleFacts == {<<"locale_overrides">>, LocaleIndex}

SettingsFacts == {<<"settings">>, <<"settings", "MAP">>, <<"settings", "PRODUCTS_PAGE_LIMIT">>}

EventFacts == {<<"change_events">>, <<"change_events", "ix_event_type">>}

TranslationFacts == {<<"category_translations">>, <<"category_translations", "->", "categories">>}

OptionFacts(options) ==
  {<<options>>, <<options, "ix_eid">>, <<options, "ix_property_id">>, <<options, "->", "properties">>,
   <<"product_attributes", "->", options>>}

PropertyFacts ==
  {<<"properties">>, <<"properties", "ix_eid">>, <<"properties", "parent_category_id">>,
   <<"properties", "->", "categories">>, <<"properties", "ix_parent_category_id">>, <<"properties", "index">>}

OneCFacts ==
  {<<"categories">>, <<"categories", "ix_eid">>, <<"onec_import_runs">>, <<"onec_import_runs", "ix_source_md5">>}

ProductFacts ==
  {<<"products">>, <<"products", "ix_eid">>, <<"products", "ix_category_id">>,
   <<"products", "ix_last_seen_import_run_id">>, <<"products", "->", "categories">>,
   <<"products", "->", "onec_import_runs">>,
   <<"offers">>, <<"offers", "ix_eid">>, <<"offers", "ix_product_id">>, <<"offers", "->", "products">>}

AttributeFacts ==
  {<<"product_attributes">>, <<"product_attributes", "ix_eid">>, <<"product_attributes", "ix_option_id">>,
   <<"product_attributes", "ix_product_id">>, <<"product_attributes", "ix_property_id">>,
   <<"product_attributes", "->", "products">>, <<"product_attributes", "->", "properties">>}

ImageFacts ==
  {<<"product_images">>, <<"product_images", "ix_eid">>, <<"product_images", "ix_product_id">>,
   <<"product_images", "->", "products">>}

OldCatalog ==
  TranslationFacts \cup OneCFacts \cup PropertyFacts \cup ProductFacts \cup AttributeFacts \cup ImageFacts
    \cup OptionFacts("propery_options") \cup OptionFacts("property_options")
    \cup {<<"property_options", "name">>, <<"property_options", "icon">>}

NewCatalog ==
  {<<"categories">>, <<"products">>, <<"products", "->", "categories">>,
   <<"product_variants">>, <<"product_variants", "->", "products">>,
   <<"attributes">>, <<"attribute_options">>, <<"attribute_options", "->", "attributes">>,
   <<"product_attributes">>, <<"product_attributes", "->", "attribute_options">>,
   <<"product_attributes", "->", "product_variants">>,
   <<"offers">>, <<"offers", "ix_variant_id">>, <<"offers", "->", "product_variants">>,
   <<"purchase_submissions">>, <<"purchase_submissions", "->", "purchases">>}

(* The images' table after the catalog has been replaced.                  *)
NewImages == {<<"product_images">>, <<"product_images", "ix_product_id">>, <<"product_images", "->", "products">>}

LengthFacts == {<<"products", "length_255">>, <<"product_variants", "length_255">>}

PurchaseFacts == {<<"purchases">>, <<"purchases", "ix_uuid">>}

MethodFacts == {<<"purchases", "payment_method">>, <<"purchases", "payment_status">>}

PaymentFacts ==
  {<<"payments">>, <<"payments", "ix_uuid">>, <<"payments", "ix_idempotency_key">>,
   <<"payments", "ix_external_payment_id">>,
   <<"purchases", "payment_id">>, <<"purchases", "ix_payment_id">>, <<"purchases", "->", "payments">>}

SyncFacts ==
  {<<"sync_tasks">>, <<"sync_tasks", "ix_status_updated">>, <<"sync_attempts">>,
   <<"sync_attempts", "->", "sync_tasks">>, <<"sync_attempts", "ix_task_id">>, <<"sync_attempts", "ix_created">>}

ShipmentFacts ==
  {<<"integration_configs">>, <<"delivery_shipments">>, <<"delivery_shipments", "->", "purchases">>}

OldFieldFacts == {<<"delivery_shipments", f>> : f \in {"environment", "request_payload", "response_payload", "operations"}}

NewFieldFacts == {<<"delivery_shipments", f>> : f \in
  {"details", "request_hash", "registration", "editing", "cancellation", "pickup", "waybill", "barcode"}}

DeliveryFacts == NewFieldFacts \cup {<<"purchases", "delivery">>}

(* All that a schema can say.                                              *)
AllFacts ==
  LocaleFacts \cup SettingsFacts \cup EventFacts \cup OldCatalog \cup NewCatalog \cup LengthFacts
    \cup PurchaseFacts \cup MethodFacts \cup PaymentFacts \cup SyncFacts \cup ShipmentFacts
    \cup OldFieldFacts \cup DeliveryFacts
    \cup {<<"purchases", "AWAITING_PAYMENT">>, <<"purchases", "ASSEMBLING">>}

(* The tables of the old catalog.                                          *)
OneCTables ==
  {<<"categories">>, <<"onec_import_runs">>, <<"properties">>, <<"products">>, <<"product_images">>,
   <<"product_attributes">>, <<"offers">>}

(* What the applied revisions A have left, as long as none of the begun    *)
(* ones, B, takes it away.                                                 *)
Owed(A, B) == {f \in AllFacts :
  \/ "f7f9e6f1a2b3" \in A /\ f = <<"settings">>
  \/ "8b7f9c1e4a2d" \in A /\ f = <<"settings", "MAP">>
  \/ "2d4a6b8c9e10" \in A /\ f = <<"settings", "PRODUCTS_PAGE_LIMIT">>
  \/ "3e7b2b1d9c4f" \in A /\ f \in EventFacts
  \/ "e4b7c1d2a9f0" \in A /\ "59ca8b5b7134" \notin B /\ f \in OneCTables
  \/ "59ca8b5b7134" \in A /\ f \in NewCatalog
  \/ "0f6d28a4b193" \in A /\ f \in LengthFacts
  \/ "6b2f4d9a8c10" \in A /\ f \in PurchaseFacts
  \/ "6b2f4d9a8c10" \in A /\ "b7a2d4c9e8f1" \notin B /\ f \in MethodFacts
  \/ "9c3e1f7a4b20" \in A /\ f \in PaymentFacts
  \/ "1f2a3b4c5d6e" \in A /\ f = <<"purchases", "AWAITING_PAYMENT">>
  \/ "6c28d90ea413" \in A /\ f = <<"purchases", "ASSEMBLING">>
  \/ "7e4a9c2b1d60" \in A /\ f \in SyncFacts
  \/ "2e8c6a4d9b10" \in A /\ f \in ShipmentFacts
  \/ "2e8c6a4d9b10" \in A /\ "4b91c7d8e205" \notin B /\ f \in OldFieldFacts
  \/ "4b91c7d8e205" \in A /\ f \in DeliveryFacts}

(* What may be there: the work of the revisions begun, and nothing of what *)
(* the applied ones take away.                                             *)
Allowed(A, B) == {f \in AllFacts :
  /\ f \in EventFacts => "3e7b2b1d9c4f" \in B
  /\ f \in OldCatalog \ (TranslationFacts \cup {<<"categories">>}) => "e4b7c1d2a9f0" \in B
  /\ f \in TranslationFacts => "e4b7c1d2a9f0" \notin A
  /\ f \in (NewCatalog \cup LengthFacts) \ OldCatalog => "59ca8b5b7134" \in B
  /\ f \in OldCatalog \ (NewCatalog \cup NewImages) => "59ca8b5b7134" \notin A
  /\ f \in PurchaseFacts \cup MethodFacts => "6b2f4d9a8c10" \in B
  /\ f \in MethodFacts => "b7a2d4c9e8f1" \notin A
  /\ f \in PaymentFacts => "9c3e1f7a4b20" \in B
  /\ f \in SyncFacts => "7e4a9c2b1d60" \in B
  /\ f \in ShipmentFacts \cup OldFieldFacts => "2e8c6a4d9b10" \in B
  /\ f \in DeliveryFacts => "4b91c7d8e205" \in B
  /\ f \in OldFieldFacts => "4b91c7d8e205" \notin A}

(* The tables of all the revisions.                                        *)
TableNames ==
  {"locale_overrides", "settings", "change_events", "category_translations", "categories", "onec_import_runs",
   "properties", "propery_options", "property_options", "products", "offers", "product_attributes", "product_images",
   "product_variants", "attributes", "attribute_options", "purchase_submissions", "purchases", "payments",
   "sync_tasks", "sync_attempts", "integration_configs", "delivery_shipments"}

(* Every fact is of a table that exists, and refers to one that exists.    *)
Consistent(x) ==
  /\ \A f \in x : <<f[1]>> \in x
  /\ \A t, u \in TableNames : <<t, "->", u>> \in x => <<u>> \in x

(* The schemas of the applied revisions A when those of B have begun.      *)
Good(A, B) == {x \in SUBSET Allowed(A, B) : Owed(A, B) \subseteq x /\ Consistent(x)}

(* The revisions applied, A, and those begun, B, of which A are a part.    *)
Order(A, B) == A \subseteq B /\ B \subseteq Revisions /\ \A r \in B : Down[r] \subseteq A

(* The facts statements speak of.                                          *)
Facts == AllFacts \cup {<<t, "->", u>> : t \in TableNames, u \in TableNames}

(* The statements of the migrations; one on rows leaves the schema alone.  *)
Stmts ==
  {st \in [rows : {"", "awaiting", "recover", "convert"},
           needs : SUBSET Facts, bars : SUBSET Facts, adds : SUBSET Facts, removes : SUBSET Facts] :
     st.rows # "" => st.adds = {} /\ st.removes = {}}

(* MySQL executes a statement when what it needs is there and what it bars *)
(* is not,                                                                 *)
Allows(st, x) == st.needs \subseteq x /\ st.bars \cap x = {}

(* and leaves what it adds without what it removes.                        *)
After(st, x) == (x \ st.removes) \cup st.adds

\* Pairs of statements to do and a schema they are done in, closed under doing the first.
Closed(R, Q, strict) ==
  \A p \in R :
    /\ p[1] = <<>> => p[2] \in Q
    /\ p[1] # <<>> => /\ strict => Allows(p[1][1], p[2])
                      /\ Allows(p[1][1], p[2]) => <<Tail(p[1]), After(p[1][1], p[2])>> \in R

(* The statements t run from the schema s through schemas of P: to the end, *)
(* which is in Q, or, unless they are strict, to the first that is refused. *)
Runs(t, s, P, Q, strict) == \E R \in SUBSET (Seq(Stmts) \X P) : <<t, s>> \in R /\ Closed(R, Q, strict)

(* Nothing to do runs from any schema of the goal.                         *)
LEMMA RunsNone ==
  ASSUME NEW P, NEW Q, NEW s \in P, s \in Q, NEW strict
  PROVE  Runs(<<>>, s, P, Q, strict)
<1> DEFINE R == {<<<<>>, s>>}
<1>1. <<>> \in Seq(Stmts)
  OBVIOUS
<1>2. <<<<>>, s>> \in Seq(Stmts) \X P
  BY <1>1
<1>3. R \in SUBSET (Seq(Stmts) \X P)
  BY <1>2
<1>4. Closed(R, Q, strict)
  <2> USE DEF Closed
  <2> TAKE p \in R
  <2>1. p[1] = <<>> /\ p[2] = s
    OBVIOUS
  <2> QED  BY <2>1
<1> QED  BY <1>3, <1>4 DEF Runs

(* One statement runs if it is allowed and leads to the goal; it may be    *)
(* refused when the run is not strict.                                     *)
LEMMA RunsOne ==
  ASSUME NEW P, NEW Q, NEW s \in P, NEW strict, NEW st \in Stmts,
         Allows(st, s) => After(st, s) \in P /\ After(st, s) \in Q, strict => Allows(st, s)
  PROVE  Runs(<<st>>, s, P, Q, strict)
<1> DEFINE R == {<<<<st>>, s>>} \cup (IF Allows(st, s) THEN {<<<<>>, After(st, s)>>} ELSE {})
<1>1. <<st>> \in Seq(Stmts) /\ <<st>>[1] = st /\ Tail(<<st>>) = <<>> /\ <<>> \in Seq(Stmts) /\ <<st>> # <<>>
  OBVIOUS
<1>2. R \in SUBSET (Seq(Stmts) \X P)
  <2>1. <<<<st>>, s>> \in Seq(Stmts) \X P
    BY <1>1
  <2>2. Allows(st, s) => <<<<>>, After(st, s)>> \in Seq(Stmts) \X P
    BY <1>1
  <2> QED  BY <2>1, <2>2
<1>3. Closed(R, Q, strict)
  <2> USE DEF Closed
  <2> TAKE p \in R
  <2>1. CASE p = <<<<st>>, s>>
    BY <1>1, <2>1
  <2>2. CASE Allows(st, s) /\ p = <<<<>>, After(st, s)>>
    BY <2>2
  <2> QED  BY <2>1, <2>2
<1> QED  BY <1>2, <1>3 DEF Runs

(* The head and the tail of two sequences put together, of which the first *)
(* is not empty.                                                           *)
LEMMA TailOfConcat ==
  ASSUME NEW S, NEW u \in Seq(S), NEW v \in Seq(S), u # <<>>
  PROVE  u \o v # <<>> /\ (u \o v)[1] = u[1] /\ Tail(u \o v) = Tail(u) \o v
<1>1. Len(u) > 0 /\ Len(u) \in Nat /\ Len(v) \in Nat
  OBVIOUS
<1>2. /\ u \o v \in Seq(S) /\ Len(u \o v) = Len(u) + Len(v)
      /\ \A i \in 1 .. Len(u) + Len(v) : (u \o v)[i] = IF i <= Len(u) THEN u[i] ELSE v[i - Len(u)]
  BY ConcatProperties
<1>3. u \o v # <<>> /\ (u \o v)[1] = u[1]
  BY <1>1, <1>2
<1>4. /\ Tail(u) \in Seq(S) /\ Len(Tail(u)) = Len(u) - 1
      /\ \A i \in 1 .. Len(Tail(u)) : Tail(u)[i] = u[i + 1]
  BY HeadTailProperties
<1>5. /\ Tail(u \o v) \in Seq(S) /\ Len(Tail(u \o v)) = Len(u \o v) - 1
      /\ \A i \in 1 .. Len(Tail(u \o v)) : Tail(u \o v)[i] = (u \o v)[i + 1]
  BY <1>2, <1>3, HeadTailProperties
<1>6. /\ Tail(u) \o v \in Seq(S) /\ Len(Tail(u) \o v) = Len(Tail(u)) + Len(v)
      /\ \A i \in 1 .. Len(Tail(u)) + Len(v) :
           (Tail(u) \o v)[i] = IF i <= Len(Tail(u)) THEN Tail(u)[i] ELSE v[i - Len(Tail(u))]
  BY <1>4, ConcatProperties
<1>7. Len(Tail(u \o v)) = Len(Tail(u) \o v)
  BY <1>1, <1>2, <1>4, <1>5, <1>6
<1>8. ASSUME NEW i \in 1 .. Len(Tail(u \o v)) PROVE Tail(u \o v)[i] = (Tail(u) \o v)[i]
  <2>1. i \in 1 .. Len(Tail(u)) + Len(v) /\ i + 1 \in 1 .. Len(u) + Len(v)
    BY <1>1, <1>2, <1>4, <1>5
  <2>2. CASE i <= Len(Tail(u))
    <3>1. i \in 1 .. Len(Tail(u)) /\ i + 1 <= Len(u)
      BY <1>1, <1>4, <2>1, <2>2
    <3> QED  BY <1>2, <1>4, <1>5, <1>6, <2>1, <2>2, <3>1
  <2>3. CASE ~(i <= Len(Tail(u)))
    <3>1. ~(i + 1 <= Len(u)) /\ (i + 1) - Len(u) = i - Len(Tail(u))
      BY <1>1, <1>4, <2>1, <2>3
    <3> QED  BY <1>2, <1>5, <1>6, <2>1, <2>3, <3>1
  <2> QED  BY <2>2, <2>3
<1>9. Tail(u \o v) = Tail(u) \o v
  BY <1>5, <1>6, <1>7, <1>8, SeqEqual
<1> QED  BY <1>3, <1>9

(* Two runs one after the other are a run: where the first ends, the       *)
(* second starts.                                                          *)
LEMMA RunsThen ==
  ASSUME NEW P, NEW Q, NEW M, NEW s, NEW strict, NEW a, NEW b \in Seq(Stmts),
         Runs(a, s, P, M, strict), \A m \in M \cap P : Runs(b, m, P, Q, strict)
  PROVE  Runs(a \o b, s, P, Q, strict)
<1>1. PICK R \in SUBSET (Seq(Stmts) \X P) : <<a, s>> \in R /\ Closed(R, M, strict)
  BY DEF Runs
<1> DEFINE G == UNION {X \in SUBSET (Seq(Stmts) \X P) : Closed(X, Q, strict)}
           F == {<<p[1] \o b, p[2]>> : p \in R}
<1>2. G \in SUBSET (Seq(Stmts) \X P) /\ \A m \in M \cap P : <<b, m>> \in G
  BY DEF Runs
<1>3. Closed(G, Q, strict)
  <2> USE DEF Closed
  <2> TAKE p \in G
  <2>1. PICK X \in SUBSET (Seq(Stmts) \X P) : Closed(X, Q, strict) /\ p \in X
    OBVIOUS
  <2>2. X \subseteq G
    BY <2>1
  <2> HIDE DEF G
  <2> QED  BY <2>1, <2>2 DEF Closed
<1> HIDE DEF G
<1>4. F \in SUBSET (Seq(Stmts) \X P)
  <2>1. ASSUME NEW p \in R PROVE <<p[1] \o b, p[2]>> \in Seq(Stmts) \X P
    <3>1. p[1] \in Seq(Stmts) /\ p[2] \in P
      OBVIOUS
    <3>2. p[1] \o b \in Seq(Stmts)
      BY <3>1, ConcatProperties
    <3> QED  BY <3>1, <3>2
  <2> QED  BY <2>1
<1>5. Closed(F \cup G, Q, strict)
  <2> USE DEF Closed
  <2> TAKE q \in F \cup G
  <2>1. CASE q \in G
    BY <2>1, <1>3 DEF Closed
  <2>2. CASE q \in F
    <3>1. PICK p \in R : q = <<p[1] \o b, p[2]>>
      BY <2>2
    <3>2. p[1] \in Seq(Stmts) /\ p[2] \in P
      OBVIOUS
    <3>3. CASE p[1] = <<>>
      <4>1. p[1] \o b = b
        BY <3>3
      <4>2. q \in G
        BY <1>1, <1>2, <3>1, <3>2, <3>3, <4>1 DEF Closed
      <4> QED  BY <4>2, <2>1
    <3>4. CASE p[1] # <<>>
      <4>1. p[1] \o b # <<>> /\ (p[1] \o b)[1] = p[1][1] /\ Tail(p[1] \o b) = Tail(p[1]) \o b
        BY <3>2, <3>4, TailOfConcat
      <4>2. /\ strict => Allows(p[1][1], p[2])
            /\ Allows(p[1][1], p[2]) => <<Tail(p[1]), After(p[1][1], p[2])>> \in R
        BY <1>1, <3>4 DEF Closed
      <4>3. Allows(p[1][1], p[2]) => <<Tail(p[1]) \o b, After(p[1][1], p[2])>> \in F
        <5> DEFINE pp == <<Tail(p[1]), After(p[1][1], p[2])>>
        <5>1. pp[1] = Tail(p[1]) /\ pp[2] = After(p[1][1], p[2])
          OBVIOUS
        <5>2. pp \in R => <<pp[1] \o b, pp[2]>> \in F
          OBVIOUS
        <5> QED  BY <4>2, <5>1, <5>2
      <4>4. q[1] = p[1] \o b /\ q[2] = p[2]
        BY <3>1
      <4> HIDE DEF F
      <4> QED  BY <4>1, <4>2, <4>3, <4>4
    <3> QED  BY <3>3, <3>4
  <2> QED  BY <2>1, <2>2
<1>6. <<a \o b, s>> \in F
  <2> DEFINE pp == <<a, s>>
  <2>1. pp[1] = a /\ pp[2] = s /\ pp \in R
    BY <1>1
  <2>2. <<pp[1] \o b, pp[2]>> \in F
    BY <2>1
  <2> QED  BY <2>1, <2>2
<1> HIDE DEF F
<1>7. F \cup G \in SUBSET (Seq(Stmts) \X P) /\ <<a \o b, s>> \in F \cup G
  BY <1>2, <1>4, <1>6
<1> QED  BY <1>5, <1>7 DEF Runs

(* What runs has a first statement that is refused or leads on.            *)
LEMMA RunsHead ==
  ASSUME NEW P, NEW Q, NEW s, NEW strict, NEW t, Runs(t, s, P, Q, strict)
  PROVE  /\ t \in Seq(Stmts) /\ s \in P
         /\ t = <<>> => s \in Q
         /\ t # <<>> => /\ strict => Allows(t[1], s)
                        /\ Allows(t[1], s) => Runs(Tail(t), After(t[1], s), P, Q, strict)
<1>1. PICK R \in SUBSET (Seq(Stmts) \X P) : <<t, s>> \in R /\ Closed(R, Q, strict)
  BY DEF Runs
<1> DEFINE p == <<t, s>>
<1>2. p \in R /\ p[1] = t /\ p[2] = s /\ t \in Seq(Stmts) /\ s \in P
  BY <1>1
<1>3. /\ p[1] = <<>> => p[2] \in Q
      /\ p[1] # <<>> => /\ strict => Allows(p[1][1], p[2])
                        /\ Allows(p[1][1], p[2]) => <<Tail(p[1]), After(p[1][1], p[2])>> \in R
  BY <1>1, <1>2 DEF Closed
<1> HIDE DEF p
<1> QED  BY <1>1, <1>2, <1>3 DEF Runs

(* A run to a goal is one to a larger goal.                                *)
LEMMA RunsWeaken ==
  ASSUME NEW P, NEW Q, NEW M, NEW s, NEW strict, NEW t, Runs(t, s, P, M, strict), M \cap P \subseteq Q
  PROVE  Runs(t, s, P, Q, strict)
<1>1. PICK R \in SUBSET (Seq(Stmts) \X P) : <<t, s>> \in R /\ Closed(R, M, strict)
  BY DEF Runs
<1>2. Closed(R, Q, strict)
  BY <1>1 DEF Closed
<1> QED  BY <1>1, <1>2 DEF Runs

(* A sequence of statements and the schemas w between them.                *)
LEMMA RunsAlong ==
  ASSUME NEW P, NEW Q, NEW strict, NEW u \in Seq(Stmts), NEW w, w[1] \in P,
         \A j \in 1 .. Len(u) : w[j] \in P =>
           /\ strict => Allows(u[j], w[j])
           /\ Allows(u[j], w[j]) => w[j + 1] \in P /\ w[j + 1] = After(u[j], w[j]),
         w[Len(u) + 1] \in P => w[Len(u) + 1] \in Q
  PROVE  Runs(u, w[1], P, Q, strict)
<1> DEFINE n == Len(u)
           rest(k) == SubSeq(u, k, n)
           R == {p \in Seq(Stmts) \X P : \E k \in 1 .. n + 1 : p = <<rest(k), w[k]>>}
<1>1. n \in Nat /\ \A j \in 1 .. n : u[j] \in Stmts
  OBVIOUS
<1>2. \A k \in 1 .. n + 1 : rest(k) \in Seq(Stmts) /\ Len(rest(k)) = n - k + 1
  <2> TAKE k \in 1 .. n + 1
  <2>1. k \in Int /\ n \in Int /\ \A i \in k .. n : u[i] \in Stmts
    BY <1>1
  <2> QED  BY <1>1, <2>1, SubSeqProperties
<1>3. \A k \in 1 .. n : rest(k) # <<>> /\ rest(k)[1] = u[k] /\ Tail(rest(k)) = rest(k + 1)
  <2> TAKE k \in 1 .. n
  <2>1. k \in 1 .. Len(u) /\ n \in k .. Len(u)
    BY <1>1
  <2>2. Head(rest(k)) = u[k] /\ Tail(rest(k)) = rest(k + 1)
    BY <2>1, HeadTailOfSubSeq
  <2>3. rest(k) \in Seq(Stmts) /\ Len(rest(k)) > 0
    BY <1>1, <1>2
  <2> HIDE DEF rest
  <2>4. rest(k) # <<>> /\ rest(k)[1] = Head(rest(k))
    BY <2>3
  <2> QED  BY <2>2, <2>4
<1>4. rest(n + 1) = <<>> /\ rest(1) = u
  <2>1. rest(n + 1) = <<>>
    BY <1>1, <1>2
  <2>2. rest(1) = u
    <3>1. \A i \in 1 .. n : rest(1)[i] = u[i]
      BY <1>1
    <3>2. rest(1) \in Seq(Stmts) /\ Len(rest(1)) = n
      BY <1>1, <1>2
    <3> HIDE DEF rest
    <3> QED  BY <3>1, <3>2, SeqEqual
  <2> QED  BY <2>1, <2>2
<1> HIDE DEF rest
<1>5. Closed(R, Q, strict)
  <2> USE DEF Closed
  <2> TAKE p \in R
  <2>1. PICK k \in 1 .. n + 1 : p = <<rest(k), w[k]>>
    OBVIOUS
  <2>2. p[1] = rest(k) /\ p[2] = w[k] /\ w[k] \in P
    BY <2>1
  <2>3. CASE k = n + 1
    <3>1. p[1] = <<>>
      BY <1>4, <2>2, <2>3
    <3>2. p[2] = w[Len(u) + 1] /\ w[Len(u) + 1] \in P
      BY <2>2, <2>3
    <3>3. w[Len(u) + 1] \in Q
      BY <3>2
    <3> HIDE DEF R
    <3> QED  BY <3>1, <3>2, <3>3
  <2>4. CASE k # n + 1
    <3>1. k \in 1 .. n /\ k + 1 \in 1 .. n + 1
      BY <1>1, <2>4
    <3>2. /\ p[1] # <<>> /\ p[1][1] = u[k] /\ Tail(p[1]) = rest(k + 1)
      BY <1>3, <2>2, <3>1
    <3>3. Allows(u[k], w[k]) => <<rest(k + 1), w[k + 1]>> \in R
      BY <1>2, <2>2, <3>1
    <3>4. Allows(u[k], w[k]) => w[k + 1] = After(u[k], w[k])
      BY <2>2, <3>1
    <3> HIDE DEF R
    <3> QED  BY <2>2, <3>1, <3>2, <3>3, <3>4
  <2> QED  BY <2>3, <2>4
<1>6. <<u, w[1]>> \in R
  BY <1>1, <1>4
<1>7. R \in SUBSET (Seq(Stmts) \X P)
  OBVIOUS
<1> QED  BY <1>5, <1>6, <1>7 DEF Runs

(* What a run of one statement to one schema says of the statement.        *)
LEMMA RunsStep ==
  ASSUME NEW P, NEW x, NEW y, NEW strict, NEW st, Runs(<<st>>, x, P, {y}, strict)
  PROVE  /\ st \in Stmts
         /\ strict => Allows(st, x)
         /\ Allows(st, x) => y \in P /\ y = After(st, x)
<1> DEFINE t == <<st>>
           M == {y}
<1>1. t # <<>> /\ t[1] = st /\ Tail(t) = <<>> /\ Runs(t, x, P, M, strict)
  OBVIOUS
<1> HIDE DEF t, M
<1>2. t \in Seq(Stmts) /\ (strict => Allows(st, x))
  BY <1>1, RunsHead
<1>3. st \in Stmts
  <2>1. t[1] \in Stmts
    BY <1>1, <1>2 DEF t
  <2> QED  BY <1>1, <2>1
<1>4. Allows(st, x) => Runs(<<>>, After(st, x), P, M, strict)
  <2>1. Allows(t[1], x) => Runs(Tail(t), After(t[1], x), P, M, strict)
    BY <1>1, RunsHead
  <2> QED  BY <1>1, <2>1
<1>5. Allows(st, x) => After(st, x) \in P /\ After(st, x) \in M
  BY <1>4, RunsHead
<1> QED  BY <1>2, <1>3, <1>5 DEF M

(* A fact is of one of the tables, of which the existence is itself a      *)
(* fact, and a foreign key is between two of them.                         *)
LEMMA FactIs ==
  /\ \A f \in AllFacts : f[1] \in TableNames /\ <<f[1]>> \in AllFacts
  /\ \A t \in TableNames : <<t>> \in AllFacts
  /\ \A t, u : <<t, "->", u>> \in AllFacts => t \in TableNames /\ u \in TableNames
<1>1. \A f \in AllFacts : f[1] \in TableNames /\ <<f[1]>> \in AllFacts
  BY DEF AllFacts, LocaleFacts, LocaleIndex, SettingsFacts, EventFacts, TranslationFacts, OptionFacts,
         PropertyFacts, OneCFacts, ProductFacts, AttributeFacts, ImageFacts, OldCatalog, NewCatalog, NewImages,
         LengthFacts, PurchaseFacts, MethodFacts, PaymentFacts, SyncFacts, ShipmentFacts, OldFieldFacts,
         NewFieldFacts, DeliveryFacts, TableNames
<1>2. \A t \in TableNames : <<t>> \in AllFacts
  BY DEF AllFacts, LocaleFacts, LocaleIndex, SettingsFacts, EventFacts, TranslationFacts, OptionFacts,
         PropertyFacts, OneCFacts, ProductFacts, AttributeFacts, ImageFacts, OldCatalog, NewCatalog, NewImages,
         LengthFacts, PurchaseFacts, MethodFacts, PaymentFacts, SyncFacts, ShipmentFacts, OldFieldFacts,
         NewFieldFacts, DeliveryFacts, TableNames
<1>3. \A t, u : <<t, "->", u>> \in AllFacts => t \in TableNames /\ u \in TableNames
  BY DEF AllFacts, LocaleFacts, LocaleIndex, SettingsFacts, EventFacts, TranslationFacts, OptionFacts,
         PropertyFacts, OneCFacts, ProductFacts, AttributeFacts, ImageFacts, OldCatalog, NewCatalog, NewImages,
         LengthFacts, PurchaseFacts, MethodFacts, PaymentFacts, SyncFacts, ShipmentFacts, OldFieldFacts,
         NewFieldFacts, DeliveryFacts, TableNames
<1> QED  BY <1>1, <1>2, <1>3

(* What a good schema has: no more than is allowed, all that is owed, and  *)
(* the tables its facts mention.                                           *)
LEMMA GoodIs ==
  ASSUME NEW A, NEW B, NEW x \in Good(A, B)
  PROVE  /\ x \subseteq Allowed(A, B) /\ Owed(A, B) \subseteq x /\ Consistent(x)
         /\ x \subseteq AllFacts /\ x \subseteq Facts
  BY DEF Good, Allowed, Facts

(* A statement that adds what is allowed and removes nothing that is owed  *)
(* leaves a good schema when it leaves a consistent one.                   *)
LEMMA GoodAfter ==
  ASSUME NEW A, NEW B, NEW x \in Good(A, B), NEW st \in Stmts, st.adds \subseteq Allowed(A, B),
         st.removes \cap Owed(A, B) = {}, Consistent(After(st, x))
  PROVE  After(st, x) \in Good(A, B)
  BY GoodIs DEF Good, After

(* The fields of a statement on the schema.                                *)
LEMMA DdlIs ==
  ASSUME NEW n \in SUBSET Facts, NEW b \in SUBSET Facts, NEW a \in SUBSET Facts, NEW r \in SUBSET Facts
  PROVE  /\ Ddl(n, b, a, r) \in Stmts
         /\ Ddl(n, b, a, r).needs = n /\ Ddl(n, b, a, r).bars = b
         /\ Ddl(n, b, a, r).adds = a /\ Ddl(n, b, a, r).removes = r
  BY DEF Ddl, Stmts

(* One DDL statement. *)
LEMMA DdlRuns ==
  ASSUME NEW A, NEW B, NEW x \in Good(A, B), NEW strict,
         NEW n \in SUBSET Facts, NEW b \in SUBSET Facts, NEW a \in SUBSET Facts, NEW r \in SUBSET Facts,
         a \subseteq Allowed(A, B), r \cap Owed(A, B) = {},
         n \subseteq x /\ b \cap x = {} => Consistent((x \ r) \cup a),
         strict => n \subseteq x /\ b \cap x = {}
  PROVE  /\ <<Ddl(n, b, a, r)>> \in Seq(Stmts)
         /\ Runs(<<Ddl(n, b, a, r)>>, x, Good(A, B), {(x \ r) \cup a}, strict)
<1> DEFINE st == Ddl(n, b, a, r)
           G == Good(A, B)
           M == {(x \ r) \cup a}
<1>1. st \in Stmts /\ (Allows(st, x) <=> n \subseteq x /\ b \cap x = {}) /\ After(st, x) = (x \ r) \cup a
  BY DdlIs DEF Allows, After
<1>2. st.adds = a /\ st.removes = r
  BY DdlIs
<1> HIDE DEF st
<1>3. Allows(st, x) => After(st, x) \in G /\ After(st, x) \in M
  BY <1>1, <1>2, GoodAfter
<1>4. strict => Allows(st, x)
  BY <1>1
<1> HIDE DEF G, M
<1>5. Runs(<<st>>, x, G, M, strict)
  BY <1>1, <1>3, <1>4, RunsOne DEF G
<1>6. <<st>> \in Seq(Stmts)
  BY <1>1
<1> QED  BY <1>5, <1>6 DEF st, G, M

(* A change leaves a consistent schema when no table goes that something   *)
(* left mentions, and none is missing that something new mentions.         *)
LEMMA ConsistentIf ==
  ASSUME NEW x \in SUBSET AllFacts, NEW y \in SUBSET AllFacts, Consistent(x),
         \A f \in y \ x : <<f[1]>> \in y,
         \A t, u \in TableNames : <<t, "->", u>> \in y \ x => <<u>> \in y,
         \A f \in y : <<f[1]>> \in x => <<f[1]>> \in y,
         \A t, u \in TableNames : <<t, "->", u>> \in y /\ <<u>> \in x => <<u>> \in y
  PROVE  Consistent(y)
  BY DEF Consistent

(* op.add_column, op.create_index or ALTER TYPE is one statement, refused  *)
(* if the table is missing or has the part.                                *)
LEMMA AddIs ==
  ASSUME NEW t \in TableNames, NEW p, <<t, p>> \in AllFacts
  PROVE  Add(t, p) \in Seq(Stmts) /\ Add(t, p) = <<Ddl({<<t>>}, {<<t, p>>}, {<<t, p>>}, {})>>
<1>1. {<<t>>} \in SUBSET Facts /\ {<<t, p>>} \in SUBSET Facts /\ {} \in SUBSET Facts
  BY FactIs DEF Facts
<1>2. Ddl({<<t>>}, {<<t, p>>}, {<<t, p>>}, {}) \in Stmts
  BY <1>1, DdlIs
<1> QED  BY <1>2 DEF Add

(* It runs, and leaves the part.                                           *)
LEMMA AddRuns ==
  ASSUME NEW A, NEW B, NEW x \in Good(A, B), NEW strict, NEW t \in TableNames, NEW p,
         <<t, p>> \in Allowed(A, B), strict => <<t>> \in x /\ <<t, p>> \notin x
  PROVE  Runs(Add(t, p), x, Good(A, B), {x \cup {<<t, p>>}}, strict)
<1> DEFINE n == {<<t>>}
           b == {<<t, p>>}
           r == {}
<1>1. n \in SUBSET Facts /\ b \in SUBSET Facts /\ r \in SUBSET Facts /\ b \in SUBSET AllFacts
  BY FactIs DEF Facts, Allowed
<1>2. x \in SUBSET AllFacts /\ Consistent(x)
  BY GoodIs
<1>3. n \subseteq x => Consistent((x \ r) \cup b)
  <2> SUFFICES ASSUME <<t>> \in x PROVE Consistent(x \cup b)
    OBVIOUS
  <2>1. \A f \in (x \cup b) \ x : <<f[1]>> \in x \cup b
    OBVIOUS
  <2>2. \A v, u \in TableNames : <<v, "->", u>> \notin b
    OBVIOUS
  <2> HIDE DEF b
  <2> QED  BY <1>1, <1>2, <2>1, <2>2, ConsistentIf
<1>4. (x \ r) \cup b = x \cup {<<t, p>>} /\ r \cap Owed(A, B) = {}
  OBVIOUS
<1>5. strict => n \subseteq x /\ b \cap x = {}
  OBVIOUS
<1>6. b \subseteq Allowed(A, B)
  OBVIOUS
<1>7. Add(t, p) = <<Ddl(n, b, b, r)>>
  BY DEF Add
<1> HIDE DEF n, b, r
<1>8. Runs(<<Ddl(n, b, b, r)>>, x, Good(A, B), {(x \ r) \cup b}, strict)
  BY <1>1, <1>3, <1>4, <1>5, <1>6, DdlRuns
<1> QED  BY <1>4, <1>7, <1>8

(* The statement that adds a foreign key is one on the schema.             *)
LEMMA AddKeyIs ==
  ASSUME NEW t \in TableNames, NEW u \in TableNames, <<t, "->", u>> \in AllFacts
  PROVE  AddKey(t, u) \in Seq(Stmts)
<1>1. {<<t>>, <<u>>} \in SUBSET Facts /\ {<<t, "->", u>>} \in SUBSET Facts /\ {} \in SUBSET Facts
  BY FactIs DEF Facts
<1>2. Ddl({<<t>>, <<u>>}, {<<t, "->", u>>}, {<<t, "->", u>>}, {}) \in Stmts
  BY <1>1, DdlIs
<1> QED  BY <1>2 DEF AddKey

(* It runs, and leaves the key.                                            *)
LEMMA AddKeyRuns ==
  ASSUME NEW A, NEW B, NEW x \in Good(A, B), NEW strict, NEW t \in TableNames, NEW u \in TableNames,
         <<t, "->", u>> \in Allowed(A, B), strict => <<t>> \in x /\ <<u>> \in x /\ <<t, "->", u>> \notin x
  PROVE  /\ AddKey(t, u) \in Seq(Stmts)
         /\ Runs(AddKey(t, u), x, Good(A, B), {x \cup {<<t, "->", u>>}}, strict)
<1> DEFINE n == {<<t>>, <<u>>}
           b == {<<t, "->", u>>}
           r == {}
<1>1. n \in SUBSET Facts /\ b \in SUBSET Facts /\ r \in SUBSET Facts /\ b \in SUBSET AllFacts
  BY FactIs DEF Facts, Allowed
<1>2. x \in SUBSET AllFacts /\ Consistent(x)
  BY GoodIs
<1>3. n \subseteq x => Consistent((x \ r) \cup b)
  <2> SUFFICES ASSUME <<t>> \in x, <<u>> \in x PROVE Consistent(x \cup b)
    OBVIOUS
  <2>1. \A f \in (x \cup b) \ x : <<f[1]>> \in x \cup b
    OBVIOUS
  <2>2. \A v, w \in TableNames : <<v, "->", w>> \in b => <<w>> \in x
    OBVIOUS
  <2> HIDE DEF b
  <2> QED  BY <1>1, <1>2, <2>1, <2>2, ConsistentIf
<1>4. (x \ r) \cup b = x \cup {<<t, "->", u>>} /\ r \cap Owed(A, B) = {}
  OBVIOUS
<1>5. strict => n \subseteq x /\ b \cap x = {}
  OBVIOUS
<1>6. b \subseteq Allowed(A, B)
  OBVIOUS
<1>7. AddKey(t, u) = <<Ddl(n, b, b, r)>>
  BY DEF AddKey
<1> HIDE DEF n, b, r
<1>8. <<Ddl(n, b, b, r)>> \in Seq(Stmts) /\ Runs(<<Ddl(n, b, b, r)>>, x, Good(A, B), {(x \ r) \cup b}, strict)
  BY <1>1, <1>3, <1>4, <1>5, <1>6, DdlRuns
<1> QED  BY <1>4, <1>7, <1>8

(* MODIFY is one statement, refused only if the table is missing.          *)
LEMMA EnsureIs ==
  ASSUME NEW t \in TableNames, NEW p, <<t, p>> \in AllFacts
  PROVE  Ensure(t, p) \in Seq(Stmts) /\ Ensure(t, p) = <<Ddl({<<t>>}, {}, {<<t, p>>}, {})>>
<1>1. {<<t>>} \in SUBSET Facts /\ {<<t, p>>} \in SUBSET Facts /\ {} \in SUBSET Facts
  BY FactIs DEF Facts
<1>2. Ddl({<<t>>}, {}, {<<t, p>>}, {}) \in Stmts
  BY <1>1, DdlIs
<1> QED  BY <1>2 DEF Ensure

(* It runs, and leaves the column as it should be.                         *)
LEMMA EnsureRuns ==
  ASSUME NEW A, NEW B, NEW x \in Good(A, B), NEW strict, NEW t \in TableNames, NEW p,
         <<t, p>> \in Allowed(A, B), strict => <<t>> \in x
  PROVE  Runs(Ensure(t, p), x, Good(A, B), {x \cup {<<t, p>>}}, strict)
<1> DEFINE n == {<<t>>}
           b == {<<t, p>>}
           r == {}
<1>1. n \in SUBSET Facts /\ b \in SUBSET Facts /\ r \in SUBSET Facts /\ b \in SUBSET AllFacts
  BY FactIs DEF Facts, Allowed
<1>2. x \in SUBSET AllFacts /\ Consistent(x)
  BY GoodIs
<1>3. n \subseteq x => Consistent((x \ r) \cup b)
  <2> SUFFICES ASSUME <<t>> \in x PROVE Consistent(x \cup b)
    OBVIOUS
  <2>1. \A f \in (x \cup b) \ x : <<f[1]>> \in x \cup b
    OBVIOUS
  <2>2. \A v, u \in TableNames : <<v, "->", u>> \notin b
    OBVIOUS
  <2> HIDE DEF b
  <2> QED  BY <1>1, <1>2, <2>1, <2>2, ConsistentIf
<1>4. (x \ r) \cup b = x \cup {<<t, p>>} /\ r \cap Owed(A, B) = {}
  OBVIOUS
<1>5. strict => n \subseteq x /\ r \cap x = {}
  OBVIOUS
<1>6. b \subseteq Allowed(A, B)
  OBVIOUS
<1>7. Ensure(t, p) = <<Ddl(n, r, b, r)>>
  BY DEF Ensure
<1> HIDE DEF n, b, r
<1>8. Runs(<<Ddl(n, r, b, r)>>, x, Good(A, B), {(x \ r) \cup b}, strict)
  BY <1>1, <1>3, <1>4, <1>5, <1>6, DdlRuns
<1> QED  BY <1>4, <1>7, <1>8

(* What CREATE TABLE leaves: the table, columns that matter, and           *)
(* references.                                                             *)
Made(t, columns, references) ==
  {<<t>>} \cup {<<t, c>> : c \in columns} \cup {<<t, "->", u>> : u \in references}

(* CREATE TABLE runs when the table is not there and those it refers to    *)
(* are.                                                                    *)
LEMMA CreateRuns ==
  ASSUME NEW A, NEW B, NEW x \in Good(A, B), NEW strict, NEW t \in TableNames, NEW columns,
         NEW references \in SUBSET TableNames, Made(t, columns, references) \subseteq Allowed(A, B),
         strict => <<t>> \notin x /\ \A u \in references : <<u>> \in x
  PROVE  /\ CreateWith(t, columns, references) \in Seq(Stmts)
         /\ Runs(CreateWith(t, columns, references), x, Good(A, B), {x \cup Made(t, columns, references)}, strict)
<1> DEFINE n == {<<u>> : u \in references}
           b == {<<t>>}
           a == Made(t, columns, references)
           r == {}
<1>1. n \in SUBSET Facts /\ b \in SUBSET Facts /\ r \in SUBSET Facts
  BY FactIs DEF Facts
<1>2. x \in SUBSET AllFacts /\ Consistent(x) /\ a \in SUBSET AllFacts /\ a \in SUBSET Facts
  BY GoodIs DEF Allowed, Facts
<1>3. n \subseteq x => Consistent((x \ r) \cup a)
  <2> SUFFICES ASSUME n \subseteq x PROVE Consistent(x \cup a)
    OBVIOUS
  <2>1. \A f \in a : <<f[1]>> \in a
    BY DEF Made
  <2>2. ASSUME NEW v \in TableNames, NEW w \in TableNames, <<v, "->", w>> \in a PROVE <<w>> \in x
    <3>1. PICK u \in references : <<v, "->", w>> = <<t, "->", u>>
      <4>1. <<v, "->", w>> # <<t>> /\ \A c \in columns : <<v, "->", w>> # <<t, c>>
        OBVIOUS
      <4> QED  BY <2>2, <4>1 DEF Made
    <3>2. w = u
      BY <3>1
    <3> QED  BY <3>2
  <2> HIDE DEF a
  <2> QED  BY <1>2, <2>1, <2>2, ConsistentIf
<1>4. (x \ r) \cup a = x \cup a /\ r \cap Owed(A, B) = {}
  OBVIOUS
<1>5. strict => n \subseteq x /\ b \cap x = {}
  OBVIOUS
<1>6. CreateWith(t, columns, references) = <<Ddl(n, b, a, r)>>
  BY DEF CreateWith, Made
<1> HIDE DEF n, b, r, a
<1>7. <<Ddl(n, b, a, r)>> \in Seq(Stmts) /\ Runs(<<Ddl(n, b, a, r)>>, x, Good(A, B), {(x \ r) \cup a}, strict)
  <2>1. a \subseteq Allowed(A, B)
    BY DEF a
  <2> QED  BY <1>1, <1>2, <1>3, <1>4, <1>5, <2>1, DdlRuns
<1> QED  BY <1>4, <1>6, <1>7 DEF a

(* The statement that drops a column or an index is one on the schema,     *)
(* refused if there is none.                                               *)
LEMMA DropPartIs ==
  ASSUME NEW t, NEW p, <<t, p>> \in AllFacts
  PROVE  DropPart(t, p) \in Seq(Stmts) /\ DropPart(t, p) = <<Ddl({<<t, p>>}, {}, {}, {<<t, p>>})>>
<1>1. {<<t, p>>} \in SUBSET Facts /\ {} \in SUBSET Facts
  BY DEF Facts
<1>2. Ddl({<<t, p>>}, {}, {}, {<<t, p>>}) \in Stmts
  BY <1>1, DdlIs
<1> QED  BY <1>2 DEF DropPart

(* It runs, and leaves the table without it.                               *)
LEMMA DropPartRuns ==
  ASSUME NEW A, NEW B, NEW x \in Good(A, B), NEW strict, NEW t, NEW p, <<t, p>> \in AllFacts,
         <<t, p>> \notin Owed(A, B), strict => <<t, p>> \in x
  PROVE  Runs(DropPart(t, p), x, Good(A, B), {x \ {<<t, p>>}}, strict)
<1> DEFINE b == {<<t, p>>}
           r == {}
<1>1. b \in SUBSET Facts /\ r \in SUBSET Facts
  BY DEF Facts
<1>2. x \in SUBSET AllFacts /\ Consistent(x)
  BY GoodIs
<1>3. Consistent((x \ b) \cup r)
  <2>1. \A f \in x \ b : <<f[1]>> \in x => <<f[1]>> \in x \ b
    OBVIOUS
  <2>2. \A v, u \in TableNames : <<u>> \in x => <<u>> \in x \ b
    OBVIOUS
  <2> HIDE DEF b
  <2>3. Consistent(x \ b)
    BY <1>2, <2>1, <2>2, ConsistentIf
  <2>4. x \ b = (x \ b) \cup r
    OBVIOUS
  <2> QED  BY <2>3, <2>4
<1>4. (x \ b) \cup r = x \ {<<t, p>>} /\ b \cap Owed(A, B) = {} /\ r \subseteq Allowed(A, B)
  OBVIOUS
<1>5. strict => b \subseteq x /\ r \cap x = {}
  OBVIOUS
<1>6. DropPart(t, p) = <<Ddl(b, r, r, b)>>
  BY DEF DropPart
<1> HIDE DEF b, r
<1>7. Runs(<<Ddl(b, r, r, b)>>, x, Good(A, B), {(x \ b) \cup r}, strict)
  BY <1>1, <1>3, <1>4, <1>5, DdlRuns
<1> QED  BY <1>4, <1>6, <1>7

(* The fields of a statement on the rows: the schema stays as it is.       *)
LEMMA DmlIs ==
  ASSUME NEW u \in {"awaiting", "recover", "convert"}, NEW n \in SUBSET Facts
  PROVE  /\ Dml(u, n) \in Stmts /\ Dml(u, n).rows = u
         /\ Dml(u, n).needs = n /\ Dml(u, n).bars = {} /\ Dml(u, n).adds = {} /\ Dml(u, n).removes = {}
  BY DEF Dml, Ddl, Stmts

(* A statement on the rows runs from a schema with the columns it needs.   *)
LEMMA DmlRuns ==
  ASSUME NEW A, NEW B, NEW x \in Good(A, B), NEW strict, NEW u \in {"awaiting", "recover", "convert"},
         NEW n \in SUBSET Facts, strict => n \subseteq x
  PROVE  /\ <<Dml(u, n)>> \in Seq(Stmts)
         /\ Runs(<<Dml(u, n)>>, x, Good(A, B), {x}, strict)
<1> DEFINE st == Dml(u, n)
           G == Good(A, B)
<1>1. st \in Stmts /\ (Allows(st, x) <=> n \subseteq x) /\ After(st, x) = x
  BY DmlIs DEF Allows, After
<1> HIDE DEF st, G
<1>2. Runs(<<st>>, x, G, {x}, strict)
  BY <1>1, RunsOne DEF G
<1> QED  BY <1>1, <1>2 DEF st, G

(* The schema s without the tables X and what is of them.                  *)
Without(s, X) == {f \in s : f[1] \notin X}

(* DROP TABLE IF EXISTS runs when no other table refers to the one it      *)
(* drops, the tables X having been dropped before.                         *)
LEMMA DropRuns ==
  ASSUME NEW A, NEW B, NEW s \in Good(A, B), NEW X, NEW x \in Good(A, B), x = Without(s, X), NEW strict,
         NEW t \in TableNames, t \notin X, \A f \in Owed(A, B) : f[1] # t,
         strict => \A u \in TableNames : <<u, "->", t>> \in s => u \in X \cup {t}
  PROVE  /\ DropIfExists(s, t) \in Seq(Stmts)
         /\ Runs(DropIfExists(s, t), x, Good(A, B), {Without(s, X \cup {t})}, strict)
<1>1. s \in SUBSET AllFacts /\ s \in SUBSET Facts /\ Consistent(s) /\ x \in SUBSET AllFacts /\ Consistent(x)
  BY GoodIs
<1>2. CASE <<t>> \notin s
  <2>1. DropIfExists(s, t) = <<>> /\ <<>> \in Seq(Stmts)
    BY <1>2 DEF DropIfExists, When
  <2>2. \A f \in s : f[1] # t
    BY <1>1, <1>2 DEF Consistent
  <2>3. Without(s, X \cup {t}) = x
    BY <2>2 DEF Without
  <2> DEFINE G == Good(A, B)
  <2>4. x \in G
    OBVIOUS
  <2> HIDE DEF G
  <2>5. Runs(<<>>, x, G, {x}, strict)
    BY <2>4, RunsNone
  <2> QED  BY <2>1, <2>3, <2>5 DEF G
<1>3. CASE <<t>> \in s
  <2> DEFINE others == Tables(s) \ {t}
             n == {<<t>>}
             b == {<<u, "->", t>> : u \in others}
             r == {f \in s : f[1] = t}
             e == {}
             y == Without(s, X \cup {t})
  <2>1. others \subseteq TableNames
    BY <1>1, FactIs DEF Tables
  <2>2. n \in SUBSET Facts /\ b \in SUBSET Facts /\ r \in SUBSET Facts /\ e \in SUBSET Facts
    BY <1>1, <2>1, FactIs DEF Facts
  <2>3. (x \ r) \cup e = y
    BY DEF Without
  <2>4. b \cap x = {} => Consistent((x \ r) \cup e)
    <3> SUFFICES ASSUME b \cap x = {} PROVE Consistent(y)
      BY <2>3
    <3>1. y \subseteq x /\ \A f \in y : f[1] # t /\ f[1] \notin X /\ f \in s
      BY DEF Without
    <3>2. ASSUME NEW f \in y, <<f[1]>> \in x PROVE <<f[1]>> \in y
      <4>1. <<f[1]>>[1] = f[1]
        OBVIOUS
      <4> QED  BY <3>1, <3>2, <4>1, <2>3
    <3>3. ASSUME NEW v \in TableNames, NEW u \in TableNames, <<v, "->", u>> \in y, <<u>> \in x PROVE <<u>> \in y
      <4>1. u # t
        <5> SUFFICES ASSUME u = t PROVE FALSE
          OBVIOUS
        <5>1. <<v, "->", u>>[1] = v
          OBVIOUS
        <5>2. v # t /\ <<v, "->", u>> \in s
          BY <3>1, <3>3, <5>1
        <5>3. v \in Tables(s)
          BY <5>1, <5>2 DEF Tables
        <5>4. <<v, "->", t>> \in b
          BY <5>2, <5>3
        <5> QED  BY <3>1, <3>3, <5>4
      <4>2. <<u>>[1] = u
        OBVIOUS
      <4> QED  BY <3>3, <4>1, <4>2, <2>3
    <3> HIDE DEF y
    <3> QED  BY <1>1, <3>1, <3>2, <3>3, ConsistentIf
  <2>5. strict => n \subseteq x /\ b \cap x = {}
    <3> SUFFICES ASSUME strict PROVE n \subseteq x /\ b \cap x = {}
      OBVIOUS
    <3>1. <<t>> \in x
      BY <1>3 DEF Without
    <3>2. ASSUME NEW u \in others, <<u, "->", t>> \in x PROVE FALSE
      <4>1. <<u, "->", t>>[1] = u /\ u # t
        OBVIOUS
      <4>2. <<u, "->", t>> \in s /\ u \notin X
        BY <3>2, <4>1 DEF Without
      <4> QED  BY <2>1, <4>1, <4>2
    <3> QED  BY <3>1, <3>2
  <2>6. r \cap Owed(A, B) = {} /\ e \subseteq Allowed(A, B)
    OBVIOUS
  <2>7. DropIfExists(s, t) = <<Ddl(n, b, e, r)>>
    BY <1>3 DEF DropIfExists, When, Drop
  <2> HIDE DEF others, n, b, r, e, y
  <2>8. <<Ddl(n, b, e, r)>> \in Seq(Stmts) /\ Runs(<<Ddl(n, b, e, r)>>, x, Good(A, B), {(x \ r) \cup e}, strict)
    BY <2>2, <2>4, <2>5, <2>6, DdlRuns
  <2> QED  BY <2>3, <2>7, <2>8 DEF y
<1> QED  BY <1>2, <1>3

(* A run that ends in one schema can be followed by statements that run    *)
(* from it.                                                                *)
LEMMA RunsNext ==
  ASSUME NEW P, NEW Q, NEW s, NEW y, NEW strict, NEW a, NEW b \in Seq(Stmts),
         Runs(a, s, P, {y}, strict), y \in P => Runs(b, y, P, Q, strict)
  PROVE  a \o b \in Seq(Stmts) /\ Runs(a \o b, s, P, Q, strict)
<1>1. \A m \in {y} \cap P : Runs(b, m, P, Q, strict)
  OBVIOUS
<1>2. a \in Seq(Stmts)
  BY RunsHead
<1> QED  BY <1>1, <1>2, RunsThen, ConcatProperties

(* Statements under a condition run when they do so under it.              *)
LEMMA RunsWhen ==
  ASSUME NEW P, NEW s \in P, NEW strict, NEW condition \in BOOLEAN, NEW t, NEW y, t \in Seq(Stmts),
         condition => Runs(t, s, P, {y}, strict)
  PROVE  /\ When(condition, t) \in Seq(Stmts)
         /\ Runs(When(condition, t), s, P, {IF condition THEN y ELSE s}, strict)
<1>1. CASE condition
  BY <1>1 DEF When
<1>2. CASE ~condition
  <2>1. <<>> \in Seq(Stmts) /\ Runs(<<>>, s, P, {s}, strict)
    BY RunsNone
  <2> QED  BY <1>2, <2>1 DEF When
<1> QED  BY <1>1, <1>2

(* Several parts of one table are a sequence of statements.                *)
LEMMA EachSeq ==
  ASSUME NEW t \in TableNames, NEW S, NEW parts \in Seq(S), \A i \in 1 .. Len(parts) : <<t, parts[i]>> \in AllFacts
  PROVE  Each(t, parts) \in Seq(Stmts)
<1>1. \A i \in 1 .. Len(parts) : Add(t, parts[i])[1] \in Stmts
  <2> TAKE i \in 1 .. Len(parts)
  <2>1. <<t, parts[i]>> \in AllFacts
    OBVIOUS
  <2>2. {<<t>>} \in SUBSET Facts /\ {<<t, parts[i]>>} \in SUBSET Facts /\ {} \in SUBSET Facts
    BY <2>1, FactIs DEF Facts
  <2>3. Ddl({<<t>>}, {<<t, parts[i]>>}, {<<t, parts[i]>>}, {}) \in Stmts
    BY <2>2, DdlIs
  <2> QED  BY <2>3 DEF Add
<1>2. Len(parts) \in Nat
  OBVIOUS
<1> QED  BY <1>1, <1>2 DEF Each

(* ADD several columns or indexes. *)
LEMMA EachRuns ==
  ASSUME NEW A, NEW B, NEW x \in Good(A, B), NEW strict, NEW t \in TableNames, NEW S, NEW parts \in Seq(S),
         NEW F, F = {<<t, parts[i]>> : i \in 1 .. Len(parts)}, F \subseteq Allowed(A, B),
         strict => <<t>> \in x /\ F \cap x = {} /\ \A i, j \in 1 .. Len(parts) : i # j => parts[i] # parts[j]
  PROVE  /\ Each(t, parts) \in Seq(Stmts)
         /\ Runs(Each(t, parts), x, Good(A, B), {x \cup F}, strict)
<1> DEFINE n == Len(parts)
           G == Good(A, B)
           first(i) == Add(t, parts[i])[1]
           u == [i \in 1 .. n |-> first(i)]
           M == {x \cup F}
           w == [k \in 1 .. n + 1 |-> x \cup {<<t, parts[i]>> : i \in 1 .. k - 1}]
<1>1. n \in Nat /\ \A i \in 1 .. n : <<t, parts[i]>> \in AllFacts /\ <<t, parts[i]>> \in F
  BY DEF Allowed
<1>2. \A i \in 1 .. n : Add(t, parts[i]) = <<first(i)>> /\ first(i) \in Stmts
  <2> TAKE i \in 1 .. n
  <2>1. Add(t, parts[i]) \in Seq(Stmts)
    BY <1>1, AddIs
  <2>2. Add(t, parts[i]) = <<first(i)>>
    BY DEF Add
  <2>3. <<first(i)>>[1] = first(i) /\ Len(<<first(i)>>) = 1
    OBVIOUS
  <2> QED  BY <2>1, <2>2, <2>3
<1>3. u = Each(t, parts)
  BY DEF Each
<1> HIDE DEF first
<1>4. u \in Seq(Stmts) /\ Len(u) = n /\ \A i \in 1 .. n : u[i] = first(i)
  BY <1>1, <1>2
<1>5. w[1] = x /\ w[n + 1] = x \cup F
  BY <1>1
<1>6. ASSUME NEW j \in 1 .. n, w[j] \in G
      PROVE  /\ strict => Allows(u[j], w[j])
             /\ Allows(u[j], w[j]) => w[j + 1] \in G /\ w[j + 1] = After(u[j], w[j])
  <2> DEFINE y == w[j]
             f == <<t, parts[j]>>
  <2>1. w[j + 1] = y \cup {f}
    <3>1. j \in 1 .. n + 1 /\ j + 1 \in 1 .. n + 1 /\ (j + 1) - 1 = j /\ 1 .. j = (1 .. j - 1) \cup {j}
      BY <1>1
    <3>2. w[j + 1] = x \cup {<<t, parts[i]>> : i \in 1 .. j} /\ y = x \cup {<<t, parts[i]>> : i \in 1 .. j - 1}
      BY <3>1
    <3>3. {<<t, parts[i]>> : i \in 1 .. j} = {<<t, parts[i]>> : i \in 1 .. j - 1} \cup {f}
      BY <3>1
    <3> HIDE DEF w, y, f
    <3> QED  BY <3>2, <3>3
  <2>2. strict => <<t>> \in y /\ f \notin y
    <3> SUFFICES ASSUME strict PROVE <<t>> \in y /\ f \notin y
      OBVIOUS
    <3>1. f \notin x
      BY <1>1
    <3>2. ASSUME NEW i \in 1 .. j - 1 PROVE f # <<t, parts[i]>>
      <4>1. i \in 1 .. n /\ i # j
        OBVIOUS
      <4> QED  BY <4>1
    <3> QED  BY <1>1, <3>1, <3>2
  <2>3. y \in G /\ f \in F
    BY <1>1, <1>6
  <2> HIDE DEF y, w
  <2>4. Runs(Add(t, parts[j]), y, G, {y \cup {f}}, strict)
    BY <1>1, <2>2, <2>3, AddRuns
  <2> DEFINE z == y \cup {f}
  <2>5. Runs(<<first(j)>>, y, G, {z}, strict)
    BY <1>2, <2>4
  <2> HIDE DEF z, G
  <2>6. /\ strict => Allows(first(j), y)
        /\ Allows(first(j), y) => z \in G /\ z = After(first(j), y)
    BY <2>5, RunsStep
  <2> QED  BY <1>4, <2>1, <2>6 DEF y, z
<1> HIDE DEF u, w, G, M
<1>7. Runs(u, w[1], G, M, strict)
  <2>1. w[Len(u) + 1] \in M
    BY <1>4, <1>5 DEF M
  <2>2. w[1] \in G
    BY <1>5 DEF G
  <2> QED  BY <1>4, <1>6, <2>1, <2>2, RunsAlong
<1>8. u \in Seq(Stmts) /\ Runs(u, x, G, M, strict)
  BY <1>4, <1>5, <1>7
<1> QED  BY <1>3, <1>8 DEF G, M

(* MODIFY several columns. *)
EnsureEach(t, parts) == [i \in 1 .. Len(parts) |-> Ensure(t, parts[i])[1]]

(* They run, and leave all of them as they should be.                      *)
LEMMA EnsureEachRuns ==
  ASSUME NEW A, NEW B, NEW x \in Good(A, B), NEW strict, NEW t \in TableNames, NEW S, NEW parts \in Seq(S),
         NEW F, F = {<<t, parts[i]>> : i \in 1 .. Len(parts)}, F \subseteq Allowed(A, B),
         strict => <<t>> \in x
  PROVE  /\ EnsureEach(t, parts) \in Seq(Stmts)
         /\ Runs(EnsureEach(t, parts), x, Good(A, B), {x \cup F}, strict)
<1> DEFINE n == Len(parts)
           G == Good(A, B)
           first(i) == Ensure(t, parts[i])[1]
           u == [i \in 1 .. n |-> first(i)]
           M == {x \cup F}
           w == [k \in 1 .. n + 1 |-> x \cup {<<t, parts[i]>> : i \in 1 .. k - 1}]
<1>1. n \in Nat /\ \A i \in 1 .. n : <<t, parts[i]>> \in AllFacts /\ <<t, parts[i]>> \in F
  BY DEF Allowed
<1>2. \A i \in 1 .. n : Ensure(t, parts[i]) = <<first(i)>> /\ first(i) \in Stmts
  <2> TAKE i \in 1 .. n
  <2>1. Ensure(t, parts[i]) \in Seq(Stmts)
    BY <1>1, EnsureIs
  <2>2. Ensure(t, parts[i]) = <<first(i)>>
    BY DEF Ensure
  <2>3. <<first(i)>>[1] = first(i) /\ Len(<<first(i)>>) = 1
    OBVIOUS
  <2> QED  BY <2>1, <2>2, <2>3
<1>3. u = EnsureEach(t, parts)
  BY DEF EnsureEach
<1> HIDE DEF first
<1>4. u \in Seq(Stmts) /\ Len(u) = n /\ \A i \in 1 .. n : u[i] = first(i)
  BY <1>1, <1>2
<1>5. w[1] = x /\ w[n + 1] = x \cup F
  BY <1>1
<1>6. ASSUME NEW j \in 1 .. n, w[j] \in G
      PROVE  /\ strict => Allows(u[j], w[j])
             /\ Allows(u[j], w[j]) => w[j + 1] \in G /\ w[j + 1] = After(u[j], w[j])
  <2> DEFINE y == w[j]
             f == <<t, parts[j]>>
  <2>1. w[j + 1] = y \cup {f}
    <3>1. j \in 1 .. n + 1 /\ j + 1 \in 1 .. n + 1 /\ (j + 1) - 1 = j /\ 1 .. j = (1 .. j - 1) \cup {j}
      BY <1>1
    <3>2. w[j + 1] = x \cup {<<t, parts[i]>> : i \in 1 .. j} /\ y = x \cup {<<t, parts[i]>> : i \in 1 .. j - 1}
      BY <3>1
    <3>3. {<<t, parts[i]>> : i \in 1 .. j} = {<<t, parts[i]>> : i \in 1 .. j - 1} \cup {f}
      BY <3>1
    <3> HIDE DEF w, y, f
    <3> QED  BY <3>2, <3>3
  <2>2. strict => <<t>> \in y
    BY <1>1
  <2>3. y \in G /\ f \in F
    BY <1>1, <1>6
  <2> HIDE DEF y, w
  <2>4. Runs(Ensure(t, parts[j]), y, G, {y \cup {f}}, strict)
    BY <1>1, <2>2, <2>3, EnsureRuns
  <2> DEFINE z == y \cup {f}
  <2>5. Runs(<<first(j)>>, y, G, {z}, strict)
    BY <1>2, <2>4
  <2> HIDE DEF z, G
  <2>6. /\ strict => Allows(first(j), y)
        /\ Allows(first(j), y) => z \in G /\ z = After(first(j), y)
    BY <2>5, RunsStep
  <2> QED  BY <1>4, <2>1, <2>6 DEF y, z
<1> HIDE DEF u, w, G, M
<1>7. Runs(u, w[1], G, M, strict)
  <2>1. w[Len(u) + 1] \in M
    BY <1>4, <1>5 DEF M
  <2>2. w[1] \in G
    BY <1>5 DEF G
  <2> QED  BY <1>4, <1>6, <2>1, <2>2, RunsAlong
<1>8. u \in Seq(Stmts) /\ Runs(u, x, G, M, strict)
  BY <1>4, <1>5, <1>7
<1> QED  BY <1>3, <1>8 DEF G, M

(* DROP several columns. *)
DropEach(t, parts) == [i \in 1 .. Len(parts) |-> DropPart(t, parts[i])[1]]

(* They run, and leave none of them.                                       *)
LEMMA DropEachRuns ==
  ASSUME NEW A, NEW B, NEW x \in Good(A, B), NEW strict, NEW t \in TableNames, NEW S, NEW parts \in Seq(S),
         NEW F, F = {<<t, parts[i]>> : i \in 1 .. Len(parts)}, F \subseteq AllFacts \ Owed(A, B),
         strict => F \subseteq x /\ \A i, j \in 1 .. Len(parts) : i # j => parts[i] # parts[j]
  PROVE  /\ DropEach(t, parts) \in Seq(Stmts)
         /\ Runs(DropEach(t, parts), x, Good(A, B), {x \ F}, strict)
<1> DEFINE n == Len(parts)
           G == Good(A, B)
           first(i) == DropPart(t, parts[i])[1]
           u == [i \in 1 .. n |-> first(i)]
           M == {x \ F}
           w == [k \in 1 .. n + 1 |-> x \ {<<t, parts[i]>> : i \in 1 .. k - 1}]
<1>1. n \in Nat /\ \A i \in 1 .. n : <<t, parts[i]>> \in AllFacts /\ <<t, parts[i]>> \in F
  BY DEF Allowed
<1>2. \A i \in 1 .. n : DropPart(t, parts[i]) = <<first(i)>> /\ first(i) \in Stmts
  <2> TAKE i \in 1 .. n
  <2>1. DropPart(t, parts[i]) \in Seq(Stmts)
    BY <1>1, DropPartIs
  <2>2. DropPart(t, parts[i]) = <<first(i)>>
    BY DEF DropPart
  <2>3. <<first(i)>>[1] = first(i) /\ Len(<<first(i)>>) = 1
    OBVIOUS
  <2> QED  BY <2>1, <2>2, <2>3
<1>3. u = DropEach(t, parts)
  BY DEF DropEach
<1> HIDE DEF first
<1>4. u \in Seq(Stmts) /\ Len(u) = n /\ \A i \in 1 .. n : u[i] = first(i)
  BY <1>1, <1>2
<1>5. w[1] = x /\ w[n + 1] = x \ F
  BY <1>1
<1>6. ASSUME NEW j \in 1 .. n, w[j] \in G
      PROVE  /\ strict => Allows(u[j], w[j])
             /\ Allows(u[j], w[j]) => w[j + 1] \in G /\ w[j + 1] = After(u[j], w[j])
  <2> DEFINE y == w[j]
             f == <<t, parts[j]>>
  <2>1. w[j + 1] = y \ {f}
    <3>1. j \in 1 .. n + 1 /\ j + 1 \in 1 .. n + 1 /\ (j + 1) - 1 = j /\ 1 .. j = (1 .. j - 1) \cup {j}
      BY <1>1
    <3>2. w[j + 1] = x \ {<<t, parts[i]>> : i \in 1 .. j} /\ y = x \ {<<t, parts[i]>> : i \in 1 .. j - 1}
      BY <3>1
    <3>3. {<<t, parts[i]>> : i \in 1 .. j} = {<<t, parts[i]>> : i \in 1 .. j - 1} \cup {f}
      BY <3>1
    <3> HIDE DEF w, y, f
    <3> QED  BY <3>2, <3>3
  <2>2. strict => f \in y
    <3> SUFFICES ASSUME strict PROVE f \in y
      OBVIOUS
    <3>1. f \in x
      BY <1>1
    <3>2. ASSUME NEW i \in 1 .. j - 1 PROVE f # <<t, parts[i]>>
      <4>1. i \in 1 .. n /\ i # j
        OBVIOUS
      <4> QED  BY <4>1
    <3> QED  BY <1>1, <3>1, <3>2
  <2>3. y \in G /\ f \in F
    BY <1>1, <1>6
  <2> HIDE DEF y, w
  <2>4. Runs(DropPart(t, parts[j]), y, G, {y \ {f}}, strict)
    BY <1>1, <2>2, <2>3, DropPartRuns
  <2> DEFINE z == y \ {f}
  <2>5. Runs(<<first(j)>>, y, G, {z}, strict)
    BY <1>2, <2>4
  <2> HIDE DEF z, G
  <2>6. /\ strict => Allows(first(j), y)
        /\ Allows(first(j), y) => z \in G /\ z = After(first(j), y)
    BY <2>5, RunsStep
  <2> QED  BY <1>4, <2>1, <2>6 DEF y, z
<1> HIDE DEF u, w, G, M
<1>7. Runs(u, w[1], G, M, strict)
  <2>1. w[Len(u) + 1] \in M
    BY <1>4, <1>5 DEF M
  <2>2. w[1] \in G
    BY <1>5 DEF G
  <2> QED  BY <1>4, <1>6, <2>1, <2>2, RunsAlong
<1>8. u \in Seq(Stmts) /\ Runs(u, x, G, M, strict)
  BY <1>4, <1>5, <1>7
<1> QED  BY <1>3, <1>8 DEF G, M

(* After statements that run, the parts of a table are added.              *)
LEMMA NextEach ==
  ASSUME NEW A, NEW B, NEW s, NEW x, NEW strict, NEW a, Runs(a, s, Good(A, B), {x}, strict),
         NEW t \in TableNames, NEW S, NEW parts \in Seq(S), NEW F, F = {<<t, parts[i]>> : i \in 1 .. Len(parts)},
         F \subseteq Allowed(A, B),
         strict => <<t>> \in x /\ F \cap x = {} /\ \A i, j \in 1 .. Len(parts) : i # j => parts[i] # parts[j]
  PROVE  Runs(a \o Each(t, parts), s, Good(A, B), {x \cup F}, strict)
<1> DEFINE G == Good(A, B)
           M == {x \cup F}
<1>1. x \in G => Runs(Each(t, parts), x, G, M, strict)
  BY EachRuns
<1>2. Each(t, parts) \in Seq(Stmts)
  BY EachSeq DEF Allowed
<1> HIDE DEF G, M
<1>3. Runs(a \o Each(t, parts), s, G, M, strict)
  BY <1>1, <1>2, RunsNext DEF G
<1> QED  BY <1>3 DEF G, M

(* After statements that run, one part of a table is added.                *)
LEMMA NextAdd ==
  ASSUME NEW A, NEW B, NEW s, NEW x, NEW strict, NEW a, Runs(a, s, Good(A, B), {x}, strict),
         NEW t \in TableNames, NEW p, <<t, p>> \in Allowed(A, B), strict => <<t>> \in x /\ <<t, p>> \notin x
  PROVE  /\ Add(t, p) \in Seq(Stmts)
         /\ Runs(a \o Add(t, p), s, Good(A, B), {x \cup {<<t, p>>}}, strict)
<1> DEFINE G == Good(A, B)
           M == {x \cup {<<t, p>>}}
<1>1. x \in G => Runs(Add(t, p), x, G, M, strict)
  BY AddRuns
<1>2. Add(t, p) \in Seq(Stmts)
  BY AddIs DEF Allowed
<1> HIDE DEF G, M
<1>3. Runs(a \o Add(t, p), s, G, M, strict)
  BY <1>1, <1>2, RunsNext DEF G
<1> QED  BY <1>2, <1>3 DEF G, M

(* After statements that run, a foreign key is added.                      *)
LEMMA NextKey ==
  ASSUME NEW A, NEW B, NEW s, NEW x, NEW strict, NEW a, Runs(a, s, Good(A, B), {x}, strict),
         NEW t \in TableNames, NEW u \in TableNames, <<t, "->", u>> \in Allowed(A, B),
         strict => <<t>> \in x /\ <<u>> \in x /\ <<t, "->", u>> \notin x
  PROVE  Runs(a \o AddKey(t, u), s, Good(A, B), {x \cup {<<t, "->", u>>}}, strict)
<1> DEFINE G == Good(A, B)
           M == {x \cup {<<t, "->", u>>}}
<1>1. x \in G => Runs(AddKey(t, u), x, G, M, strict)
  BY AddKeyRuns
<1>2. AddKey(t, u) \in Seq(Stmts)
  <2>1. {<<t>>, <<u>>} \in SUBSET Facts /\ {<<t, "->", u>>} \in SUBSET Facts /\ {} \in SUBSET Facts
    BY FactIs DEF Facts
  <2>2. Ddl({<<t>>, <<u>>}, {<<t, "->", u>>}, {<<t, "->", u>>}, {}) \in Stmts
    BY <2>1, DdlIs
  <2> QED  BY <2>2 DEF AddKey
<1> HIDE DEF G, M
<1>3. Runs(a \o AddKey(t, u), s, G, M, strict)
  BY <1>1, <1>2, RunsNext DEF G
<1> QED  BY <1>3 DEF G, M

(* After statements that run, a column is modified.                        *)
LEMMA NextEnsure ==
  ASSUME NEW A, NEW B, NEW s, NEW x, NEW strict, NEW a, Runs(a, s, Good(A, B), {x}, strict),
         NEW t \in TableNames, NEW p, <<t, p>> \in Allowed(A, B), strict => <<t>> \in x
  PROVE  /\ Ensure(t, p) \in Seq(Stmts)
         /\ Runs(a \o Ensure(t, p), s, Good(A, B), {x \cup {<<t, p>>}}, strict)
<1> DEFINE G == Good(A, B)
           M == {x \cup {<<t, p>>}}
<1>1. x \in G => Runs(Ensure(t, p), x, G, M, strict)
  BY EnsureRuns
<1>2. Ensure(t, p) \in Seq(Stmts)
  BY EnsureIs DEF Allowed
<1> HIDE DEF G, M
<1>3. Runs(a \o Ensure(t, p), s, G, M, strict)
  BY <1>1, <1>2, RunsNext DEF G
<1> QED  BY <1>2, <1>3 DEF G, M

(* CREATE TABLE is a statement on the schema.                              *)
LEMMA CreateIs ==
  ASSUME NEW t \in TableNames, NEW columns, NEW references \in SUBSET TableNames,
         Made(t, columns, references) \subseteq AllFacts
  PROVE  CreateWith(t, columns, references) \in Seq(Stmts)
<1> DEFINE n == {<<u>> : u \in references}
           b == {<<t>>}
           a == Made(t, columns, references)
<1>1. n \in SUBSET Facts /\ b \in SUBSET Facts /\ a \in SUBSET Facts /\ {} \in SUBSET Facts
  BY FactIs DEF Facts
<1>2. CreateWith(t, columns, references) = <<Ddl(n, b, a, {})>>
  BY DEF CreateWith, Made
<1> HIDE DEF n, b, a
<1>3. Ddl(n, b, a, {}) \in Stmts
  BY <1>1, DdlIs
<1> QED  BY <1>2, <1>3

(* After statements that run, a table is created.                          *)
LEMMA NextCreate ==
  ASSUME NEW A, NEW B, NEW s, NEW x, NEW strict, NEW a, Runs(a, s, Good(A, B), {x}, strict),
         NEW t \in TableNames, NEW columns, NEW references \in SUBSET TableNames,
         Made(t, columns, references) \subseteq Allowed(A, B),
         strict => <<t>> \notin x /\ \A u \in references : <<u>> \in x
  PROVE  /\ CreateWith(t, columns, references) \in Seq(Stmts)
         /\ Runs(a \o CreateWith(t, columns, references), s, Good(A, B), {x \cup Made(t, columns, references)}, strict)
<1> DEFINE G == Good(A, B)
           M == {x \cup Made(t, columns, references)}
           create == CreateWith(t, columns, references)
<1>1. x \in G => Runs(create, x, G, M, strict)
  BY CreateRuns
<1>2. create \in Seq(Stmts)
  <2>1. Made(t, columns, references) \subseteq AllFacts
    BY DEF Allowed
  <2> QED  BY <2>1, CreateIs
<1> HIDE DEF G, M, create
<1>3. Runs(a \o create, s, G, M, strict)
  BY <1>1, <1>2, RunsNext DEF G
<1> QED  BY <1>2, <1>3 DEF G, M, create

(* After statements that run, a column or an index is dropped.             *)
LEMMA NextDropPart ==
  ASSUME NEW A, NEW B, NEW s, NEW x, NEW strict, NEW a, Runs(a, s, Good(A, B), {x}, strict),
         NEW t, NEW p, <<t, p>> \in AllFacts, <<t, p>> \notin Owed(A, B), strict => <<t, p>> \in x
  PROVE  Runs(a \o DropPart(t, p), s, Good(A, B), {x \ {<<t, p>>}}, strict)
<1> DEFINE G == Good(A, B)
           M == {x \ {<<t, p>>}}
<1>1. x \in G => Runs(DropPart(t, p), x, G, M, strict)
  BY DropPartRuns
<1>2. DropPart(t, p) \in Seq(Stmts)
  BY DropPartIs
<1> HIDE DEF G, M
<1>3. Runs(a \o DropPart(t, p), s, G, M, strict)
  BY <1>1, <1>2, RunsNext DEF G
<1> QED  BY <1>3 DEF G, M

(* After statements that run, rows are updated.                            *)
LEMMA NextDml ==
  ASSUME NEW A, NEW B, NEW s, NEW x, NEW strict, NEW a, Runs(a, s, Good(A, B), {x}, strict),
         NEW u \in {"awaiting", "recover", "convert"}, NEW n \in SUBSET Facts, strict => n \subseteq x
  PROVE  Runs(a \o <<Dml(u, n)>>, s, Good(A, B), {x}, strict)
<1> DEFINE G == Good(A, B)
           M == {x}
           t == <<Dml(u, n)>>
<1>1. x \in G => Runs(t, x, G, M, strict)
  BY DmlRuns
<1>2. t \in Seq(Stmts)
  BY DmlIs
<1>3. Runs(a, s, G, M, strict)
  OBVIOUS
<1> HIDE DEF G, M, t
<1>4. Runs(a \o t, s, G, M, strict)
  BY <1>1, <1>2, <1>3, RunsNext DEF M
<1> QED  BY <1>4 DEF G, M, t

(* DROP TABLE IF EXISTS is no statement or one on the schema.              *)
LEMMA DropIs ==
  ASSUME NEW s \in SUBSET AllFacts, NEW t \in TableNames
  PROVE  DropIfExists(s, t) \in Seq(Stmts)
<1>1. CASE <<t>> \notin s
  BY <1>1 DEF DropIfExists, When
<1>2. CASE <<t>> \in s
  <2> DEFINE n == {<<t>>}
             b == {<<u, "->", t>> : u \in Tables(s) \ {t}}
             r == {f \in s : f[1] = t}
             e == {}
  <2>1. Tables(s) \subseteq TableNames
    BY FactIs DEF Tables
  <2>2. n \in SUBSET Facts /\ b \in SUBSET Facts /\ r \in SUBSET Facts /\ e \in SUBSET Facts
    BY <2>1, FactIs DEF Facts
  <2>3. DropIfExists(s, t) = <<Ddl(n, b, e, r)>>
    BY <1>2 DEF DropIfExists, When, Drop
  <2> HIDE DEF n, b, r, e
  <2>4. Ddl(n, b, e, r) \in Stmts
    BY <2>2, DdlIs
  <2> QED  BY <2>3, <2>4
<1> QED  BY <1>1, <1>2

(* After statements that have dropped the tables X, one more is dropped.   *)
LEMMA NextDrop ==
  ASSUME NEW A, NEW B, NEW s \in Good(A, B), NEW X, NEW q, NEW strict, NEW a,
         Runs(a, q, Good(A, B), {Without(s, X)}, strict),
         NEW t \in TableNames, t \notin X, \A f \in Owed(A, B) : f[1] # t,
         strict => \A u \in TableNames : <<u, "->", t>> \in s => u \in X \cup {t}
  PROVE  Runs(a \o DropIfExists(s, t), q, Good(A, B), {Without(s, X \cup {t})}, strict)
<1> DEFINE G == Good(A, B)
           x == Without(s, X)
           M == {Without(s, X \cup {t})}
<1>1. x \in G => Runs(DropIfExists(s, t), x, G, M, strict)
  BY DropRuns
<1>2. DropIfExists(s, t) \in Seq(Stmts)
  BY GoodIs, DropIs
<1>3. Runs(a, q, G, {x}, strict)
  OBVIOUS
<1> HIDE DEF G, x, M
<1>4. Runs(a \o DropIfExists(s, t), q, G, M, strict)
  BY <1>1, <1>2, <1>3, RunsNext
<1> QED  BY <1>4 DEF G, M

(* Of which revisions an applied or begun one shows that others are        *)
(* applied.                                                                *)
LEMMA OrderIs ==
  ASSUME NEW A, NEW B, Order(A, B)
  PROVE  /\ A \subseteq B
         /\ "59ca8b5b7134" \in B => "1f2a3b4c5d6e" \in A
         /\ "1f2a3b4c5d6e" \in B => "b7a2d4c9e8f1" \in A
         /\ "b7a2d4c9e8f1" \in B => "9c3e1f7a4b20" \in A
         /\ "9c3e1f7a4b20" \in B => "6b2f4d9a8c10" \in A
         /\ "6b2f4d9a8c10" \in B => "d4f8a1b2c3e9" \in A
         /\ "d4f8a1b2c3e9" \in B => "c9f1e4a2d8b6" \in A
         /\ "c9f1e4a2d8b6" \in B => {"2d4a6b8c9e10", "a5c2d9e7b341"} \subseteq A
         /\ "2d4a6b8c9e10" \in B => "1d7e6c4b9a10" \in A
         /\ "a5c2d9e7b341" \in B => "1d7e6c4b9a10" \in A
         /\ "1d7e6c4b9a10" \in B => "6a3d8f1c2b7e" \in A
         /\ "6a3d8f1c2b7e" \in B => "e4b7c1d2a9f0" \in A
         /\ "e4b7c1d2a9f0" \in B => {"3e7b2b1d9c4f", "8b7f9c1e4a2d"} \subseteq A
         /\ "3e7b2b1d9c4f" \in B => "f7f9e6f1a2b3" \in A
         /\ "8b7f9c1e4a2d" \in B => "f7f9e6f1a2b3" \in A
         /\ "7e4a9c2b1d60" \in B => "59ca8b5b7134" \in A
         /\ "0f6d28a4b193" \in B => "7e4a9c2b1d60" \in A
         /\ "2e8c6a4d9b10" \in B => "0f6d28a4b193" \in A
         /\ "4b91c7d8e205" \in B => "2e8c6a4d9b10" \in A
         /\ "6c28d90ea413" \in B => "4b91c7d8e205" \in A
  BY DEF Order, Revisions, Down

(* The schema a migration ends with is good for its revision applied, if   *)
(* it has what the revision owes and no more than it leaves.               *)
LEMMA Finish ==
  ASSUME NEW A, NEW B, NEW D, NEW y \in Good(A, B), NEW N, Owed(D, B) \subseteq Owed(A, B) \cup N, N \subseteq y,
         y \subseteq Allowed(D, B)
  PROVE  y \in Good(D, B)
  BY GoodIs DEF Good

(* A sequence of parts of a table, and their facts.                        *)
Parts(t, parts, F) ==
  /\ parts \in Seq({parts[i] : i \in 1 .. Len(parts)})
  /\ F = {<<t, parts[i]>> : i \in 1 .. Len(parts)}
  /\ \A i, j \in 1 .. Len(parts) : i # j => parts[i] # parts[j]

(* One part.                                                               *)
LEMMA PartsOne ==
  ASSUME NEW t, NEW b
  PROVE  Parts(t, <<b>>, {<<t, b>>})
<1> DEFINE parts == <<b>>
<1>1. Len(parts) = 1 /\ parts[1] = b
  OBVIOUS
<1>2. parts \in Seq({b})
  OBVIOUS
<1> HIDE DEF parts
<1>3. 1 .. Len(parts) = {1}
  BY <1>1
<1>4. {parts[i] : i \in 1 .. Len(parts)} = {b} /\ {<<t, parts[i]>> : i \in 1 .. Len(parts)} = {<<t, b>>}
  BY <1>1, <1>3
<1>5. Parts(t, parts, {<<t, b>>})
  BY <1>1, <1>2, <1>3, <1>4 DEF Parts
<1> QED  BY <1>5 DEF parts

(* Two parts.                                                              *)
LEMMA PartsTwo ==
  ASSUME NEW t, NEW b, NEW c, b # c
  PROVE  Parts(t, <<b, c>>, {<<t, b>>, <<t, c>>})
<1> DEFINE parts == <<b, c>>
<1>1. Len(parts) = 2 /\ parts[1] = b /\ parts[2] = c
  OBVIOUS
<1>2. parts \in Seq({b, c})
  OBVIOUS
<1> HIDE DEF parts
<1>3. 1 .. Len(parts) = {1, 2}
  BY <1>1
<1>4. /\ {parts[i] : i \in 1 .. Len(parts)} = {b, c}
      /\ {<<t, parts[i]>> : i \in 1 .. Len(parts)} = {<<t, b>>, <<t, c>>}
  BY <1>1, <1>3
<1>5. Parts(t, parts, {<<t, b>>, <<t, c>>})
  BY <1>1, <1>2, <1>3, <1>4 DEF Parts
<1> QED  BY <1>5 DEF parts

(* Three parts.                                                            *)
LEMMA PartsThree ==
  ASSUME NEW t, NEW b, NEW c, NEW d, b # c /\ d \notin {b, c}
  PROVE  Parts(t, <<b, c, d>>, {<<t, b>>, <<t, c>>, <<t, d>>})
<1> DEFINE parts == <<b, c, d>>
<1>1. Len(parts) = 3 /\ parts[1] = b /\ parts[2] = c /\ parts[3] = d
  OBVIOUS
<1>2. parts \in Seq({b, c, d})
  OBVIOUS
<1> HIDE DEF parts
<1>3. 1 .. Len(parts) = {1, 2, 3}
  BY <1>1
<1>4. /\ {parts[i] : i \in 1 .. Len(parts)} = {b, c, d}
      /\ {<<t, parts[i]>> : i \in 1 .. Len(parts)} = {<<t, b>>, <<t, c>>, <<t, d>>}
  BY <1>1, <1>3
<1>5. Parts(t, parts, {<<t, b>>, <<t, c>>, <<t, d>>})
  BY <1>1, <1>2, <1>3, <1>4 DEF Parts
<1> QED  BY <1>5 DEF parts

(* Four parts.                                                             *)
LEMMA PartsFour ==
  ASSUME NEW t, NEW b, NEW c, NEW d, NEW e, b # c /\ d \notin {b, c} /\ e \notin {b, c, d}
  PROVE  Parts(t, <<b, c, d, e>>, {<<t, b>>, <<t, c>>, <<t, d>>, <<t, e>>})
<1> DEFINE parts == <<b, c, d, e>>
<1>1. Len(parts) = 4 /\ parts[1] = b /\ parts[2] = c /\ parts[3] = d /\ parts[4] = e
  OBVIOUS
<1>2. parts \in Seq({b, c, d, e})
  OBVIOUS
<1> HIDE DEF parts
<1>3. 1 .. Len(parts) = {1, 2, 3, 4}
  BY <1>1
<1>4. /\ {parts[i] : i \in 1 .. Len(parts)} = {b, c, d, e}
      /\ {<<t, parts[i]>> : i \in 1 .. Len(parts)} = {<<t, b>>, <<t, c>>, <<t, d>>, <<t, e>>}
  BY <1>1, <1>3
<1>5. Parts(t, parts, {<<t, b>>, <<t, c>>, <<t, d>>, <<t, e>>})
  BY <1>1, <1>2, <1>3, <1>4 DEF Parts
<1> QED  BY <1>5 DEF parts

(* After statements that run, parts that are not there are added to a      *)
(* table.                                                                  *)
LEMMA NextParts ==
  ASSUME NEW A, NEW B, NEW s, NEW x, NEW strict, NEW a, Runs(a, s, Good(A, B), {x}, strict),
         NEW t \in TableNames, NEW parts, NEW F, Parts(t, parts, F),
         F \subseteq Allowed(A, B), strict => <<t>> \in x /\ F \cap x = {}
  PROVE  /\ Each(t, parts) \in Seq(Stmts)
         /\ Runs(a \o Each(t, parts), s, Good(A, B), {x \cup F}, strict)
<1> DEFINE S == {parts[i] : i \in 1 .. Len(parts)}
<1>1. parts \in Seq(S) /\ F = {<<t, parts[i]>> : i \in 1 .. Len(parts)}
  BY DEF Parts
<1>2. \A i, j \in 1 .. Len(parts) : i # j => parts[i] # parts[j]
  BY DEF Parts
<1>3. \A i \in 1 .. Len(parts) : <<t, parts[i]>> \in AllFacts
  BY <1>1 DEF Allowed
<1> HIDE DEF S
<1>4. Each(t, parts) \in Seq(Stmts)
  BY <1>1, <1>3, EachSeq
<1> QED  BY <1>1, <1>2, <1>4, NextEach

(* One part is added by one statement.                                     *)
LEMMA EachOne ==
  ASSUME NEW t, NEW p
  PROVE  Each(t, <<p>>) = Add(t, p)
<1>1. Len(<<p>>) = 1 /\ <<p>>[1] = p
  OBVIOUS
<1>2. Each(t, <<p>>) = [i \in 1 .. 1 |-> Add(t, <<p>>[i])[1]]
  BY <1>1 DEF Each
<1>3. Each(t, <<p>>) = [i \in 1 .. 1 |-> Add(t, p)[1]]
  <2>1. \A i \in 1 .. 1 : Add(t, <<p>>[i])[1] = Add(t, p)[1]
    BY <1>1
  <2> QED  BY <1>2, <2>1
<1> DEFINE st == Add(t, p)[1]
<1>4. Add(t, p) = <<st>>
  BY DEF Add
<1> HIDE DEF st
<1>5. [i \in 1 .. 1 |-> st] = <<st>>
  OBVIOUS
<1> QED  BY <1>3, <1>4, <1>5 DEF st

(* After statements that run, others run under a condition.                *)
LEMMA NextWhen ==
  ASSUME NEW P, NEW s, NEW x, NEW strict, NEW a, Runs(a, s, P, {x}, strict),
         NEW condition \in BOOLEAN, NEW t \in Seq(Stmts), NEW y,
         condition /\ x \in P => Runs(t, x, P, {y}, strict)
  PROVE  /\ When(condition, t) \in Seq(Stmts)
         /\ Runs(a \o When(condition, t), s, P, {IF condition THEN y ELSE x}, strict)
<1>1. When(condition, t) \in Seq(Stmts)
  BY DEF When
<1>2. x \in P => Runs(When(condition, t), x, P, {IF condition THEN y ELSE x}, strict)
  BY RunsWhen
<1> QED  BY <1>1, <1>2, RunsNext

(* A table that is made with its indexes unless it is there.               *)
LEMMA TableRuns ==
  ASSUME NEW A, NEW B, NEW x \in Good(A, B), NEW strict,
         NEW t \in TableNames, NEW references \in SUBSET TableNames, NEW parts, NEW F, Parts(t, parts, F),
         Made(t, {}, references) \cup F \subseteq Allowed(A, B),
         strict => <<t>> \notin x /\ F \cap x = {} /\ \A u \in references : <<u>> \in x
  PROVE  /\ Create(t, references) \o Each(t, parts) \in Seq(Stmts)
         /\ Runs(Create(t, references) \o Each(t, parts), x, Good(A, B), {x \cup Made(t, {}, references) \cup F}, strict)
<1> DEFINE G == Good(A, B)
           m == Made(t, {}, references)
           y == x \cup m
           a == Create(t, references)
           b == Each(t, parts)
<1>1. a \in Seq(Stmts) /\ Runs(a, x, G, {y}, strict)
  BY CreateRuns DEF Create
<1>2. strict => <<t>> \in y /\ F \cap y = {}
  <2>1. <<t>> \in m
    BY DEF Made
  <2>2. ASSUME NEW f \in F PROVE f \notin m
    <3>1. PICK i \in 1 .. Len(parts) : f = <<t, parts[i]>>
      BY DEF Parts
    <3>2. f # <<t>> /\ \A u : f # <<t, "->", u>>
      BY <3>1
    <3> QED  BY <3>2 DEF Made
  <2> QED  BY <2>1, <2>2
<1>3. F \subseteq Allowed(A, B)
  OBVIOUS
<1> HIDE DEF m, y, a
<1>4. b \in Seq(Stmts) /\ Runs(a \o b, x, G, {y \cup F}, strict)
  BY <1>1, <1>2, <1>3, NextParts
<1>5. a \o b \in Seq(Stmts)
  <2> HIDE DEF b
  <2> QED  BY <1>1, <1>4, ConcatProperties
<1> QED  BY <1>4, <1>5 DEF m, y, a

(* The four revisions that do nothing.                                     *)
LEMMA EmptyRuns ==
  ASSUME NEW A, NEW C, NEW r \in {"cc400eadf331", "d8137da72246", "569a3336d37a", "c9f1e4a2d8b6"},
         NEW s \in Good(A, C), NEW strict
  PROVE  Runs(<<>>, s, Good(A, C), Good(A \cup {r}, C), strict)
<1>1. Owed(A \cup {r}, C) \subseteq Owed(A, C) \cup {} /\ {} \subseteq s
  BY DEF Owed
<1>2. Allowed(A, C) \subseteq Allowed(A \cup {r}, C)
  BY DEF Allowed
<1>3. s \in Good(A \cup {r}, C)
  BY <1>1, <1>2, GoodIs, Finish
<1> QED  BY <1>3, RunsNone

(* The unique index of the locale overrides is made if there is a table    *)
(* and no index; whoever has stopped before, it runs.                      *)
LEMMA AddLocaleIndexRuns ==
  ASSUME NEW A, NEW C, Order(A, C), "b1f7c52d4d8a" \in C, "b1f7c52d4d8a" \notin A, NEW s \in Good(A, C), NEW strict
  PROVE  Runs(AddLocaleIndex(s), s, Good(A, C), Good(A \cup {"b1f7c52d4d8a"}, C), strict)
<1> DEFINE G == Good(A, C)
           cond == <<"locale_overrides">> \in s /\ LocaleIndex \notin s
           y == s \cup {<<LocaleIndex[1], LocaleIndex[2]>>}
           z == IF cond THEN y ELSE s
<1>1. /\ <<LocaleIndex[1], LocaleIndex[2]>> \in Allowed(A, C) /\ LocaleIndex[1] \in TableNames
      /\ <<LocaleIndex[1], LocaleIndex[2]>> = LocaleIndex /\ LocaleIndex[1] = "locale_overrides"
  BY DEF Allowed, AllFacts, LocaleFacts, LocaleIndex, SettingsFacts, EventFacts, TranslationFacts, OptionFacts,
         PropertyFacts, OneCFacts, ProductFacts, AttributeFacts, ImageFacts, OldCatalog, NewCatalog, NewImages,
         LengthFacts, PurchaseFacts, MethodFacts, PaymentFacts, SyncFacts, ShipmentFacts, OldFieldFacts,
         NewFieldFacts, DeliveryFacts, TableNames
<1>2. Add(LocaleIndex[1], LocaleIndex[2]) \in Seq(Stmts)
  BY <1>1, AddIs DEF Allowed
<1>3. cond => Runs(Add(LocaleIndex[1], LocaleIndex[2]), s, G, {y}, strict)
  BY <1>1, AddRuns
<1>4. Runs(AddLocaleIndex(s), s, G, {z}, strict)
  <2> HIDE DEF y, G
  <2>1. s \in G /\ cond \in BOOLEAN
    BY DEF G
  <2> HIDE DEF cond
  <2>2. Runs(When(cond, Add(LocaleIndex[1], LocaleIndex[2])), s, G, {z}, strict)
    BY <1>2, <1>3, <2>1, RunsWhen
  <2> QED  BY <2>2 DEF AddLocaleIndex, cond
<1>5. z \in G => z \in Good(A \cup {"b1f7c52d4d8a"}, C)
  <2> SUFFICES ASSUME z \in G PROVE z \in Good(A \cup {"b1f7c52d4d8a"}, C)
    OBVIOUS
  <2>1. Owed(A \cup {"b1f7c52d4d8a"}, C) \subseteq Owed(A, C) \cup {}
    BY DEF Owed
  <2>2. {} \subseteq z
    OBVIOUS
  <2>3. \A f \in Allowed(A, C) : f \in Allowed(A \cup {"b1f7c52d4d8a"}, C)
    BY DEF Allowed
  <2> HIDE DEF z
  <2> QED  BY <2>1, <2>2, <2>3, GoodIs, Finish DEF G
<1> QED
  <2> HIDE DEF z
  <2> HIDE DEF G
  <2>1. {z} \cap G \subseteq Good(A \cup {"b1f7c52d4d8a"}, C)
    BY <1>5
  <2> QED  BY <1>4, <2>1, RunsWeaken DEF G

(* It is dropped if it is there.                                           *)
LEMMA DropLocaleIndexRuns ==
  ASSUME NEW A, NEW C, Order(A, C), "4127d08610dd" \in C, "4127d08610dd" \notin A, NEW s \in Good(A, C), NEW strict
  PROVE  Runs(DropLocaleIndex(s), s, Good(A, C), Good(A \cup {"4127d08610dd"}, C), strict)
<1> DEFINE G == Good(A, C)
           cond == LocaleIndex \in s
           y == s \ {<<LocaleIndex[1], LocaleIndex[2]>>}
           z == IF cond THEN y ELSE s
<1>1. /\ <<LocaleIndex[1], LocaleIndex[2]>> \in AllFacts /\ <<LocaleIndex[1], LocaleIndex[2]>> \notin Owed(A, C)
      /\ <<LocaleIndex[1], LocaleIndex[2]>> = LocaleIndex
  BY DEF Owed, OneCTables, AllFacts, LocaleFacts, LocaleIndex, SettingsFacts, EventFacts, TranslationFacts, OptionFacts,
         PropertyFacts, OneCFacts, ProductFacts, AttributeFacts, ImageFacts, OldCatalog, NewCatalog, NewImages,
         LengthFacts, PurchaseFacts, MethodFacts, PaymentFacts, SyncFacts, ShipmentFacts, OldFieldFacts,
         NewFieldFacts, DeliveryFacts, TableNames
<1>2. DropPart(LocaleIndex[1], LocaleIndex[2]) \in Seq(Stmts)
  BY <1>1, DropPartIs
<1>3. cond => Runs(DropPart(LocaleIndex[1], LocaleIndex[2]), s, G, {y}, strict)
  BY <1>1, DropPartRuns
<1>4. Runs(DropLocaleIndex(s), s, G, {z}, strict)
  <2> HIDE DEF y, G
  <2>1. s \in G /\ cond \in BOOLEAN
    BY DEF G
  <2> HIDE DEF cond
  <2>2. Runs(When(cond, DropPart(LocaleIndex[1], LocaleIndex[2])), s, G, {z}, strict)
    BY <1>2, <1>3, <2>1, RunsWhen
  <2> QED  BY <2>2 DEF DropLocaleIndex, cond
<1>5. z \in G => z \in Good(A \cup {"4127d08610dd"}, C)
  <2> SUFFICES ASSUME z \in G PROVE z \in Good(A \cup {"4127d08610dd"}, C)
    OBVIOUS
  <2>1. Owed(A \cup {"4127d08610dd"}, C) \subseteq Owed(A, C) \cup {}
    BY DEF Owed
  <2>2. {} \subseteq z
    OBVIOUS
  <2>3. \A f \in Allowed(A, C) : f \in Allowed(A \cup {"4127d08610dd"}, C)
    BY DEF Allowed
  <2> HIDE DEF z
  <2> QED  BY <2>1, <2>2, <2>3, GoodIs, Finish DEF G
<1> QED
  <2> HIDE DEF z
  <2> HIDE DEF G
  <2>1. {z} \cap G \subseteq Good(A \cup {"4127d08610dd"}, C)
    BY <1>5
  <2> QED  BY <1>4, <2>1, RunsWeaken DEF G

(* The table of the settings is made unless it is there.                   *)
LEMMA CreateSettingsRuns ==
  ASSUME NEW A, NEW C, Order(A, C), "f7f9e6f1a2b3" \in C, "f7f9e6f1a2b3" \notin A, NEW s \in Good(A, C), NEW strict
  PROVE  Runs(CreateSettings(s), s, Good(A, C), Good(A \cup {"f7f9e6f1a2b3"}, C), strict)
<1> DEFINE G == Good(A, C)
           cond == <<"settings">> \notin s
           y == s \cup {<<"settings">>}
           z == IF cond THEN y ELSE s
<1>1. Made("settings", {}, {}) = {<<"settings">>} /\ {<<"settings">>} \subseteq Allowed(A, C) /\ "settings" \in TableNames
  BY DEF Made, Allowed, AllFacts, LocaleFacts, LocaleIndex, SettingsFacts, EventFacts, TranslationFacts, OptionFacts,
         PropertyFacts, OneCFacts, ProductFacts, AttributeFacts, ImageFacts, OldCatalog, NewCatalog, NewImages,
         LengthFacts, PurchaseFacts, MethodFacts, PaymentFacts, SyncFacts, ShipmentFacts, OldFieldFacts,
         NewFieldFacts, DeliveryFacts, TableNames
<1>2. Create("settings", {}) \in Seq(Stmts)
  BY <1>1, CreateIs DEF Allowed, Create
<1>3. cond => Runs(Create("settings", {}), s, G, {y}, strict)
  BY <1>1, CreateRuns DEF Create
<1>4. Runs(CreateSettings(s), s, G, {z}, strict)
  <2> HIDE DEF y, G
  <2>1. s \in G /\ cond \in BOOLEAN
    BY DEF G
  <2> HIDE DEF cond
  <2>2. Runs(When(cond, Create("settings", {})), s, G, {z}, strict)
    BY <1>2, <1>3, <2>1, RunsWhen
  <2> QED  BY <2>2 DEF CreateSettings, cond
<1>5. z \in G => z \in Good(A \cup {"f7f9e6f1a2b3"}, C)
  <2> SUFFICES ASSUME z \in G PROVE z \in Good(A \cup {"f7f9e6f1a2b3"}, C)
    OBVIOUS
  <2> DEFINE N == {<<"settings">>}
  <2>1. Owed(A \cup {"f7f9e6f1a2b3"}, C) \subseteq Owed(A, C) \cup N
    BY DEF Owed, AllFacts
  <2>2. N \subseteq z
    OBVIOUS
  <2>3. \A f \in Allowed(A, C) : f \in Allowed(A \cup {"f7f9e6f1a2b3"}, C)
    BY DEF Allowed
  <2> HIDE DEF z, N
  <2> QED  BY <2>1, <2>2, <2>3, GoodIs, Finish DEF G
<1> QED
  <2> HIDE DEF z
  <2> HIDE DEF G
  <2>1. {z} \cap G \subseteq Good(A \cup {"f7f9e6f1a2b3"}, C)
    BY <1>5
  <2> QED  BY <1>4, <2>1, RunsWeaken DEF G

(* The map's setting is added to the keys.                                 *)
LEMMA AddMapRuns ==
  ASSUME NEW A, NEW C, Order(A, C), "8b7f9c1e4a2d" \in C, "8b7f9c1e4a2d" \notin A, NEW s \in Good(A, C), NEW strict
  PROVE  Runs(AddSettingsKey(s, "MAP"), s, Good(A, C), Good(A \cup {"8b7f9c1e4a2d"}, C), strict)
<1> DEFINE G == Good(A, C)
           z == s \cup {<<"settings", "MAP">>}
<1>1. <<"settings", "MAP">> \in Allowed(A, C) /\ "settings" \in TableNames
  BY DEF Allowed, AllFacts, LocaleFacts, LocaleIndex, SettingsFacts, EventFacts, TranslationFacts, OptionFacts,
         PropertyFacts, OneCFacts, ProductFacts, AttributeFacts, ImageFacts, OldCatalog, NewCatalog, NewImages,
         LengthFacts, PurchaseFacts, MethodFacts, PaymentFacts, SyncFacts, ShipmentFacts, OldFieldFacts,
         NewFieldFacts, DeliveryFacts, TableNames
<1>2. <<"settings">> \in s
  <2>1. "f7f9e6f1a2b3" \in A
    BY OrderIs
  <2>2. <<"settings">> \in AllFacts
    BY DEF AllFacts, SettingsFacts
  <2> QED  BY <2>1, <2>2, GoodIs DEF Owed
<1>3. Runs(AddSettingsKey(s, "MAP"), s, G, {z}, strict)
  BY <1>1, <1>2, EnsureRuns DEF AddSettingsKey, When
<1>4. z \in G => z \in Good(A \cup {"8b7f9c1e4a2d"}, C)
  <2> SUFFICES ASSUME z \in G PROVE z \in Good(A \cup {"8b7f9c1e4a2d"}, C)
    OBVIOUS
  <2> DEFINE N == {<<"settings", "MAP">>}
  <2>1. Owed(A \cup {"8b7f9c1e4a2d"}, C) \subseteq Owed(A, C) \cup N
    BY DEF Owed, AllFacts
  <2>2. N \subseteq z
    OBVIOUS
  <2>3. \A f \in Allowed(A, C) : f \in Allowed(A \cup {"8b7f9c1e4a2d"}, C)
    BY DEF Allowed
  <2> HIDE DEF z, N
  <2> QED  BY <2>1, <2>2, <2>3, GoodIs, Finish DEF G
<1> QED
  <2> HIDE DEF z
  <2> HIDE DEF G
  <2>1. {z} \cap G \subseteq Good(A \cup {"8b7f9c1e4a2d"}, C)
    BY <1>4
  <2> QED  BY <1>3, <2>1, RunsWeaken DEF G

(* The page limit is added to the keys.                                    *)
LEMMA AddPageLimitRuns ==
  ASSUME NEW A, NEW C, Order(A, C), "2d4a6b8c9e10" \in C, "2d4a6b8c9e10" \notin A, NEW s \in Good(A, C), NEW strict
  PROVE  Runs(AddSettingsKey(s, "PRODUCTS_PAGE_LIMIT"), s, Good(A, C), Good(A \cup {"2d4a6b8c9e10"}, C), strict)
<1> DEFINE G == Good(A, C)
           z == s \cup {<<"settings", "PRODUCTS_PAGE_LIMIT">>}
<1>1. <<"settings", "PRODUCTS_PAGE_LIMIT">> \in Allowed(A, C) /\ "settings" \in TableNames
  BY DEF Allowed, AllFacts, LocaleFacts, LocaleIndex, SettingsFacts, EventFacts, TranslationFacts, OptionFacts,
         PropertyFacts, OneCFacts, ProductFacts, AttributeFacts, ImageFacts, OldCatalog, NewCatalog, NewImages,
         LengthFacts, PurchaseFacts, MethodFacts, PaymentFacts, SyncFacts, ShipmentFacts, OldFieldFacts,
         NewFieldFacts, DeliveryFacts, TableNames
<1>2. <<"settings">> \in s
  <2>1. "f7f9e6f1a2b3" \in A
    BY OrderIs
  <2>2. <<"settings">> \in AllFacts
    BY DEF AllFacts, SettingsFacts
  <2> QED  BY <2>1, <2>2, GoodIs DEF Owed
<1>3. Runs(AddSettingsKey(s, "PRODUCTS_PAGE_LIMIT"), s, G, {z}, strict)
  BY <1>1, <1>2, EnsureRuns DEF AddSettingsKey, When
<1>4. z \in G => z \in Good(A \cup {"2d4a6b8c9e10"}, C)
  <2> SUFFICES ASSUME z \in G PROVE z \in Good(A \cup {"2d4a6b8c9e10"}, C)
    OBVIOUS
  <2> DEFINE N == {<<"settings", "PRODUCTS_PAGE_LIMIT">>}
  <2>1. Owed(A \cup {"2d4a6b8c9e10"}, C) \subseteq Owed(A, C) \cup N
    BY DEF Owed, AllFacts
  <2>2. N \subseteq z
    OBVIOUS
  <2>3. \A f \in Allowed(A, C) : f \in Allowed(A \cup {"2d4a6b8c9e10"}, C)
    BY DEF Allowed
  <2> HIDE DEF z, N
  <2> QED  BY <2>1, <2>2, <2>3, GoodIs, Finish DEF G
<1> QED
  <2> HIDE DEF z
  <2> HIDE DEF G
  <2>1. {z} \cap G \subseteq Good(A \cup {"2d4a6b8c9e10"}, C)
    BY <1>4
  <2> QED  BY <1>3, <2>1, RunsWeaken DEF G

(* The order of the properties is added where there are properties without *)
(* it.                                                                     *)
LEMMA AddPropertyIndexRuns ==
  ASSUME NEW A, NEW C, Order(A, C), "a5c2d9e7b341" \in C, "a5c2d9e7b341" \notin A, NEW s \in Good(A, C), NEW strict
  PROVE  Runs(AddPropertyIndex(s), s, Good(A, C), Good(A \cup {"a5c2d9e7b341"}, C), strict)
<1> DEFINE G == Good(A, C)
           cond == <<"properties">> \in s /\ <<"properties", "index">> \notin s
           y == s \cup {<<"properties", "index">>}
           z == IF cond THEN y ELSE s
<1>1. <<"properties", "index">> \in Allowed(A, C) /\ "properties" \in TableNames
  <2>1. "e4b7c1d2a9f0" \in C /\ "59ca8b5b7134" \notin A
    BY OrderIs
  <2> QED  BY <2>1 DEF Allowed, AllFacts, LocaleFacts, LocaleIndex, SettingsFacts, EventFacts, TranslationFacts, OptionFacts,
         PropertyFacts, OneCFacts, ProductFacts, AttributeFacts, ImageFacts, OldCatalog, NewCatalog, NewImages,
         LengthFacts, PurchaseFacts, MethodFacts, PaymentFacts, SyncFacts, ShipmentFacts, OldFieldFacts,
         NewFieldFacts, DeliveryFacts, TableNames
<1>2. Add("properties", "index") \in Seq(Stmts)
  BY <1>1, AddIs DEF Allowed
<1>3. cond => Runs(Add("properties", "index"), s, G, {y}, strict)
  BY <1>1, AddRuns
<1>4. Runs(AddPropertyIndex(s), s, G, {z}, strict)
  <2> HIDE DEF y, G
  <2>1. s \in G /\ cond \in BOOLEAN
    BY DEF G
  <2> HIDE DEF cond
  <2>2. Runs(When(cond, Add("properties", "index")), s, G, {z}, strict)
    BY <1>2, <1>3, <2>1, RunsWhen
  <2> QED  BY <2>2 DEF AddPropertyIndex, cond
<1>5. z \in G => z \in Good(A \cup {"a5c2d9e7b341"}, C)
  <2> SUFFICES ASSUME z \in G PROVE z \in Good(A \cup {"a5c2d9e7b341"}, C)
    OBVIOUS
  <2>1. Owed(A \cup {"a5c2d9e7b341"}, C) \subseteq Owed(A, C) \cup {}
    BY DEF Owed
  <2>2. {} \subseteq z
    OBVIOUS
  <2>3. \A f \in Allowed(A, C) : f \in Allowed(A \cup {"a5c2d9e7b341"}, C)
    BY DEF Allowed
  <2> HIDE DEF z
  <2> QED  BY <2>1, <2>2, <2>3, GoodIs, Finish DEF G
<1> QED
  <2> HIDE DEF z
  <2> HIDE DEF G
  <2>1. {z} \cap G \subseteq Good(A \cup {"a5c2d9e7b341"}, C)
    BY <1>5
  <2> QED  BY <1>4, <2>1, RunsWeaken DEF G

(* The change events get a table and an index: a migration that cannot run *)
(* again from the middle.                                                  *)
LEMMA AddChangeEventsRuns ==
  ASSUME NEW A, NEW C, Order(A, C), "3e7b2b1d9c4f" \in C, "3e7b2b1d9c4f" \notin A, NEW s \in Good(A, C), NEW strict,
         strict => s \in Good(A, C \ {"3e7b2b1d9c4f"})
  PROVE  Runs(AddChangeEvents, s, Good(A, C), Good(A \cup {"3e7b2b1d9c4f"}, C), strict)
<1> DEFINE G == Good(A, C)
           y == s \cup {<<"change_events">>}
           z == y \cup {<<"change_events", "ix_event_type">>}
<1>1. EventFacts \subseteq Allowed(A, C) /\ "change_events" \in TableNames
  BY DEF Allowed, AllFacts, LocaleFacts, LocaleIndex, SettingsFacts, EventFacts, TranslationFacts, OptionFacts,
         PropertyFacts, OneCFacts, ProductFacts, AttributeFacts, ImageFacts, OldCatalog, NewCatalog, NewImages,
         LengthFacts, PurchaseFacts, MethodFacts, PaymentFacts, SyncFacts, ShipmentFacts, OldFieldFacts,
         NewFieldFacts, DeliveryFacts, TableNames
<1>2. strict => EventFacts \cap s = {}
  BY GoodIs DEF Allowed
<1>3. Create("change_events", {}) \in Seq(Stmts) /\ Runs(Create("change_events", {}), s, G, {y}, strict)
  <2>1. Made("change_events", {}, {}) = {<<"change_events">>}
    BY DEF Made
  <2>2. <<"change_events">> \in EventFacts
    BY DEF EventFacts
  <2> QED  BY <1>1, <1>2, <2>1, <2>2, CreateRuns DEF Create
<1>4. Runs(Create("change_events", {}) \o Add("change_events", "ix_event_type"), s, G, {z}, strict)
  <2>1. <<"change_events", "ix_event_type">> \in EventFacts /\ <<"change_events", "ix_event_type">> \in AllFacts
    BY <1>1 DEF EventFacts, Allowed
  <2>2. strict => <<"change_events">> \in y /\ <<"change_events", "ix_event_type">> \notin y
    BY <1>2, <2>1
  <2> HIDE DEF y, z
  <2>3. y \in G => Runs(Add("change_events", "ix_event_type"), y, G, {z}, strict)
    BY <1>1, <2>1, <2>2, AddRuns DEF z
  <2>4. Add("change_events", "ix_event_type") \in Seq(Stmts)
    BY <1>1, <2>1, AddIs
  <2> HIDE DEF G
  <2> QED  BY <1>3, <2>3, <2>4, RunsNext
<1>5. z \in G => z \in Good(A \cup {"3e7b2b1d9c4f"}, C)
  <2> SUFFICES ASSUME z \in G PROVE z \in Good(A \cup {"3e7b2b1d9c4f"}, C)
    OBVIOUS
  <2>1. Owed(A \cup {"3e7b2b1d9c4f"}, C) \subseteq Owed(A, C) \cup EventFacts
    BY DEF Owed
  <2>2. Allowed(A, C) \subseteq Allowed(A \cup {"3e7b2b1d9c4f"}, C)
    BY DEF Allowed
  <2>3. EventFacts \subseteq z
    BY DEF EventFacts
  <2> HIDE DEF z
  <2> QED  BY <2>1, <2>2, <2>3, GoodIs, Finish
<1> QED
  <2> HIDE DEF z, G
  <2>1. {z} \cap G \subseteq Good(A \cup {"3e7b2b1d9c4f"}, C)
    BY <1>5
  <2> QED  BY <1>4, <2>1, RunsWeaken DEF AddChangeEvents, G

(* The properties get their category, its index and its key, each unless   *)
(* it is there.                                                            *)
LEMMA AddParentCategoryRuns ==
  ASSUME NEW A, NEW C, Order(A, C), "1d7e6c4b9a10" \in C, "1d7e6c4b9a10" \notin A, NEW s \in Good(A, C), NEW strict
  PROVE  Runs(AddParentCategory(s), s, Good(A, C), Good(A \cup {"1d7e6c4b9a10"}, C), strict)
<1> DEFINE G == Good(A, C)
           f == <<"properties", "parent_category_id">>
           g == <<"properties", "->", "categories">>
           h == <<"properties", "ix_parent_category_id">>
           x == IF f \notin s THEN s \cup {f} ELSE s
           y == IF g \notin s THEN x \cup {g} ELSE x
           z == IF h \notin s THEN y \cup {h} ELSE y
<1>1. {f, g, h} \subseteq Allowed(A, C) /\ "properties" \in TableNames /\ "categories" \in TableNames
  <2>1. "e4b7c1d2a9f0" \in C /\ "59ca8b5b7134" \notin A
    BY OrderIs
  <2> QED  BY <2>1 DEF Allowed, AllFacts, LocaleFacts, LocaleIndex, SettingsFacts, EventFacts, TranslationFacts, OptionFacts,
         PropertyFacts, OneCFacts, ProductFacts, AttributeFacts, ImageFacts, OldCatalog, NewCatalog, NewImages,
         LengthFacts, PurchaseFacts, MethodFacts, PaymentFacts, SyncFacts, ShipmentFacts, OldFieldFacts,
         NewFieldFacts, DeliveryFacts, TableNames
<1>2. <<"properties">> \in s /\ <<"categories">> \in s
  <2>1. "e4b7c1d2a9f0" \in A /\ "59ca8b5b7134" \notin C
    BY OrderIs
  <2>2. {<<"properties">>, <<"categories">>} \subseteq AllFacts
    BY <1>1, FactIs
  <2> QED  BY <2>1, <2>2, GoodIs DEF Owed, OneCTables
<1>3. Runs(When(f \notin s, Add("properties", "parent_category_id")), s, G, {x}, strict)
  <2>1. f \notin s => Runs(Add("properties", "parent_category_id"), s, G, {s \cup {f}}, strict)
    BY <1>1, <1>2, AddRuns
  <2>2. Add("properties", "parent_category_id") \in Seq(Stmts) /\ (f \notin s) \in BOOLEAN /\ s \in G
    BY <1>1, AddIs DEF Allowed
  <2> HIDE DEF f, G
  <2> QED  BY <2>1, <2>2, RunsWhen
<1>4. /\ When(g \notin s, AddKey("properties", "categories")) \in Seq(Stmts)
      /\ x \in G => Runs(When(g \notin s, AddKey("properties", "categories")), x, G, {y}, strict)
  <2> DEFINE w == x \cup {g}
  <2>1. AddKey("properties", "categories") \in Seq(Stmts)
    BY <1>1, AddKeyIs DEF Allowed
  <2>2. x \in G /\ g \notin s => Runs(AddKey("properties", "categories"), x, G, {w}, strict)
    <3>1. g \notin s => g \notin x
      OBVIOUS
    <3>2. <<"properties">> \in x /\ <<"categories">> \in x
      BY <1>2
    <3> HIDE DEF x
    <3> QED  BY <1>1, <3>1, <3>2, AddKeyRuns
  <2>3. (g \notin s) \in BOOLEAN
    OBVIOUS
  <2> HIDE DEF x, g, G, w
  <2>4. x \in G => Runs(When(g \notin s, AddKey("properties", "categories")), x, G, {IF g \notin s THEN w ELSE x}, strict)
    BY <2>1, <2>2, <2>3, RunsWhen
  <2> QED  BY <2>1, <2>4 DEF w, When
<1>5. /\ When(h \notin s, Add("properties", "ix_parent_category_id")) \in Seq(Stmts)
      /\ y \in G => Runs(When(h \notin s, Add("properties", "ix_parent_category_id")), y, G, {z}, strict)
  <2> DEFINE w == y \cup {h}
  <2>1. Add("properties", "ix_parent_category_id") \in Seq(Stmts)
    BY <1>1, AddIs DEF Allowed
  <2>2. y \in G /\ h \notin s => Runs(Add("properties", "ix_parent_category_id"), y, G, {w}, strict)
    <3>1. h \notin s => h \notin y
      OBVIOUS
    <3>2. <<"properties">> \in y
      BY <1>2
    <3> HIDE DEF y
    <3> QED  BY <1>1, <3>1, <3>2, AddRuns
  <2>3. (h \notin s) \in BOOLEAN
    OBVIOUS
  <2> HIDE DEF y, h, G, w
  <2>4. y \in G => Runs(When(h \notin s, Add("properties", "ix_parent_category_id")), y, G,
                        {IF h \notin s THEN w ELSE y}, strict)
    BY <2>1, <2>2, <2>3, RunsWhen
  <2> QED  BY <2>1, <2>4 DEF w, When
<1> DEFINE a == When(f \notin s, Add("properties", "parent_category_id"))
           b == When(g \notin s, AddKey("properties", "categories"))
           c == When(h \notin s, Add("properties", "ix_parent_category_id"))
<1>6. Runs(AddParentCategory(s), s, G, {z}, strict)
  <2>1. AddParentCategory(s) = a \o b \o c
    BY <1>2 DEF AddParentCategory, When
  <2> HIDE DEF a, b, c, x, y, z, G
  <2>2. Runs(a \o b, s, G, {y}, strict)
    BY <1>3, <1>4, RunsNext DEF a, b
  <2> DEFINE d == a \o b
  <2> HIDE DEF d
  <2>3. Runs(d \o c, s, G, {z}, strict)
    BY <1>5, <2>2, RunsNext DEF c, d
  <2> QED  BY <2>1, <2>3 DEF d
<1>7. z \in G => z \in Good(A \cup {"1d7e6c4b9a10"}, C)
  <2> SUFFICES ASSUME z \in G PROVE z \in Good(A \cup {"1d7e6c4b9a10"}, C)
    OBVIOUS
  <2>1. Owed(A \cup {"1d7e6c4b9a10"}, C) \subseteq Owed(A, C) \cup {}
    BY DEF Owed
  <2>2. {} \subseteq z
    OBVIOUS
  <2>3. \A e \in Allowed(A, C) : e \in Allowed(A \cup {"1d7e6c4b9a10"}, C)
    BY DEF Allowed
  <2> HIDE DEF z
  <2> QED  BY <2>1, <2>2, <2>3, GoodIs, Finish DEF G
<1> QED
  <2> HIDE DEF z
  <2> HIDE DEF G
  <2>1. {z} \cap G \subseteq Good(A \cup {"1d7e6c4b9a10"}, C)
    BY <1>7
  <2> QED  BY <1>6, <2>1, RunsWeaken DEF G

(* The state ASSEMBLING is added to the purchases.                         *)
LEMMA AddAssemblingRuns ==
  ASSUME NEW A, NEW C, Order(A, C), "6c28d90ea413" \in C, "6c28d90ea413" \notin A, NEW s \in Good(A, C), NEW strict
  PROVE  Runs(AddAssembling, s, Good(A, C), Good(A \cup {"6c28d90ea413"}, C), strict)
<1> DEFINE G == Good(A, C)
           z == s \cup {<<"purchases", "ASSEMBLING">>}
<1>1. <<"purchases", "ASSEMBLING">> \in Allowed(A, C) /\ "purchases" \in TableNames
  BY DEF Allowed, AllFacts, LocaleFacts, LocaleIndex, SettingsFacts, EventFacts, TranslationFacts, OptionFacts,
         PropertyFacts, OneCFacts, ProductFacts, AttributeFacts, ImageFacts, OldCatalog, NewCatalog, NewImages,
         LengthFacts, PurchaseFacts, MethodFacts, PaymentFacts, SyncFacts, ShipmentFacts, OldFieldFacts,
         NewFieldFacts, DeliveryFacts, TableNames
<1>2. <<"purchases">> \in s
  <2>1. "6b2f4d9a8c10" \in A
    BY OrderIs
  <2>2. <<"purchases">> \in AllFacts /\ <<"purchases">> \in PurchaseFacts
    BY DEF AllFacts, PurchaseFacts
  <2> QED  BY <2>1, <2>2, GoodIs DEF Owed
<1>3. Runs(AddAssembling, s, G, {z}, strict)
  BY <1>1, <1>2, EnsureRuns DEF AddAssembling
<1>4. z \in G => z \in Good(A \cup {"6c28d90ea413"}, C)
  <2> SUFFICES ASSUME z \in G PROVE z \in Good(A \cup {"6c28d90ea413"}, C)
    OBVIOUS
  <2> DEFINE N == {<<"purchases", "ASSEMBLING">>}
  <2>1. Owed(A \cup {"6c28d90ea413"}, C) \subseteq Owed(A, C) \cup N
    BY DEF Owed, AllFacts
  <2>2. N \subseteq z
    OBVIOUS
  <2>3. \A f \in Allowed(A, C) : f \in Allowed(A \cup {"6c28d90ea413"}, C)
    BY DEF Allowed
  <2> HIDE DEF z, N
  <2> QED  BY <2>1, <2>2, <2>3, GoodIs, Finish DEF G
<1> QED
  <2> HIDE DEF z
  <2> HIDE DEF G
  <2>1. {z} \cap G \subseteq Good(A \cup {"6c28d90ea413"}, C)
    BY <1>4
  <2> QED  BY <1>3, <2>1, RunsWeaken DEF G

(* The state AWAITING_PAYMENT is added and the rows are moved to it.       *)
LEMMA AwaitPaymentRuns ==
  ASSUME NEW A, NEW C, Order(A, C), "1f2a3b4c5d6e" \in C, "1f2a3b4c5d6e" \notin A, NEW s \in Good(A, C), NEW strict
  PROVE  Runs(AwaitPayment, s, Good(A, C), Good(A \cup {"1f2a3b4c5d6e"}, C), strict)
<1> DEFINE G == Good(A, C)
           f == <<"purchases", "AWAITING_PAYMENT">>
           z == s \cup {f}
<1>1. f \in Allowed(A, C) /\ "purchases" \in TableNames
  BY DEF Allowed, AllFacts, LocaleFacts, LocaleIndex, SettingsFacts, EventFacts, TranslationFacts, OptionFacts,
         PropertyFacts, OneCFacts, ProductFacts, AttributeFacts, ImageFacts, OldCatalog, NewCatalog, NewImages,
         LengthFacts, PurchaseFacts, MethodFacts, PaymentFacts, SyncFacts, ShipmentFacts, OldFieldFacts,
         NewFieldFacts, DeliveryFacts, TableNames
<1>2. <<"purchases">> \in s
  <2>1. "6b2f4d9a8c10" \in A
    BY OrderIs
  <2>2. <<"purchases">> \in AllFacts /\ <<"purchases">> \in PurchaseFacts
    BY DEF AllFacts, PurchaseFacts
  <2> QED  BY <2>1, <2>2, GoodIs DEF Owed
<1>3. Runs(Ensure("purchases", "AWAITING_PAYMENT"), s, G, {z}, strict)
  BY <1>1, <1>2, EnsureRuns
<1>4. Runs(AwaitPayment, s, G, {z}, strict)
  <2>1. {f} \in SUBSET Facts /\ {f} \subseteq z
    BY <1>1 DEF Allowed, Facts
  <2> DEFINE n == {f}
  <2> HIDE DEF n, z
  <2>2. Runs(Ensure("purchases", "AWAITING_PAYMENT") \o <<Dml("awaiting", n)>>, s, G, {z}, strict)
    BY <1>3, <2>1, NextDml DEF n
  <2> QED  BY <2>2 DEF AwaitPayment, n
<1>5. z \in G => z \in Good(A \cup {"1f2a3b4c5d6e"}, C)
  <2> SUFFICES ASSUME z \in G PROVE z \in Good(A \cup {"1f2a3b4c5d6e"}, C)
    OBVIOUS
  <2> DEFINE N == {<<"purchases", "AWAITING_PAYMENT">>}
  <2>1. Owed(A \cup {"1f2a3b4c5d6e"}, C) \subseteq Owed(A, C) \cup N
    BY DEF Owed, AllFacts
  <2>2. N \subseteq z
    OBVIOUS
  <2>3. \A e \in Allowed(A, C) : e \in Allowed(A \cup {"1f2a3b4c5d6e"}, C)
    BY DEF Allowed
  <2> HIDE DEF z, N
  <2> QED  BY <2>1, <2>2, <2>3, GoodIs, Finish DEF G
<1> QED
  <2> HIDE DEF z
  <2> HIDE DEF G
  <2>1. {z} \cap G \subseteq Good(A \cup {"1f2a3b4c5d6e"}, C)
    BY <1>5
  <2> QED  BY <1>4, <2>1, RunsWeaken DEF G

(* The lengths of the strings are changed; this can be repeated.           *)
LEMMA ExpandStringsRuns ==
  ASSUME NEW A, NEW C, Order(A, C), "0f6d28a4b193" \in C, "0f6d28a4b193" \notin A, NEW s \in Good(A, C), NEW strict
  PROVE  Runs(ExpandStrings, s, Good(A, C), Good(A \cup {"0f6d28a4b193"}, C), strict)
<1> DEFINE G == Good(A, C)
           y == s \cup {<<"products", "length_255">>}
           z == y \cup {<<"product_variants", "length_255">>}
<1>1. LengthFacts \subseteq Allowed(A, C) /\ "products" \in TableNames /\ "product_variants" \in TableNames
  <2>1. "59ca8b5b7134" \in C
    BY OrderIs
  <2> QED  BY <2>1 DEF Allowed, AllFacts, LocaleFacts, LocaleIndex, SettingsFacts, EventFacts, TranslationFacts, OptionFacts,
         PropertyFacts, OneCFacts, ProductFacts, AttributeFacts, ImageFacts, OldCatalog, NewCatalog, NewImages,
         LengthFacts, PurchaseFacts, MethodFacts, PaymentFacts, SyncFacts, ShipmentFacts, OldFieldFacts,
         NewFieldFacts, DeliveryFacts, TableNames
<1>2. <<"products">> \in s /\ <<"product_variants">> \in s
  <2>1. "59ca8b5b7134" \in A
    BY OrderIs
  <2>2. {<<"products">>, <<"product_variants">>} \subseteq AllFacts \cap NewCatalog
    BY DEF AllFacts, NewCatalog
  <2> QED  BY <2>1, <2>2, GoodIs DEF Owed
<1>3. <<"products", "length_255">> \in Allowed(A, C) /\ <<"product_variants", "length_255">> \in Allowed(A, C)
  BY <1>1 DEF LengthFacts
<1>4. Runs(Ensure("products", "length_255"), s, G, {y}, strict)
  BY <1>1, <1>2, <1>3, EnsureRuns
<1>5. Runs(ExpandStrings, s, G, {z}, strict)
  <2>1. <<"product_variants">> \in y
    BY <1>2
  <2> HIDE DEF y
  <2> QED  BY <1>1, <1>3, <1>4, <2>1, NextEnsure DEF ExpandStrings
<1>6. z \in G => z \in Good(A \cup {"0f6d28a4b193"}, C)
  <2> SUFFICES ASSUME z \in G PROVE z \in Good(A \cup {"0f6d28a4b193"}, C)
    OBVIOUS
  <2> DEFINE N == LengthFacts
  <2>1. Owed(A \cup {"0f6d28a4b193"}, C) \subseteq Owed(A, C) \cup N
    BY DEF Owed, AllFacts
  <2>2. N \subseteq z
    BY DEF LengthFacts
  <2>3. \A f \in Allowed(A, C) : f \in Allowed(A \cup {"0f6d28a4b193"}, C)
    BY DEF Allowed
  <2> HIDE DEF z, N
  <2> QED  BY <2>1, <2>2, <2>3, GoodIs, Finish DEF G
<1> QED
  <2> HIDE DEF z
  <2> HIDE DEF G
  <2>1. {z} \cap G \subseteq Good(A \cup {"0f6d28a4b193"}, C)
    BY <1>6
  <2> QED  BY <1>5, <2>1, RunsWeaken DEF G

(* The purchases get a table and an index: a migration that cannot run     *)
(* again from the middle.                                                  *)
LEMMA AddPurchasesRuns ==
  ASSUME NEW A, NEW C, Order(A, C), "6b2f4d9a8c10" \in C, "6b2f4d9a8c10" \notin A, NEW s \in Good(A, C), NEW strict,
         strict => s \in Good(A, C \ {"6b2f4d9a8c10"})
  PROVE  Runs(AddPurchases, s, Good(A, C), Good(A \cup {"6b2f4d9a8c10"}, C), strict)
<1> DEFINE G == Good(A, C)
           own == PurchaseFacts \cup MethodFacts
           y == s \cup {<<"purchases">>, <<"purchases", "payment_method">>, <<"purchases", "payment_status">>}
           z == y \cup {<<"purchases", "ix_uuid">>}
<1>1. own \subseteq Allowed(A, C) /\ "purchases" \in TableNames
  <2>1. "b7a2d4c9e8f1" \notin A
    BY OrderIs
  <2> QED  BY <2>1 DEF Allowed, AllFacts, LocaleFacts, LocaleIndex, SettingsFacts, EventFacts, TranslationFacts, OptionFacts,
         PropertyFacts, OneCFacts, ProductFacts, AttributeFacts, ImageFacts, OldCatalog, NewCatalog, NewImages,
         LengthFacts, PurchaseFacts, MethodFacts, PaymentFacts, SyncFacts, ShipmentFacts, OldFieldFacts,
         NewFieldFacts, DeliveryFacts, TableNames
<1>2. strict => own \cap s = {}
  BY GoodIs DEF Allowed
<1>3. /\ {<<"purchases">>, <<"purchases", "payment_method">>, <<"purchases", "payment_status">>} \subseteq own
      /\ <<"purchases", "ix_uuid">> \in own
      /\ Made("purchases", {"payment_method", "payment_status"}, {}) =
           {<<"purchases">>, <<"purchases", "payment_method">>, <<"purchases", "payment_status">>}
  BY DEF Made, PurchaseFacts, MethodFacts
<1>4. Runs(CreateWith("purchases", {"payment_method", "payment_status"}, {}), s, G, {y}, strict)
  BY <1>1, <1>2, <1>3, CreateRuns
<1>5. Runs(AddPurchases, s, G, {z}, strict)
  <2>1. strict => <<"purchases">> \in y /\ <<"purchases", "ix_uuid">> \notin y
    BY <1>2, <1>3
  <2> HIDE DEF y, own
  <2> QED  BY <1>1, <1>3, <1>4, <2>1, NextAdd DEF AddPurchases
<1>6. z \in G => z \in Good(A \cup {"6b2f4d9a8c10"}, C)
  <2> SUFFICES ASSUME z \in G PROVE z \in Good(A \cup {"6b2f4d9a8c10"}, C)
    OBVIOUS
  <2> DEFINE N == PurchaseFacts \cup MethodFacts
  <2>1. Owed(A \cup {"6b2f4d9a8c10"}, C) \subseteq Owed(A, C) \cup N
    BY DEF Owed, AllFacts
  <2>2. N \subseteq z
    BY DEF PurchaseFacts, MethodFacts
  <2>3. \A f \in Allowed(A, C) : f \in Allowed(A \cup {"6b2f4d9a8c10"}, C)
    BY DEF Allowed
  <2> HIDE DEF z, N
  <2> QED  BY <2>1, <2>2, <2>3, GoodIs, Finish DEF G
<1> QED
  <2> HIDE DEF z
  <2> HIDE DEF G
  <2>1. {z} \cap G \subseteq Good(A \cup {"6b2f4d9a8c10"}, C)
    BY <1>6
  <2> QED  BY <1>5, <2>1, RunsWeaken DEF G

(* The payments get a table, and the purchases a payment: a migration that *)
(* cannot run again from the middle.                                       *)
LEMMA AddPaymentsRuns ==
  ASSUME NEW A, NEW C, Order(A, C), "9c3e1f7a4b20" \in C, "9c3e1f7a4b20" \notin A, NEW s \in Good(A, C), NEW strict,
         strict => s \in Good(A, C \ {"9c3e1f7a4b20"})
  PROVE  Runs(AddPayments, s, Good(A, C), Good(A \cup {"9c3e1f7a4b20"}, C), strict)
<1> DEFINE G == Good(A, C)
           indexes == {<<"payments", "ix_uuid">>, <<"payments", "ix_idempotency_key">>,
                       <<"payments", "ix_external_payment_id">>}
           columns == {<<"purchases", "payment_id">>, <<"purchases", "ix_payment_id">>}
           w == s \cup {<<"payments">>}
           x == w \cup indexes
           y == x \cup columns
           z == y \cup {<<"purchases", "->", "payments">>}
<1>1. PaymentFacts \subseteq Allowed(A, C) /\ "payments" \in TableNames /\ "purchases" \in TableNames
  BY DEF Allowed, AllFacts, LocaleFacts, LocaleIndex, SettingsFacts, EventFacts, TranslationFacts, OptionFacts,
         PropertyFacts, OneCFacts, ProductFacts, AttributeFacts, ImageFacts, OldCatalog, NewCatalog, NewImages,
         LengthFacts, PurchaseFacts, MethodFacts, PaymentFacts, SyncFacts, ShipmentFacts, OldFieldFacts,
         NewFieldFacts, DeliveryFacts, TableNames
<1>2. strict => PaymentFacts \cap s = {}
  BY GoodIs DEF Allowed
<1>3. PaymentFacts = {<<"payments">>, <<"purchases", "->", "payments">>} \cup indexes \cup columns
  BY DEF PaymentFacts
<1>4. <<"purchases">> \in s
  <2>1. "6b2f4d9a8c10" \in A
    BY OrderIs
  <2>2. <<"purchases">> \in AllFacts /\ <<"purchases">> \in PurchaseFacts
    BY DEF AllFacts, PurchaseFacts
  <2> QED  BY <2>1, <2>2, GoodIs DEF Owed
<1>5. Runs(Create("payments", {}), s, G, {w}, strict)
  <2>1. Made("payments", {}, {}) = {<<"payments">>}
    BY DEF Made
  <2> QED  BY <1>1, <1>2, <1>3, <2>1, CreateRuns DEF Create
<1> DEFINE a == Create("payments", {})
           b == a \o Each("payments", <<"ix_uuid", "ix_idempotency_key", "ix_external_payment_id">>)
           c == b \o Each("purchases", <<"payment_id", "ix_payment_id">>)
           d == c \o AddKey("purchases", "payments")
<1>6. Runs(b, s, G, {x}, strict)
  <2>1. strict => <<"payments">> \in w /\ indexes \cap w = {}
    BY <1>2, <1>3
  <2>2. indexes \subseteq Allowed(A, C)
    BY <1>1, <1>3
  <2> HIDE DEF w, a
  <2>3. Parts("payments", <<"ix_uuid", "ix_idempotency_key", "ix_external_payment_id">>, indexes)
    BY PartsThree
  <2> HIDE DEF indexes
  <2> QED  BY <1>1, <1>5, <2>1, <2>2, <2>3, NextParts DEF a
<1>7. Runs(c, s, G, {y}, strict)
  <2>1. strict => <<"purchases">> \in x /\ columns \cap x = {}
    BY <1>2, <1>3, <1>4
  <2>2. columns \subseteq Allowed(A, C)
    BY <1>1, <1>3
  <2>3. Parts("purchases", <<"payment_id", "ix_payment_id">>, columns)
    BY PartsTwo
  <2> HIDE DEF x, b, columns
  <2> QED  BY <1>1, <1>6, <2>1, <2>2, <2>3, NextParts
<1>8. Runs(AddPayments, s, G, {z}, strict)
  <2>1. strict => <<"purchases">> \in y /\ <<"payments">> \in y /\ <<"purchases", "->", "payments">> \notin y
    BY <1>2, <1>3, <1>4
  <2>2. <<"purchases", "->", "payments">> \in Allowed(A, C)
    BY <1>1, <1>3
  <2> HIDE DEF y, c
  <2>3. Runs(d, s, G, {z}, strict)
    BY <1>1, <1>7, <2>1, <2>2, NextKey
  <2> QED  BY <2>3 DEF c, AddPayments
<1>9. z \in G => z \in Good(A \cup {"9c3e1f7a4b20"}, C)
  <2> SUFFICES ASSUME z \in G PROVE z \in Good(A \cup {"9c3e1f7a4b20"}, C)
    OBVIOUS
  <2> DEFINE N == PaymentFacts
  <2>1. Owed(A \cup {"9c3e1f7a4b20"}, C) \subseteq Owed(A, C) \cup N
    BY DEF Owed, AllFacts
  <2>2. N \subseteq z
    BY DEF PaymentFacts
  <2>3. \A f \in Allowed(A, C) : f \in Allowed(A \cup {"9c3e1f7a4b20"}, C)
    BY DEF Allowed
  <2> HIDE DEF z, N
  <2> QED  BY <2>1, <2>2, <2>3, GoodIs, Finish DEF G
<1> QED
  <2> HIDE DEF z
  <2> HIDE DEF G
  <2>1. {z} \cap G \subseteq Good(A \cup {"9c3e1f7a4b20"}, C)
    BY <1>9
  <2> QED  BY <1>8, <2>1, RunsWeaken DEF G

(* Two columns of the purchases are dropped: a migration that cannot run   *)
(* again from the middle.                                                  *)
LEMMA DecouplePaymentRuns ==
  ASSUME NEW A, NEW C, Order(A, C), "b7a2d4c9e8f1" \in C, "b7a2d4c9e8f1" \notin A, NEW s \in Good(A, C), NEW strict,
         strict => s \in Good(A, C \ {"b7a2d4c9e8f1"})
  PROVE  Runs(DecouplePayment, s, Good(A, C), Good(A \cup {"b7a2d4c9e8f1"}, C), strict)
<1> DEFINE G == Good(A, C)
           y == s \ {<<"purchases", "payment_status">>}
           z == y \ {<<"purchases", "payment_method">>}
<1>1. {<<"purchases", "payment_status">>, <<"purchases", "payment_method">>} = MethodFacts /\ MethodFacts \subseteq AllFacts
  BY DEF AllFacts, MethodFacts
<1>2. strict => MethodFacts \subseteq s
  <2>1. "6b2f4d9a8c10" \in A
    BY OrderIs
  <2>2. MethodFacts \subseteq Owed(A, C \ {"b7a2d4c9e8f1"})
    BY <1>1, <2>1 DEF Owed
  <2> QED  BY <2>2, GoodIs
<1>3. Owed(A, C) \cap MethodFacts = {}
  BY DEF Owed, OneCTables, AllFacts, LocaleFacts, LocaleIndex, SettingsFacts, EventFacts, TranslationFacts, OptionFacts,
         PropertyFacts, OneCFacts, ProductFacts, AttributeFacts, ImageFacts, OldCatalog, NewCatalog, NewImages,
         LengthFacts, PurchaseFacts, MethodFacts, PaymentFacts, SyncFacts, ShipmentFacts, OldFieldFacts,
         NewFieldFacts, DeliveryFacts, TableNames
<1>4. Runs(DropPart("purchases", "payment_status"), s, G, {y}, strict)
  BY <1>1, <1>2, <1>3, DropPartRuns
<1>5. Runs(DecouplePayment, s, G, {z}, strict)
  <2>1. strict => <<"purchases", "payment_method">> \in y
    BY <1>1, <1>2
  <2> HIDE DEF y
  <2> QED  BY <1>1, <1>3, <1>4, <2>1, NextDropPart DEF DecouplePayment
<1>6. z \in G => z \in Good(A \cup {"b7a2d4c9e8f1"}, C)
  <2> SUFFICES ASSUME z \in G PROVE z \in Good(A \cup {"b7a2d4c9e8f1"}, C)
    OBVIOUS
  <2>1. Owed(A \cup {"b7a2d4c9e8f1"}, C) \subseteq Owed(A, C) \cup {}
    BY DEF Owed
  <2>2. {} \subseteq z
    OBVIOUS
  <2>3. \A f \in Allowed(A, C) : f \notin MethodFacts => f \in Allowed(A \cup {"b7a2d4c9e8f1"}, C)
    BY DEF Allowed
  <2>4. z \cap MethodFacts = {}
    BY <1>1
  <2> HIDE DEF z
  <2> QED  BY <2>1, <2>2, <2>3, <2>4, GoodIs, Finish DEF G
<1> QED
  <2> HIDE DEF z
  <2> HIDE DEF G
  <2>1. {z} \cap G \subseteq Good(A \cup {"b7a2d4c9e8f1"}, C)
    BY <1>6
  <2> QED  BY <1>5, <2>1, RunsWeaken DEF G

(* The tasks and attempts of the queue get their tables: a migration that  *)
(* cannot run again from the middle.                                       *)
LEMMA AddSyncTasksRuns ==
  ASSUME NEW A, NEW C, Order(A, C), "7e4a9c2b1d60" \in C, "7e4a9c2b1d60" \notin A, NEW s \in Good(A, C), NEW strict,
         strict => s \in Good(A, C \ {"7e4a9c2b1d60"})
  PROVE  Runs(AddSyncTasks, s, Good(A, C), Good(A \cup {"7e4a9c2b1d60"}, C), strict)
<1> DEFINE G == Good(A, C)
           indexes == {<<"sync_attempts", "ix_task_id">>, <<"sync_attempts", "ix_created">>}
           w == s \cup {<<"sync_tasks">>}
           x == w \cup {<<"sync_tasks", "ix_status_updated">>}
           y == x \cup {<<"sync_attempts">>, <<"sync_attempts", "->", "sync_tasks">>}
           z == y \cup indexes
<1>1. SyncFacts \subseteq Allowed(A, C) /\ "sync_tasks" \in TableNames /\ "sync_attempts" \in TableNames
  BY DEF Allowed, AllFacts, LocaleFacts, LocaleIndex, SettingsFacts, EventFacts, TranslationFacts, OptionFacts,
         PropertyFacts, OneCFacts, ProductFacts, AttributeFacts, ImageFacts, OldCatalog, NewCatalog, NewImages,
         LengthFacts, PurchaseFacts, MethodFacts, PaymentFacts, SyncFacts, ShipmentFacts, OldFieldFacts,
         NewFieldFacts, DeliveryFacts, TableNames
<1>2. strict => SyncFacts \cap s = {}
  BY GoodIs DEF Allowed
<1>3. SyncFacts = {<<"sync_tasks">>, <<"sync_tasks", "ix_status_updated">>, <<"sync_attempts">>,
                   <<"sync_attempts", "->", "sync_tasks">>} \cup indexes
  BY DEF SyncFacts
<1> DEFINE a == Create("sync_tasks", {})
           b == a \o Add("sync_tasks", "ix_status_updated")
           c == b \o Create("sync_attempts", {"sync_tasks"})
           d == c \o Each("sync_attempts", <<"ix_task_id", "ix_created">>)
<1>4. Runs(a, s, G, {w}, strict)
  <2>1. Made("sync_tasks", {}, {}) = {<<"sync_tasks">>}
    BY DEF Made
  <2> QED  BY <1>1, <1>2, <1>3, <2>1, CreateRuns DEF Create
<1>5. Runs(b, s, G, {x}, strict)
  <2>1. strict => <<"sync_tasks">> \in w /\ <<"sync_tasks", "ix_status_updated">> \notin w
    BY <1>2, <1>3
  <2>2. <<"sync_tasks", "ix_status_updated">> \in Allowed(A, C)
    BY <1>1, <1>3
  <2> HIDE DEF w, a
  <2> QED  BY <1>1, <1>4, <2>1, <2>2, NextAdd
<1>6. Runs(c, s, G, {y}, strict)
  <2>1. strict => <<"sync_attempts">> \notin x /\ \A u \in {"sync_tasks"} : <<u>> \in x
    BY <1>2, <1>3
  <2>2. Made("sync_attempts", {}, {"sync_tasks"}) = {<<"sync_attempts">>, <<"sync_attempts", "->", "sync_tasks">>}
    BY DEF Made
  <2>3. Made("sync_attempts", {}, {"sync_tasks"}) \subseteq Allowed(A, C)
    BY <1>1, <1>3, <2>2
  <2>4. y = x \cup Made("sync_attempts", {}, {"sync_tasks"})
    BY <2>2
  <2> DEFINE references == {"sync_tasks"}
             columns == {}
  <2>5. references \in SUBSET TableNames
    BY <1>1
  <2> HIDE DEF x, b, references, columns, y
  <2>6. Runs(b \o CreateWith("sync_attempts", columns, references), s, G, {y}, strict)
    BY <1>1, <1>5, <2>1, <2>3, <2>4, <2>5, NextCreate DEF references, columns
  <2> QED  BY <2>6 DEF Create, references, columns
<1>7. Runs(AddSyncTasks, s, G, {z}, strict)
  <2>1. strict => <<"sync_attempts">> \in y /\ indexes \cap y = {}
    BY <1>2, <1>3
  <2>2. indexes \subseteq Allowed(A, C)
    BY <1>1, <1>3
  <2>3. Parts("sync_attempts", <<"ix_task_id", "ix_created">>, indexes)
    BY PartsTwo
  <2> HIDE DEF y, c, indexes
  <2>4. Runs(d, s, G, {z}, strict)
    BY <1>1, <1>6, <2>1, <2>2, <2>3, NextParts
  <2> QED  BY <2>4 DEF c, AddSyncTasks
<1>8. z \in G => z \in Good(A \cup {"7e4a9c2b1d60"}, C)
  <2> SUFFICES ASSUME z \in G PROVE z \in Good(A \cup {"7e4a9c2b1d60"}, C)
    OBVIOUS
  <2> DEFINE N == SyncFacts
  <2>1. Owed(A \cup {"7e4a9c2b1d60"}, C) \subseteq Owed(A, C) \cup N
    BY DEF Owed, AllFacts
  <2>2. N \subseteq z
    BY DEF SyncFacts
  <2>3. \A f \in Allowed(A, C) : f \in Allowed(A \cup {"7e4a9c2b1d60"}, C)
    BY DEF Allowed
  <2> HIDE DEF z, N
  <2> QED  BY <2>1, <2>2, <2>3, GoodIs, Finish DEF G
<1> QED
  <2> HIDE DEF z
  <2> HIDE DEF G
  <2>1. {z} \cap G \subseteq Good(A \cup {"7e4a9c2b1d60"}, C)
    BY <1>8
  <2> QED  BY <1>7, <2>1, RunsWeaken DEF G

(* The integrations and the shipments get their tables: a migration that   *)
(* cannot run again from the middle.                                       *)
LEMMA AddDeliveryRuns ==
  ASSUME NEW A, NEW C, Order(A, C), "2e8c6a4d9b10" \in C, "2e8c6a4d9b10" \notin A, NEW s \in Good(A, C), NEW strict,
         strict => s \in Good(A, C \ {"2e8c6a4d9b10"})
  PROVE  Runs(AddDelivery, s, Good(A, C), Good(A \cup {"2e8c6a4d9b10"}, C), strict)
<1> DEFINE G == Good(A, C)
           own == ShipmentFacts \cup OldFieldFacts
           y == s \cup {<<"integration_configs">>}
           made == Made("delivery_shipments", ToSet(OldFields), {"purchases"})
           z == y \cup made
<1>1. own \subseteq Allowed(A, C) /\ {"integration_configs", "delivery_shipments", "purchases"} \subseteq TableNames
  <2>1. "4b91c7d8e205" \notin A
    BY OrderIs
  <2> QED  BY <2>1 DEF Allowed, AllFacts, LocaleFacts, LocaleIndex, SettingsFacts, EventFacts, TranslationFacts, OptionFacts,
         PropertyFacts, OneCFacts, ProductFacts, AttributeFacts, ImageFacts, OldCatalog, NewCatalog, NewImages,
         LengthFacts, PurchaseFacts, MethodFacts, PaymentFacts, SyncFacts, ShipmentFacts, OldFieldFacts,
         NewFieldFacts, DeliveryFacts, TableNames
<1>2. strict => own \cap s = {}
  BY GoodIs DEF Allowed
<1>3. made = own \ {<<"integration_configs">>} /\ <<"integration_configs">> \in own /\ <<"delivery_shipments">> \in own
  <2>1. ToSet(OldFields) = {"environment", "request_payload", "response_payload", "operations"}
    BY DEF ToSet, OldFields
  <2> QED  BY <2>1 DEF Made, ShipmentFacts, OldFieldFacts
<1>4. <<"purchases">> \in s
  <2>1. "6b2f4d9a8c10" \in A
    BY OrderIs
  <2>2. <<"purchases">> \in AllFacts /\ <<"purchases">> \in PurchaseFacts
    BY DEF AllFacts, PurchaseFacts
  <2> QED  BY <2>1, <2>2, GoodIs DEF Owed
<1>5. Runs(Create("integration_configs", {}), s, G, {y}, strict)
  <2>1. Made("integration_configs", {}, {}) = {<<"integration_configs">>}
    BY DEF Made
  <2>2. <<"integration_configs">> \in Allowed(A, C) /\ (strict => <<"integration_configs">> \notin s)
    BY <1>1, <1>2, <1>3
  <2> QED  BY <1>1, <2>1, <2>2, CreateRuns DEF Create
<1>6. Runs(AddDelivery, s, G, {z}, strict)
  <2> DEFINE references == {"purchases"}
  <2>1. strict => <<"delivery_shipments">> \notin y /\ \A u \in references : <<u>> \in y
    BY <1>2, <1>3, <1>4
  <2>2. made \subseteq Allowed(A, C) /\ references \in SUBSET TableNames
    BY <1>1, <1>3
  <2> DEFINE m == Made("delivery_shipments", ToSet(OldFields), references)
  <2>3. m \subseteq Allowed(A, C) /\ z = y \cup m
    BY <2>2
  <2> HIDE DEF y, references, made, z
  <2>4. Runs(Create("integration_configs", {}) \o CreateWith("delivery_shipments", ToSet(OldFields), references), s,
             G, {z}, strict)
    BY <1>1, <1>5, <2>1, <2>2, <2>3, NextCreate
  <2> QED  BY <2>4 DEF AddDelivery, references
<1>7. own \subseteq z
  BY <1>3
<1> HIDE DEF own, made
<1>8. z \in G => z \in Good(A \cup {"2e8c6a4d9b10"}, C)
  <2> SUFFICES ASSUME z \in G PROVE z \in Good(A \cup {"2e8c6a4d9b10"}, C)
    OBVIOUS
  <2> DEFINE N == ShipmentFacts \cup OldFieldFacts
  <2>1. Owed(A \cup {"2e8c6a4d9b10"}, C) \subseteq Owed(A, C) \cup N
    BY DEF Owed, AllFacts
  <2>2. N \subseteq z
    BY <1>7 DEF own
  <2>3. \A f \in Allowed(A, C) : f \in Allowed(A \cup {"2e8c6a4d9b10"}, C)
    BY DEF Allowed
  <2> HIDE DEF z, N
  <2> QED  BY <2>1, <2>2, <2>3, GoodIs, Finish DEF G
<1> QED
  <2> HIDE DEF z
  <2> HIDE DEF G
  <2>1. {z} \cap G \subseteq Good(A \cup {"2e8c6a4d9b10"}, C)
    BY <1>8
  <2> QED  BY <1>6, <2>1, RunsWeaken DEF G

(* The character sets of the old tables are repaired where there are such  *)
(* tables.                                                                 *)
LEMMA RepairTablesRuns ==
  ASSUME NEW A, NEW C, Order(A, C), "d4f8a1b2c3e9" \in C, "d4f8a1b2c3e9" \notin A, NEW s \in Good(A, C), NEW strict
  PROVE  Runs(RepairTables(s), s, Good(A, C), Good(A \cup {"d4f8a1b2c3e9"}, C), strict)
<1>1. OneCTables \subseteq s
  <2>1. "e4b7c1d2a9f0" \in A /\ "59ca8b5b7134" \notin C
    BY OrderIs
  <2>2. OneCTables \subseteq AllFacts
    BY DEF OneCTables, AllFacts, OldCatalog, OneCFacts, PropertyFacts, ProductFacts, AttributeFacts, ImageFacts
  <2> QED  BY <2>1, <2>2, GoodIs DEF Owed
<1>2. RepairTables(s) = <<>>
  BY <1>1 DEF RepairTables, OneCRuns, OneCProducts, When, OneCTables
<1>3. Owed(A \cup {"d4f8a1b2c3e9"}, C) \subseteq Owed(A, C) \cup {} /\ {} \subseteq s
  BY DEF Owed
<1>4. Allowed(A, C) \subseteq Allowed(A \cup {"d4f8a1b2c3e9"}, C)
  BY DEF Allowed
<1>5. s \in Good(A \cup {"d4f8a1b2c3e9"}, C)
  BY <1>3, <1>4, GoodIs, Finish
<1> QED  BY <1>2, <1>5, RunsNone

(* The tables of the old catalog that AddOneCCatalog makes unless they are *)
(* there.                                                                  *)
OldTables ==
  {"onec_import_runs", "properties", "propery_options", "products", "product_images", "product_attributes", "offers"}

(* The schemas from which the tables T are still to be made, and U exist.  *)
Building(s, strict, T, U) ==
  {x \in SUBSET AllFacts :
     /\ \A u \in U : <<u>> \in x
     /\ \A t \in OldTables : <<t>> \in s => <<t>> \in x
     /\ \A f \in x : f[1] # "category_translations"
     /\ strict => \A f \in x : f[1] \notin T}

(* The statements that make a table with its indexes unless it is there    *)
(* are statements.                                                         *)
LEMMA TableIs ==
  ASSUME NEW s, NEW t \in TableNames, NEW references \in SUBSET TableNames, NEW parts, NEW F, Parts(t, parts, F),
         Made(t, {}, references) \cup F \subseteq AllFacts
  PROVE  When(<<t>> \notin s, Create(t, references) \o Each(t, parts)) \in Seq(Stmts)
<1>1. Made(t, {}, references) \subseteq AllFacts /\ \A f \in F : f \in AllFacts
  OBVIOUS
<1>2. Create(t, references) \in Seq(Stmts)
  BY <1>1, CreateIs DEF Create
<1>3. Each(t, parts) \in Seq(Stmts)
  <2> DEFINE S == {parts[i] : i \in 1 .. Len(parts)}
  <2>1. parts \in Seq(S) /\ \A i \in 1 .. Len(parts) : <<t, parts[i]>> \in AllFacts
    BY <1>1 DEF Parts
  <2> HIDE DEF S
  <2> QED  BY <2>1, EachSeq
<1>4. Create(t, references) \o Each(t, parts) \in Seq(Stmts)
  BY <1>2, <1>3, ConcatProperties
<1> QED  BY <1>4 DEF When

(* A table t of T is made with its indexes, and V and W are left.           *)
Makes(A, B, T, U, V, W, t, references, parts, F) ==
  /\ t \in T \cap OldTables /\ references \subseteq U \cap TableNames
  /\ Parts(t, parts, F) /\ Made(t, {}, references) \cup F \subseteq Allowed(A, B)
  /\ V \subseteq T \ {t} /\ W \subseteq U \cup {t}

(* A table of the old catalog that is made unless it was there leaves the  *)
(* others to make.                                                         *)
LEMMA BuildingRuns ==
  ASSUME NEW A, NEW B, NEW s, NEW strict, NEW T, NEW U, NEW x \in Good(A, B), x \in Building(s, strict, T, U),
         NEW t, NEW references, NEW parts, NEW F, NEW V, NEW W, Makes(A, B, T, U, V, W, t, references, parts, F)
  PROVE  LET statements == When(<<t>> \notin s, Create(t, references) \o Each(t, parts))
         IN  /\ statements \in Seq(Stmts)
             /\ Runs(statements, x, Good(A, B), Building(s, strict, V, W), strict)
<1> DEFINE e == Create(t, references) \o Each(t, parts)
           y == x \cup Made(t, {}, references) \cup F
           G == Good(A, B)
<1> USE DEF Makes
<1>1. t \in TableNames /\ t # "category_translations" /\ references \in SUBSET TableNames
  BY DEF OldTables, TableNames
<1>2. strict => <<t>> \notin x /\ F \cap x = {} /\ \A u \in references : <<u>> \in x
  <2>1. <<t>>[1] = t /\ \A f \in F : f[1] = t
    BY DEF Parts
  <2> QED  BY <2>1 DEF Building
<1>3. e \in Seq(Stmts) /\ Runs(e, x, G, {y}, strict)
  BY <1>1, <1>2, TableRuns
<1>4. y \in Building(s, strict, V, W)
  <2>1. \A f \in Made(t, {}, references) \cup F : f[1] = t
    BY DEF Parts, Made
  <2>2. y \in SUBSET AllFacts
    BY DEF Building, Allowed
  <2>3. <<t>> \in y
    BY DEF Made
  <2> QED  BY <1>1, <2>1, <2>2, <2>3 DEF Building
<1>5. CASE <<t>> \notin s
  <2>1. When(<<t>> \notin s, e) = e
    BY <1>5 DEF When
  <2>2. {y} \cap G \subseteq Building(s, strict, V, W)
    BY <1>4
  <2> HIDE DEF e, y, G
  <2>3. Runs(e, x, G, Building(s, strict, V, W), strict)
    BY <1>3, <2>2, RunsWeaken
  <2> QED  BY <1>3, <2>1, <2>3 DEF e, G
<1>6. CASE <<t>> \in s
  <2>1. When(<<t>> \notin s, e) = <<>>
    BY <1>6 DEF When
  <2>2. x \in Building(s, strict, V, W)
    BY <1>6 DEF Building
  <2>3. <<>> \in Seq(Stmts) /\ Runs(<<>>, x, G, Building(s, strict, V, W), strict)
    BY <2>2, RunsNone
  <2> HIDE DEF e, G
  <2> QED  BY <2>1, <2>3 DEF e, G
<1> QED  BY <1>5, <1>6

(* After statements that have built some of the tables, the next one is    *)
(* built.                                                                  *)
LEMMA NextBuilding ==
  ASSUME NEW A, NEW B, NEW q, NEW a, NEW s, NEW strict, NEW T, NEW U,
         Runs(a, q, Good(A, B), Building(s, strict, T, U), strict), 
         NEW t, NEW references, NEW parts, NEW F, NEW V, NEW W, Makes(A, B, T, U, V, W, t, references, parts, F)
  PROVE  LET statements == When(<<t>> \notin s, Create(t, references) \o Each(t, parts))
         IN  /\ statements \in Seq(Stmts)
             /\ a \o statements \in Seq(Stmts)
             /\ Runs(a \o statements, q, Good(A, B), Building(s, strict, V, W), strict)
<1> DEFINE G == Good(A, B)
           M == Building(s, strict, T, U)
           Q == Building(s, strict, V, W)
           e == When(<<t>> \notin s, Create(t, references) \o Each(t, parts))
<1>1. \A x \in M \cap G : Runs(e, x, G, Q, strict)
  BY BuildingRuns
<1>2. e \in Seq(Stmts)
  <2>1. Made(t, {}, references) \cup F \subseteq AllFacts
    BY DEF Makes, Allowed
  <2>2. t \in TableNames /\ references \in SUBSET TableNames /\ Parts(t, parts, F)
    BY DEF Makes, OldTables, TableNames
  <2> QED  BY <2>1, <2>2, TableIs
<1> HIDE DEF G, M, Q, e
<1>3. Runs(a, q, G, M, strict)
  BY DEF G, M
<1>4. Runs(a \o e, q, G, Q, strict)
  BY <1>1, <1>2, <1>3, RunsThen
<1>5. a \in Seq(Stmts)
  BY <1>3, RunsHead
<1>6. a \o e \in Seq(Stmts)
  BY <1>2, <1>5, ConcatProperties
<1> QED  BY <1>2, <1>4, <1>6 DEF G, Q, e

(* The old catalog may be there from the revision that makes it to the one *)
(* that replaces it.                                                       *)
LEMMA OldAllowed ==
  ASSUME NEW A, NEW B, "e4b7c1d2a9f0" \in B, "59ca8b5b7134" \notin A
  PROVE  OldCatalog \ TranslationFacts \subseteq Allowed(A, B)
  BY DEF Allowed, AllFacts, LocaleFacts, LocaleIndex, SettingsFacts, EventFacts, TranslationFacts, OptionFacts,
         PropertyFacts, OneCFacts, ProductFacts, AttributeFacts, ImageFacts, OldCatalog, NewCatalog, NewImages,
         LengthFacts, PurchaseFacts, MethodFacts, PaymentFacts, SyncFacts, ShipmentFacts, OldFieldFacts,
         NewFieldFacts, DeliveryFacts, TableNames

(* The imports' table is built first.                                      *)
LEMMA OneCRunsRun ==
  ASSUME NEW A, NEW B, "e4b7c1d2a9f0" \in B, "59ca8b5b7134" \notin A, NEW s, NEW strict, NEW x \in Good(A, B),
         x \in Building(s, strict, {"onec_import_runs", "properties", "propery_options", "products",
                                    "product_images", "product_attributes", "offers"},
                         {"categories"})
  PROVE  /\ OneCRuns(s) \in Seq(Stmts)
         /\ Runs(OneCRuns(s), x, Good(A, B),
                 Building(s, strict, {"properties", "propery_options", "products", "product_images",
                                      "product_attributes", "offers"},
                          {"categories", "onec_import_runs"}), strict)
<1> DEFINE G == Good(A, B)
           r1 == {}
           parts1 == <<"ix_source_md5">>
           F1 == {<<"onec_import_runs", "ix_source_md5">>}
           e1 == When(<<"onec_import_runs">> \notin s, Create("onec_import_runs", r1) \o Each("onec_import_runs", parts1))
           T0 == {"onec_import_runs", "properties", "propery_options", "products", "product_images",
                  "product_attributes", "offers"}
           U0 == {"categories"}
           T1 == {"properties", "propery_options", "products", "product_images", "product_attributes", "offers"}
           U1 == {"categories", "onec_import_runs"}
<1>1. x \in Building(s, strict, T0, U0)
  OBVIOUS
<1>2. Makes(A, B, T0, U0, T1, U1, "onec_import_runs", r1, parts1, F1)
  <2>1. Parts("onec_import_runs", parts1, F1)
    BY PartsOne
  <2>2. Made("onec_import_runs", {}, r1) \cup F1 \subseteq OldCatalog \ TranslationFacts
    BY DEF Made, OldCatalog, TranslationFacts, OneCFacts, PropertyFacts, ProductFacts, AttributeFacts, ImageFacts,
           OptionFacts
  <2>3. r1 \subseteq U0 /\ r1 \subseteq TableNames
    BY DEF TableNames
  <2>4. "onec_import_runs" \in T0 \cap OldTables /\ T1 \subseteq T0 \ {"onec_import_runs"} /\ U1 \subseteq U0 \cup {"onec_import_runs"}
    BY DEF OldTables
  <2> QED  BY <2>1, <2>2, <2>3, <2>4, OldAllowed DEF Makes
<1>3. OneCRuns(s) = e1
  BY EachOne DEF OneCRuns
<1> HIDE DEF r1, parts1, F1, T0, U0, T1, U1
<1>4. e1 \in Seq(Stmts) /\ Runs(e1, x, G, Building(s, strict, T1, U1), strict)
  BY <1>1, <1>2, BuildingRuns
<1> QED  BY <1>4, <1>3 DEF T1, U1

(* The properties and their options are built next.                        *)
LEMMA OneCPropertiesRun ==
  ASSUME NEW A, NEW B, "e4b7c1d2a9f0" \in B, "59ca8b5b7134" \notin A, NEW s, NEW strict, NEW x \in Good(A, B),
         x \in Building(s, strict, {"properties", "propery_options", "products", "product_images",
                                    "product_attributes", "offers"},
                         {"categories", "onec_import_runs"})
  PROVE  /\ OneCProperties(s) \in Seq(Stmts)
         /\ Runs(OneCProperties(s), x, Good(A, B),
                 Building(s, strict, {"products", "product_images", "product_attributes", "offers"},
                          {"categories", "onec_import_runs", "properties", "propery_options"}), strict)
<1> DEFINE G == Good(A, B)
           r1 == {}
           parts1 == <<"ix_eid">>
           F1 == {<<"properties", "ix_eid">>}
           e1 == When(<<"properties">> \notin s, Create("properties", r1) \o Each("properties", parts1))
           r2 == {"properties"}
           parts2 == <<"ix_eid", "ix_property_id">>
           F2 == {<<"propery_options", "ix_eid">>, <<"propery_options", "ix_property_id">>}
           e2 == When(<<"propery_options">> \notin s, Create("propery_options", r2) \o Each("propery_options", parts2))
           T0 == {"properties", "propery_options", "products", "product_images", "product_attributes", "offers"}
           U0 == {"categories", "onec_import_runs"}
           T1 == {"propery_options", "products", "product_images", "product_attributes", "offers"}
           U1 == {"categories", "onec_import_runs", "properties"}
           T2 == {"products", "product_images", "product_attributes", "offers"}
           U2 == {"categories", "onec_import_runs", "properties", "propery_options"}
<1>1. x \in Building(s, strict, T0, U0)
  OBVIOUS
<1>2. Makes(A, B, T0, U0, T1, U1, "properties", r1, parts1, F1)
  <2>1. Parts("properties", parts1, F1)
    BY PartsOne
  <2>2. Made("properties", {}, r1) \cup F1 \subseteq OldCatalog \ TranslationFacts
    BY DEF Made, OldCatalog, TranslationFacts, OneCFacts, PropertyFacts, ProductFacts, AttributeFacts, ImageFacts,
           OptionFacts
  <2>3. r1 \subseteq U0 /\ r1 \subseteq TableNames
    BY DEF TableNames
  <2>4. "properties" \in T0 \cap OldTables /\ T1 \subseteq T0 \ {"properties"} /\ U1 \subseteq U0 \cup {"properties"}
    BY DEF OldTables
  <2> QED  BY <2>1, <2>2, <2>3, <2>4, OldAllowed DEF Makes
<1>3. Makes(A, B, T1, U1, T2, U2, "propery_options", r2, parts2, F2)
  <2>1. Parts("propery_options", parts2, F2)
    BY PartsTwo
  <2>2. Made("propery_options", {}, r2) \cup F2 \subseteq OldCatalog \ TranslationFacts
    BY DEF Made, OldCatalog, TranslationFacts, OneCFacts, PropertyFacts, ProductFacts, AttributeFacts, ImageFacts,
           OptionFacts
  <2>3. r2 \subseteq U1 /\ r2 \subseteq TableNames
    BY DEF TableNames
  <2>4. "propery_options" \in T1 \cap OldTables /\ T2 \subseteq T1 \ {"propery_options"} /\ U2 \subseteq U1 \cup {"propery_options"}
    BY DEF OldTables
  <2> QED  BY <2>1, <2>2, <2>3, <2>4, OldAllowed DEF Makes
<1>4. OneCProperties(s) = e1 \o e2
  BY EachOne DEF OneCProperties
<1> HIDE DEF r1, parts1, F1, r2, parts2, F2, T0, U0, T1, U1, T2, U2
<1>5. e1 \in Seq(Stmts) /\ Runs(e1, x, G, Building(s, strict, T1, U1), strict)
  BY <1>1, <1>2, BuildingRuns
<1> DEFINE a2 == e1
<1>6. a2 \in Seq(Stmts) /\ Runs(a2, x, G, Building(s, strict, T1, U1), strict)
  BY <1>5
<1> HIDE DEF a2
<1>7. a2 \o e2 \in Seq(Stmts) /\ Runs(a2 \o e2, x, G, Building(s, strict, T2, U2), strict)
  BY <1>6, <1>3, NextBuilding
<1> QED  BY <1>7, <1>4 DEF T2, U2, a2

(* The products, their images, attributes and offers are built last.       *)
LEMMA OneCProductsRun ==
  ASSUME NEW A, NEW B, "e4b7c1d2a9f0" \in B, "59ca8b5b7134" \notin A, NEW s, NEW strict, NEW x \in Good(A, B),
         x \in Building(s, strict, {"products", "product_images", "product_attributes", "offers"},
                         {"categories", "onec_import_runs", "properties", "propery_options"})
  PROVE  /\ OneCProducts(s, "propery_options") \in Seq(Stmts)
         /\ Runs(OneCProducts(s, "propery_options"), x, Good(A, B),
                 Building(s, strict, {},
                          {"categories", "onec_import_runs", "properties", "propery_options", "products",
                           "product_images", "product_attributes", "offers"}), strict)
<1> DEFINE G == Good(A, B)
           r1 == {"categories", "onec_import_runs"}
           parts1 == <<"ix_eid", "ix_category_id", "ix_last_seen_import_run_id">>
           F1 == {<<"products", "ix_eid">>, <<"products", "ix_category_id">>, <<"products", "ix_last_seen_import_run_id">>}
           e1 == When(<<"products">> \notin s, Create("products", r1) \o Each("products", parts1))
           r2 == {"products"}
           parts2 == <<"ix_eid", "ix_product_id">>
           F2 == {<<"product_images", "ix_eid">>, <<"product_images", "ix_product_id">>}
           e2 == When(<<"product_images">> \notin s, Create("product_images", r2) \o Each("product_images", parts2))
           r3 == {"propery_options", "products", "properties"}
           parts3 == <<"ix_eid", "ix_option_id", "ix_product_id", "ix_property_id">>
           F3 == {<<"product_attributes", "ix_eid">>, <<"product_attributes", "ix_option_id">>,
                  <<"product_attributes", "ix_product_id">>, <<"product_attributes", "ix_property_id">>}
           e3 == When(<<"product_attributes">> \notin s, Create("product_attributes",
                                                                r3) \o Each("product_attributes", parts3))
           r4 == {"products"}
           parts4 == <<"ix_eid", "ix_product_id">>
           F4 == {<<"offers", "ix_eid">>, <<"offers", "ix_product_id">>}
           e4 == When(<<"offers">> \notin s, Create("offers", r4) \o Each("offers", parts4))
           T0 == {"products", "product_images", "product_attributes", "offers"}
           U0 == {"categories", "onec_import_runs", "properties", "propery_options"}
           T1 == {"product_images", "product_attributes", "offers"}
           U1 == {"categories", "onec_import_runs", "properties", "propery_options", "products"}
           T2 == {"product_attributes", "offers"}
           U2 == {"categories", "onec_import_runs", "properties", "propery_options", "products", "product_images"}
           T3 == {"offers"}
           U3 == {"categories", "onec_import_runs", "properties", "propery_options", "products", "product_images",
                  "product_attributes"}
           T4 == {}
           U4 == {"categories", "onec_import_runs", "properties", "propery_options", "products", "product_images",
                  "product_attributes", "offers"}
<1>1. x \in Building(s, strict, T0, U0)
  OBVIOUS
<1>2. Makes(A, B, T0, U0, T1, U1, "products", r1, parts1, F1)
  <2>1. Parts("products", parts1, F1)
    BY PartsThree
  <2>2. Made("products", {}, r1) \cup F1 \subseteq OldCatalog \ TranslationFacts
    BY DEF Made, OldCatalog, TranslationFacts, OneCFacts, PropertyFacts, ProductFacts, AttributeFacts, ImageFacts,
           OptionFacts
  <2>3. r1 \subseteq U0 /\ r1 \subseteq TableNames
    BY DEF TableNames
  <2>4. "products" \in T0 \cap OldTables /\ T1 \subseteq T0 \ {"products"} /\ U1 \subseteq U0 \cup {"products"}
    BY DEF OldTables
  <2> QED  BY <2>1, <2>2, <2>3, <2>4, OldAllowed DEF Makes
<1>3. Makes(A, B, T1, U1, T2, U2, "product_images", r2, parts2, F2)
  <2>1. Parts("product_images", parts2, F2)
    BY PartsTwo
  <2>2. Made("product_images", {}, r2) \cup F2 \subseteq OldCatalog \ TranslationFacts
    BY DEF Made, OldCatalog, TranslationFacts, OneCFacts, PropertyFacts, ProductFacts, AttributeFacts, ImageFacts,
           OptionFacts
  <2>3. r2 \subseteq U1 /\ r2 \subseteq TableNames
    BY DEF TableNames
  <2>4. "product_images" \in T1 \cap OldTables /\ T2 \subseteq T1 \ {"product_images"} /\ U2 \subseteq U1 \cup {"product_images"}
    BY DEF OldTables
  <2> QED  BY <2>1, <2>2, <2>3, <2>4, OldAllowed DEF Makes
<1>4. Makes(A, B, T2, U2, T3, U3, "product_attributes", r3, parts3, F3)
  <2>1. Parts("product_attributes", parts3, F3)
    BY PartsFour
  <2>2. Made("product_attributes", {}, r3) \cup F3 \subseteq OldCatalog \ TranslationFacts
    BY DEF Made, OldCatalog, TranslationFacts, OneCFacts, PropertyFacts, ProductFacts, AttributeFacts, ImageFacts,
           OptionFacts
  <2>3. r3 \subseteq U2 /\ r3 \subseteq TableNames
    BY DEF TableNames
  <2>4. "product_attributes" \in T2 \cap OldTables /\ T3 \subseteq T2 \ {"product_attributes"} /\ U3 \subseteq U2 \cup {"product_attributes"}
    BY DEF OldTables
  <2> QED  BY <2>1, <2>2, <2>3, <2>4, OldAllowed DEF Makes
<1>5. Makes(A, B, T3, U3, T4, U4, "offers", r4, parts4, F4)
  <2>1. Parts("offers", parts4, F4)
    BY PartsTwo
  <2>2. Made("offers", {}, r4) \cup F4 \subseteq OldCatalog \ TranslationFacts
    BY DEF Made, OldCatalog, TranslationFacts, OneCFacts, PropertyFacts, ProductFacts, AttributeFacts, ImageFacts,
           OptionFacts
  <2>3. r4 \subseteq U3 /\ r4 \subseteq TableNames
    BY DEF TableNames
  <2>4. "offers" \in T3 \cap OldTables /\ T4 \subseteq T3 \ {"offers"} /\ U4 \subseteq U3 \cup {"offers"}
    BY DEF OldTables
  <2> QED  BY <2>1, <2>2, <2>3, <2>4, OldAllowed DEF Makes
<1>6. OneCProducts(s, "propery_options") = e1 \o e2 \o e3 \o e4
  BY DEF OneCProducts
<1> HIDE DEF r1, parts1, F1, r2, parts2, F2, r3, parts3, F3, r4, parts4, F4, T0, U0, T1, U1, T2, U2, T3, U3, T4, U4
<1>7. e1 \in Seq(Stmts) /\ Runs(e1, x, G, Building(s, strict, T1, U1), strict)
  BY <1>1, <1>2, BuildingRuns
<1> DEFINE a2 == e1
<1>8. a2 \in Seq(Stmts) /\ Runs(a2, x, G, Building(s, strict, T1, U1), strict)
  BY <1>7
<1> HIDE DEF a2
<1>9. a2 \o e2 \in Seq(Stmts) /\ Runs(a2 \o e2, x, G, Building(s, strict, T2, U2), strict)
  BY <1>8, <1>3, NextBuilding
<1> DEFINE a3 == a2 \o e2
<1>10. a3 \in Seq(Stmts) /\ Runs(a3, x, G, Building(s, strict, T2, U2), strict)
  BY <1>9
<1> HIDE DEF a3
<1>11. a3 \o e3 \in Seq(Stmts) /\ Runs(a3 \o e3, x, G, Building(s, strict, T3, U3), strict)
  BY <1>10, <1>4, NextBuilding
<1> DEFINE a4 == a3 \o e3
<1>12. a4 \in Seq(Stmts) /\ Runs(a4, x, G, Building(s, strict, T3, U3), strict)
  BY <1>11
<1> HIDE DEF a4
<1>13. a4 \o e4 \in Seq(Stmts) /\ Runs(a4 \o e4, x, G, Building(s, strict, T4, U4), strict)
  BY <1>12, <1>5, NextBuilding
<1> QED  BY <1>13, <1>6 DEF T4, U4, a2, a3, a4

(* What builds the imports' table is a sequence of statements.             *)
LEMMA OneCRunsIs ==
  ASSUME NEW s
  PROVE  OneCRuns(s) \in Seq(Stmts)
<1> DEFINE r1 == {}
           parts1 == <<"ix_source_md5">>
           F1 == {<<"onec_import_runs", "ix_source_md5">>}
           e1 == When(<<"onec_import_runs">> \notin s, Create("onec_import_runs", r1) \o Each("onec_import_runs", parts1))
<1>1. e1 \in Seq(Stmts)
  <2>1. Parts("onec_import_runs", parts1, F1)
    BY PartsOne
  <2>2. Made("onec_import_runs", {}, r1) \cup F1 \subseteq AllFacts
    BY DEF Made, OldCatalog, TranslationFacts, OneCFacts, PropertyFacts, ProductFacts, AttributeFacts, ImageFacts,
           OptionFacts, AllFacts
  <2>3. "onec_import_runs" \in TableNames /\ r1 \in SUBSET TableNames
    BY DEF TableNames
  <2> HIDE DEF r1, parts1, F1
  <2> QED  BY <2>1, <2>2, <2>3, TableIs
<1>2. OneCRuns(s) = e1
  BY EachOne DEF OneCRuns
<1> HIDE DEF e1
<1> QED  BY <1>1, <1>2, ConcatProperties

(* What builds the properties is a sequence of statements.                 *)
LEMMA OneCPropertiesIs ==
  ASSUME NEW s
  PROVE  OneCProperties(s) \in Seq(Stmts)
<1> DEFINE r1 == {}
           parts1 == <<"ix_eid">>
           F1 == {<<"properties", "ix_eid">>}
           e1 == When(<<"properties">> \notin s, Create("properties", r1) \o Each("properties", parts1))
           r2 == {"properties"}
           parts2 == <<"ix_eid", "ix_property_id">>
           F2 == {<<"propery_options", "ix_eid">>, <<"propery_options", "ix_property_id">>}
           e2 == When(<<"propery_options">> \notin s, Create("propery_options", r2) \o Each("propery_options", parts2))
<1>1. e1 \in Seq(Stmts)
  <2>1. Parts("properties", parts1, F1)
    BY PartsOne
  <2>2. Made("properties", {}, r1) \cup F1 \subseteq AllFacts
    BY DEF Made, OldCatalog, TranslationFacts, OneCFacts, PropertyFacts, ProductFacts, AttributeFacts, ImageFacts,
           OptionFacts, AllFacts
  <2>3. "properties" \in TableNames /\ r1 \in SUBSET TableNames
    BY DEF TableNames
  <2> HIDE DEF r1, parts1, F1
  <2> QED  BY <2>1, <2>2, <2>3, TableIs
<1>2. e2 \in Seq(Stmts)
  <2>1. Parts("propery_options", parts2, F2)
    BY PartsTwo
  <2>2. Made("propery_options", {}, r2) \cup F2 \subseteq AllFacts
    BY DEF Made, OldCatalog, TranslationFacts, OneCFacts, PropertyFacts, ProductFacts, AttributeFacts, ImageFacts,
           OptionFacts, AllFacts
  <2>3. "propery_options" \in TableNames /\ r2 \in SUBSET TableNames
    BY DEF TableNames
  <2> HIDE DEF r2, parts2, F2
  <2> QED  BY <2>1, <2>2, <2>3, TableIs
<1>3. OneCProperties(s) = e1 \o e2
  BY EachOne DEF OneCProperties
<1> HIDE DEF e1, e2
<1> QED  BY <1>1, <1>2, <1>3, ConcatProperties

(* What builds the products is a sequence of statements.                   *)
LEMMA OneCProductsIs ==
  ASSUME NEW s
  PROVE  OneCProducts(s, "propery_options") \in Seq(Stmts)
<1> DEFINE r1 == {"categories", "onec_import_runs"}
           parts1 == <<"ix_eid", "ix_category_id", "ix_last_seen_import_run_id">>
           F1 == {<<"products", "ix_eid">>, <<"products", "ix_category_id">>, <<"products", "ix_last_seen_import_run_id">>}
           e1 == When(<<"products">> \notin s, Create("products", r1) \o Each("products", parts1))
           r2 == {"products"}
           parts2 == <<"ix_eid", "ix_product_id">>
           F2 == {<<"product_images", "ix_eid">>, <<"product_images", "ix_product_id">>}
           e2 == When(<<"product_images">> \notin s, Create("product_images", r2) \o Each("product_images", parts2))
           r3 == {"propery_options", "products", "properties"}
           parts3 == <<"ix_eid", "ix_option_id", "ix_product_id", "ix_property_id">>
           F3 == {<<"product_attributes", "ix_eid">>, <<"product_attributes", "ix_option_id">>,
                  <<"product_attributes", "ix_product_id">>, <<"product_attributes", "ix_property_id">>}
           e3 == When(<<"product_attributes">> \notin s, Create("product_attributes",
                                                                r3) \o Each("product_attributes", parts3))
           r4 == {"products"}
           parts4 == <<"ix_eid", "ix_product_id">>
           F4 == {<<"offers", "ix_eid">>, <<"offers", "ix_product_id">>}
           e4 == When(<<"offers">> \notin s, Create("offers", r4) \o Each("offers", parts4))
<1>1. e1 \in Seq(Stmts)
  <2>1. Parts("products", parts1, F1)
    BY PartsThree
  <2>2. Made("products", {}, r1) \cup F1 \subseteq AllFacts
    BY DEF Made, OldCatalog, TranslationFacts, OneCFacts, PropertyFacts, ProductFacts, AttributeFacts, ImageFacts,
           OptionFacts, AllFacts
  <2>3. "products" \in TableNames /\ r1 \in SUBSET TableNames
    BY DEF TableNames
  <2> HIDE DEF r1, parts1, F1
  <2> QED  BY <2>1, <2>2, <2>3, TableIs
<1>2. e2 \in Seq(Stmts)
  <2>1. Parts("product_images", parts2, F2)
    BY PartsTwo
  <2>2. Made("product_images", {}, r2) \cup F2 \subseteq AllFacts
    BY DEF Made, OldCatalog, TranslationFacts, OneCFacts, PropertyFacts, ProductFacts, AttributeFacts, ImageFacts,
           OptionFacts, AllFacts
  <2>3. "product_images" \in TableNames /\ r2 \in SUBSET TableNames
    BY DEF TableNames
  <2> HIDE DEF r2, parts2, F2
  <2> QED  BY <2>1, <2>2, <2>3, TableIs
<1>3. e3 \in Seq(Stmts)
  <2>1. Parts("product_attributes", parts3, F3)
    BY PartsFour
  <2>2. Made("product_attributes", {}, r3) \cup F3 \subseteq AllFacts
    BY DEF Made, OldCatalog, TranslationFacts, OneCFacts, PropertyFacts, ProductFacts, AttributeFacts, ImageFacts,
           OptionFacts, AllFacts
  <2>3. "product_attributes" \in TableNames /\ r3 \in SUBSET TableNames
    BY DEF TableNames
  <2> HIDE DEF r3, parts3, F3
  <2> QED  BY <2>1, <2>2, <2>3, TableIs
<1>4. e4 \in Seq(Stmts)
  <2>1. Parts("offers", parts4, F4)
    BY PartsTwo
  <2>2. Made("offers", {}, r4) \cup F4 \subseteq AllFacts
    BY DEF Made, OldCatalog, TranslationFacts, OneCFacts, PropertyFacts, ProductFacts, AttributeFacts, ImageFacts,
           OptionFacts, AllFacts
  <2>3. "offers" \in TableNames /\ r4 \in SUBSET TableNames
    BY DEF TableNames
  <2> HIDE DEF r4, parts4, F4
  <2> QED  BY <2>1, <2>2, <2>3, TableIs
<1>5. OneCProducts(s, "propery_options") = e1 \o e2 \o e3 \o e4
  BY DEF OneCProducts
<1> HIDE DEF e1, e2, e3, e4
<1>6. e1 \o e2 \in Seq(Stmts)
  BY <1>1, <1>2, ConcatProperties
<1>7. e1 \o e2 \o e3 \in Seq(Stmts)
  BY <1>3, <1>6, ConcatProperties
<1> QED  BY <1>4, <1>5, <1>7, ConcatProperties

(* The old catalog is made, each table unless it is there, and an index: a *)
(* migration that cannot run again from every point.                       *)
LEMMA AddOneCCatalogRuns ==
  ASSUME NEW A, NEW C, Order(A, C), "e4b7c1d2a9f0" \in C, "e4b7c1d2a9f0" \notin A, NEW s \in Good(A, C), NEW strict,
         strict => s \in Good(A, C \ {"e4b7c1d2a9f0"})
  PROVE  Runs(AddOneCCatalog(s), s, Good(A, C), Good(A \cup {"e4b7c1d2a9f0"}, C), strict)
<1> DEFINE G == Good(A, C)
           D == A \cup {"e4b7c1d2a9f0"}
           X0 == {}
           X1 == X0 \cup {"category_translations"}
           X2 == X1 \cup {"categories"}
           x == Without(s, X2)
           m == Made("categories", {}, {})
           y == x \cup m
           z == y \cup {<<"categories", "ix_eid">>}
           T0 == OldTables
           U0 == {"categories"}
           T1 == {"properties", "propery_options", "products", "product_images", "product_attributes", "offers"}
           U1 == {"categories", "onec_import_runs"}
           T2 == {"products", "product_images", "product_attributes", "offers"}
           U2 == {"categories", "onec_import_runs", "properties", "propery_options"}
           U3 == OldTables \cup {"categories"}
<1>1. "e4b7c1d2a9f0" \in C /\ "59ca8b5b7134" \notin A /\ "59ca8b5b7134" \notin C /\ "7e4a9c2b1d60" \notin A
  BY OrderIs
<1>2. \A f \in Owed(A, C) : f[1] # "category_translations" /\ f[1] # "categories"
  <2>1. "0f6d28a4b193" \notin A
    BY <1>1, OrderIs
  <2> QED  BY <1>1, <2>1 DEF Owed, SettingsFacts, EventFacts, PurchaseFacts, MethodFacts, PaymentFacts, SyncFacts,
              ShipmentFacts,
         OldFieldFacts, NewFieldFacts, DeliveryFacts
<1>3. \A u \in TableNames :
        /\ <<u, "->", "category_translations">> \notin AllFacts
        /\ <<u, "->", "categories">> \in AllFacts => u \in {"category_translations", "properties", "products"}
  BY DEF AllFacts, LocaleFacts, LocaleIndex, SettingsFacts, EventFacts, TranslationFacts, OptionFacts,
         PropertyFacts, OneCFacts, ProductFacts, AttributeFacts, ImageFacts, OldCatalog, NewCatalog, NewImages,
         LengthFacts, PurchaseFacts, MethodFacts, PaymentFacts, SyncFacts, ShipmentFacts, OldFieldFacts,
         NewFieldFacts, DeliveryFacts, TableNames
<1>4. s \in SUBSET AllFacts /\ Consistent(s)
  BY GoodIs
<1>5. strict => \A f \in s : f[1] \notin OldTables
  <2> SUFFICES ASSUME strict, NEW f \in s, f[1] \in OldTables PROVE FALSE
    OBVIOUS
  <2>1. <<f[1]>> \in s
    BY <1>4 DEF Consistent
  <2>2. <<f[1]>> \in Allowed(A, C \ {"e4b7c1d2a9f0"})
    BY <2>1, GoodIs
  <2>3. <<f[1]>> \in OldCatalog \ (TranslationFacts \cup {<<"categories">>})
    BY DEF OldTables, OldCatalog, TranslationFacts, OneCFacts, PropertyFacts, ProductFacts, AttributeFacts,
           ImageFacts, OptionFacts
  <2> QED  BY <2>2, <2>3 DEF Allowed
<1>6. "category_translations" \in TableNames /\ "categories" \in TableNames /\ "properties" \in OldTables /\ "products" \in OldTables
  BY DEF TableNames, OldTables
<1> DEFINE d1 == DropIfExists(s, "category_translations")
           d2 == DropIfExists(s, "categories")
           c1 == Create("categories", {})
           c2 == Add("categories", "ix_eid")
<1>7. d1 \in Seq(Stmts) /\ Runs(d1, s, G, {Without(s, X1)}, strict)
  <2>1. s = Without(s, X0) /\ "category_translations" \notin X0
    BY DEF Without
  <2>2. strict => \A u \in TableNames : <<u, "->", "category_translations">> \in s => u \in X1
    BY <1>3, <1>4
  <2> HIDE DEF X0
  <2> QED  BY <1>2, <1>6, <2>1, <2>2, DropRuns
<1>8. Runs(d1 \o d2, s, G, {x}, strict)
  <2>1. "categories" \notin X1
    OBVIOUS
  <2>2. strict => \A u \in TableNames : <<u, "->", "categories">> \in s => u \in X2
    <3> SUFFICES ASSUME strict, NEW u \in TableNames, <<u, "->", "categories">> \in s PROVE u \in X2
      OBVIOUS
    <3>1. u \in {"category_translations", "properties", "products"}
      BY <1>3, <1>4
    <3>2. <<u, "->", "categories">>[1] = u
      OBVIOUS
    <3>3. u \notin OldTables
      BY <1>5, <3>2
    <3> QED  BY <1>6, <3>1, <3>3
  <2> HIDE DEF X1, d1
  <2> QED  BY <1>2, <1>6, <1>7, <2>1, <2>2, NextDrop
<1>9. m = {<<"categories">>} /\ m \subseteq Allowed(A, C) /\ <<"categories", "ix_eid">> \in Allowed(A, C)
  <2>1. m = {<<"categories">>}
    BY DEF Made
  <2>2. {<<"categories">>, <<"categories", "ix_eid">>} \subseteq OldCatalog \ TranslationFacts
    BY DEF OldCatalog, OneCFacts, TranslationFacts
  <2> QED  BY <1>1, <2>1, <2>2, OldAllowed
<1>10. strict => <<"categories">> \notin x
  BY DEF Without
<1>11. strict => <<"categories">> \in y /\ <<"categories", "ix_eid">> \notin y
  BY <1>9 DEF Without
<1>12. z \in G => z \in Building(s, strict, T0, U0)
  <2> SUFFICES ASSUME z \in G PROVE z \in Building(s, strict, T0, U0)
    OBVIOUS
  <2>1. z \in SUBSET AllFacts
    BY GoodIs
  <2>2. <<"categories">> \in z
    BY <1>9
  <2>3. \A t \in OldTables : <<t>> \in s => <<t>> \in z
    <3> SUFFICES ASSUME NEW t \in OldTables, <<t>> \in s PROVE <<t>> \in x
      OBVIOUS
    <3>1. <<t>>[1] = t /\ t \notin X2
      BY DEF OldTables
    <3> QED  BY <3>1 DEF Without
  <2>4. \A f \in z : f[1] \in {"categories"} \/ f \in x
    BY <1>9
  <2>5. \A f \in x : f[1] \notin X2 /\ f \in s
    BY DEF Without
  <2>6. "categories" \notin OldTables
    BY DEF OldTables
  <2>7. \A f \in z : f[1] # "category_translations" /\ (strict => f[1] \notin OldTables)
    BY <1>5, <2>4, <2>5, <2>6
  <2> HIDE DEF z
  <2> QED  BY <2>1, <2>2, <2>3, <2>7 DEF Building
<1> DEFINE b == d1 \o d2 \o c1 \o c2
<1>13. Runs(b, s, G, {z}, strict)
  <2> HIDE DEF x, m, d1, d2
  <2> DEFINE references == {}
             columns == {}
  <2>1. Made("categories", columns, references) = m /\ references \in SUBSET TableNames /\ Create("categories", {}) = CreateWith("categories", columns, references)
    BY DEF m, Create
  <2> HIDE DEF references, columns
  <2> DEFINE a == d1 \o d2
  <2>2. Runs(a, s, G, {x}, strict)
    BY <1>8
  <2> HIDE DEF a
  <2>3. Runs(a \o c1, s, G, {y}, strict)
    <3>1. \A u \in references : <<u>> \in x
      BY DEF references
    <3> QED  BY <1>6, <1>9, <1>10, <2>2, <2>1, <3>1, NextCreate
  <2> HIDE DEF y, c1
  <2> DEFINE a2 == a \o c1
  <2>4. Runs(a2, s, G, {y}, strict)
    BY <2>3
  <2> HIDE DEF a2
  <2>5. Runs(a2 \o c2, s, G, {z}, strict)
    BY <1>6, <1>9, <1>11, <2>4, NextAdd
  <2> QED  BY <2>5 DEF a2, a
<1>14. AddOneCCatalog(s) = b \o OneCRuns(s) \o OneCProperties(s) \o OneCProducts(s, "propery_options")
  BY DEF AddOneCCatalog, OneCCategories
<1> DEFINE e1 == OneCRuns(s)
           e2 == OneCProperties(s)
           e3 == OneCProducts(s, "propery_options")
           M(T, U) == Building(s, strict, T, U)
<1>15. \A w \in G : w \in M(T0, U0) => e1 \in Seq(Stmts) /\ Runs(e1, w, G, M(T1, U1), strict)
  BY <1>1, OneCRunsRun DEF OldTables
<1>16. \A w \in G : w \in M(T1, U1) => e2 \in Seq(Stmts) /\ Runs(e2, w, G, M(T2, U2), strict)
  BY <1>1, OneCPropertiesRun
<1>17. \A w \in G : w \in M(T2, U2) => e3 \in Seq(Stmts) /\ Runs(e3, w, G, M({}, U3), strict)
  <2>1. U3 = {"categories", "onec_import_runs", "properties", "propery_options", "products", "product_images",
              "product_attributes", "offers"}
    BY DEF OldTables
  <2> HIDE DEF U3
  <2> QED  BY <1>1, <2>1, OneCProductsRun
<1>18. \A w \in M({}, U3) \cap G : w \in Good(D, C)
  <2> SUFFICES ASSUME NEW w \in G, w \in M({}, U3) PROVE w \in Good(D, C)
    OBVIOUS
  <2> DEFINE N == OneCTables
  <2>1. Owed(D, C) \subseteq Owed(A, C) \cup N
    BY DEF Owed
  <2>2. N \subseteq w
    BY DEF OneCTables, Building, OldTables
  <2>3. \A f \in Allowed(A, C) : f \notin TranslationFacts => f \in Allowed(D, C)
    BY DEF Allowed
  <2>4. w \cap TranslationFacts = {}
    BY DEF Building, TranslationFacts
  <2> HIDE DEF N, M
  <2> QED  BY <2>1, <2>2, <2>3, <2>4, GoodIs, Finish
<1> HIDE DEF b, e1, e2, e3, M, T0, U0, T1, U1, T2, U2, U3, G, z, D
<1>19. e1 \in Seq(Stmts) /\ e2 \in Seq(Stmts) /\ e3 \in Seq(Stmts)
  BY OneCRunsIs, OneCPropertiesIs, OneCProductsIs DEF e1, e2, e3
<1>20. Runs(b, s, G, M(T0, U0), strict)
  <2>1. {z} \cap G \subseteq M(T0, U0)
    BY <1>12 DEF M
  <2> QED  BY <1>13, <2>1, RunsWeaken
<1>21. Runs(b \o e1, s, G, M(T1, U1), strict)
  <2>1. \A w \in M(T0, U0) \cap G : Runs(e1, w, G, M(T1, U1), strict)
    BY <1>15
  <2> QED  BY <1>19, <1>20, <2>1, RunsThen
<1>22. Runs(b \o e1 \o e2, s, G, M(T2, U2), strict)
  <2>1. \A w \in M(T1, U1) \cap G : Runs(e2, w, G, M(T2, U2), strict)
    BY <1>16
  <2> DEFINE a == b \o e1
  <2> HIDE DEF a
  <2>2. Runs(a \o e2, s, G, M(T2, U2), strict)
    BY <1>19, <1>21, <2>1, RunsThen DEF a
  <2> QED  BY <2>2 DEF a
<1>23. Runs(b \o e1 \o e2 \o e3, s, G, M({}, U3), strict)
  <2>1. \A w \in M(T2, U2) \cap G : Runs(e3, w, G, M({}, U3), strict)
    BY <1>17
  <2> DEFINE a == b \o e1 \o e2
  <2> HIDE DEF a
  <2>2. Runs(a \o e3, s, G, M({}, U3), strict)
    BY <1>19, <1>22, <2>1, RunsThen DEF a
  <2> QED  BY <2>2 DEF a
<1>24. Runs(AddOneCCatalog(s), s, G, Good(D, C), strict)
  <2>1. AddOneCCatalog(s) = b \o e1 \o e2 \o e3
    BY <1>14 DEF e1, e2, e3
  <2>2. M({}, U3) \cap G \subseteq Good(D, C)
    BY <1>18
  <2> QED  BY <1>23, <2>1, <2>2, RunsWeaken
<1> QED  BY <1>24 DEF G, D

(* Three tables are dropped if they exist, each when nothing refers to it. *)
LEMMA ThreeDropRuns ==
  ASSUME NEW A, NEW B, NEW s \in Good(A, B), NEW X, NEW x \in Good(A, B), x = Without(s, X), NEW strict,
         NEW t \in TableNames, NEW u \in TableNames, NEW v \in TableNames, t # u /\ v \notin {t, u},
         {t, u, v} \cap X = {}, \A f \in Owed(A, B) : f[1] \notin {t, u, v},
         \A w \in TableNames : /\ <<w, "->", t>> \in s => w \in X \cup {t}
                               /\ <<w, "->", u>> \in s => w \in X \cup {t, u}
                               /\ <<w, "->", v>> \in s => w \in X \cup {t, u, v}
  PROVE  LET drops == DropIfExists(s, t) \o DropIfExists(s, u) \o DropIfExists(s, v)
         IN  drops \in Seq(Stmts) /\ Runs(drops, x, Good(A, B), {Without(s, X \cup {t, u, v})}, strict)
<1> DEFINE G == Good(A, B)
           X1 == X \cup {t}
           X2 == X1 \cup {u}
           X3 == X2 \cup {v}
           d1 == DropIfExists(s, t)
           d2 == DropIfExists(s, u)
           d3 == DropIfExists(s, v)
<1>1. X3 = X \cup {t, u, v} /\ d1 \in Seq(Stmts) /\ d2 \in Seq(Stmts) /\ d3 \in Seq(Stmts)
  BY GoodIs, DropIs
<1>2. Runs(d1, x, G, {Without(s, X1)}, strict)
  BY DropRuns
<1>3. Runs(d1 \o d2, x, G, {Without(s, X2)}, strict)
  <2>1. u \notin X1 /\ \A w \in TableNames : <<w, "->", u>> \in s => w \in X1 \cup {u}
    OBVIOUS
  <2> HIDE DEF X1, d1
  <2> QED  BY <1>2, <2>1, NextDrop
<1> DEFINE a == d1 \o d2
<1>4. Runs(a \o d3, x, G, {Without(s, X3)}, strict)
  <2>1. v \notin X2 /\ \A w \in TableNames : <<w, "->", v>> \in s => w \in X2 \cup {v}
    OBVIOUS
  <2> HIDE DEF X2, a
  <2> QED  BY <1>3, <2>1, NextDrop DEF a
<1>5. a \o d3 \in Seq(Stmts)
  <2> HIDE DEF d1, d2, d3
  <2>1. a \in Seq(Stmts)
    BY <1>1, ConcatProperties
  <2> HIDE DEF a
  <2> QED  BY <1>1, <2>1, ConcatProperties
<1> HIDE DEF X3
<1> QED  BY <1>1, <1>4, <1>5

(* The new catalog may be there from the revision that makes it.           *)
LEMMA NewAllowed ==
  ASSUME NEW A, NEW B, "e4b7c1d2a9f0" \in B, "59ca8b5b7134" \in B
  PROVE  NewCatalog \cup NewImages \subseteq Allowed(A, B)
  BY DEF Allowed, AllFacts, LocaleFacts, LocaleIndex, SettingsFacts, EventFacts, TranslationFacts, OptionFacts,
         PropertyFacts, OneCFacts, ProductFacts, AttributeFacts, ImageFacts, OldCatalog, NewCatalog, NewImages,
         LengthFacts, PurchaseFacts, MethodFacts, PaymentFacts, SyncFacts, ShipmentFacts, OldFieldFacts,
         NewFieldFacts, DeliveryFacts, TableNames

(* The categories, the products and their variants are made.               *)
LEMMA NewProductsRun ==
  ASSUME NEW A, NEW B, "e4b7c1d2a9f0" \in B, "59ca8b5b7134" \in B, NEW strict, NEW x \in Good(A, B),
         strict => /\ \A f \in x : f[1] \notin {"categories", "products", "product_variants"}
                   /\ \A u \in {} : <<u>> \in x,
         NEW F, F = {<<"categories">>, <<"products">>, <<"products", "->", "categories">>, <<"product_variants">>,
                 <<"product_variants", "->", "products">>}
  PROVE  /\ NewProducts \in Seq(Stmts)
         /\ Runs(NewProducts, x, Good(A, B), {x \cup F}, strict)
<1> DEFINE G == Good(A, B)
           T == {"categories", "products", "product_variants"}
           r1 == {}
           F1 == Made("categories", {}, r1)
           x1 == x \cup F1
           e1 == CreateWith("categories", {}, r1)
           r2 == {"categories"}
           F2 == Made("products", {}, r2)
           x2 == x1 \cup F2
           e2 == CreateWith("products", {}, r2)
           r3 == {"products"}
           F3 == Made("product_variants", {}, r3)
           x3 == x2 \cup F3
           e3 == CreateWith("product_variants", {}, r3)
<1>1. NewCatalog \cup NewImages \subseteq Allowed(A, B)
  BY NewAllowed
<1>2. /\ F1 = {<<"categories">>}
      /\ F1 \subseteq Allowed(A, B) /\ r1 \in SUBSET TableNames /\ "categories" \in TableNames
  <2>1. F1 = {<<"categories">>}
    BY DEF Made
  <2>2. {<<"categories">>} \subseteq NewCatalog \cup NewImages
    BY DEF NewCatalog, NewImages
  <2>3. r1 \in SUBSET TableNames /\ "categories" \in TableNames
    BY DEF TableNames
  <2> QED  BY <1>1, <2>1, <2>2, <2>3
<1>3. /\ F2 = {<<"products">>, <<"products", "->", "categories">>}
      /\ F2 \subseteq Allowed(A, B) /\ r2 \in SUBSET TableNames /\ "products" \in TableNames
  <2>1. F2 = {<<"products">>, <<"products", "->", "categories">>}
    BY DEF Made
  <2>2. {<<"products">>, <<"products", "->", "categories">>} \subseteq NewCatalog \cup NewImages
    BY DEF NewCatalog, NewImages
  <2>3. r2 \in SUBSET TableNames /\ "products" \in TableNames
    BY DEF TableNames
  <2> QED  BY <1>1, <2>1, <2>2, <2>3
<1>4. /\ F3 = {<<"product_variants">>, <<"product_variants", "->", "products">>}
      /\ F3 \subseteq Allowed(A, B) /\ r3 \in SUBSET TableNames /\ "product_variants" \in TableNames
  <2>1. F3 = {<<"product_variants">>, <<"product_variants", "->", "products">>}
    BY DEF Made
  <2>2. {<<"product_variants">>, <<"product_variants", "->", "products">>} \subseteq NewCatalog \cup NewImages
    BY DEF NewCatalog, NewImages
  <2>3. r3 \in SUBSET TableNames /\ "product_variants" \in TableNames
    BY DEF TableNames
  <2> QED  BY <1>1, <2>1, <2>2, <2>3
<1>5. x3 = x \cup F
  BY <1>2, <1>3, <1>4
<1>6. strict => <<"categories">> \notin x /\ \A u \in r1 : <<u>> \in x
  OBVIOUS
<1>7. strict => <<"products">> \notin x1 /\ \A u \in r2 : <<u>> \in x1
  BY <1>2
<1>8. strict => <<"product_variants">> \notin x2 /\ \A u \in r3 : <<u>> \in x2
  BY <1>2, <1>3
<1> DEFINE a1 == e1
<1>9. a1 \in Seq(Stmts) /\ Runs(a1, x, G, {x1}, strict)
  BY <1>2, <1>6, CreateRuns
<1> HIDE DEF a1, x1, r1, F1, r2, F2, r3, F3, T
<1> DEFINE a2 == a1 \o e2
<1>10. a2 \in Seq(Stmts) /\ Runs(a2, x, G, {x2}, strict)
  <2>1. e2 \in Seq(Stmts) /\ Runs(a1 \o e2, x, G, {x1 \cup Made("products", {}, r2)}, strict)
    BY <1>3, <1>7, <1>9, NextCreate DEF F2
  <2>2. a1 \o e2 \in Seq(Stmts)
    BY <1>9, <2>1, ConcatProperties
  <2> QED  BY <2>1, <2>2 DEF F2
<1> HIDE DEF a2, x2
<1> DEFINE a3 == a2 \o e3
<1>11. a3 \in Seq(Stmts) /\ Runs(a3, x, G, {x3}, strict)
  <2>1. e3 \in Seq(Stmts) /\ Runs(a2 \o e3, x, G, {x2 \cup Made("product_variants", {}, r3)}, strict)
    BY <1>4, <1>8, <1>10, NextCreate DEF F3
  <2>2. a2 \o e3 \in Seq(Stmts)
    BY <1>10, <2>1, ConcatProperties
  <2> QED  BY <2>1, <2>2 DEF F3
<1> HIDE DEF a3, x3
<1>12. NewProducts = a3
  BY DEF NewProducts, Create, a1, a2, a3, r1, r2, r3
<1> QED  BY <1>5, <1>11, <1>12

(* The attributes, the images and the offers are made.                     *)
LEMMA NewAttributesRun ==
  ASSUME NEW A, NEW B, "e4b7c1d2a9f0" \in B, "59ca8b5b7134" \in B, NEW strict, NEW x \in Good(A, B),
         strict => /\ \A f \in x : f[1] \notin {"attributes", "attribute_options", "product_attributes",
                                                "product_images", "offers"}
                   /\ \A u \in {"products", "product_variants"} : <<u>> \in x,
         NEW F, F = {<<"attributes">>, <<"attribute_options">>, <<"attribute_options", "->", "attributes">>,
                 <<"product_attributes">>, <<"product_attributes", "->", "attribute_options">>,
                 <<"product_attributes", "->", "product_variants">>, <<"product_images">>, <<"product_images",
                 "->", "products">>, <<"product_images", "ix_product_id">>, <<"offers">>, <<"offers", "->",
                 "product_variants">>, <<"offers", "ix_variant_id">>}
  PROVE  /\ NewAttributes \in Seq(Stmts)
         /\ Runs(NewAttributes, x, Good(A, B), {x \cup F}, strict)
<1> DEFINE G == Good(A, B)
           T == {"attributes", "attribute_options", "product_attributes", "product_images", "offers"}
           r1 == {}
           F1 == Made("attributes", {}, r1)
           x1 == x \cup F1
           e1 == CreateWith("attributes", {}, r1)
           r2 == {"attributes"}
           F2 == Made("attribute_options", {}, r2)
           x2 == x1 \cup F2
           e2 == CreateWith("attribute_options", {}, r2)
           r3 == {"attribute_options", "product_variants"}
           F3 == Made("product_attributes", {}, r3)
           x3 == x2 \cup F3
           e3 == CreateWith("product_attributes", {}, r3)
           r4 == {"products"}
           F4 == Made("product_images", {}, r4)
           x4 == x3 \cup F4
           e4 == CreateWith("product_images", {}, r4)
           F5 == {<<"product_images", "ix_product_id">>}
           x5 == x4 \cup F5
           e5 == Add("product_images", "ix_product_id")
           r6 == {"product_variants"}
           F6 == Made("offers", {}, r6)
           x6 == x5 \cup F6
           e6 == CreateWith("offers", {}, r6)
           F7 == {<<"offers", "ix_variant_id">>}
           x7 == x6 \cup F7
           e7 == Add("offers", "ix_variant_id")
<1>1. NewCatalog \cup NewImages \subseteq Allowed(A, B)
  BY NewAllowed
<1>2. /\ F1 = {<<"attributes">>}
      /\ F1 \subseteq Allowed(A, B) /\ r1 \in SUBSET TableNames /\ "attributes" \in TableNames
  <2>1. F1 = {<<"attributes">>}
    BY DEF Made
  <2>2. {<<"attributes">>} \subseteq NewCatalog \cup NewImages
    BY DEF NewCatalog, NewImages
  <2>3. r1 \in SUBSET TableNames /\ "attributes" \in TableNames
    BY DEF TableNames
  <2> QED  BY <1>1, <2>1, <2>2, <2>3
<1>3. /\ F2 = {<<"attribute_options">>, <<"attribute_options", "->", "attributes">>}
      /\ F2 \subseteq Allowed(A, B) /\ r2 \in SUBSET TableNames /\ "attribute_options" \in TableNames
  <2>1. F2 = {<<"attribute_options">>, <<"attribute_options", "->", "attributes">>}
    BY DEF Made
  <2>2. {<<"attribute_options">>, <<"attribute_options", "->", "attributes">>} \subseteq NewCatalog \cup NewImages
    BY DEF NewCatalog, NewImages
  <2>3. r2 \in SUBSET TableNames /\ "attribute_options" \in TableNames
    BY DEF TableNames
  <2> QED  BY <1>1, <2>1, <2>2, <2>3
<1>4. /\ F3 = {<<"product_attributes">>, <<"product_attributes", "->", "attribute_options">>,
               <<"product_attributes", "->", "product_variants">>}
      /\ F3 \subseteq Allowed(A, B) /\ r3 \in SUBSET TableNames /\ "product_attributes" \in TableNames
  <2>1. F3 = {<<"product_attributes">>, <<"product_attributes", "->", "attribute_options">>,
              <<"product_attributes", "->", "product_variants">>}
    BY DEF Made
  <2>2. {<<"product_attributes">>, <<"product_attributes", "->", "attribute_options">>,
         <<"product_attributes", "->", "product_variants">>} \subseteq NewCatalog \cup NewImages
    BY DEF NewCatalog, NewImages
  <2>3. r3 \in SUBSET TableNames /\ "product_attributes" \in TableNames
    BY DEF TableNames
  <2> QED  BY <1>1, <2>1, <2>2, <2>3
<1>5. /\ F4 = {<<"product_images">>, <<"product_images", "->", "products">>}
      /\ F4 \subseteq Allowed(A, B) /\ r4 \in SUBSET TableNames /\ "product_images" \in TableNames
  <2>1. F4 = {<<"product_images">>, <<"product_images", "->", "products">>}
    BY DEF Made
  <2>2. {<<"product_images">>, <<"product_images", "->", "products">>} \subseteq NewCatalog \cup NewImages
    BY DEF NewCatalog, NewImages
  <2>3. r4 \in SUBSET TableNames /\ "product_images" \in TableNames
    BY DEF TableNames
  <2> QED  BY <1>1, <2>1, <2>2, <2>3
<1>6. <<"product_images", "ix_product_id">> \in Allowed(A, B) /\ "product_images" \in TableNames
  <2>1. <<"product_images", "ix_product_id">> \in NewCatalog \cup NewImages
    BY DEF NewCatalog, NewImages
  <2>2. "product_images" \in TableNames
    BY DEF TableNames
  <2> QED  BY <1>1, <2>1, <2>2
<1>7. /\ F6 = {<<"offers">>, <<"offers", "->", "product_variants">>}
      /\ F6 \subseteq Allowed(A, B) /\ r6 \in SUBSET TableNames /\ "offers" \in TableNames
  <2>1. F6 = {<<"offers">>, <<"offers", "->", "product_variants">>}
    BY DEF Made
  <2>2. {<<"offers">>, <<"offers", "->", "product_variants">>} \subseteq NewCatalog \cup NewImages
    BY DEF NewCatalog, NewImages
  <2>3. r6 \in SUBSET TableNames /\ "offers" \in TableNames
    BY DEF TableNames
  <2> QED  BY <1>1, <2>1, <2>2, <2>3
<1>8. <<"offers", "ix_variant_id">> \in Allowed(A, B) /\ "offers" \in TableNames
  <2>1. <<"offers", "ix_variant_id">> \in NewCatalog \cup NewImages
    BY DEF NewCatalog, NewImages
  <2>2. "offers" \in TableNames
    BY DEF TableNames
  <2> QED  BY <1>1, <2>1, <2>2
<1>9. x7 = x \cup F
  BY <1>2, <1>3, <1>4, <1>5, <1>7
<1>10. strict => <<"attributes">> \notin x /\ \A u \in r1 : <<u>> \in x
  OBVIOUS
<1>11. strict => <<"attribute_options">> \notin x1 /\ \A u \in r2 : <<u>> \in x1
  BY <1>2
<1>12. strict => <<"product_attributes">> \notin x2 /\ \A u \in r3 : <<u>> \in x2
  BY <1>2, <1>3
<1>13. strict => <<"product_images">> \notin x3 /\ \A u \in r4 : <<u>> \in x3
  BY <1>2, <1>3, <1>4
<1>14. strict => <<"product_images">> \in x4 /\ <<"product_images", "ix_product_id">> \notin x4
  BY <1>2, <1>3, <1>4, <1>5
<1>15. strict => <<"offers">> \notin x5 /\ \A u \in r6 : <<u>> \in x5
  BY <1>2, <1>3, <1>4, <1>5
<1>16. strict => <<"offers">> \in x6 /\ <<"offers", "ix_variant_id">> \notin x6
  BY <1>2, <1>3, <1>4, <1>5, <1>7
<1> DEFINE a1 == e1
<1>17. a1 \in Seq(Stmts) /\ Runs(a1, x, G, {x1}, strict)
  BY <1>2, <1>10, CreateRuns
<1> HIDE DEF a1, x1, r1, F1, r2, F2, r3, F3, r4, F4, r6, F6, T
<1> DEFINE a2 == a1 \o e2
<1>18. a2 \in Seq(Stmts) /\ Runs(a2, x, G, {x2}, strict)
  <2>1. e2 \in Seq(Stmts) /\ Runs(a1 \o e2, x, G, {x1 \cup Made("attribute_options", {}, r2)}, strict)
    BY <1>3, <1>11, <1>17, NextCreate DEF F2
  <2>2. a1 \o e2 \in Seq(Stmts)
    BY <1>17, <2>1, ConcatProperties
  <2> QED  BY <2>1, <2>2 DEF F2
<1> HIDE DEF a2, x2
<1> DEFINE a3 == a2 \o e3
<1>19. a3 \in Seq(Stmts) /\ Runs(a3, x, G, {x3}, strict)
  <2>1. e3 \in Seq(Stmts) /\ Runs(a2 \o e3, x, G, {x2 \cup Made("product_attributes", {}, r3)}, strict)
    BY <1>4, <1>12, <1>18, NextCreate DEF F3
  <2>2. a2 \o e3 \in Seq(Stmts)
    BY <1>18, <2>1, ConcatProperties
  <2> QED  BY <2>1, <2>2 DEF F3
<1> HIDE DEF a3, x3
<1> DEFINE a4 == a3 \o e4
<1>20. a4 \in Seq(Stmts) /\ Runs(a4, x, G, {x4}, strict)
  <2>1. e4 \in Seq(Stmts) /\ Runs(a3 \o e4, x, G, {x3 \cup Made("product_images", {}, r4)}, strict)
    BY <1>5, <1>13, <1>19, NextCreate DEF F4
  <2>2. a3 \o e4 \in Seq(Stmts)
    BY <1>19, <2>1, ConcatProperties
  <2> QED  BY <2>1, <2>2 DEF F4
<1> HIDE DEF a4, x4
<1> DEFINE a5 == a4 \o e5
<1>21. a5 \in Seq(Stmts) /\ Runs(a5, x, G, {x5}, strict)
  <2>1. e5 \in Seq(Stmts) /\ Runs(a4 \o e5, x, G, {x4 \cup F5}, strict)
    BY <1>6, <1>14, <1>20, NextAdd
  <2>2. a4 \o e5 \in Seq(Stmts)
    BY <1>20, <2>1, ConcatProperties
  <2> QED  BY <2>1, <2>2
<1> HIDE DEF a5, x5
<1> DEFINE a6 == a5 \o e6
<1>22. a6 \in Seq(Stmts) /\ Runs(a6, x, G, {x6}, strict)
  <2>1. e6 \in Seq(Stmts) /\ Runs(a5 \o e6, x, G, {x5 \cup Made("offers", {}, r6)}, strict)
    BY <1>7, <1>15, <1>21, NextCreate DEF F6
  <2>2. a5 \o e6 \in Seq(Stmts)
    BY <1>21, <2>1, ConcatProperties
  <2> QED  BY <2>1, <2>2 DEF F6
<1> HIDE DEF a6, x6
<1> DEFINE a7 == a6 \o e7
<1>23. a7 \in Seq(Stmts) /\ Runs(a7, x, G, {x7}, strict)
  <2>1. e7 \in Seq(Stmts) /\ Runs(a6 \o e7, x, G, {x6 \cup F7}, strict)
    BY <1>8, <1>16, <1>22, NextAdd
  <2>2. a6 \o e7 \in Seq(Stmts)
    BY <1>22, <2>1, ConcatProperties
  <2> QED  BY <2>1, <2>2
<1> HIDE DEF a7, x7
<1>24. NewAttributes = a7
  BY DEF NewAttributes, Create, a1, a2, a3, a4, a5, a6, a7, r1, r2, r3, r4, r6
<1> QED  BY <1>9, <1>23, <1>24

(* The submissions of the purchases are made.                              *)
LEMMA NewSubmissionsRun ==
  ASSUME NEW A, NEW B, "e4b7c1d2a9f0" \in B, "59ca8b5b7134" \in B, NEW strict, NEW x \in Good(A, B),
         strict => /\ \A f \in x : f[1] \notin {"purchase_submissions"}
                   /\ \A u \in {"purchases"} : <<u>> \in x,
         NEW F, F = {<<"purchase_submissions">>, <<"purchase_submissions", "->", "purchases">>}
  PROVE  /\ NewSubmissions \in Seq(Stmts)
         /\ Runs(NewSubmissions, x, Good(A, B), {x \cup F}, strict)
<1> DEFINE G == Good(A, B)
           T == {"purchase_submissions"}
           r1 == {"purchases"}
           F1 == Made("purchase_submissions", {}, r1)
           x1 == x \cup F1
           e1 == CreateWith("purchase_submissions", {}, r1)
<1>1. NewCatalog \cup NewImages \subseteq Allowed(A, B)
  BY NewAllowed
<1>2. /\ F1 = {<<"purchase_submissions">>, <<"purchase_submissions", "->", "purchases">>}
      /\ F1 \subseteq Allowed(A, B) /\ r1 \in SUBSET TableNames /\ "purchase_submissions" \in TableNames
  <2>1. F1 = {<<"purchase_submissions">>, <<"purchase_submissions", "->", "purchases">>}
    BY DEF Made
  <2>2. {<<"purchase_submissions">>, <<"purchase_submissions", "->", "purchases">>} \subseteq NewCatalog \cup NewImages
    BY DEF NewCatalog, NewImages
  <2>3. r1 \in SUBSET TableNames /\ "purchase_submissions" \in TableNames
    BY DEF TableNames
  <2> QED  BY <1>1, <2>1, <2>2, <2>3
<1>3. x1 = x \cup F
  BY <1>2
<1>4. strict => <<"purchase_submissions">> \notin x /\ \A u \in r1 : <<u>> \in x
  OBVIOUS
<1> DEFINE a1 == e1
<1>5. a1 \in Seq(Stmts) /\ Runs(a1, x, G, {x1}, strict)
  BY <1>2, <1>4, CreateRuns
<1> HIDE DEF a1, x1, r1, F1, T
<1>6. NewSubmissions = a1
  BY DEF NewSubmissions, Create, a1, r1
<1> QED  BY <1>3, <1>5, <1>6

(* What makes the new catalog are sequences of statements.                 *)
LEMMA NewIs ==
  NewProducts \in Seq(Stmts) /\ NewAttributes \in Seq(Stmts) /\ NewSubmissions \in Seq(Stmts)
<1>1. NewCatalog \cup NewImages \subseteq AllFacts
  BY DEF AllFacts, NewImages, OldCatalog, ImageFacts
<1>2. Create("categories", {}) \in Seq(Stmts)
  <2> DEFINE columns == {}
             references == {}
  <2>1. Made("categories", columns, references) \subseteq NewCatalog \cup NewImages
    BY DEF Made, NewCatalog, NewImages
  <2>2. "categories" \in TableNames /\ references \in SUBSET TableNames
    BY DEF TableNames
  <2> HIDE DEF columns, references
  <2>3. CreateWith("categories", columns, references) \in Seq(Stmts)
    BY <1>1, <2>1, <2>2, CreateIs
  <2> QED  BY <2>3 DEF Create, columns, references
<1>3. Create("products", {"categories"}) \in Seq(Stmts)
  <2> DEFINE columns == {}
             references == {"categories"}
  <2>1. Made("products", columns, references) \subseteq NewCatalog \cup NewImages
    BY DEF Made, NewCatalog, NewImages
  <2>2. "products" \in TableNames /\ references \in SUBSET TableNames
    BY DEF TableNames
  <2> HIDE DEF columns, references
  <2>3. CreateWith("products", columns, references) \in Seq(Stmts)
    BY <1>1, <2>1, <2>2, CreateIs
  <2> QED  BY <2>3 DEF Create, columns, references
<1>4. Create("product_variants", {"products"}) \in Seq(Stmts)
  <2> DEFINE columns == {}
             references == {"products"}
  <2>1. Made("product_variants", columns, references) \subseteq NewCatalog \cup NewImages
    BY DEF Made, NewCatalog, NewImages
  <2>2. "product_variants" \in TableNames /\ references \in SUBSET TableNames
    BY DEF TableNames
  <2> HIDE DEF columns, references
  <2>3. CreateWith("product_variants", columns, references) \in Seq(Stmts)
    BY <1>1, <2>1, <2>2, CreateIs
  <2> QED  BY <2>3 DEF Create, columns, references
<1>5. Create("attributes", {}) \in Seq(Stmts)
  <2> DEFINE columns == {}
             references == {}
  <2>1. Made("attributes", columns, references) \subseteq NewCatalog \cup NewImages
    BY DEF Made, NewCatalog, NewImages
  <2>2. "attributes" \in TableNames /\ references \in SUBSET TableNames
    BY DEF TableNames
  <2> HIDE DEF columns, references
  <2>3. CreateWith("attributes", columns, references) \in Seq(Stmts)
    BY <1>1, <2>1, <2>2, CreateIs
  <2> QED  BY <2>3 DEF Create, columns, references
<1>6. Create("attribute_options", {"attributes"}) \in Seq(Stmts)
  <2> DEFINE columns == {}
             references == {"attributes"}
  <2>1. Made("attribute_options", columns, references) \subseteq NewCatalog \cup NewImages
    BY DEF Made, NewCatalog, NewImages
  <2>2. "attribute_options" \in TableNames /\ references \in SUBSET TableNames
    BY DEF TableNames
  <2> HIDE DEF columns, references
  <2>3. CreateWith("attribute_options", columns, references) \in Seq(Stmts)
    BY <1>1, <2>1, <2>2, CreateIs
  <2> QED  BY <2>3 DEF Create, columns, references
<1>7. Create("product_attributes", {"attribute_options", "product_variants"}) \in Seq(Stmts)
  <2> DEFINE columns == {}
             references == {"attribute_options", "product_variants"}
  <2>1. Made("product_attributes", columns, references) \subseteq NewCatalog \cup NewImages
    BY DEF Made, NewCatalog, NewImages
  <2>2. "product_attributes" \in TableNames /\ references \in SUBSET TableNames
    BY DEF TableNames
  <2> HIDE DEF columns, references
  <2>3. CreateWith("product_attributes", columns, references) \in Seq(Stmts)
    BY <1>1, <2>1, <2>2, CreateIs
  <2> QED  BY <2>3 DEF Create, columns, references
<1>8. Create("product_images", {"products"}) \in Seq(Stmts)
  <2> DEFINE columns == {}
             references == {"products"}
  <2>1. Made("product_images", columns, references) \subseteq NewCatalog \cup NewImages
    BY DEF Made, NewCatalog, NewImages
  <2>2. "product_images" \in TableNames /\ references \in SUBSET TableNames
    BY DEF TableNames
  <2> HIDE DEF columns, references
  <2>3. CreateWith("product_images", columns, references) \in Seq(Stmts)
    BY <1>1, <2>1, <2>2, CreateIs
  <2> QED  BY <2>3 DEF Create, columns, references
<1>9. Add("product_images", "ix_product_id") \in Seq(Stmts)
  <2>1. <<"product_images", "ix_product_id">> \in NewCatalog \cup NewImages /\ "product_images" \in TableNames
    BY DEF NewCatalog, NewImages, TableNames
  <2> QED  BY <1>1, <2>1, AddIs
<1>10. Create("offers", {"product_variants"}) \in Seq(Stmts)
  <2> DEFINE columns == {}
             references == {"product_variants"}
  <2>1. Made("offers", columns, references) \subseteq NewCatalog \cup NewImages
    BY DEF Made, NewCatalog, NewImages
  <2>2. "offers" \in TableNames /\ references \in SUBSET TableNames
    BY DEF TableNames
  <2> HIDE DEF columns, references
  <2>3. CreateWith("offers", columns, references) \in Seq(Stmts)
    BY <1>1, <2>1, <2>2, CreateIs
  <2> QED  BY <2>3 DEF Create, columns, references
<1>11. Add("offers", "ix_variant_id") \in Seq(Stmts)
  <2>1. <<"offers", "ix_variant_id">> \in NewCatalog \cup NewImages /\ "offers" \in TableNames
    BY DEF NewCatalog, NewImages, TableNames
  <2> QED  BY <1>1, <2>1, AddIs
<1>12. Create("purchase_submissions", {"purchases"}) \in Seq(Stmts)
  <2> DEFINE columns == {}
             references == {"purchases"}
  <2>1. Made("purchase_submissions", columns, references) \subseteq NewCatalog \cup NewImages
    BY DEF Made, NewCatalog, NewImages
  <2>2. "purchase_submissions" \in TableNames /\ references \in SUBSET TableNames
    BY DEF TableNames
  <2> HIDE DEF columns, references
  <2>3. CreateWith("purchase_submissions", columns, references) \in Seq(Stmts)
    BY <1>1, <2>1, <2>2, CreateIs
  <2> QED  BY <2>3 DEF Create, columns, references
<1>13. NewProducts \in Seq(Stmts)
  BY <1>2, <1>3, <1>4, ConcatProperties DEF NewProducts
<1>14. NewAttributes \in Seq(Stmts)
  <2> DEFINE a == Create("attributes", {}) \o Create("attribute_options", {"attributes"})
             b == a \o Create("product_attributes", {"attribute_options", "product_variants"})
             c == b \o Create("product_images", {"products"})
             d == c \o Add("product_images", "ix_product_id")
             e == d \o Create("offers", {"product_variants"})
             f == e \o Add("offers", "ix_variant_id")
  <2>1. a \in Seq(Stmts)
    BY <1>5, <1>6, ConcatProperties
  <2> HIDE DEF a
  <2>2. b \in Seq(Stmts)
    BY <1>7, <2>1, ConcatProperties
  <2> HIDE DEF b
  <2>3. c \in Seq(Stmts)
    BY <1>8, <2>2, ConcatProperties
  <2> HIDE DEF c
  <2>4. d \in Seq(Stmts)
    BY <1>9, <2>3, ConcatProperties
  <2> HIDE DEF d
  <2>5. e \in Seq(Stmts)
    BY <1>10, <2>4, ConcatProperties
  <2> HIDE DEF e
  <2>6. f \in Seq(Stmts)
    BY <1>11, <2>5, ConcatProperties
  <2> QED  BY <2>6 DEF e, d, c, b, a, NewAttributes
<1> QED  BY <1>12, <1>13, <1>14 DEF NewSubmissions

(* The old catalog is dropped and the new one made: a migration that       *)
(* cannot run again from the middle.                                       *)
LEMMA ReplaceCatalogRuns ==
  ASSUME NEW A, NEW C, Order(A, C), "59ca8b5b7134" \in C, "59ca8b5b7134" \notin A, NEW s \in Good(A, C), NEW strict,
         strict => s \in Good(A, C \ {"59ca8b5b7134"})
  PROVE  Runs(ReplaceCatalog(s), s, Good(A, C), Good(A \cup {"59ca8b5b7134"}, C), strict)
<1> DEFINE G == Good(A, C)
           D == A \cup {"59ca8b5b7134"}
           X1 == {"offers", "product_attributes", "attribute_options"}
           X2 == X1 \cup {"product_images", "product_variants", "products"}
           X3 == X2 \cup {"property_options", "propery_options", "properties"}
           X4 == X3 \cup {"onec_import_runs"}
           X == X4 \cup {"categories"}
           w(Y) == Without(s, Y)
<1>1. /\ "59ca8b5b7134" \notin A /\ "e4b7c1d2a9f0" \in A /\ "e4b7c1d2a9f0" \in C
      /\ "6b2f4d9a8c10" \in A /\ "0f6d28a4b193" \notin A
  BY OrderIs
<1>2. \A f \in Owed(A, C) : f[1] \notin X
  BY <1>1 DEF Owed, SettingsFacts, EventFacts, PurchaseFacts, MethodFacts, PaymentFacts, SyncFacts, ShipmentFacts,
         OldFieldFacts, NewFieldFacts, DeliveryFacts
<1>3. \A u \in TableNames :
        /\ <<u, "->", "offers">> \notin AllFacts /\ <<u, "->", "product_attributes">> \notin AllFacts
        /\ <<u, "->", "product_images">> \notin AllFacts
        /\ <<u, "->", "attribute_options">> \in AllFacts => u \in X1
        /\ <<u, "->", "product_variants">> \in AllFacts => u \in X1
        /\ <<u, "->", "products">> \in AllFacts => u \in X2
        /\ <<u, "->", "property_options">> \in AllFacts => u \in X1
        /\ <<u, "->", "propery_options">> \in AllFacts => u \in X1
        /\ <<u, "->", "properties">> \in AllFacts => u \in X3
        /\ <<u, "->", "onec_import_runs">> \in AllFacts => u \in X2
        /\ <<u, "->", "categories">> \in AllFacts => u \in X3 \cup {"category_translations"}
  BY DEF AllFacts, LocaleFacts, LocaleIndex, SettingsFacts, EventFacts, TranslationFacts, OptionFacts,
         PropertyFacts, OneCFacts, ProductFacts, AttributeFacts, ImageFacts, OldCatalog, NewCatalog, NewImages,
         LengthFacts, PurchaseFacts, MethodFacts, PaymentFacts, SyncFacts, ShipmentFacts, OldFieldFacts,
         NewFieldFacts, DeliveryFacts, TableNames
<1>4. s \in SUBSET AllFacts /\ Consistent(s) /\ s \subseteq Allowed(A, C)
  BY GoodIs
<1>5. \A f \in s : f[1] # "category_translations"
  <2> SUFFICES ASSUME NEW f \in s, f[1] = "category_translations" PROVE FALSE
    OBVIOUS
  <2>1. <<"category_translations">> \in Allowed(A, C)
    BY <1>4 DEF Consistent
  <2> QED  BY <1>1, <2>1 DEF Allowed, TranslationFacts
<1>6. X \subseteq TableNames
  BY DEF TableNames
<1> DEFINE d1 == DropOffers(s)
           d2 == DropProducts(s)
           d3 == DropProperties(s)
           d4 == DropIfExists(s, "onec_import_runs")
           d5 == DropIfExists(s, "categories")
<1>7. d1 \in Seq(Stmts) /\ Runs(d1, s, G, {w(X1)}, strict)
  <2>1. \A u \in TableNames :
          /\ <<u, "->", "offers">> \in s => u \in {} \cup {"offers"}
          /\ <<u, "->", "product_attributes">> \in s => u \in {} \cup {"offers", "product_attributes"}
          /\ <<u, "->", "attribute_options">> \in s => u \in {} \cup {"offers", "product_attributes", "attribute_options"}
    BY <1>3, <1>4
  <2>2. s = Without(s, {}) /\ {} \cup X1 = X1
    BY DEF Without
  <2>3. "offers" \in TableNames /\ "product_attributes" \in TableNames /\ "attribute_options" \in TableNames
    BY <1>6
  <2>4. \A f \in Owed(A, C) : f[1] \notin {"offers", "product_attributes", "attribute_options"}
    BY <1>2
  <2> DEFINE Y == {}
  <2>5. s = Without(s, Y) /\ {"offers", "product_attributes", "attribute_options"} \cap Y = {}
    BY <2>2
  <2> HIDE DEF Y
  <2>6. d1 \in Seq(Stmts) /\ Runs(d1, s, G, {Without(s, Y \cup {"offers", "product_attributes",
                                                                "attribute_options"})}, strict)
    BY <2>1, <2>3, <2>4, <2>5, ThreeDropRuns DEF DropOffers, Y
  <2> QED  BY <2>6 DEF Y
<1>8. /\ w(X1) \in G => d2 \in Seq(Stmts) /\ Runs(d2, w(X1), G, {w(X2)}, strict)
      /\ d2 \in Seq(Stmts)
  <2>1. \A u \in TableNames :
          /\ <<u, "->", "product_images">> \in s => u \in X1 \cup {"product_images"}
          /\ <<u, "->", "product_variants">> \in s => u \in X1 \cup {"product_images", "product_variants"}
          /\ <<u, "->", "products">> \in s => u \in X1 \cup {"product_images", "product_variants", "products"}
    BY <1>3, <1>4
  <2>2. "product_images" \in TableNames /\ "product_variants" \in TableNames /\ "products" \in TableNames
    BY <1>6
  <2>3. \A f \in Owed(A, C) : f[1] \notin {"product_images", "product_variants", "products"}
    BY <1>2
  <2>4. {"product_images", "product_variants", "products"} \cap X1 = {}
    OBVIOUS
  <2>5. d2 \in Seq(Stmts)
    <3>1. /\ DropIfExists(s, "product_images") \in Seq(Stmts) /\ DropIfExists(s, "product_variants") \in Seq(Stmts)
          /\ DropIfExists(s, "products") \in Seq(Stmts)
      BY <1>4, <2>2, DropIs
    <3> QED  BY <3>1, ConcatProperties DEF DropProducts
  <2> HIDE DEF X1
  <2> QED  BY <2>1, <2>2, <2>3, <2>4, <2>5, ThreeDropRuns DEF DropProducts
<1>9. /\ w(X2) \in G => d3 \in Seq(Stmts) /\ Runs(d3, w(X2), G, {w(X3)}, strict)
      /\ d3 \in Seq(Stmts)
  <2>1. \A u \in TableNames :
          /\ <<u, "->", "property_options">> \in s => u \in X2 \cup {"property_options"}
          /\ <<u, "->", "propery_options">> \in s => u \in X2 \cup {"property_options", "propery_options"}
          /\ <<u, "->", "properties">> \in s => u \in X2 \cup {"property_options", "propery_options", "properties"}
    BY <1>3, <1>4
  <2>2. "property_options" \in TableNames /\ "propery_options" \in TableNames /\ "properties" \in TableNames
    BY <1>6
  <2>3. \A f \in Owed(A, C) : f[1] \notin {"property_options", "propery_options", "properties"}
    BY <1>2
  <2>4. {"property_options", "propery_options", "properties"} \cap X2 = {}
    OBVIOUS
  <2>5. d3 \in Seq(Stmts)
    <3>1. /\ DropIfExists(s, "property_options") \in Seq(Stmts) /\ DropIfExists(s, "propery_options") \in Seq(Stmts)
          /\ DropIfExists(s, "properties") \in Seq(Stmts)
      BY <1>4, <2>2, DropIs
    <3> QED  BY <3>1, ConcatProperties DEF DropProperties
  <2> HIDE DEF X2
  <2> QED  BY <2>1, <2>2, <2>3, <2>4, <2>5, ThreeDropRuns DEF DropProperties
<1> DEFINE b3 == d1 \o d2 \o d3
           b5 == b3 \o d4 \o d5
<1>10. Runs(b3, s, G, {w(X3)}, strict)
  <2> HIDE DEF d1, d2, d3, X1, X2, X3, G
  <2>1. Runs(d1 \o d2, s, G, {w(X2)}, strict)
    BY <1>7, <1>8, RunsNext
  <2> DEFINE a == d1 \o d2
  <2> HIDE DEF a
  <2>2. Runs(a \o d3, s, G, {w(X3)}, strict)
    BY <1>9, <2>1, RunsNext DEF a
  <2> QED  BY <2>2 DEF a
<1>11. Runs(b5, s, G, {w(X)}, strict)
  <2>1. "onec_import_runs" \notin X3 /\ "categories" \notin X4
    OBVIOUS
  <2>2. \A u \in TableNames : <<u, "->", "onec_import_runs">> \in s => u \in X3 \cup {"onec_import_runs"}
    BY <1>3, <1>4
  <2>3. \A u \in TableNames : <<u, "->", "categories">> \in s => u \in X4 \cup {"categories"}
    <3> SUFFICES ASSUME NEW u \in TableNames, <<u, "->", "categories">> \in s PROVE u \in X3
      OBVIOUS
    <3>1. <<u, "->", "categories">>[1] = u
      OBVIOUS
    <3>2. u # "category_translations"
      BY <1>5, <3>1
    <3> QED  BY <1>3, <1>4, <3>2
  <2>4. /\ "onec_import_runs" \in TableNames /\ "categories" \in TableNames
        /\ \A f \in Owed(A, C) : f[1] # "onec_import_runs" /\ f[1] # "categories"
    BY <1>2, <1>6
  <2> HIDE DEF X3, b3
  <2>5. Runs(b3 \o d4, s, G, {w(X4)}, strict)
    BY <1>10, <2>1, <2>2, <2>4, NextDrop
  <2> DEFINE a == b3 \o d4
  <2> HIDE DEF X4, a
  <2>6. Runs(a \o d5, s, G, {w(X)}, strict)
    BY <2>1, <2>3, <2>4, <2>5, NextDrop DEF a
  <2> QED  BY <2>6 DEF a
<1> DEFINE F1 == {<<"categories">>, <<"products">>, <<"products", "->", "categories">>, <<"product_variants">>,
                 <<"product_variants", "->", "products">>}
           F2 == {<<"attributes">>, <<"attribute_options">>, <<"attribute_options", "->", "attributes">>,
                 <<"product_attributes">>, <<"product_attributes", "->", "attribute_options">>,
                 <<"product_attributes", "->", "product_variants">>, <<"product_images">>, <<"product_images",
                 "->", "products">>, <<"product_images", "ix_product_id">>, <<"offers">>, <<"offers", "->",
                 "product_variants">>, <<"offers", "ix_variant_id">>}
           F3 == {<<"purchase_submissions">>, <<"purchase_submissions", "->", "purchases">>}
           x == w(X)
           y1 == x \cup F1
           y2 == y1 \cup F2
           z == y2 \cup F3
<1>12. strict => \A f \in x : f[1] \notin X \cup {"attributes", "purchase_submissions"}
  <2> SUFFICES ASSUME strict, NEW f \in x PROVE f[1] \notin X /\ f[1] \notin {"attributes", "purchase_submissions"}
    OBVIOUS
  <2>1. f \in s /\ f[1] \notin X
    BY DEF Without
  <2>2. s \subseteq Allowed(A, C \ {"59ca8b5b7134"})
    BY GoodIs
  <2>3. <<f[1]>> \in Allowed(A, C \ {"59ca8b5b7134"})
    BY <1>4, <2>1, <2>2 DEF Consistent
  <2>4. <<"attributes">> \in NewCatalog \ OldCatalog /\ <<"purchase_submissions">> \in NewCatalog \ OldCatalog
    BY DEF NewCatalog, OldCatalog, TranslationFacts, OneCFacts, PropertyFacts, ProductFacts, AttributeFacts,
           ImageFacts, OptionFacts
  <2>5. <<"attributes">> \notin Allowed(A, C \ {"59ca8b5b7134"}) /\ <<"purchase_submissions">> \notin Allowed(A, C \ {"59ca8b5b7134"})
    BY <2>4 DEF Allowed
  <2> QED  BY <2>1, <2>3, <2>5
<1>13. <<"purchases">> \in x
  <2>1. <<"purchases">> \in AllFacts /\ <<"purchases">> \in PurchaseFacts /\ <<"purchases">>[1] \notin X
    BY DEF AllFacts, PurchaseFacts
  <2>2. <<"purchases">> \in s
    BY <1>1, <2>1, GoodIs DEF Owed
  <2> QED  BY <2>1, <2>2 DEF Without
<1>14. x \in G => NewProducts \in Seq(Stmts) /\ Runs(NewProducts, x, G, {y1}, strict)
  <2>1. strict => \A f \in x : f[1] \notin {"categories", "products", "product_variants"}
    BY <1>12
  <2> HIDE DEF x
  <2> QED  BY <1>1, <2>1, NewProductsRun
<1>15. y1 \in G => NewAttributes \in Seq(Stmts) /\ Runs(NewAttributes, y1, G, {y2}, strict)
  <2>1. strict => /\ \A f \in y1 : f[1] \notin {"attributes", "attribute_options", "product_attributes",
                                                "product_images", "offers"}
                  /\ \A u \in {"products", "product_variants"} : <<u>> \in y1
    <3>1. \A f \in F1 : f[1] \in {"categories", "products", "product_variants"}
      OBVIOUS
    <3>2. <<"products">> \in F1 /\ <<"product_variants">> \in F1
      OBVIOUS
    <3> HIDE DEF x, F1
    <3> QED  BY <1>12, <3>1, <3>2
  <2> HIDE DEF y1
  <2> QED  BY <1>1, <2>1, NewAttributesRun
<1>16. y2 \in G => NewSubmissions \in Seq(Stmts) /\ Runs(NewSubmissions, y2, G, {z}, strict)
  <2>1. strict => /\ \A f \in y2 : f[1] \notin {"purchase_submissions"}
                  /\ \A u \in {"purchases"} : <<u>> \in y2
    <3>1. \A f \in F1 : f[1] # "purchase_submissions"
      OBVIOUS
    <3>2. \A f \in F2 : f[1] # "purchase_submissions"
      OBVIOUS
    <3> HIDE DEF x, F1, F2
    <3> QED  BY <1>12, <1>13, <3>1, <3>2
  <2> HIDE DEF y2
  <2> QED  BY <1>1, <2>1, NewSubmissionsRun
<1>17. NewProducts \in Seq(Stmts) /\ NewAttributes \in Seq(Stmts) /\ NewSubmissions \in Seq(Stmts)
  BY NewIs
<1>18. Runs(b5 \o NewProducts \o NewAttributes \o NewSubmissions, s, G, {z}, strict)
  <2> HIDE DEF x, y1, y2, z, G, b5
  <2>1. Runs(b5 \o NewProducts, s, G, {y1}, strict)
    BY <1>11, <1>14, <1>17, RunsNext DEF x
  <2> DEFINE a == b5 \o NewProducts
  <2> HIDE DEF a
  <2>2. Runs(a \o NewAttributes, s, G, {y2}, strict)
    BY <1>15, <1>17, <2>1, RunsNext DEF a
  <2> DEFINE c == a \o NewAttributes
  <2> HIDE DEF c
  <2>3. Runs(c \o NewSubmissions, s, G, {z}, strict)
    BY <1>16, <1>17, <2>2, RunsNext DEF c
  <2> QED  BY <2>3 DEF c, a
<1>19. NewCatalog \subseteq z /\ \A f \in z : f \in x \/ f \in NewCatalog \cup NewImages
  <2>1. NewCatalog \subseteq F1 \cup F2 \cup F3
    BY DEF NewCatalog
  <2>2. F1 \subseteq NewCatalog \cup NewImages /\ F2 \subseteq NewCatalog \cup NewImages /\ F3 \subseteq NewCatalog \cup NewImages
    BY DEF NewCatalog, NewImages
  <2> HIDE DEF F1, F2, F3, x
  <2> QED  BY <2>1, <2>2
<1>20. z \in G => z \in Good(D, C)
  <2> SUFFICES ASSUME z \in G PROVE z \in Good(D, C)
    OBVIOUS
  <2> DEFINE N == NewCatalog
             Gone == OldCatalog \ (NewCatalog \cup NewImages)
  <2>1. Owed(D, C) \subseteq Owed(A, C) \cup N
    BY DEF Owed
  <2>2. N \subseteq z
    BY <1>19
  <2>3. \A f \in Allowed(A, C) : f \notin Gone => f \in Allowed(D, C)
    BY DEF Allowed
  <2>4. z \cap Gone = {}
    <3>1. \A f \in OldCatalog : f[1] \in X \cup {"category_translations"}
      BY DEF OldCatalog, TranslationFacts, OneCFacts, PropertyFacts, ProductFacts, AttributeFacts, ImageFacts, OptionFacts
    <3>2. \A f \in x : f[1] \notin X /\ f[1] # "category_translations"
      BY <1>5 DEF Without
    <3>3. x \cap OldCatalog = {}
      BY <3>1, <3>2
    <3> HIDE DEF x, z
    <3> QED  BY <1>19, <3>3
  <2> HIDE DEF N, Gone, z
  <2> QED  BY <2>1, <2>2, <2>3, <2>4, GoodIs, Finish
<1> HIDE DEF z, G, D
<1>21. {z} \cap G \subseteq Good(D, C)
  BY <1>20
<1>22. ReplaceCatalog(s) = b5 \o NewProducts \o NewAttributes \o NewSubmissions
  BY DEF ReplaceCatalog
<1>23. Runs(ReplaceCatalog(s), s, G, Good(D, C), strict)
  BY <1>18, <1>21, <1>22, RunsWeaken
<1> QED  BY <1>23 DEF G, D

(* A fact is a table, a part of one, or a reference; only a table has the  *)
(* old name of the options.                                                *)
LEMMA FactShape ==
  ASSUME NEW f \in AllFacts
  PROVE  /\ \/ f = <<f[1]>>
            \/ f = <<f[1], f[2]>> /\ f[2] # "propery_options"
            \/ f = <<f[1], "->", f[3]>>
  BY DEF AllFacts, LocaleFacts, LocaleIndex, SettingsFacts, EventFacts, TranslationFacts, OptionFacts,
         PropertyFacts, OneCFacts, ProductFacts, AttributeFacts, ImageFacts, OldCatalog, NewCatalog, NewImages,
         LengthFacts, PurchaseFacts, MethodFacts, PaymentFacts, SyncFacts, ShipmentFacts, OldFieldFacts,
         NewFieldFacts, DeliveryFacts, TableNames

(* What mentions the old name of the options.                              *)
LEMMA OldOptions ==
  ASSUME NEW f \in AllFacts, "propery_options" \in {f[i] : i \in DOMAIN f}
  PROVE  f \in OptionFacts("propery_options")
<1>1. \/ f = <<f[1]>>
      \/ f = <<f[1], f[2]>> /\ f[2] # "propery_options"
      \/ f = <<f[1], "->", f[3]>>
  BY FactShape
<1>2. f[1] = "propery_options" \/ (f = <<f[1], "->", f[3]>> /\ f[3] = "propery_options")
  <2>1. CASE f = <<f[1]>>
    <3>1. DOMAIN f = 1 .. 1
      BY <2>1
    <3> QED  BY <3>1
  <2>2. CASE f = <<f[1], f[2]>> /\ f[2] # "propery_options"
    <3>1. DOMAIN f = 1 .. 2
      BY <2>2
    <3> QED  BY <2>2, <3>1
  <2>3. CASE f = <<f[1], "->", f[3]>>
    <3>1. DOMAIN f = 1 .. 3 /\ f[2] = "->"
      BY <2>3
    <3> QED  BY <2>3, <3>1
  <2> QED  BY <1>1, <2>1, <2>2, <2>3
<1> QED
  BY <1>2 DEF AllFacts, LocaleFacts, LocaleIndex, SettingsFacts, EventFacts, TranslationFacts, OptionFacts,
         PropertyFacts, OneCFacts, ProductFacts, AttributeFacts, ImageFacts, OldCatalog, NewCatalog, NewImages,
         LengthFacts, PurchaseFacts, MethodFacts, PaymentFacts, SyncFacts, ShipmentFacts, OldFieldFacts,
         NewFieldFacts, DeliveryFacts, TableNames

(* A fact after the options' table has got its new name.                   *)
Renamed(f) == [i \in DOMAIN f |-> IF f[i] = "propery_options" THEN "property_options" ELSE f[i]]

(* What the facts about the options become when their table is renamed.    *)
LEMMA RenamedIs ==
  /\ Renamed(<<"propery_options">>) = <<"property_options">>
  /\ Renamed(<<"propery_options", "ix_eid">>) = <<"property_options", "ix_eid">>
  /\ Renamed(<<"propery_options", "ix_property_id">>) = <<"property_options", "ix_property_id">>
  /\ Renamed(<<"propery_options", "->", "properties">>) = <<"property_options", "->", "properties">>
  /\ Renamed(<<"product_attributes", "->", "propery_options">>) = <<"product_attributes", "->", "property_options">>
<1>1. Renamed(<<"propery_options">>) = <<"property_options">>
  <2> DEFINE f == <<"propery_options">>
             g == <<"property_options">>
  <2>1. DOMAIN f = 1 .. 1 /\ f[1] = "propery_options"
    OBVIOUS
  <2>2. "property_options" # "propery_options"
    OBVIOUS
  <2> HIDE DEF f
  <2>3. Renamed(f) = [i \in 1 .. 1 |-> IF f[i] = "propery_options" THEN "property_options" ELSE f[i]]
    BY <2>1 DEF Renamed
  <2>4. \A i \in 1 .. 1 : i \in {1}
    OBVIOUS
  <2>5. DOMAIN g = 1 .. 1 /\ g[1] = "property_options"
    OBVIOUS
  <2>6. \A i \in 1 .. 1 : Renamed(f)[i] = g[i]
    BY <2>1, <2>3, <2>4, <2>5
  <2>7. g = [i \in 1 .. 1 |-> g[i]]
    OBVIOUS
  <2> HIDE DEF g
  <2>8. Renamed(f) = [i \in 1 .. 1 |-> g[i]]
    BY <2>3, <2>6
  <2> QED  BY <2>7, <2>8 DEF f, g
<1>2. Renamed(<<"propery_options", "ix_eid">>) = <<"property_options", "ix_eid">>
  <2> DEFINE f == <<"propery_options", "ix_eid">>
             g == <<"property_options", "ix_eid">>
  <2>1. DOMAIN f = 1 .. 2 /\ f[1] = "propery_options" /\ f[2] = "ix_eid"
    OBVIOUS
  <2>2. "property_options" # "propery_options" /\ "ix_eid" # "propery_options"
    OBVIOUS
  <2> HIDE DEF f
  <2>3. Renamed(f) = [i \in 1 .. 2 |-> IF f[i] = "propery_options" THEN "property_options" ELSE f[i]]
    BY <2>1 DEF Renamed
  <2>4. \A i \in 1 .. 2 : i \in {1, 2}
    OBVIOUS
  <2>5. DOMAIN g = 1 .. 2 /\ g[1] = "property_options" /\ g[2] = "ix_eid"
    OBVIOUS
  <2>6. \A i \in 1 .. 2 : Renamed(f)[i] = g[i]
    BY <2>1, <2>3, <2>4, <2>5
  <2>7. g = [i \in 1 .. 2 |-> g[i]]
    OBVIOUS
  <2> HIDE DEF g
  <2>8. Renamed(f) = [i \in 1 .. 2 |-> g[i]]
    BY <2>3, <2>6
  <2> QED  BY <2>7, <2>8 DEF f, g
<1>3. Renamed(<<"propery_options", "ix_property_id">>) = <<"property_options", "ix_property_id">>
  <2> DEFINE f == <<"propery_options", "ix_property_id">>
             g == <<"property_options", "ix_property_id">>
  <2>1. DOMAIN f = 1 .. 2 /\ f[1] = "propery_options" /\ f[2] = "ix_property_id"
    OBVIOUS
  <2>2. "property_options" # "propery_options" /\ "ix_property_id" # "propery_options"
    OBVIOUS
  <2> HIDE DEF f
  <2>3. Renamed(f) = [i \in 1 .. 2 |-> IF f[i] = "propery_options" THEN "property_options" ELSE f[i]]
    BY <2>1 DEF Renamed
  <2>4. \A i \in 1 .. 2 : i \in {1, 2}
    OBVIOUS
  <2>5. DOMAIN g = 1 .. 2 /\ g[1] = "property_options" /\ g[2] = "ix_property_id"
    OBVIOUS
  <2>6. \A i \in 1 .. 2 : Renamed(f)[i] = g[i]
    BY <2>1, <2>3, <2>4, <2>5
  <2>7. g = [i \in 1 .. 2 |-> g[i]]
    OBVIOUS
  <2> HIDE DEF g
  <2>8. Renamed(f) = [i \in 1 .. 2 |-> g[i]]
    BY <2>3, <2>6
  <2> QED  BY <2>7, <2>8 DEF f, g
<1>4. Renamed(<<"propery_options", "->", "properties">>) = <<"property_options", "->", "properties">>
  <2> DEFINE f == <<"propery_options", "->", "properties">>
             g == <<"property_options", "->", "properties">>
  <2>1. DOMAIN f = 1 .. 3 /\ f[1] = "propery_options" /\ f[2] = "->" /\ f[3] = "properties"
    OBVIOUS
  <2>2. "property_options" # "propery_options" /\ "properties" # "propery_options"
    OBVIOUS
  <2> HIDE DEF f
  <2>3. Renamed(f) = [i \in 1 .. 3 |-> IF f[i] = "propery_options" THEN "property_options" ELSE f[i]]
    BY <2>1 DEF Renamed
  <2>4. \A i \in 1 .. 3 : i \in {1, 2, 3}
    OBVIOUS
  <2>5. DOMAIN g = 1 .. 3 /\ g[1] = "property_options" /\ g[2] = "->" /\ g[3] = "properties"
    OBVIOUS
  <2>6. \A i \in 1 .. 3 : Renamed(f)[i] = g[i]
    BY <2>1, <2>3, <2>4, <2>5
  <2>7. g = [i \in 1 .. 3 |-> g[i]]
    OBVIOUS
  <2> HIDE DEF g
  <2>8. Renamed(f) = [i \in 1 .. 3 |-> g[i]]
    BY <2>3, <2>6
  <2> QED  BY <2>7, <2>8 DEF f, g
<1>5. Renamed(<<"product_attributes", "->", "propery_options">>) = <<"product_attributes", "->", "property_options">>
  <2> DEFINE f == <<"product_attributes", "->", "propery_options">>
             g == <<"product_attributes", "->", "property_options">>
  <2>1. DOMAIN f = 1 .. 3 /\ f[1] = "product_attributes" /\ f[2] = "->" /\ f[3] = "propery_options"
    OBVIOUS
  <2>2. "product_attributes" # "propery_options" /\ "property_options" # "propery_options"
    OBVIOUS
  <2> HIDE DEF f
  <2>3. Renamed(f) = [i \in 1 .. 3 |-> IF f[i] = "propery_options" THEN "property_options" ELSE f[i]]
    BY <2>1 DEF Renamed
  <2>4. \A i \in 1 .. 3 : i \in {1, 2, 3}
    OBVIOUS
  <2>5. DOMAIN g = 1 .. 3 /\ g[1] = "product_attributes" /\ g[2] = "->" /\ g[3] = "property_options"
    OBVIOUS
  <2>6. \A i \in 1 .. 3 : Renamed(f)[i] = g[i]
    BY <2>1, <2>3, <2>4, <2>5
  <2>7. g = [i \in 1 .. 3 |-> g[i]]
    OBVIOUS
  <2> HIDE DEF g
  <2>8. Renamed(f) = [i \in 1 .. 3 |-> g[i]]
    BY <2>3, <2>6
  <2> QED  BY <2>7, <2>8 DEF f, g
<1> QED  BY <1>1, <1>2, <1>3, <1>4, <1>5

(* RENAME TABLE runs when the new name is free, and what mentioned the old *)
(* name mentions the new one.                                              *)
LEMMA RenameRuns ==
  ASSUME NEW A, NEW B, "e4b7c1d2a9f0" \in B, "59ca8b5b7134" \notin A, NEW s \in Good(A, B), NEW strict,
         <<"propery_options">> \in s, <<"property_options">> \notin s
  PROVE  \E y : /\ Rename(s, "propery_options", "property_options") \in Seq(Stmts)
               /\ Runs(Rename(s, "propery_options", "property_options"), s, Good(A, B), {y}, strict)
               /\ <<"property_options">> \in y
               /\ \A part \in {"name", "icon"} : <<"property_options", part>> \notin y
<1> DEFINE G == Good(A, B)
           Old == OptionFacts("propery_options")
           New == OptionFacts("property_options")
           own == {f \in s : "propery_options" \in {f[i] : i \in DOMAIN f}}
           a == {Renamed(f) : f \in own}
           n == {<<"propery_options">>}
           b == {<<"property_options">>}
           y == (s \ own) \cup a
<1>1. s \in SUBSET AllFacts /\ Consistent(s)
  BY GoodIs
<1>2. own \subseteq Old
  BY <1>1, OldOptions
<1>3. {<<"propery_options">>, <<"propery_options", "->", "properties">>,
       <<"product_attributes", "->", "propery_options">>} \cap s \subseteq own
  <2>1. ASSUME NEW f, f \in {<<"propery_options">>, <<"propery_options", "->", "properties">>}, f \in s PROVE f \in own
    <3>1. 1 \in DOMAIN f /\ f[1] = "propery_options"
      BY <2>1
    <3> QED  BY <2>1, <3>1
  <2>2. ASSUME NEW f, f = <<"product_attributes", "->", "propery_options">>, f \in s PROVE f \in own
    <3>1. 3 \in DOMAIN f /\ f[3] = "propery_options"
      BY <2>2
    <3> QED  BY <2>2, <3>1
  <2> HIDE DEF own
  <2> QED  BY <2>1, <2>2
<1>4. \A f \in s \ own : f[1] # "propery_options"
  <2> SUFFICES ASSUME NEW f \in s, f[1] = "propery_options" PROVE f \in own
    OBVIOUS
  <2>1. 1 \in DOMAIN f
    <3>1. CASE f = <<f[1]>>
      <4>1. DOMAIN f = 1 .. 1
        BY <3>1
      <4> QED  BY <4>1
    <3>2. CASE f = <<f[1], f[2]>>
      <4>1. DOMAIN f = 1 .. 2
        BY <3>2
      <4> QED  BY <4>1
    <3>3. CASE f = <<f[1], "->", f[3]>>
      <4>1. DOMAIN f = 1 .. 3
        BY <3>3
      <4> QED  BY <4>1
    <3> QED  BY <1>1, <3>1, <3>2, <3>3, FactShape
  <2> QED  BY <2>1
<1>5. /\ a \subseteq New /\ <<"property_options">> \in a
      /\ <<"property_options", "->", "properties">> \in a => <<"propery_options", "->", "properties">> \in s
      /\ <<"product_attributes", "->", "property_options">> \in a => <<"product_attributes", "->", "propery_options">> \in s
  <2> DEFINE p1 == <<"property_options", "->", "properties">>
             p2 == <<"product_attributes", "->", "property_options">>
             q1 == <<"propery_options", "->", "properties">>
             q2 == <<"product_attributes", "->", "propery_options">>
  <2>1. \A f \in Old : Renamed(f) \in New /\ (Renamed(f) = p1 => f = q1) /\ (Renamed(f) = p2 => f = q2)
    BY RenamedIs DEF OptionFacts
  <2>2. <<"propery_options">> \in own
    BY <1>3
  <2>3. <<"property_options">> \in a
    BY <2>2, RenamedIs
  <2>4. \A f \in own : f \in s
    OBVIOUS
  <2> HIDE DEF own, Old, New, p1, p2, q1, q2
  <2>5. \A m \in a : \E f \in own : m = Renamed(f)
    OBVIOUS
  <2> HIDE DEF a
  <2>6. a \subseteq New
    BY <1>2, <2>1, <2>5
  <2>7. p1 \in a => q1 \in s
    BY <1>2, <2>1, <2>4, <2>5
  <2>8. p2 \in a => q2 \in s
    BY <1>2, <2>1, <2>4, <2>5
  <2> QED  BY <2>3, <2>6, <2>7, <2>8 DEF p1, p2, q1, q2
<1>6. New \subseteq OldCatalog \ TranslationFacts /\ Old \subseteq OldCatalog \ TranslationFacts
  BY DEF OldCatalog, OptionFacts, TranslationFacts
<1>7. New \subseteq Allowed(A, B) /\ Old \subseteq Allowed(A, B)
  BY <1>6, OldAllowed
<1>8. Owed(A, B) \cap Old = {}
  BY DEF Owed, OptionFacts, OneCTables, AllFacts, LocaleFacts, LocaleIndex, SettingsFacts, EventFacts,
         TranslationFacts, OptionFacts,
         PropertyFacts, OneCFacts, ProductFacts, AttributeFacts, ImageFacts, OldCatalog, NewCatalog, NewImages,
         LengthFacts, PurchaseFacts, MethodFacts, PaymentFacts, SyncFacts, ShipmentFacts, OldFieldFacts,
         NewFieldFacts, DeliveryFacts, TableNames
<1>9. n \in SUBSET Facts /\ b \in SUBSET Facts /\ a \in SUBSET Facts /\ own \in SUBSET Facts
  <2>1. n \subseteq Old /\ b \subseteq New
    BY DEF OptionFacts
  <2> HIDE DEF Old, New, a, own, n, b
  <2> QED  BY <1>2, <1>5, <1>7, <2>1 DEF Facts, Allowed
<1>10. Consistent(y)
  <2>1. y \in SUBSET AllFacts
    <3> HIDE DEF a, Old, New, own
    <3> QED  BY <1>1, <1>5, <1>7 DEF Allowed
  <2>2. \A f \in New : f[1] = "property_options" \/ f = <<"product_attributes", "->", "property_options">>
    BY DEF OptionFacts
  <2>3. <<"product_attributes", "->", "property_options">> \in a => <<"product_attributes">> \in s \ own
    <3>1. <<"product_attributes">> \notin Old
      BY DEF OptionFacts
    <3>2. <<"product_attributes", "->", "propery_options">>[1] = "product_attributes"
      OBVIOUS
    <3> HIDE DEF a, own, Old
    <3> QED  BY <1>1, <1>2, <1>5, <3>1, <3>2 DEF Consistent
  <2>4. <<"property_options", "->", "properties">> \in a => <<"properties">> \in s \ own
    <3>1. <<"properties">> \notin Old
      BY DEF OptionFacts
    <3>2. "propery_options" \in TableNames /\ "properties" \in TableNames
      BY DEF TableNames
    <3> HIDE DEF a, own, Old
    <3> QED  BY <1>1, <1>2, <1>5, <3>1, <3>2 DEF Consistent
  <2>5. \A f \in a : <<f[1]>> \in y
    <3>1. <<"product_attributes", "->", "property_options">>[1] = "product_attributes"
      OBVIOUS
    <3> HIDE DEF a, own, New
    <3> QED  BY <1>5, <2>2, <2>3, <3>1
  <2>6. \A f \in s : f[1] # "propery_options" => <<f[1]>> \in s \ own
    <3> SUFFICES ASSUME NEW f \in s, f[1] # "propery_options" PROVE <<f[1]>> \in s \ own
      OBVIOUS
    <3>1. <<f[1]>> \in s
      BY <1>1 DEF Consistent
    <3>2. <<f[1]>> \notin Old
      BY DEF OptionFacts
    <3> HIDE DEF own, Old
    <3> QED  BY <1>2, <3>1, <3>2
  <2>7. \A t, u \in TableNames : <<t, "->", u>> \in a => <<u>> \in y
    <3> SUFFICES ASSUME NEW t \in TableNames, NEW u \in TableNames, <<t, "->", u>> \in a PROVE <<u>> \in y
      OBVIOUS
    <3>1. <<t, "->", u>> = <<"property_options", "->", "properties">> \/ <<t, "->", u>> = <<"product_attributes", "->", "property_options">>
      <4>1. <<t, "->", u>> \in New
        BY <1>5
      <4>2. <<t, "->", u>> # <<"property_options">> /\ <<t, "->", u>> # <<"property_options", "ix_eid">> /\ <<t, "->", u>> # <<"property_options", "ix_property_id">>
        OBVIOUS
      <4> QED  BY <4>1, <4>2 DEF OptionFacts
    <3>2. (u = "properties" /\ <<"property_options", "->", "properties">> \in a) \/ u = "property_options"
      BY <3>1
    <3> HIDE DEF a, own
    <3> QED  BY <1>5, <2>4, <3>2
  <2>8. \A t, u \in TableNames : <<t, "->", u>> \in s \ own => <<u>> \in s \ own
    <3> SUFFICES ASSUME NEW t \in TableNames, NEW u \in TableNames, <<t, "->", u>> \in s \ own PROVE <<u>> \in s \ own
      OBVIOUS
    <3>1. u # "propery_options"
      <4>1. 3 \in DOMAIN <<t, "->", u>> /\ <<t, "->", u>>[3] = u
        OBVIOUS
      <4>2. u \in {<<t, "->", u>>[i] : i \in DOMAIN <<t, "->", u>>}
        BY <4>1
      <4> QED  BY <4>2
    <3>2. <<u>> \in s
      BY <1>1 DEF Consistent
    <3>3. <<u>>[1] = u
      OBVIOUS
    <3> HIDE DEF own
    <3> QED  BY <2>6, <3>1, <3>2, <3>3
  <2> HIDE DEF a, own
  <2> QED  BY <1>4, <2>5, <2>6, <2>7, <2>8 DEF Consistent
<1>11. Rename(s, "propery_options", "property_options") = <<Ddl(n, b, a, own)>>
  BY DEF Rename, Renamed
<1>12. n \subseteq s /\ b \cap s = {} /\ a \subseteq Allowed(A, B) /\ own \cap Owed(A, B) = {}
  <2>1. n \subseteq s /\ b \cap s = {}
    OBVIOUS
  <2> HIDE DEF n, b, a, own, Old, New
  <2> QED  BY <1>2, <1>5, <1>7, <1>8, <2>1
<1>13. \A part \in {"name", "icon"} : <<"property_options", part>> \notin y
  <2> SUFFICES ASSUME NEW part \in {"name", "icon"} PROVE <<"property_options", part>> \notin y
    OBVIOUS
  <2>1. <<"property_options", part>>[1] = "property_options"
    OBVIOUS
  <2>2. <<"property_options", part>> \notin s
    BY <1>1, <2>1 DEF Consistent
  <2>3. <<"property_options", part>> \notin New
    BY DEF OptionFacts
  <2> HIDE DEF a, own, New
  <2> QED  BY <1>5, <2>2, <2>3
<1>14. <<"property_options">> \in y
  BY <1>5
<1> HIDE DEF n, b, a, own, y
<1>15. <<Ddl(n, b, a, own)>> \in Seq(Stmts) /\ Runs(<<Ddl(n, b, a, own)>>, s, G, {y}, strict)
  BY <1>9, <1>10, <1>12, DdlRuns DEF y
<1> QED  BY <1>11, <1>13, <1>14, <1>15

(* The options are renamed if they have the old name only, and lose two    *)
(* columns; it can run again from any point.                               *)
LEMMA RenamePropertyOptionsRuns ==
  ASSUME NEW A, NEW C, Order(A, C), "6a3d8f1c2b7e" \in C, "6a3d8f1c2b7e" \notin A, NEW s \in Good(A, C), NEW strict
  PROVE  Runs(RenamePropertyOptions(s), s, Good(A, C), Good(A \cup {"6a3d8f1c2b7e"}, C), strict)
<1> DEFINE G == Good(A, C)
           D == A \cup {"6a3d8f1c2b7e"}
           renames == <<"propery_options">> \in s /\ <<"property_options">> \notin s
           rename == Rename(s, "propery_options", "property_options")
           table == IF renames THEN "propery_options" ELSE "property_options"
           f == <<"property_options", "name">>
           g == <<"property_options", "icon">>
           c1 == <<table, "name">> \notin s
           c2 == <<table, "icon">> \notin s
           a1 == Add("property_options", "name")
           a2 == Add("property_options", "icon")
<1>1. "e4b7c1d2a9f0" \in C /\ "59ca8b5b7134" \notin A
  BY OrderIs
<1>2. s \in SUBSET AllFacts /\ Consistent(s)
  BY GoodIs
<1>3. {f, g} \subseteq Allowed(A, C) /\ "property_options" \in TableNames
  <2>1. {f, g} \subseteq OldCatalog \ TranslationFacts
    BY DEF OldCatalog, TranslationFacts
  <2> QED  BY <1>1, <2>1, OldAllowed DEF TableNames
<1>4. a1 \in Seq(Stmts) /\ a2 \in Seq(Stmts)
  BY <1>3, AddIs DEF Allowed
<1>5. <<"propery_options", "name">> \notin s /\ <<"propery_options", "icon">> \notin s
  BY <1>2 DEF AllFacts, LocaleFacts, LocaleIndex, SettingsFacts, EventFacts, TranslationFacts, OptionFacts,
         PropertyFacts, OneCFacts, ProductFacts, AttributeFacts, ImageFacts, OldCatalog, NewCatalog, NewImages,
         LengthFacts, PurchaseFacts, MethodFacts, PaymentFacts, SyncFacts, ShipmentFacts, OldFieldFacts,
         NewFieldFacts, DeliveryFacts, TableNames
<1>6. \E y : /\ Runs(When(renames, rename), s, G, {y}, strict)
             /\ renames \/ <<"property_options">> \in s => <<"property_options">> \in y
             /\ c1 => f \notin y
             /\ c2 => g \notin y
  <2>1. CASE renames
    <3>1. PICK y : /\ rename \in Seq(Stmts)
                   /\ Runs(rename, s, G, {y}, strict)
                   /\ <<"property_options">> \in y
                   /\ \A part \in {"name", "icon"} : <<"property_options", part>> \notin y
      BY <1>1, <2>1, RenameRuns
    <3>2. f \notin y /\ g \notin y
      BY <3>1
    <3> HIDE DEF G, rename, f, g, c1, c2
    <3> QED  BY <2>1, <3>1, <3>2 DEF When
  <2>2. CASE ~renames
    <3>1. When(renames, rename) = <<>>
      BY <2>2 DEF When
    <3> HIDE DEF rename, G
    <3>2. Runs(<<>>, s, G, {s}, strict)
      BY RunsNone DEF G
    <3> QED  BY <2>2, <3>1, <3>2
  <2> QED  BY <2>1, <2>2
<1>7. PICK y : /\ Runs(When(renames, rename), s, G, {y}, strict)
               /\ renames \/ <<"property_options">> \in s => <<"property_options">> \in y
               /\ c1 => f \notin y
               /\ c2 => g \notin y
  BY <1>6
<1> DEFINE x == IF c1 THEN y \cup {f} ELSE y
           z == IF c2 THEN x \cup {g} ELSE x
           exists == renames \/ <<"property_options">> \in s
           w1 == When(renames, rename)
           adds == When(c1, a1) \o When(c2, a2)
<1>8. RenamePropertyOptions(s) = w1 \o When(exists, adds)
  BY DEF RenamePropertyOptions
<1>9. When(c1, a1) \in Seq(Stmts) /\ When(c2, a2) \in Seq(Stmts) /\ adds \in Seq(Stmts)
  <2>1. When(c1, a1) \in Seq(Stmts) /\ When(c2, a2) \in Seq(Stmts)
    <3> HIDE DEF a1, a2, c1, c2
    <3> QED  BY <1>4 DEF When
  <2> QED  BY <2>1, ConcatProperties
<1>10. exists /\ y \in G => Runs(adds, y, G, {z}, strict)
  <2> SUFFICES ASSUME exists, y \in G PROVE Runs(adds, y, G, {z}, strict)
    OBVIOUS
  <2>1. <<"property_options">> \in y /\ <<"property_options">> \in x /\ (c2 => g \notin x)
    BY <1>7
  <2>2. c1 => Runs(a1, y, G, {y \cup {f}}, strict)
    BY <1>3, <1>7, <2>1, AddRuns
  <2>3. x \in G /\ c2 => Runs(a2, x, G, {x \cup {g}}, strict)
    <3> HIDE DEF x
    <3> QED  BY <1>3, <2>1, AddRuns
  <2>4. c1 \in BOOLEAN /\ c2 \in BOOLEAN
    OBVIOUS
  <2> DEFINE y1 == y \cup {f}
             x1 == x \cup {g}
             b == When(c1, a1)
  <2> HIDE DEF c1, c2, a1, a2, G, y1, x1
  <2>5. Runs(b, y, G, {x}, strict)
    BY <1>4, <2>2, <2>4, RunsWhen DEF y1
  <2> HIDE DEF x, b
  <2>6. Runs(b \o When(c2, a2), y, G, {z}, strict)
    BY <1>4, <2>3, <2>4, <2>5, NextWhen DEF x1
  <2> QED  BY <2>6 DEF b
<1>11. Runs(RenamePropertyOptions(s), s, G, {IF exists THEN z ELSE y}, strict)
  <2>1. exists \in BOOLEAN
    OBVIOUS
  <2> HIDE DEF exists, adds, z, G, w1
  <2>2. Runs(w1, s, G, {y}, strict)
    BY <1>7 DEF w1, G
  <2>3. Runs(w1 \o When(exists, adds), s, G, {IF exists THEN z ELSE y}, strict)
    BY <1>9, <1>10, <2>1, <2>2, NextWhen
  <2> QED  BY <1>8, <2>3 DEF w1, exists, adds
<1>12. \A v \in G : v \in Good(D, C)
  <2> SUFFICES ASSUME NEW v \in G PROVE v \in Good(D, C)
    OBVIOUS
  <2>1. Owed(D, C) \subseteq Owed(A, C) \cup {} /\ {} \subseteq v
    BY DEF Owed
  <2>2. \A u \in Allowed(A, C) : u \in Allowed(D, C)
    BY DEF Allowed
  <2> QED  BY <2>1, <2>2, GoodIs, Finish
<1> DEFINE last == IF exists THEN z ELSE y
<1>13. {last} \cap G \subseteq Good(D, C)
  BY <1>12
<1> HIDE DEF last, G, D
<1>14. Runs(RenamePropertyOptions(s), s, G, Good(D, C), strict)
  BY <1>11, <1>13, RunsWeaken DEF last
<1> QED  BY <1>14 DEF G, D

(* The columns of the shipments that come and go.                          *)
FieldNames ==
  {"environment", "request_payload", "response_payload", "operations", "details", "request_hash", "registration",
   "editing", "cancellation", "pickup", "waybill", "barcode"}

(* Those of the new columns that become NOT NULL.                          *)
RequiredFacts == {<<"delivery_shipments", RequiredFields[i]>> : i \in 1 .. Len(RequiredFields)}

(* The columns of the shipments before and after, and those that become    *)
(* required.                                                               *)
LEMMA FieldsAre ==
  /\ OldFields \in Seq(FieldNames) /\ Len(OldFields) = 4
  /\ \A i, j \in 1 .. Len(OldFields) : i # j => OldFields[i] # OldFields[j]
  /\ OldFieldFacts = {<<"delivery_shipments", OldFields[i]>> : i \in 1 .. Len(OldFields)}
  /\ NewFields \in Seq(FieldNames) /\ Len(NewFields) = 8
  /\ \A i, j \in 1 .. Len(NewFields) : i # j => NewFields[i] # NewFields[j]
  /\ NewFieldFacts = {<<"delivery_shipments", NewFields[i]>> : i \in 1 .. Len(NewFields)}
  /\ RequiredFields \in Seq(FieldNames) /\ Len(RequiredFields) = 7
  /\ RequiredFacts \subseteq NewFieldFacts
<1>1. /\ Len(OldFields) = 4 /\ OldFields[1] = "environment" /\ OldFields[2] = "request_payload"
      /\ OldFields[3] = "response_payload" /\ OldFields[4] = "operations"
  BY DEF OldFields
<1>2. /\ Len(NewFields) = 8 /\ NewFields[1] = "details" /\ NewFields[2] = "request_hash"
      /\ NewFields[3] = "registration" /\ NewFields[4] = "editing" /\ NewFields[5] = "cancellation"
      /\ NewFields[6] = "pickup" /\ NewFields[7] = "waybill" /\ NewFields[8] = "barcode"
  BY DEF NewFields
<1>3. /\ Len(RequiredFields) = 7 /\ RequiredFields[1] = "details" /\ RequiredFields[2] = "registration"
      /\ RequiredFields[3] = "editing" /\ RequiredFields[4] = "cancellation" /\ RequiredFields[5] = "pickup"
      /\ RequiredFields[6] = "waybill" /\ RequiredFields[7] = "barcode"
  BY DEF RequiredFields
<1>4. OldFields \in Seq(FieldNames)
  BY DEF OldFields, FieldNames
<1>5. NewFields \in Seq(FieldNames)
  BY DEF NewFields, FieldNames
<1>6. RequiredFields \in Seq(FieldNames)
  BY DEF RequiredFields, FieldNames
<1>7. \A i, j \in 1 .. 4 : i # j => OldFields[i] # OldFields[j]
  BY <1>1
<1>8. \A i, j \in 1 .. 8 : i # j => NewFields[i] # NewFields[j]
  BY <1>2
<1>9. OldFieldFacts = {<<"delivery_shipments", OldFields[i]>> : i \in 1 .. 4}
  BY <1>1 DEF OldFieldFacts
<1>10. NewFieldFacts = {<<"delivery_shipments", NewFields[i]>> : i \in 1 .. 8}
  BY <1>2 DEF NewFieldFacts
<1>11. RequiredFacts \subseteq NewFieldFacts
  BY <1>3 DEF RequiredFacts, NewFieldFacts
<1> QED  BY <1>1, <1>2, <1>3, <1>4, <1>5, <1>6, <1>7, <1>8, <1>9, <1>10, <1>11

(* The columns the conversion reads and writes.                            *)
ConvertNeeds == {<<"purchases", "delivery">>} \cup {<<"delivery_shipments", f>> : f \in ToSet(OldFields \o NewFields)}

(* The two statements that fill the new columns, and what they need.       *)
LEMMA ConvertIs ==
  /\ Convert = <<Dml("recover", {<<"purchases", "delivery">>})>> \o <<Dml("convert", ConvertNeeds)>>
  /\ ConvertNeeds \subseteq OldFieldFacts \cup DeliveryFacts
  /\ <<Dml("recover", {<<"purchases", "delivery">>})>> \in Seq(Stmts)
  /\ <<Dml("convert", ConvertNeeds)>> \in Seq(Stmts)
<1>1. \A f \in ToSet(OldFields \o NewFields) : <<"delivery_shipments", f>> \in OldFieldFacts \cup NewFieldFacts
  <2> SUFFICES ASSUME NEW f \in ToSet(OldFields \o NewFields)
               PROVE  <<"delivery_shipments", f>> \in OldFieldFacts \cup NewFieldFacts
    OBVIOUS
  <2>1. PICK i \in DOMAIN (OldFields \o NewFields) : f = (OldFields \o NewFields)[i]
    BY DEF ToSet
  <2>2. OldFields \in Seq(FieldNames) /\ NewFields \in Seq(FieldNames) /\ Len(OldFields) = 4 /\ Len(NewFields) = 8
    BY FieldsAre
  <2> DEFINE l == OldFields \o NewFields
             a == OldFields
             b == NewFields
  <2> HIDE DEF a, b
  <2>3. /\ a \o b \in Seq(FieldNames) /\ Len(a \o b) = Len(a) + Len(b)
        /\ \A k \in 1 .. Len(a) + Len(b) : (a \o b)[k] = IF k <= Len(a) THEN a[k] ELSE b[k - Len(a)]
    <3>1. a \in Seq(FieldNames) /\ b \in Seq(FieldNames)
      BY <2>2 DEF a, b
    <3> QED  BY <3>1, ConcatProperties
  <2>4. /\ l \in Seq(FieldNames) /\ Len(l) = 12
        /\ \A k \in 1 .. 12 : l[k] = IF k <= 4 THEN OldFields[k] ELSE NewFields[k - 4]
    <3>1. l = a \o b
      BY DEF a, b
    <3>2. Len(a) = 4 /\ Len(b) = 8
      BY <2>2 DEF a, b
    <3> HIDE DEF l
    <3>3. l \in Seq(FieldNames) /\ Len(l) = 12
      BY <2>3, <3>1, <3>2
    <3>4. ASSUME NEW k \in 1 .. 12 PROVE l[k] = IF k <= 4 THEN a[k] ELSE b[k - 4]
      <4>1. k \in 1 .. Len(a) + Len(b)
        BY <3>2
      <4>2. l[k] = IF k <= Len(a) THEN a[k] ELSE b[k - Len(a)]
        BY <2>3, <3>1, <4>1
      <4> QED  BY <3>2, <4>2
    <3> QED  BY <3>3, <3>4 DEF a, b
  <2>5. f = l[i] /\ i \in DOMAIN l
    BY <2>1
  <2> HIDE DEF l
  <2>6. i \in 1 .. 12
    BY <2>4, <2>5
  <2>7. CASE i \in 1 .. 4
    BY <2>4, <2>7, <2>5, FieldsAre
  <2>8. CASE i \in 5 .. 12
    <3>1. f = NewFields[i - 4] /\ i - 4 \in 1 .. 8
      BY <2>4, <2>8, <2>5
    <3> QED  BY <3>1, FieldsAre
  <2> QED  BY <2>6, <2>7, <2>8
<1>2. ConvertNeeds \subseteq OldFieldFacts \cup DeliveryFacts
  BY <1>1 DEF ConvertNeeds, DeliveryFacts
<1>3. OldFieldFacts \cup DeliveryFacts \subseteq Facts /\ <<"purchases", "delivery">> \in DeliveryFacts
  BY DEF Facts, AllFacts, DeliveryFacts
<1>4. Dml("recover", {<<"purchases", "delivery">>}) \in Stmts /\ Dml("convert", ConvertNeeds) \in Stmts
  <2>1. {<<"purchases", "delivery">>} \in SUBSET Facts /\ ConvertNeeds \in SUBSET Facts
    BY <1>2, <1>3
  <2> QED  BY <2>1, DmlIs
<1>5. Convert = <<Dml("recover", {<<"purchases", "delivery">>})>> \o <<Dml("convert", ConvertNeeds)>>
  BY DEF Convert, ConvertNeeds
<1> QED  BY <1>2, <1>4, <1>5

(* The shipments get their new columns, filled from the old ones, which    *)
(* are dropped: a migration that cannot run again from the middle.         *)
LEMMA SimplifyDeliveryRuns ==
  ASSUME NEW A, NEW C, Order(A, C), "4b91c7d8e205" \in C, "4b91c7d8e205" \notin A, NEW s \in Good(A, C), NEW strict,
         strict => s \in Good(A, C \ {"4b91c7d8e205"})
  PROVE  Runs(SimplifyDelivery, s, Good(A, C), Good(A \cup {"4b91c7d8e205"}, C), strict)
<1> DEFINE G == Good(A, C)
           T == "delivery_shipments"
           d == {<<"purchases", "delivery">>}
           x == s \cup d
           w == x \cup NewFieldFacts
           v == w \cup RequiredFacts
           z == v \ OldFieldFacts
           q1 == Add("purchases", "delivery")
           q2 == Each(T, NewFields)
           q3 == <<Dml("recover", d)>>
           q4 == <<Dml("convert", ConvertNeeds)>>
<1>1. /\ DeliveryFacts \subseteq Allowed(A, C) /\ {"purchases", T} \subseteq TableNames
      /\ NewFieldFacts \subseteq Allowed(A, C) /\ d \subseteq Allowed(A, C) /\ RequiredFacts \subseteq Allowed(A, C)
  <2>1. DeliveryFacts \subseteq Allowed(A, C) /\ {"purchases", T} \subseteq TableNames
    BY DEF Allowed, AllFacts, LocaleFacts, LocaleIndex, SettingsFacts, EventFacts, TranslationFacts, OptionFacts,
         PropertyFacts, OneCFacts, ProductFacts, AttributeFacts, ImageFacts, OldCatalog, NewCatalog, NewImages,
         LengthFacts, PurchaseFacts, MethodFacts, PaymentFacts, SyncFacts, ShipmentFacts, OldFieldFacts,
         NewFieldFacts, DeliveryFacts, TableNames
  <2> QED  BY <2>1, FieldsAre DEF DeliveryFacts
<1>2. strict => DeliveryFacts \cap s = {}
  BY GoodIs DEF Allowed
<1>3. <<"purchases">> \in s /\ <<T>> \in s
  <2>1. "6b2f4d9a8c10" \in A /\ "2e8c6a4d9b10" \in A
    BY OrderIs
  <2>2. <<"purchases">> \in AllFacts /\ <<"purchases">> \in PurchaseFacts /\ <<T>> \in AllFacts /\ <<T>> \in ShipmentFacts
    BY DEF AllFacts, PurchaseFacts, ShipmentFacts
  <2> QED  BY <2>1, <2>2, GoodIs DEF Owed
<1>4. strict => OldFieldFacts \subseteq s
  <2> SUFFICES ASSUME strict PROVE OldFieldFacts \subseteq s
    OBVIOUS
  <2>1. "2e8c6a4d9b10" \in A
    BY OrderIs
  <2>2. OldFieldFacts \subseteq AllFacts
    BY DEF AllFacts
  <2>3. OldFieldFacts \subseteq Owed(A, C \ {"4b91c7d8e205"})
    BY <2>1, <2>2 DEF Owed
  <2> QED  BY <2>3, GoodIs
<1>5. Runs(q1, s, G, {x}, strict)
  <2>1. <<"purchases", "delivery">> \in Allowed(A, C) /\ (strict => <<"purchases", "delivery">> \notin s)
    BY <1>1, <1>2 DEF DeliveryFacts
  <2> QED  BY <1>1, <1>3, <2>1, AddRuns
<1>6. Runs(q1 \o q2, s, G, {w}, strict)
  <2>1. strict => <<T>> \in x /\ NewFieldFacts \cap x = {}
    <3>1. NewFieldFacts \cap d = {}
      BY DEF NewFieldFacts
    <3> QED  BY <1>2, <1>3, <3>1 DEF DeliveryFacts
  <2>2. T \in TableNames
    BY <1>1
  <2> HIDE DEF G, q1, x, T
  <2>3. Runs(q1 \o Each(T, NewFields), s, G, {x \cup NewFieldFacts}, strict)
    BY <1>1, <1>5, <2>1, <2>2, FieldsAre, NextEach DEF G, T
  <2> QED  BY <2>3
<1>7. Runs((q1 \o q2) \o q3, s, G, {w}, strict)
  <2>1. d \in SUBSET Facts /\ d \subseteq w
    BY <1>1 DEF Facts, Allowed
  <2> HIDE DEF q1, q2, d, w
  <2> QED  BY <1>6, <2>1, NextDml
<1>8. Runs(((q1 \o q2) \o q3) \o q4, s, G, {w}, strict)
  <2>1. OldFieldFacts \subseteq Facts /\ DeliveryFacts \subseteq Facts
    BY DEF Facts, AllFacts
  <2>2. strict => ConvertNeeds \subseteq w
    BY <1>4, ConvertIs DEF DeliveryFacts
  <2>3. ConvertNeeds \in SUBSET Facts
    BY <2>1, ConvertIs
  <2> HIDE DEF q1, q2, q3, w
  <2> QED  BY <1>7, <2>2, <2>3, NextDml
<1>9. RequireNewFields \in Seq(Stmts) /\ (w \in G => Runs(RequireNewFields, w, G, {v}, strict))
  <2>1. <<T>> \in w /\ T \in TableNames
    BY <1>1, <1>3
  <2>2. RequireNewFields = EnsureEach(T, RequiredFields)
    BY DEF RequireNewFields, EnsureEach
  <2>3. s \in G
    OBVIOUS
  <2> DEFINE t == EnsureEach(T, RequiredFields)
  <2> HIDE DEF w
  <2>4. \A e \in G : <<T>> \in e => t \in Seq(Stmts) /\ Runs(t, e, G, {e \cup RequiredFacts}, strict)
    <3> TAKE e \in G
    <3> HAVE <<T>> \in e
    <3>1. e \in Good(A, C)
      OBVIOUS
    <3>2. RequiredFacts = {<<T, RequiredFields[i]>> : i \in 1 .. Len(RequiredFields)}
      BY DEF RequiredFacts
    <3>3. RequiredFields \in Seq(FieldNames) /\ RequiredFacts \subseteq Allowed(A, C)
      BY <1>1, FieldsAre
    <3> HIDE DEF T, G
    <3> QED  BY <2>1, <3>1, <3>2, <3>3, EnsureEachRuns DEF G
  <2> HIDE DEF t, G
  <2> QED  BY <1>3, <2>1, <2>2, <2>3, <2>4 DEF t
<1>10. Runs((((q1 \o q2) \o q3) \o q4) \o RequireNewFields, s, G, {v}, strict)
  <2> HIDE DEF q1, q2, q3, q4, w, v, G
  <2> QED  BY <1>8, <1>9, RunsNext
<1>11. DropOldFields \in Seq(Stmts) /\ (v \in G => Runs(DropOldFields, v, G, {z}, strict))
  <2>1. strict => OldFieldFacts \subseteq v
    BY <1>4
  <2>2. OldFieldFacts \subseteq AllFacts \ Owed(A, C)
    <3>1. OldFieldFacts \subseteq AllFacts
      BY DEF AllFacts
    <3>2. \A f \in OldFieldFacts : f \notin Owed(A, C)
      BY DEF Owed, OneCTables, AllFacts, LocaleFacts, LocaleIndex, SettingsFacts, EventFacts, TranslationFacts, OptionFacts,
         PropertyFacts, OneCFacts, ProductFacts, AttributeFacts, ImageFacts, OldCatalog, NewCatalog, NewImages,
         LengthFacts, PurchaseFacts, MethodFacts, PaymentFacts, SyncFacts, ShipmentFacts, OldFieldFacts,
         NewFieldFacts, DeliveryFacts, TableNames
    <3> QED  BY <3>1, <3>2
  <2>3. DropOldFields = DropEach(T, OldFields)
    BY DEF DropOldFields, DropEach
  <2> DEFINE t == DropEach(T, OldFields)
  <2> HIDE DEF v
  <2>4. \A e \in G : (strict => OldFieldFacts \subseteq e) => t \in Seq(Stmts) /\ Runs(t, e, G, {e \ OldFieldFacts}, strict)
    <3> TAKE e \in G
    <3> HAVE strict => OldFieldFacts \subseteq e
    <3>1. e \in Good(A, C) /\ T \in TableNames
      BY <1>1
    <3>2. OldFieldFacts = {<<T, OldFields[i]>> : i \in 1 .. Len(OldFields)}
      BY FieldsAre
    <3>3. OldFields \in Seq(FieldNames) /\ \A i, j \in 1 .. Len(OldFields) : i # j => OldFields[i] # OldFields[j]
      BY FieldsAre
    <3> HIDE DEF T, G
    <3> QED  BY <2>2, <3>1, <3>2, <3>3, DropEachRuns DEF G
  <2>5. t \in Seq(Stmts)
    <3>1. \A i \in 1 .. Len(OldFields) : DropPart(T, OldFields[i]) \in Seq(Stmts) /\ Len(DropPart(T, OldFields[i])) = 1
      <4> TAKE i \in 1 .. Len(OldFields)
      <4>1. <<T, OldFields[i]>> \in AllFacts
        BY <2>2, FieldsAre
      <4> QED  BY <4>1, DropPartIs DEF DropPart
    <3> QED  BY <3>1, FieldsAre DEF DropEach
  <2> HIDE DEF t, G
  <2> QED  BY <2>1, <2>3, <2>4, <2>5 DEF t
<1>12. Runs(((((q1 \o q2) \o q3) \o q4) \o RequireNewFields) \o DropOldFields, s, G, {z}, strict)
  <2> HIDE DEF q1, q2, q3, q4, v, z, G
  <2> QED  BY <1>10, <1>11, RunsNext
<1>13. SimplifyDelivery = ((((q1 \o q2) \o q3) \o q4) \o RequireNewFields) \o DropOldFields
  <2>1. q1 \in Seq(Stmts)
    <3>1. <<"purchases", "delivery">> \in AllFacts
      BY <1>1 DEF Allowed
    <3>2. "purchases" \in TableNames
      BY <1>1
    <3> QED  BY <3>1, <3>2, AddIs
  <2>2. q2 \in Seq(Stmts)
    <3>1. T \in TableNames /\ \A i \in 1 .. Len(NewFields) : <<T, NewFields[i]>> \in AllFacts
      BY <1>1, FieldsAre DEF Allowed
    <3> QED  BY <3>1, FieldsAre, EachSeq
  <2>3. SimplifyDelivery = q1 \o q2 \o Convert \o RequireNewFields \o DropOldFields
    BY DEF SimplifyDelivery
  <2>4. (q1 \o q2) \o (q3 \o q4) = ((q1 \o q2) \o q3) \o q4
    <3>1. q1 \o q2 \in Seq(Stmts)
      BY <2>1, <2>2, ConcatProperties
    <3>2. q3 \in Seq(Stmts) /\ q4 \in Seq(Stmts)
      BY ConvertIs
    <3> HIDE DEF q1, q2, q3, q4
    <3> QED  BY <3>1, <3>2, ConcatAssociative
  <2> HIDE DEF q1, q2, q3, q4
  <2> QED  BY <2>3, <2>4, ConvertIs DEF q3, q4
<1>14. OldFieldFacts \cap DeliveryFacts = {}
  BY DEF DeliveryFacts, NewFieldFacts, OldFieldFacts
<1> HIDE DEF q1, q2, q3, q4, v
<1>15. Runs(SimplifyDelivery, s, G, {z}, strict)
  BY <1>12, <1>13
<1>16. DeliveryFacts \subseteq z
  BY <1>14 DEF v, DeliveryFacts
<1>17. z \in G => z \in Good(A \cup {"4b91c7d8e205"}, C)
  <2> SUFFICES ASSUME z \in G PROVE z \in Good(A \cup {"4b91c7d8e205"}, C)
    OBVIOUS
  <2> DEFINE N == DeliveryFacts
  <2>1. Owed(A \cup {"4b91c7d8e205"}, C) \subseteq Owed(A, C) \cup N
    BY DEF Owed, AllFacts
  <2>2. N \subseteq z
    BY <1>16
  <2>3. \A f \in Allowed(A, C) : f \notin OldFieldFacts => f \in Allowed(A \cup {"4b91c7d8e205"}, C)
    BY DEF Allowed
  <2>4. z \cap OldFieldFacts = {}
    OBVIOUS
  <2> HIDE DEF z, N
  <2> QED  BY <2>1, <2>2, <2>3, <2>4, GoodIs, Finish DEF G
<1> QED
  <2> HIDE DEF z
  <2> HIDE DEF G
  <2>1. {z} \cap G \subseteq Good(A \cup {"4b91c7d8e205"}, C)
    BY <1>17
  <2> QED  BY <1>15, <2>1, RunsWeaken DEF G

(* Every migration, from a schema of the applied revisions and the begun   *)
(* ones, runs through such schemas to one with itself applied; and no      *)
(* statement of it is refused, unless it is fragile and has begun before.  *)
LEMMA StatementsRun ==
  ASSUME NEW A, NEW C, Order(A, C), NEW r \in C, r \notin A, NEW s \in Good(A, C), NEW strict,
         strict /\ r \in Fragile => s \in Good(A, C \ {r})
  PROVE  Runs(Statements(r, s), s, Good(A, C), Good(A \cup {r}, C), strict)
<1>1. CASE r = "b1f7c52d4d8a"
  <2>1. Statements(r, s) = AddLocaleIndex(s)
    BY <1>1 DEF Statements
  <2> QED  BY <1>1, <2>1, AddLocaleIndexRuns
<1>2. CASE r = "4127d08610dd"
  <2>1. Statements(r, s) = DropLocaleIndex(s)
    BY <1>2 DEF Statements
  <2> QED  BY <1>2, <2>1, DropLocaleIndexRuns
<1>3. CASE r = "f7f9e6f1a2b3"
  <2>1. Statements(r, s) = CreateSettings(s)
    BY <1>3 DEF Statements
  <2> QED  BY <1>3, <2>1, CreateSettingsRuns
<1>4. CASE r = "3e7b2b1d9c4f"
  <2>1. Statements(r, s) = AddChangeEvents
    BY <1>4 DEF Statements
  <2>2. strict => s \in Good(A, C \ {"3e7b2b1d9c4f"})
    BY <1>4 DEF Fragile
  <2> QED  BY <1>4, <2>1, <2>2, AddChangeEventsRuns
<1>5. CASE r = "8b7f9c1e4a2d"
  <2>1. Statements(r, s) = AddSettingsKey(s, "MAP")
    BY <1>5 DEF Statements
  <2> QED  BY <1>5, <2>1, AddMapRuns
<1>6. CASE r = "e4b7c1d2a9f0"
  <2>1. Statements(r, s) = AddOneCCatalog(s)
    BY <1>6 DEF Statements
  <2>2. strict => s \in Good(A, C \ {"e4b7c1d2a9f0"})
    BY <1>6 DEF Fragile
  <2> QED  BY <1>6, <2>1, <2>2, AddOneCCatalogRuns
<1>7. CASE r = "6a3d8f1c2b7e"
  <2>1. Statements(r, s) = RenamePropertyOptions(s)
    BY <1>7 DEF Statements
  <2> QED  BY <1>7, <2>1, RenamePropertyOptionsRuns
<1>8. CASE r = "1d7e6c4b9a10"
  <2>1. Statements(r, s) = AddParentCategory(s)
    BY <1>8 DEF Statements
  <2> QED  BY <1>8, <2>1, AddParentCategoryRuns
<1>9. CASE r = "2d4a6b8c9e10"
  <2>1. Statements(r, s) = AddSettingsKey(s, "PRODUCTS_PAGE_LIMIT")
    BY <1>9 DEF Statements
  <2> QED  BY <1>9, <2>1, AddPageLimitRuns
<1>10. CASE r = "a5c2d9e7b341"
  <2>1. Statements(r, s) = AddPropertyIndex(s)
    BY <1>10 DEF Statements
  <2> QED  BY <1>10, <2>1, AddPropertyIndexRuns
<1>11. CASE r = "d4f8a1b2c3e9"
  <2>1. Statements(r, s) = RepairTables(s)
    BY <1>11 DEF Statements
  <2> QED  BY <1>11, <2>1, RepairTablesRuns
<1>12. CASE r = "6b2f4d9a8c10"
  <2>1. Statements(r, s) = AddPurchases
    BY <1>12 DEF Statements
  <2>2. strict => s \in Good(A, C \ {"6b2f4d9a8c10"})
    BY <1>12 DEF Fragile
  <2> QED  BY <1>12, <2>1, <2>2, AddPurchasesRuns
<1>13. CASE r = "9c3e1f7a4b20"
  <2>1. Statements(r, s) = AddPayments
    BY <1>13 DEF Statements
  <2>2. strict => s \in Good(A, C \ {"9c3e1f7a4b20"})
    BY <1>13 DEF Fragile
  <2> QED  BY <1>13, <2>1, <2>2, AddPaymentsRuns
<1>14. CASE r = "b7a2d4c9e8f1"
  <2>1. Statements(r, s) = DecouplePayment
    BY <1>14 DEF Statements
  <2>2. strict => s \in Good(A, C \ {"b7a2d4c9e8f1"})
    BY <1>14 DEF Fragile
  <2> QED  BY <1>14, <2>1, <2>2, DecouplePaymentRuns
<1>15. CASE r = "1f2a3b4c5d6e"
  <2>1. Statements(r, s) = AwaitPayment
    BY <1>15 DEF Statements
  <2> QED  BY <1>15, <2>1, AwaitPaymentRuns
<1>16. CASE r = "59ca8b5b7134"
  <2>1. Statements(r, s) = ReplaceCatalog(s)
    BY <1>16 DEF Statements
  <2>2. strict => s \in Good(A, C \ {"59ca8b5b7134"})
    BY <1>16 DEF Fragile
  <2> QED  BY <1>16, <2>1, <2>2, ReplaceCatalogRuns
<1>17. CASE r = "7e4a9c2b1d60"
  <2>1. Statements(r, s) = AddSyncTasks
    BY <1>17 DEF Statements
  <2>2. strict => s \in Good(A, C \ {"7e4a9c2b1d60"})
    BY <1>17 DEF Fragile
  <2> QED  BY <1>17, <2>1, <2>2, AddSyncTasksRuns
<1>18. CASE r = "0f6d28a4b193"
  <2>1. Statements(r, s) = ExpandStrings
    BY <1>18 DEF Statements
  <2> QED  BY <1>18, <2>1, ExpandStringsRuns
<1>19. CASE r = "2e8c6a4d9b10"
  <2>1. Statements(r, s) = AddDelivery
    BY <1>19 DEF Statements
  <2>2. strict => s \in Good(A, C \ {"2e8c6a4d9b10"})
    BY <1>19 DEF Fragile
  <2> QED  BY <1>19, <2>1, <2>2, AddDeliveryRuns
<1>20. CASE r = "4b91c7d8e205"
  <2>1. Statements(r, s) = SimplifyDelivery
    BY <1>20 DEF Statements
  <2>2. strict => s \in Good(A, C \ {"4b91c7d8e205"})
    BY <1>20 DEF Fragile
  <2> QED  BY <1>20, <2>1, <2>2, SimplifyDeliveryRuns
<1>21. CASE r = "6c28d90ea413"
  <2>1. Statements(r, s) = AddAssembling
    BY <1>21 DEF Statements
  <2> QED  BY <1>21, <2>1, AddAssemblingRuns
<1>22. CASE r \in {"cc400eadf331", "d8137da72246", "569a3336d37a", "c9f1e4a2d8b6"}
  <2>1. Statements(r, s) = <<>>
    BY <1>22 DEF Statements
  <2> QED  BY <1>22, <2>1, EmptyRuns
<1> QED  BY <1>1, <1>2, <1>3, <1>4, <1>5, <1>6, <1>7, <1>8, <1>9, <1>10, <1>11, <1>12, <1>13, <1>14, <1>15, <1>16,
            <1>17, <1>18, <1>19, <1>20, <1>21, <1>22 DEF Order, Revisions

(* The number of revisions below one, two branches counted as one.         *)
Rank == [r \in Revisions |->
  CASE r = "cc400eadf331" -> 0
    [] r \in {"d8137da72246", "b1f7c52d4d8a"} -> 1
    [] r = "569a3336d37a" -> 2
    [] r = "4127d08610dd" -> 3
    [] r = "f7f9e6f1a2b3" -> 4
    [] r \in {"3e7b2b1d9c4f", "8b7f9c1e4a2d"} -> 5
    [] r = "e4b7c1d2a9f0" -> 6
    [] r = "6a3d8f1c2b7e" -> 7
    [] r = "1d7e6c4b9a10" -> 8
    [] r \in {"2d4a6b8c9e10", "a5c2d9e7b341"} -> 9
    [] r = "c9f1e4a2d8b6" -> 10
    [] r = "d4f8a1b2c3e9" -> 11
    [] r = "6b2f4d9a8c10" -> 12
    [] r = "9c3e1f7a4b20" -> 13
    [] r = "b7a2d4c9e8f1" -> 14
    [] r = "1f2a3b4c5d6e" -> 15
    [] r = "59ca8b5b7134" -> 16
    [] r = "7e4a9c2b1d60" -> 17
    [] r = "0f6d28a4b193" -> 18
    [] r = "2e8c6a4d9b10" -> 19
    [] r = "4b91c7d8e205" -> 20
    [] r = "6c28d90ea413" -> 21]

(* A revision and those of a lower rank.                                   *)
Up(r) == {r} \cup {q \in Revisions : Rank[q] < Rank[r]}

(* The revisions are in layers: below each are those of the layer before.  *)
LEMMA RankIs ==
  /\ \A r \in Revisions : Rank[r] \in 0 .. 21 /\ Down[r] = {q \in Revisions : Rank[q] = Rank[r] - 1}
  /\ \A n \in 0 .. 21 : \E r \in Revisions : Rank[r] = n
<1>1. /\ Rank["cc400eadf331"] = 0
      /\ Rank["d8137da72246"] = 1 /\ Rank["b1f7c52d4d8a"] = 1
      /\ Rank["569a3336d37a"] = 2
      /\ Rank["4127d08610dd"] = 3
      /\ Rank["f7f9e6f1a2b3"] = 4
      /\ Rank["3e7b2b1d9c4f"] = 5 /\ Rank["8b7f9c1e4a2d"] = 5
      /\ Rank["e4b7c1d2a9f0"] = 6
      /\ Rank["6a3d8f1c2b7e"] = 7
      /\ Rank["1d7e6c4b9a10"] = 8
      /\ Rank["2d4a6b8c9e10"] = 9 /\ Rank["a5c2d9e7b341"] = 9
      /\ Rank["c9f1e4a2d8b6"] = 10
      /\ Rank["d4f8a1b2c3e9"] = 11
      /\ Rank["6b2f4d9a8c10"] = 12
      /\ Rank["9c3e1f7a4b20"] = 13
      /\ Rank["b7a2d4c9e8f1"] = 14
      /\ Rank["1f2a3b4c5d6e"] = 15
      /\ Rank["59ca8b5b7134"] = 16
      /\ Rank["7e4a9c2b1d60"] = 17
      /\ Rank["0f6d28a4b193"] = 18
      /\ Rank["2e8c6a4d9b10"] = 19
      /\ Rank["4b91c7d8e205"] = 20
      /\ Rank["6c28d90ea413"] = 21
  BY DEF Rank, Revisions
<1>2. /\ Down["cc400eadf331"] = {}
      /\ Down["d8137da72246"] = {"cc400eadf331"} /\ Down["b1f7c52d4d8a"] = {"cc400eadf331"}
      /\ Down["569a3336d37a"] = {"d8137da72246", "b1f7c52d4d8a"}
      /\ Down["4127d08610dd"] = {"569a3336d37a"}
      /\ Down["f7f9e6f1a2b3"] = {"4127d08610dd"}
      /\ Down["3e7b2b1d9c4f"] = {"f7f9e6f1a2b3"} /\ Down["8b7f9c1e4a2d"] = {"f7f9e6f1a2b3"}
      /\ Down["e4b7c1d2a9f0"] = {"3e7b2b1d9c4f", "8b7f9c1e4a2d"}
      /\ Down["6a3d8f1c2b7e"] = {"e4b7c1d2a9f0"}
      /\ Down["1d7e6c4b9a10"] = {"6a3d8f1c2b7e"}
      /\ Down["2d4a6b8c9e10"] = {"1d7e6c4b9a10"} /\ Down["a5c2d9e7b341"] = {"1d7e6c4b9a10"}
      /\ Down["c9f1e4a2d8b6"] = {"2d4a6b8c9e10", "a5c2d9e7b341"}
      /\ Down["d4f8a1b2c3e9"] = {"c9f1e4a2d8b6"}
      /\ Down["6b2f4d9a8c10"] = {"d4f8a1b2c3e9"}
      /\ Down["9c3e1f7a4b20"] = {"6b2f4d9a8c10"}
      /\ Down["b7a2d4c9e8f1"] = {"9c3e1f7a4b20"}
      /\ Down["1f2a3b4c5d6e"] = {"b7a2d4c9e8f1"}
      /\ Down["59ca8b5b7134"] = {"1f2a3b4c5d6e"}
      /\ Down["7e4a9c2b1d60"] = {"59ca8b5b7134"}
      /\ Down["0f6d28a4b193"] = {"7e4a9c2b1d60"}
      /\ Down["2e8c6a4d9b10"] = {"0f6d28a4b193"}
      /\ Down["4b91c7d8e205"] = {"2e8c6a4d9b10"}
      /\ Down["6c28d90ea413"] = {"4b91c7d8e205"}
  BY DEF Down, Revisions
<1>3. {q \in Revisions : Rank[q] = 0} = {"cc400eadf331"}
  BY <1>1 DEF Revisions
<1>4. {q \in Revisions : Rank[q] = 1} = {"d8137da72246", "b1f7c52d4d8a"}
  BY <1>1 DEF Revisions
<1>5. {q \in Revisions : Rank[q] = 2} = {"569a3336d37a"}
  BY <1>1 DEF Revisions
<1>6. {q \in Revisions : Rank[q] = 3} = {"4127d08610dd"}
  BY <1>1 DEF Revisions
<1>7. {q \in Revisions : Rank[q] = 4} = {"f7f9e6f1a2b3"}
  BY <1>1 DEF Revisions
<1>8. {q \in Revisions : Rank[q] = 5} = {"3e7b2b1d9c4f", "8b7f9c1e4a2d"}
  BY <1>1 DEF Revisions
<1>9. {q \in Revisions : Rank[q] = 6} = {"e4b7c1d2a9f0"}
  BY <1>1 DEF Revisions
<1>10. {q \in Revisions : Rank[q] = 7} = {"6a3d8f1c2b7e"}
  BY <1>1 DEF Revisions
<1>11. {q \in Revisions : Rank[q] = 8} = {"1d7e6c4b9a10"}
  BY <1>1 DEF Revisions
<1>12. {q \in Revisions : Rank[q] = 9} = {"2d4a6b8c9e10", "a5c2d9e7b341"}
  BY <1>1 DEF Revisions
<1>13. {q \in Revisions : Rank[q] = 10} = {"c9f1e4a2d8b6"}
  BY <1>1 DEF Revisions
<1>14. {q \in Revisions : Rank[q] = 11} = {"d4f8a1b2c3e9"}
  BY <1>1 DEF Revisions
<1>15. {q \in Revisions : Rank[q] = 12} = {"6b2f4d9a8c10"}
  BY <1>1 DEF Revisions
<1>16. {q \in Revisions : Rank[q] = 13} = {"9c3e1f7a4b20"}
  BY <1>1 DEF Revisions
<1>17. {q \in Revisions : Rank[q] = 14} = {"b7a2d4c9e8f1"}
  BY <1>1 DEF Revisions
<1>18. {q \in Revisions : Rank[q] = 15} = {"1f2a3b4c5d6e"}
  BY <1>1 DEF Revisions
<1>19. {q \in Revisions : Rank[q] = 16} = {"59ca8b5b7134"}
  BY <1>1 DEF Revisions
<1>20. {q \in Revisions : Rank[q] = 17} = {"7e4a9c2b1d60"}
  BY <1>1 DEF Revisions
<1>21. {q \in Revisions : Rank[q] = 18} = {"0f6d28a4b193"}
  BY <1>1 DEF Revisions
<1>22. {q \in Revisions : Rank[q] = 19} = {"2e8c6a4d9b10"}
  BY <1>1 DEF Revisions
<1>23. {q \in Revisions : Rank[q] = 20} = {"4b91c7d8e205"}
  BY <1>1 DEF Revisions
<1>24. {q \in Revisions : Rank[q] = 21} = {"6c28d90ea413"}
  BY <1>1 DEF Revisions
<1>25. {q \in Revisions : Rank[q] = -1} = {}
  BY <1>1 DEF Revisions
<1>26. ASSUME NEW r \in Revisions PROVE Rank[r] \in 0 .. 21
  BY <1>1 DEF Revisions
<1>27. ASSUME NEW r \in Revisions PROVE Down[r] = {q \in Revisions : Rank[q] = Rank[r] - 1}
  <2>1. CASE r \in {"cc400eadf331"}
    <3>1. Rank[r] - 1 = -1 /\ Down[r] = {}
      BY <1>1, <1>2, <2>1
    <3> QED  BY <1>25, <3>1
  <2>2. CASE r \in {"d8137da72246", "b1f7c52d4d8a"}
    <3>1. Rank[r] - 1 = 0 /\ Down[r] = {"cc400eadf331"}
      BY <1>1, <1>2, <2>2
    <3> QED  BY <1>3, <3>1
  <2>3. CASE r \in {"569a3336d37a"}
    <3>1. Rank[r] - 1 = 1 /\ Down[r] = {"d8137da72246", "b1f7c52d4d8a"}
      BY <1>1, <1>2, <2>3
    <3> QED  BY <1>4, <3>1
  <2>4. CASE r \in {"4127d08610dd"}
    <3>1. Rank[r] - 1 = 2 /\ Down[r] = {"569a3336d37a"}
      BY <1>1, <1>2, <2>4
    <3> QED  BY <1>5, <3>1
  <2>5. CASE r \in {"f7f9e6f1a2b3"}
    <3>1. Rank[r] - 1 = 3 /\ Down[r] = {"4127d08610dd"}
      BY <1>1, <1>2, <2>5
    <3> QED  BY <1>6, <3>1
  <2>6. CASE r \in {"3e7b2b1d9c4f", "8b7f9c1e4a2d"}
    <3>1. Rank[r] - 1 = 4 /\ Down[r] = {"f7f9e6f1a2b3"}
      BY <1>1, <1>2, <2>6
    <3> QED  BY <1>7, <3>1
  <2>7. CASE r \in {"e4b7c1d2a9f0"}
    <3>1. Rank[r] - 1 = 5 /\ Down[r] = {"3e7b2b1d9c4f", "8b7f9c1e4a2d"}
      BY <1>1, <1>2, <2>7
    <3> QED  BY <1>8, <3>1
  <2>8. CASE r \in {"6a3d8f1c2b7e"}
    <3>1. Rank[r] - 1 = 6 /\ Down[r] = {"e4b7c1d2a9f0"}
      BY <1>1, <1>2, <2>8
    <3> QED  BY <1>9, <3>1
  <2>9. CASE r \in {"1d7e6c4b9a10"}
    <3>1. Rank[r] - 1 = 7 /\ Down[r] = {"6a3d8f1c2b7e"}
      BY <1>1, <1>2, <2>9
    <3> QED  BY <1>10, <3>1
  <2>10. CASE r \in {"2d4a6b8c9e10", "a5c2d9e7b341"}
    <3>1. Rank[r] - 1 = 8 /\ Down[r] = {"1d7e6c4b9a10"}
      BY <1>1, <1>2, <2>10
    <3> QED  BY <1>11, <3>1
  <2>11. CASE r \in {"c9f1e4a2d8b6"}
    <3>1. Rank[r] - 1 = 9 /\ Down[r] = {"2d4a6b8c9e10", "a5c2d9e7b341"}
      BY <1>1, <1>2, <2>11
    <3> QED  BY <1>12, <3>1
  <2>12. CASE r \in {"d4f8a1b2c3e9"}
    <3>1. Rank[r] - 1 = 10 /\ Down[r] = {"c9f1e4a2d8b6"}
      BY <1>1, <1>2, <2>12
    <3> QED  BY <1>13, <3>1
  <2>13. CASE r \in {"6b2f4d9a8c10"}
    <3>1. Rank[r] - 1 = 11 /\ Down[r] = {"d4f8a1b2c3e9"}
      BY <1>1, <1>2, <2>13
    <3> QED  BY <1>14, <3>1
  <2>14. CASE r \in {"9c3e1f7a4b20"}
    <3>1. Rank[r] - 1 = 12 /\ Down[r] = {"6b2f4d9a8c10"}
      BY <1>1, <1>2, <2>14
    <3> QED  BY <1>15, <3>1
  <2>15. CASE r \in {"b7a2d4c9e8f1"}
    <3>1. Rank[r] - 1 = 13 /\ Down[r] = {"9c3e1f7a4b20"}
      BY <1>1, <1>2, <2>15
    <3> QED  BY <1>16, <3>1
  <2>16. CASE r \in {"1f2a3b4c5d6e"}
    <3>1. Rank[r] - 1 = 14 /\ Down[r] = {"b7a2d4c9e8f1"}
      BY <1>1, <1>2, <2>16
    <3> QED  BY <1>17, <3>1
  <2>17. CASE r \in {"59ca8b5b7134"}
    <3>1. Rank[r] - 1 = 15 /\ Down[r] = {"1f2a3b4c5d6e"}
      BY <1>1, <1>2, <2>17
    <3> QED  BY <1>18, <3>1
  <2>18. CASE r \in {"7e4a9c2b1d60"}
    <3>1. Rank[r] - 1 = 16 /\ Down[r] = {"59ca8b5b7134"}
      BY <1>1, <1>2, <2>18
    <3> QED  BY <1>19, <3>1
  <2>19. CASE r \in {"0f6d28a4b193"}
    <3>1. Rank[r] - 1 = 17 /\ Down[r] = {"7e4a9c2b1d60"}
      BY <1>1, <1>2, <2>19
    <3> QED  BY <1>20, <3>1
  <2>20. CASE r \in {"2e8c6a4d9b10"}
    <3>1. Rank[r] - 1 = 18 /\ Down[r] = {"0f6d28a4b193"}
      BY <1>1, <1>2, <2>20
    <3> QED  BY <1>21, <3>1
  <2>21. CASE r \in {"4b91c7d8e205"}
    <3>1. Rank[r] - 1 = 19 /\ Down[r] = {"2e8c6a4d9b10"}
      BY <1>1, <1>2, <2>21
    <3> QED  BY <1>22, <3>1
  <2>22. CASE r \in {"6c28d90ea413"}
    <3>1. Rank[r] - 1 = 20 /\ Down[r] = {"4b91c7d8e205"}
      BY <1>1, <1>2, <2>22
    <3> QED  BY <1>23, <3>1
  <2> QED  BY <2>1, <2>2, <2>3, <2>4, <2>5, <2>6, <2>7, <2>8, <2>9, <2>10, <2>11, <2>12, <2>13, <2>14, <2>15, <2>16,
              <2>17, <2>18, <2>19, <2>20, <2>21, <2>22 DEF Revisions
<1>28. \A n \in 0 .. 21 : \E r \in Revisions : Rank[r] = n
  <2> SUFFICES ASSUME NEW n \in 0 .. 21 PROVE {q \in Revisions : Rank[q] = n} # {}
    OBVIOUS
  <2> QED  BY <1>3, <1>4, <1>5, <1>6, <1>7, <1>8, <1>9, <1>10, <1>11, <1>12, <1>13, <1>14, <1>15, <1>16, <1>17,
              <1>18, <1>19, <1>20, <1>21, <1>22, <1>23, <1>24
<1> QED  BY <1>26, <1>27, <1>28

(* A revision and all below it are those above or at the revisions just    *)
(* below it.                                                               *)
LEMMA UpIs ==
  ASSUME NEW r \in Revisions
  PROVE  Up(r) = {r} \cup UNION {Up(q) : q \in Down[r]}
<1>1. ASSUME NEW q \in Up(r), q # r PROVE \E p \in Down[r] : q \in Up(p)
  <2>1. q \in Revisions /\ Rank[q] < Rank[r] /\ Rank[q] \in 0 .. 21 /\ Rank[r] \in 0 .. 21
    BY <1>1, RankIs DEF Up
  <2>2. PICK p \in Revisions : Rank[p] = Rank[r] - 1
    BY <2>1, RankIs
  <2>3. p \in Down[r]
    BY <2>2, RankIs
  <2>4. CASE Rank[q] = Rank[r] - 1
    BY <2>1, <2>4, RankIs DEF Up
  <2>5. CASE Rank[q] # Rank[r] - 1
    BY <2>1, <2>2, <2>3, <2>5 DEF Up
  <2> QED  BY <2>4, <2>5
<1>2. ASSUME NEW p \in Down[r], NEW q \in Up(p) PROVE q \in Up(r)
  <2>1. p \in Revisions /\ Rank[p] = Rank[r] - 1 /\ Rank[r] \in 0 .. 21 /\ q \in Revisions /\ Rank[q] \in 0 .. 21
    BY RankIs DEF Up
  <2> QED  BY <2>1 DEF Up
<1>3. r \in Up(r)
  BY DEF Up
<1> QED  BY <1>1, <1>2, <1>3

(* What a container knows is the revision it was built at and all of a     *)
(* lower rank.                                                             *)
LEMMA KnownIsUp ==
  \A r \in Revisions : Known[r] = Up(r)
<1> DEFINE F(f) == [r \in Revisions |-> {r} \cup UNION {f[q] : q \in Down[r]}]
           W == [r \in Revisions |-> Up(r)]
<1>1. W = F(W)
  <2> SUFFICES ASSUME NEW r \in Revisions PROVE Up(r) = {r} \cup UNION {W[q] : q \in Down[r]}
    OBVIOUS
  <2>1. \A q \in Down[r] : W[q] = Up(q)
    BY RankIs
  <2>2. {W[q] : q \in Down[r]} = {Up(q) : q \in Down[r]}
    BY <2>1
  <2> HIDE DEF W
  <2> QED  BY <2>2, UpIs
<1>2. Known = CHOOSE f : f = F(f)
  BY DEF Known
<1> HIDE DEF W
<1>3. Known = F(Known)
  <2> HIDE DEF F
  <2> QED  BY <1>1, <1>2
<1>4. ASSUME NEW r \in Revisions, \A q \in Revisions : Rank[q] = Rank[r] - 1 => Known[q] = Up(q)
      PROVE  Known[r] = Up(r)
  <2>1. Known[r] = {r} \cup UNION {Known[q] : q \in Down[r]}
    BY <1>3
  <2>2. \A q \in Down[r] : Known[q] = Up(q)
    BY <1>4, RankIs
  <2>3. {Known[q] : q \in Down[r]} = {Up(q) : q \in Down[r]}
    BY <2>2
  <2> QED  BY <2>1, <2>3, UpIs
<1> HIDE DEF F
<1>5. \A r \in Revisions : Rank[r] = 0 => Known[r] = Up(r)
  <2>1. \A q \in Revisions : Rank[q] # -1
    BY RankIs
  <2> QED  BY <1>4, <2>1
<1>6. \A r \in Revisions : Rank[r] = 1 => Known[r] = Up(r)
  BY <1>4, <1>5
<1>7. \A r \in Revisions : Rank[r] = 2 => Known[r] = Up(r)
  BY <1>4, <1>6
<1>8. \A r \in Revisions : Rank[r] = 3 => Known[r] = Up(r)
  BY <1>4, <1>7
<1>9. \A r \in Revisions : Rank[r] = 4 => Known[r] = Up(r)
  BY <1>4, <1>8
<1>10. \A r \in Revisions : Rank[r] = 5 => Known[r] = Up(r)
  BY <1>4, <1>9
<1>11. \A r \in Revisions : Rank[r] = 6 => Known[r] = Up(r)
  BY <1>4, <1>10
<1>12. \A r \in Revisions : Rank[r] = 7 => Known[r] = Up(r)
  BY <1>4, <1>11
<1>13. \A r \in Revisions : Rank[r] = 8 => Known[r] = Up(r)
  BY <1>4, <1>12
<1>14. \A r \in Revisions : Rank[r] = 9 => Known[r] = Up(r)
  BY <1>4, <1>13
<1>15. \A r \in Revisions : Rank[r] = 10 => Known[r] = Up(r)
  BY <1>4, <1>14
<1>16. \A r \in Revisions : Rank[r] = 11 => Known[r] = Up(r)
  BY <1>4, <1>15
<1>17. \A r \in Revisions : Rank[r] = 12 => Known[r] = Up(r)
  BY <1>4, <1>16
<1>18. \A r \in Revisions : Rank[r] = 13 => Known[r] = Up(r)
  BY <1>4, <1>17
<1>19. \A r \in Revisions : Rank[r] = 14 => Known[r] = Up(r)
  BY <1>4, <1>18
<1>20. \A r \in Revisions : Rank[r] = 15 => Known[r] = Up(r)
  BY <1>4, <1>19
<1>21. \A r \in Revisions : Rank[r] = 16 => Known[r] = Up(r)
  BY <1>4, <1>20
<1>22. \A r \in Revisions : Rank[r] = 17 => Known[r] = Up(r)
  BY <1>4, <1>21
<1>23. \A r \in Revisions : Rank[r] = 18 => Known[r] = Up(r)
  BY <1>4, <1>22
<1>24. \A r \in Revisions : Rank[r] = 19 => Known[r] = Up(r)
  BY <1>4, <1>23
<1>25. \A r \in Revisions : Rank[r] = 20 => Known[r] = Up(r)
  BY <1>4, <1>24
<1>26. \A r \in Revisions : Rank[r] = 21 => Known[r] = Up(r)
  BY <1>4, <1>25
<1> QED  BY RankIs, <1>5, <1>6, <1>7, <1>8, <1>9, <1>10, <1>11, <1>12, <1>13, <1>14, <1>15, <1>16, <1>17, <1>18,
            <1>19, <1>20, <1>21, <1>22, <1>23, <1>24, <1>25, <1>26

(* What follows of the order the revisions are in: all of them are below   *)
(* the newest, those below a known one are known, and a container with     *)
(* none pending has applied all it knows.                                  *)
LEMMA KnownIs ==
  /\ Newest \in Revisions /\ Known[Newest] = Revisions
  /\ \A i \in Revisions : i \in Known[i] /\ Known[i] \subseteq Revisions
  /\ \A i \in Revisions : \A q \in Known[i] : Known[q] \subseteq Known[i] /\ Down[q] \subseteq Known[i]
<1>1. Newest \in Revisions
  BY DEF Newest, Revisions
<1>2. Known[Newest] = Revisions
  <2>1. \A q \in Revisions : q = Newest \/ Rank[q] < 21
    BY DEF Rank, Revisions, Newest
  <2>2. Rank[Newest] = 21
    BY DEF Rank, Revisions, Newest
  <2> QED  BY <1>1, <2>1, <2>2, KnownIsUp DEF Up
<1>3. ASSUME NEW i \in Revisions PROVE i \in Known[i] /\ Known[i] \subseteq Revisions
  BY KnownIsUp DEF Up
<1>4. ASSUME NEW i \in Revisions, NEW q \in Known[i] PROVE Known[q] \subseteq Known[i] /\ Down[q] \subseteq Known[i]
  <2>1. q \in Revisions /\ Known[i] = Up(i) /\ Known[q] = Up(q) /\ Rank[i] \in 0 .. 21 /\ Rank[q] \in 0 .. 21
    BY <1>3, KnownIsUp, RankIs
  <2>2. Known[q] \subseteq Known[i]
    <3> SUFFICES ASSUME NEW p \in Up(q) PROVE p \in Up(i)
      BY <2>1
    <3>1. p \in Revisions /\ Rank[p] \in 0 .. 21
      BY <2>1, RankIs DEF Up
    <3>2. q = i \/ Rank[q] < Rank[i]
      BY <2>1 DEF Up
    <3>3. p = q \/ Rank[p] < Rank[q]
      BY DEF Up
    <3> QED  BY <2>1, <3>1, <3>2, <3>3 DEF Up
  <2>3. Down[q] \subseteq Up(q)
    <3>1. \A p \in Down[q] : p \in Revisions /\ Rank[p] = Rank[q] - 1
      BY <2>1, RankIs
    <3> QED  BY <2>1, <3>1 DEF Up
  <2> QED  BY <2>1, <2>2, <2>3
<1> QED  BY <1>1, <1>2, <1>3, <1>4

(* A container for which nothing is pending has applied all it knows.      *)
LEMMA NonePending ==
  ASSUME NEW i \in Revisions, NEW A, {r \in Known[i] \ A : Down[r] \subseteq A} = {}
  PROVE  Known[i] \subseteq A
<1>1. ASSUME NEW r \in Known[i], \A q \in Known[i] : Rank[q] = Rank[r] - 1 => q \in A
      PROVE  r \in A
  <2>1. r \in Revisions /\ Down[r] \subseteq Known[i]
    BY KnownIs
  <2>2. Down[r] \subseteq A
    BY <1>1, <2>1, RankIs
  <2> QED  BY <2>2
<1>2. \A r \in Known[i] : Rank[r] = 0 => r \in A
  <2>1. \A q \in Known[i] : Rank[q] # -1
    BY KnownIs, RankIs
  <2> QED  BY <1>1, <2>1
<1>3. \A r \in Known[i] : Rank[r] = 1 => r \in A
  BY <1>1, <1>2
<1>4. \A r \in Known[i] : Rank[r] = 2 => r \in A
  BY <1>1, <1>3
<1>5. \A r \in Known[i] : Rank[r] = 3 => r \in A
  BY <1>1, <1>4
<1>6. \A r \in Known[i] : Rank[r] = 4 => r \in A
  BY <1>1, <1>5
<1>7. \A r \in Known[i] : Rank[r] = 5 => r \in A
  BY <1>1, <1>6
<1>8. \A r \in Known[i] : Rank[r] = 6 => r \in A
  BY <1>1, <1>7
<1>9. \A r \in Known[i] : Rank[r] = 7 => r \in A
  BY <1>1, <1>8
<1>10. \A r \in Known[i] : Rank[r] = 8 => r \in A
  BY <1>1, <1>9
<1>11. \A r \in Known[i] : Rank[r] = 9 => r \in A
  BY <1>1, <1>10
<1>12. \A r \in Known[i] : Rank[r] = 10 => r \in A
  BY <1>1, <1>11
<1>13. \A r \in Known[i] : Rank[r] = 11 => r \in A
  BY <1>1, <1>12
<1>14. \A r \in Known[i] : Rank[r] = 12 => r \in A
  BY <1>1, <1>13
<1>15. \A r \in Known[i] : Rank[r] = 13 => r \in A
  BY <1>1, <1>14
<1>16. \A r \in Known[i] : Rank[r] = 14 => r \in A
  BY <1>1, <1>15
<1>17. \A r \in Known[i] : Rank[r] = 15 => r \in A
  BY <1>1, <1>16
<1>18. \A r \in Known[i] : Rank[r] = 16 => r \in A
  BY <1>1, <1>17
<1>19. \A r \in Known[i] : Rank[r] = 17 => r \in A
  BY <1>1, <1>18
<1>20. \A r \in Known[i] : Rank[r] = 18 => r \in A
  BY <1>1, <1>19
<1>21. \A r \in Known[i] : Rank[r] = 19 => r \in A
  BY <1>1, <1>20
<1>22. \A r \in Known[i] : Rank[r] = 20 => r \in A
  BY <1>1, <1>21
<1>23. \A r \in Known[i] : Rank[r] = 21 => r \in A
  BY <1>1, <1>22
<1> QED  BY KnownIs, RankIs, <1>2, <1>3, <1>4, <1>5, <1>6, <1>7, <1>8, <1>9, <1>10, <1>11, <1>12, <1>13, <1>14,
            <1>15, <1>16, <1>17, <1>18, <1>19, <1>20, <1>21, <1>22, <1>23

(* A schema of some revisions begun is one when more have begun.           *)
LEMMA GoodGrows ==
  ASSUME NEW A, NEW B, NEW C, B \subseteq C, NEW x \in Good(A, B)
  PROVE  x \in Good(A, C)
<1>1. \A f \in Owed(A, C) : f \in Owed(A, B)
  BY DEF Owed
<1>2. \A f \in Allowed(A, B) : f \in Allowed(A, C)
  BY DEF Allowed
<1> QED  BY <1>1, <1>2, GoodIs DEF Good

(* When the revision that simplifies the delivery has begun, everything    *)
(* below it has been applied.                                              *)
LEMMA BelowIsApplied ==
  ASSUME NEW A, NEW B, Order(A, B), "4b91c7d8e205" \in B
  PROVE  \A r \in Revisions \ A : r \in {"4b91c7d8e205", "6c28d90ea413"}
<1>1. Rank["4b91c7d8e205"] = 20 /\ Rank["6c28d90ea413"] = 21 /\ "4b91c7d8e205" \in Revisions
  BY DEF Rank, Revisions
<1>2. \A r \in Revisions : Rank[r] = 20 => r = "4b91c7d8e205"
  BY DEF Rank, Revisions
<1>3. \A r \in Revisions : Rank[r] = 21 => r = "6c28d90ea413"
  BY DEF Rank, Revisions
<1>4. ASSUME NEW p \in Revisions, p \in B PROVE \A q \in Revisions : Rank[q] = Rank[p] - 1 => q \in A /\ q \in B
  BY <1>4, RankIs DEF Order
<1>5. \A q \in Revisions : Rank[q] = 19 => q \in A /\ q \in B
  BY <1>1, <1>4
<1>6. \A q \in Revisions : Rank[q] = 18 => q \in A /\ q \in B
  <2>1. PICK p \in Revisions : Rank[p] = 19
    BY RankIs
  <2> QED  BY <1>4, <1>5, <2>1
<1>7. \A q \in Revisions : Rank[q] = 17 => q \in A /\ q \in B
  <2>1. PICK p \in Revisions : Rank[p] = 18
    BY RankIs
  <2> QED  BY <1>4, <1>6, <2>1
<1>8. \A q \in Revisions : Rank[q] = 16 => q \in A /\ q \in B
  <2>1. PICK p \in Revisions : Rank[p] = 17
    BY RankIs
  <2> QED  BY <1>4, <1>7, <2>1
<1>9. \A q \in Revisions : Rank[q] = 15 => q \in A /\ q \in B
  <2>1. PICK p \in Revisions : Rank[p] = 16
    BY RankIs
  <2> QED  BY <1>4, <1>8, <2>1
<1>10. \A q \in Revisions : Rank[q] = 14 => q \in A /\ q \in B
  <2>1. PICK p \in Revisions : Rank[p] = 15
    BY RankIs
  <2> QED  BY <1>4, <1>9, <2>1
<1>11. \A q \in Revisions : Rank[q] = 13 => q \in A /\ q \in B
  <2>1. PICK p \in Revisions : Rank[p] = 14
    BY RankIs
  <2> QED  BY <1>4, <1>10, <2>1
<1>12. \A q \in Revisions : Rank[q] = 12 => q \in A /\ q \in B
  <2>1. PICK p \in Revisions : Rank[p] = 13
    BY RankIs
  <2> QED  BY <1>4, <1>11, <2>1
<1>13. \A q \in Revisions : Rank[q] = 11 => q \in A /\ q \in B
  <2>1. PICK p \in Revisions : Rank[p] = 12
    BY RankIs
  <2> QED  BY <1>4, <1>12, <2>1
<1>14. \A q \in Revisions : Rank[q] = 10 => q \in A /\ q \in B
  <2>1. PICK p \in Revisions : Rank[p] = 11
    BY RankIs
  <2> QED  BY <1>4, <1>13, <2>1
<1>15. \A q \in Revisions : Rank[q] = 9 => q \in A /\ q \in B
  <2>1. PICK p \in Revisions : Rank[p] = 10
    BY RankIs
  <2> QED  BY <1>4, <1>14, <2>1
<1>16. \A q \in Revisions : Rank[q] = 8 => q \in A /\ q \in B
  <2>1. PICK p \in Revisions : Rank[p] = 9
    BY RankIs
  <2> QED  BY <1>4, <1>15, <2>1
<1>17. \A q \in Revisions : Rank[q] = 7 => q \in A /\ q \in B
  <2>1. PICK p \in Revisions : Rank[p] = 8
    BY RankIs
  <2> QED  BY <1>4, <1>16, <2>1
<1>18. \A q \in Revisions : Rank[q] = 6 => q \in A /\ q \in B
  <2>1. PICK p \in Revisions : Rank[p] = 7
    BY RankIs
  <2> QED  BY <1>4, <1>17, <2>1
<1>19. \A q \in Revisions : Rank[q] = 5 => q \in A /\ q \in B
  <2>1. PICK p \in Revisions : Rank[p] = 6
    BY RankIs
  <2> QED  BY <1>4, <1>18, <2>1
<1>20. \A q \in Revisions : Rank[q] = 4 => q \in A /\ q \in B
  <2>1. PICK p \in Revisions : Rank[p] = 5
    BY RankIs
  <2> QED  BY <1>4, <1>19, <2>1
<1>21. \A q \in Revisions : Rank[q] = 3 => q \in A /\ q \in B
  <2>1. PICK p \in Revisions : Rank[p] = 4
    BY RankIs
  <2> QED  BY <1>4, <1>20, <2>1
<1>22. \A q \in Revisions : Rank[q] = 2 => q \in A /\ q \in B
  <2>1. PICK p \in Revisions : Rank[p] = 3
    BY RankIs
  <2> QED  BY <1>4, <1>21, <2>1
<1>23. \A q \in Revisions : Rank[q] = 1 => q \in A /\ q \in B
  <2>1. PICK p \in Revisions : Rank[p] = 2
    BY RankIs
  <2> QED  BY <1>4, <1>22, <2>1
<1>24. \A q \in Revisions : Rank[q] = 0 => q \in A /\ q \in B
  <2>1. PICK p \in Revisions : Rank[p] = 1
    BY RankIs
  <2> QED  BY <1>4, <1>23, <2>1
<1> QED  BY RankIs, <1>2, <1>3, <1>5, <1>6, <1>7, <1>8, <1>9, <1>10, <1>11, <1>12, <1>13, <1>14, <1>15, <1>16, <1>17,
            <1>18, <1>19, <1>20, <1>21, <1>22, <1>23, <1>24

(* The schema of the models, by the revisions that make it.                *)
LEMMA ModelIs ==
  ModelSchema = {<<"settings">>, <<"settings", "MAP">>, <<"settings", "PRODUCTS_PAGE_LIMIT">>} \cup EventFacts
    \cup (NewCatalog \cup LengthFacts \cup PurchaseFacts \cup PaymentFacts \cup SyncFacts \cup ShipmentFacts \cup DeliveryFacts)
    \cup {<<"purchases", "AWAITING_PAYMENT">>, <<"purchases", "ASSEMBLING">>}
<1>1. {<<"delivery_shipments", f>> : f \in ToSet(NewFields)} = NewFieldFacts
  <2>1. ToSet(NewFields) = {NewFields[i] : i \in 1 .. Len(NewFields)}
    BY FieldsAre DEF ToSet
  <2> QED  BY <2>1, FieldsAre
<1> DEFINE N == {<<"delivery_shipments", f>> : f \in ToSet(NewFields)}
<1> HIDE DEF N
<1>2. N = NewFieldFacts
  BY <1>1 DEF N
<1>3. ModelSchema = {<<"settings">>, <<"settings", "MAP">>, <<"settings", "PRODUCTS_PAGE_LIMIT">>} \cup EventFacts
    \cup (NewCatalog \cup LengthFacts \cup PurchaseFacts \cup PaymentFacts \cup SyncFacts \cup ShipmentFacts \cup (N \cup {<<"purchases", "delivery">>}))
    \cup {<<"purchases", "AWAITING_PAYMENT">>, <<"purchases", "ASSEMBLING">>}
  BY DEF ModelSchema, N, EventFacts, NewCatalog, LengthFacts, PurchaseFacts, PaymentFacts, SyncFacts, ShipmentFacts
<1> QED  BY <1>2, <1>3 DEF DeliveryFacts

(* It is what all the revisions leave, but for two tables without a model. *)
LEMMA ModelIsGood ==
  /\ ModelSchema \in Good(Revisions, Revisions)
  /\ ModelSchema \subseteq Owed(Revisions, Revisions)
  /\ Tables(Allowed(Revisions, Revisions) \ ModelSchema) \subseteq {"product_images", "locale_overrides"}
<1>1. \A f \in AllFacts : f \in ModelSchema => f \in Owed(Revisions, Revisions)
  BY ModelIs DEF Owed, Revisions, SettingsFacts
<1>2. ModelSchema \subseteq AllFacts
  BY ModelIs DEF AllFacts, SettingsFacts
<1>3. \A f \in AllFacts : f \in Owed(Revisions, Revisions) => f \in ModelSchema
  BY ModelIs DEF Owed, Revisions, SettingsFacts
<1>4. ModelSchema \subseteq Allowed(Revisions, Revisions)
  <2>1. \A f \in ModelSchema : f \notin TranslationFacts /\ f \notin MethodFacts /\ f \notin OldFieldFacts
    BY ModelIs DEF AllFacts, LocaleFacts, LocaleIndex, SettingsFacts, EventFacts, TranslationFacts, OptionFacts,
         PropertyFacts, OneCFacts, ProductFacts, AttributeFacts, ImageFacts, OldCatalog, NewCatalog, NewImages,
         LengthFacts, PurchaseFacts, MethodFacts, PaymentFacts, SyncFacts, ShipmentFacts, OldFieldFacts,
         NewFieldFacts, DeliveryFacts, TableNames
  <2>2. \A f \in ModelSchema : f \in OldCatalog => f \in NewCatalog \cup NewImages
    BY ModelIs DEF AllFacts, LocaleFacts, LocaleIndex, SettingsFacts, EventFacts, TranslationFacts, OptionFacts,
         PropertyFacts, OneCFacts, ProductFacts, AttributeFacts, ImageFacts, OldCatalog, NewCatalog, NewImages,
         LengthFacts, PurchaseFacts, MethodFacts, PaymentFacts, SyncFacts, ShipmentFacts, OldFieldFacts,
         NewFieldFacts, DeliveryFacts, TableNames
  <2> QED  BY <1>2, <2>1, <2>2 DEF Allowed, Revisions
<1>5. Consistent(ModelSchema)
  BY ModelIs DEF Consistent, AllFacts, LocaleFacts, LocaleIndex, SettingsFacts, EventFacts, TranslationFacts, OptionFacts,
         PropertyFacts, OneCFacts, ProductFacts, AttributeFacts, ImageFacts, OldCatalog, NewCatalog, NewImages,
         LengthFacts, PurchaseFacts, MethodFacts, PaymentFacts, SyncFacts, ShipmentFacts, OldFieldFacts,
         NewFieldFacts, DeliveryFacts, TableNames
<1>6. ASSUME NEW f \in Allowed(Revisions, Revisions), f \notin ModelSchema PROVE f[1] \in {"product_images", "locale_overrides"}
  <2>1. f \in AllFacts /\ f \notin TranslationFacts /\ f \notin MethodFacts /\ f \notin OldFieldFacts
        /\ (f \in OldCatalog => f \in NewCatalog \cup NewImages)
    BY DEF Allowed, Revisions
  <2>2. f \in LocaleFacts \cup NewImages
    BY <1>6, <2>1, ModelIs DEF AllFacts, SettingsFacts
  <2> QED  BY <2>2 DEF LocaleFacts, LocaleIndex, NewImages
<1>7. \A f \in Owed(Revisions, Revisions) : f \in AllFacts
  BY DEF Owed
<1> QED  BY <1>1, <1>2, <1>3, <1>4, <1>5, <1>6, <1>7 DEF Good, Tables

(* The tables a database had before its first migration are a good schema  *)
(* of no revision.                                                         *)
LEMMA BeforeIsGood ==
  ASSUME NEW x \in Before
  PROVE  x \in Good({}, {})
<1> DEFINE X == {<<"locale_overrides">>, LocaleIndex}
           Y == {<<"settings">>}
           Z == {<<"categories">>, <<"category_translations">>, <<"category_translations", "->", "categories">>}
<1>1. PICK some \in SUBSET {X, Y, Z} : x = UNION some
  BY DEF Before
<1>2. x \subseteq X \cup Y \cup Z
  BY <1>1
<1>3. /\ <<"category_translations", "->", "categories">> \in x => Z \subseteq x
      /\ <<"category_translations">> \in x => Z \subseteq x
      /\ <<"categories">> \in x => Z \subseteq x
      /\ <<"settings">> \in x => Y \subseteq x
      /\ <<"locale_overrides">> \in x => X \subseteq x
      /\ LocaleIndex \in x => X \subseteq x
  <2>1. \A f \in x : \E U \in some : f \in U /\ U \subseteq x
    BY <1>1
  <2>2. /\ X \cap Y = {} /\ X \cap Z = {} /\ Y \cap Z = {}
    BY DEF LocaleIndex
  <2>3. /\ <<"category_translations", "->", "categories">> \in Z /\ <<"category_translations">> \in Z
        /\ <<"categories">> \in Z /\ <<"settings">> \in Y /\ <<"locale_overrides">> \in X /\ LocaleIndex \in X
    OBVIOUS
  <2> HIDE DEF X, Y, Z
  <2> QED  BY <2>1, <2>2, <2>3
<1>4. x \subseteq Allowed({}, {})
  BY <1>2 DEF Allowed, AllFacts, LocaleFacts, LocaleIndex, SettingsFacts, EventFacts, TranslationFacts, OptionFacts,
         PropertyFacts, OneCFacts, ProductFacts, AttributeFacts, ImageFacts, OldCatalog, NewCatalog, NewImages,
         LengthFacts, PurchaseFacts, MethodFacts, PaymentFacts, SyncFacts, ShipmentFacts, OldFieldFacts,
         NewFieldFacts, DeliveryFacts, TableNames
<1>5. Owed({}, {}) = {}
  BY DEF Owed
<1>6. Consistent(x)
  <2>1. ASSUME NEW f \in x PROVE <<f[1]>> \in x
    BY <1>2, <1>3 DEF LocaleIndex
  <2>2. ASSUME NEW t \in TableNames, NEW u \in TableNames, <<t, "->", u>> \in x PROVE <<u>> \in x
    <3>1. <<t, "->", u>> = <<"category_translations", "->", "categories">>
      BY <1>2, <2>2 DEF LocaleIndex
    <3>2. u = "categories"
      BY <3>1
    <3> QED  BY <1>3, <2>2, <3>1, <3>2
  <2> QED  BY <2>1, <2>2 DEF Consistent
<1> QED  BY <1>4, <1>5, <1>6 DEF Good

(* The rows: what a migration's UPDATE leaves of them.                     *)
Rows ==
  [status : {"none", "CREATED", "PROCESSING", "AWAITING_PAYMENT"}, embedded : BOOLEAN,
   delivery : {"none", "embedded", "shipment"}, shipped : BOOLEAN, details : BOOLEAN]

(* The two promises of the revision that simplifies the delivery: an order *)
(* keeps the choice it was embedded with,                                  *)
Recovered(r) == r.embedded => r.delivery # "none"

(* and a shipment has details made from its request.                       *)
Converted(r) == r.shipped => r.details /\ r.delivery = "shipment"

(* An UPDATE keeps what rows have of the shipment and the order; the two   *)
(* of the newest conversion establish what they are for.                   *)
LEMMA UpdatedIs ==
  ASSUME NEW r \in Rows, NEW u
  PROVE  /\ Updated(r, u) \in Rows
         /\ Updated(r, u).shipped = r.shipped /\ Updated(r, u).embedded = r.embedded
         /\ r.details => Updated(r, u).details
         /\ u = "recover" => Recovered(Updated(r, u))
         /\ u = "convert" => Converted(Updated(r, u))
         /\ Recovered(r) => Recovered(Updated(r, u))
<1>1. CASE u = "awaiting" /\ r.status = "PROCESSING"
  <2>1. Updated(r, u) = [r EXCEPT !.status = "AWAITING_PAYMENT"]
    BY <1>1 DEF Updated
  <2>2. [r EXCEPT !.status = "AWAITING_PAYMENT"] \in Rows
    BY DEF Rows
  <2> QED  BY <1>1, <2>1, <2>2 DEF Rows, Recovered, Converted
<1>2. CASE u = "recover" /\ r.embedded
  <2>1. Updated(r, u) = [r EXCEPT !.delivery = "embedded"]
    BY <1>2 DEF Updated
  <2>2. [r EXCEPT !.delivery = "embedded"] \in Rows
    BY DEF Rows
  <2> QED  BY <1>2, <2>1, <2>2 DEF Rows, Recovered, Converted
<1>3. CASE u = "convert" /\ r.shipped
  <2>1. Updated(r, u) = [r EXCEPT !.details = TRUE, !.delivery = "shipment"]
    BY <1>3 DEF Updated
  <2>2. [r EXCEPT !.details = TRUE, !.delivery = "shipment"] \in Rows
    BY DEF Rows
  <2> QED  BY <1>3, <2>1, <2>2 DEF Rows, Recovered, Converted
<1>4. CASE /\ ~(u = "awaiting" /\ r.status = "PROCESSING")
           /\ ~(u = "recover" /\ r.embedded)
           /\ ~(u = "convert" /\ r.shipped)
  <2>1. Updated(r, u) = r
    BY <1>4 DEF Updated
  <2> QED  BY <1>4, <2>1 DEF Recovered, Converted
<1> QED  BY <1>1, <1>2, <1>3, <1>4

(* The statements s are those of a and then those of b.                    *)
Joined(s, a, b) ==
  /\ s \in Seq(Stmts) /\ Len(s) = Len(a) + Len(b)
  /\ \A k \in 1 .. Len(a) : s[k] = a[k]
  /\ \A k \in 1 .. Len(b) : s[Len(a) + k] = b[k]

(* Sequences put together are joined.                                      *)
LEMMA JoinedIs ==
  ASSUME NEW a \in Seq(Stmts), NEW b \in Seq(Stmts)
  PROVE  Joined(a \o b, a, b)
<1> DEFINE s == a \o b
<1>1. /\ s \in Seq(Stmts) /\ Len(s) = Len(a) + Len(b) /\ Len(a) \in Nat /\ Len(b) \in Nat
      /\ \A k \in 1 .. Len(a) + Len(b) : s[k] = IF k <= Len(a) THEN a[k] ELSE b[k - Len(a)]
  BY ConcatProperties
<1> HIDE DEF s
<1>2. ASSUME NEW k \in 1 .. Len(a) PROVE s[k] = a[k]
  BY <1>1
<1>3. ASSUME NEW k \in 1 .. Len(b) PROVE s[Len(a) + k] = b[k]
  <2>1. Len(a) + k \in 1 .. Len(a) + Len(b) /\ ~(Len(a) + k <= Len(a)) /\ (Len(a) + k) - Len(a) = k
    BY <1>1
  <2> QED  BY <1>1, <2>1
<1> QED  BY <1>1, <1>2, <1>3 DEF Joined, s

(* The statements that simplify the delivery: nine add columns, the tenth  *)
(* and the eleventh fill them, and the columns that are dropped come last. *)
LEMMA SimplifyIs ==
  /\ SimplifyDelivery \in Seq(Stmts) /\ Len(SimplifyDelivery) = 22
  /\ \A k \in 1 .. 9 : SimplifyDelivery[k].rows = "" /\ SimplifyDelivery[k].removes = {}
  /\ SimplifyDelivery[10].rows = "recover" /\ SimplifyDelivery[11].rows = "convert"
  /\ \A k \in 12 .. 22 : SimplifyDelivery[k].rows = ""
<1> DEFINE T == "delivery_shipments"
           a1 == Add("purchases", "delivery")
           a2 == Each(T, NewFields)
           a3 == Convert
           a4 == RequireNewFields
           a5 == DropOldFields
<1>1. T \in TableNames /\ "purchases" \in TableNames
  BY DEF TableNames
<1>2. <<"purchases", "delivery">> \in AllFacts /\ NewFieldFacts \subseteq AllFacts /\ OldFieldFacts \subseteq AllFacts
  BY DEF AllFacts, DeliveryFacts
<1>3. /\ \A i \in 1 .. 8 : <<T, NewFields[i]>> \in AllFacts
      /\ \A i \in 1 .. 7 : <<T, RequiredFields[i]>> \in AllFacts
      /\ \A i \in 1 .. 4 : <<T, OldFields[i]>> \in AllFacts
  BY <1>2, FieldsAre DEF RequiredFacts
<1>4. a1 \in Seq(Stmts) /\ Len(a1) = 1 /\ a1[1].rows = "" /\ a1[1].removes = {}
  <2>1. a1 \in Seq(Stmts)
    BY <1>1, <1>2, AddIs
  <2> QED  BY <2>1 DEF Add, Ddl
<1>5. a2 \in Seq(Stmts) /\ Len(a2) = 8 /\ \A i \in 1 .. 8 : a2[i].rows = "" /\ a2[i].removes = {}
  <2> DEFINE f(i) == Add(T, NewFields[i])[1]
             u == [i \in 1 .. 8 |-> f(i)]
  <2>1. a2 = u
    BY FieldsAre DEF Each
  <2>2. \A i \in 1 .. 8 : f(i) \in Stmts
    <3> TAKE i \in 1 .. 8
    <3>1. Add(T, NewFields[i]) \in Seq(Stmts)
      BY <1>1, <1>3, AddIs
    <3>2. Add(T, NewFields[i]) = <<f(i)>>
      BY DEF Add
    <3> QED  BY <3>1, <3>2
  <2>3. \A i \in 1 .. 8 : f(i).rows = "" /\ f(i).removes = {}
    BY DEF Add, Ddl
  <2> HIDE DEF f
  <2>4. u \in Seq(Stmts) /\ Len(u) = 8
    BY <2>2
  <2>5. \A i \in 1 .. 8 : u[i] = f(i)
    OBVIOUS
  <2> HIDE DEF u, a2
  <2> QED  BY <2>1, <2>3, <2>4, <2>5
<1>6. a3 \in Seq(Stmts) /\ Len(a3) = 2 /\ a3[1].rows = "recover" /\ a3[2].rows = "convert"
  <2>1. a3 \in Seq(Stmts)
    BY ConvertIs, ConcatProperties
  <2> QED  BY <2>1 DEF Convert, Dml, Ddl
<1>7. a4 \in Seq(Stmts) /\ Len(a4) = 7 /\ \A i \in 1 .. 7 : a4[i].rows = ""
  <2> DEFINE f(i) == Ensure(T, RequiredFields[i])[1]
             u == [i \in 1 .. 7 |-> f(i)]
  <2>1. a4 = u
    BY FieldsAre DEF RequireNewFields
  <2>2. \A i \in 1 .. 7 : f(i) \in Stmts
    <3> TAKE i \in 1 .. 7
    <3>1. Ensure(T, RequiredFields[i]) \in Seq(Stmts)
      BY <1>1, <1>3, EnsureIs
    <3>2. Ensure(T, RequiredFields[i]) = <<f(i)>>
      BY DEF Ensure
    <3> QED  BY <3>1, <3>2
  <2>3. \A i \in 1 .. 7 : f(i).rows = ""
    BY DEF Ensure, Ddl
  <2> HIDE DEF f
  <2>4. u \in Seq(Stmts) /\ Len(u) = 7
    BY <2>2
  <2>5. \A i \in 1 .. 7 : u[i] = f(i)
    OBVIOUS
  <2> HIDE DEF u, a4
  <2> QED  BY <2>1, <2>3, <2>4, <2>5
<1>8. a5 \in Seq(Stmts) /\ Len(a5) = 4 /\ \A i \in 1 .. 4 : a5[i].rows = ""
  <2> DEFINE f(i) == DropPart(T, OldFields[i])[1]
             u == [i \in 1 .. 4 |-> f(i)]
  <2>1. a5 = u
    BY FieldsAre DEF DropOldFields
  <2>2. \A i \in 1 .. 4 : f(i) \in Stmts
    <3> TAKE i \in 1 .. 4
    <3>1. DropPart(T, OldFields[i]) \in Seq(Stmts)
      BY <1>1, <1>3, DropPartIs
    <3>2. DropPart(T, OldFields[i]) = <<f(i)>>
      BY DEF DropPart
    <3> QED  BY <3>1, <3>2
  <2>3. \A i \in 1 .. 4 : f(i).rows = ""
    BY DEF DropPart, Ddl
  <2> HIDE DEF f
  <2>4. u \in Seq(Stmts) /\ Len(u) = 4
    BY <2>2
  <2>5. \A i \in 1 .. 4 : u[i] = f(i)
    OBVIOUS
  <2> HIDE DEF u, a5
  <2> QED  BY <2>1, <2>3, <2>4, <2>5
<1> DEFINE b2 == a1 \o a2
           b3 == b2 \o a3
           b4 == b3 \o a4
           b5 == b4 \o a5
<1>9. SimplifyDelivery = b5
  BY DEF SimplifyDelivery
<1> HIDE DEF a1, a2, a3, a4, a5
<1>10. /\ b2 \in Seq(Stmts) /\ Len(b2) = 9
       /\ \A k \in 1 .. 1 : b2[k] = a1[k]
       /\ \A k \in 1 .. 8 : b2[1 + k] = a2[k]
  <2>1. Joined(b2, a1, a2) /\ Len(a1) = 1 /\ Len(a2) = 8
    BY <1>4, <1>5, JoinedIs
  <2> HIDE DEF b2
  <2> QED  BY <2>1 DEF Joined
<1> HIDE DEF b2
<1>11. /\ b3 \in Seq(Stmts) /\ Len(b3) = 11
       /\ \A k \in 1 .. 9 : b3[k] = b2[k]
       /\ \A k \in 1 .. 2 : b3[9 + k] = a3[k]
  <2>1. Joined(b3, b2, a3) /\ Len(b2) = 9 /\ Len(a3) = 2
    BY <1>6, <1>10, JoinedIs
  <2> HIDE DEF b3
  <2> QED  BY <2>1 DEF Joined
<1> HIDE DEF b3
<1>12. /\ b4 \in Seq(Stmts) /\ Len(b4) = 18
       /\ \A k \in 1 .. 11 : b4[k] = b3[k]
       /\ \A k \in 1 .. 7 : b4[11 + k] = a4[k]
  <2>1. Joined(b4, b3, a4) /\ Len(b3) = 11 /\ Len(a4) = 7
    BY <1>7, <1>11, JoinedIs
  <2> HIDE DEF b4
  <2> QED  BY <2>1 DEF Joined
<1> HIDE DEF b4
<1>13. /\ b5 \in Seq(Stmts) /\ Len(b5) = 22
       /\ \A k \in 1 .. 18 : b5[k] = b4[k]
       /\ \A k \in 1 .. 4 : b5[18 + k] = a5[k]
  <2>1. Joined(b5, b4, a5) /\ Len(b4) = 18 /\ Len(a5) = 4
    BY <1>8, <1>12, JoinedIs
  <2> HIDE DEF b5
  <2> QED  BY <2>1 DEF Joined
<1> HIDE DEF b5
<1>14. \A k \in 1 .. 9 : b2[k].rows = "" /\ b2[k].removes = {}
  <2> TAKE k \in 1 .. 9
  <2>1. CASE k = 1
    <3>1. b2[1] = a1[1]
      BY <1>10
    <3> QED  BY <1>4, <2>1, <3>1
  <2>2. CASE k # 1
    <3>1. k - 1 \in 1 .. 8 /\ 1 + (k - 1) = k
      BY <2>2
    <3>2. b2[1 + (k - 1)] = a2[k - 1]
      BY <1>10, <3>1
    <3> QED  BY <1>5, <3>1, <3>2
  <2> QED  BY <2>1, <2>2
<1>15. \A k \in 12 .. 18 : b4[k].rows = ""
  <2> TAKE k \in 12 .. 18
  <2>1. k - 11 \in 1 .. 7 /\ 11 + (k - 11) = k
    OBVIOUS
  <2>2. b4[11 + (k - 11)] = a4[k - 11]
    BY <1>12, <2>1
  <2> QED  BY <1>7, <2>1, <2>2
<1>16. \A k \in 19 .. 22 : b5[k].rows = ""
  <2> TAKE k \in 19 .. 22
  <2>1. k - 18 \in 1 .. 4 /\ 18 + (k - 18) = k
    OBVIOUS
  <2>2. b5[18 + (k - 18)] = a5[k - 18]
    BY <1>13, <2>1
  <2> QED  BY <1>8, <2>1, <2>2
<1>17. /\ \A k \in 1 .. 9 : b5[k] = b2[k]
       /\ b5[10] = a3[1] /\ b5[11] = a3[2]
       /\ \A k \in 12 .. 18 : b5[k] = b4[k]
  <2>1. b3[9 + 1] = a3[1] /\ b3[9 + 2] = a3[2]
    BY <1>11
  <2> QED  BY <1>11, <1>12, <1>13, <2>1
<1>18. \A k \in 12 .. 22 : k \in 12 .. 18 \/ k \in 19 .. 22
  OBVIOUS
<1>19. b5 \in Seq(Stmts) /\ Len(b5) = 22
  BY <1>13
<1>20. b5[10].rows = "recover" /\ b5[11].rows = "convert"
  BY <1>6, <1>17
<1>21. \A k \in 12 .. 22 : b5[k].rows = ""
  BY <1>15, <1>16, <1>17, <1>18
<1>22. \A k \in 1 .. 9 : b5[k].rows = "" /\ b5[k].removes = {}
  BY <1>14, <1>17
<1> QED  BY <1>9, <1>19, <1>20, <1>21, <1>22
=============================================================================
