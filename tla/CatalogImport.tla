---------------------------- MODULE CatalogImport ----------------------------
(***************************************************************************)
(* The local projection of MoySklad's products and variants, as the manual *)
(* import (MoySkladImportService._import_assortment) and the queue         *)
(* (MoySkladSyncService.sync_entity) write it: which row an upstream entity*)
(* is matched with, what the unique keys of the tables refuse, what is     *)
(* archived and what stays on sale.                                        *)
(*                                                                         *)
(* Each of the two is one transaction and here one step: what comes        *)
(* between reading and writing is the subject of SyncQueue.  One that      *)
(* raises changes nothing; a task that fails is tried again.               *)
(***************************************************************************)
EXTENDS Naturals, SequencesExt

CONSTANTS
  Products,    \* uuids of upstream products
  Variants,    \* uuids of upstream variants
  Owner,       \* the product of a variant, which MoySklad does not change
  Codes,       \* values of code, and of externalCode
  Categories,  \* the last parts of pathName
  Looks,       \* the characteristics, price and quantity a variant can have
  Changes,     \* which changes MoySklad's users make
  MaxChanges   \* bound: how many of them

AllChanges == {"code", "archive", "delete", "create", "look", "category"}

ASSUME CatalogAssumption ==
  /\ IsFiniteSet(Products) /\ IsFiniteSet(Variants)
  /\ Categories # {} /\ Looks # {}
  /\ Owner \in [Variants -> Products]
  /\ Products \cup Variants \subseteq Codes
  /\ Changes \subseteq AllChanges
  /\ MaxChanges \in Nat

VARIABLES
  upProducts,  \* MoySklad: the products, by uuid
  upVariants,  \* MoySklad: the variants, by uuid
  products,    \* the products table; a row is named by its place
  variants,    \* product_variants with offers and attribute links
  pending,     \* entities with a sync task that has not succeeded since the last change
  changes

vars == <<upProducts, upVariants, products, variants, pending, changes>>

up == <<upProducts, upVariants>>

-----------------------------------------------------------------------------
(* MoySklad.                                                               *)

\* What an assortment lists: an entity that exists and is not archived.
Listed(e) == e.state = "live" /\ ~e.archived

Importable == {p \in Products : Listed(upProducts[p]) /\ \E v \in Variants : Owner[v] = p /\ Listed(upVariants[v])}

ListedVariants(ps) == {v \in Variants : Owner[v] \in ps /\ Listed(upVariants[v])}

-----------------------------------------------------------------------------
(* Matching of identities.                                                 *)

\* (mutant) Only the uuid identifies.
MatchesUuid(rows, d) == {i \in DOMAIN rows : rows[i].uuid = d.uuid}

\* The local rows that share an identifier with the upstream row d, archived
\* ones included.
Matches(rows, d) ==
  {i \in DOMAIN rows : rows[i].uuid = d.uuid \/ rows[i].code = d.code \/ rows[i].ext = d.ext}

\* The matched row is rewritten, or a row is added; rows rewritten before count
\* with their new identifiers.  More than one match raises.
Place(acc, d) ==
  LET m == Matches(acc.rows, d)
  IN  CASE m = {}              -> [acc EXCEPT !.rows = Append(@, d)]
        [] \E i \in m : m = {i} -> [acc EXCEPT !.rows[CHOOSE i \in m : TRUE] = d]
        [] OTHER               -> [acc EXCEPT !.ok = FALSE]

Placed(rows, data) ==
  LET after[n \in 0 .. Len(data)] ==
        IF n = 0 THEN [rows |-> rows, ok |-> TRUE] ELSE Place(after[n - 1], data[n])
  IN  after[Len(data)]

\* The flush updates the rows in the order of their ids and then inserts: the
\* unique key of a column refuses a value another row still has at that moment.
Flushable(old, new) ==
  \A column \in {"uuid", "code"} : \A i, k \in DOMAIN new :
    i # k => new[i][column] # IF k > i /\ k \in DOMAIN old /\ new[i][column] # old[i][column]
                              THEN old[k][column] ELSE new[k][column]

ProductData(p) ==
  [uuid |-> p, code |-> upProducts[p].code, ext |-> upProducts[p].ext,
   category |-> upProducts[p].category, archived |-> upProducts[p].archived]

RowOf(rows, uuid) == CHOOSE i \in DOMAIN rows : rows[i].uuid = uuid

\* The offer is active unless the variant is archived.
VariantData(v, rows) ==
  [uuid |-> v, code |-> upVariants[v].code, ext |-> upVariants[v].ext, look |-> upVariants[v].look,
   product |-> RowOf(rows, Owner[v]), archived |-> upVariants[v].archived, active |-> ~upVariants[v].archived]

\* _load_products, _load_variants with what follows them: the rows of the
\* products in ps and the variants in vs, in the order of the two sequences.
Loaded(ps, vs) ==
  LET p == Placed(products, [i \in DOMAIN ps |-> ProductData(ps[i])])
      v == Placed(variants, [i \in DOMAIN vs |-> VariantData(vs[i], p.rows)])
  IN  [products |-> p.rows, variants |-> v.rows,
       ok |-> p.ok /\ Flushable(products, p.rows) /\ v.ok /\ Flushable(variants, v.rows)]

\* What stops being sold: archived, with an inactive offer.
Withdrawn(row) == [row EXCEPT !.archived = TRUE, !.active = FALSE]

-----------------------------------------------------------------------------
(* The manual import.                                                      *)

\* (mutant) The variants are archived, their offers are forgotten.
ArchivedRows(rows, vs) ==
  [i \in DOMAIN rows |-> IF rows[i].uuid \in vs THEN rows[i] ELSE [rows[i] EXCEPT !.archived = TRUE]]

\* _archive_missing, for variants and for products.
ArchiveMissing(rows, vs) ==
  [i \in DOMAIN rows |-> IF rows[i].uuid \in vs THEN rows[i] ELSE Withdrawn(rows[i])]

ArchiveMissingProducts(rows, ps) ==
  [i \in DOMAIN rows |-> IF rows[i].uuid \in ps THEN rows[i] ELSE [rows[i] EXCEPT !.archived = TRUE]]

\* The variants vs come in the order of their products ps.
Grouped(ps, vs) ==
  \A i, k \in DOMAIN vs : \A m, n \in DOMAIN ps : i < k /\ Owner[vs[i]] = ps[m] /\ Owner[vs[k]] = ps[n] => m <= n

\* The order of an assortment: products, and variants by product.
Orders ==
  {order \in SetToSeqs(Importable) \X SetToSeqs(ListedVariants(Importable)) : Grouped(order[1], order[2])}

\* A listed variant whose product is not listed raises.
Import ==
  /\ \A v \in Variants : Listed(upVariants[v]) => Listed(upProducts[Owner[v]])
  /\ \E order \in Orders :
       LET loaded == Loaded(order[1], order[2])
       IN  /\ loaded.ok
           /\ products' = ArchiveMissingProducts(loaded.products, Importable)
           /\ variants' = ArchiveMissing(loaded.variants, ListedVariants(Importable))
  /\ UNCHANGED <<up, pending, changes>>

-----------------------------------------------------------------------------
(* The queue.                                                              *)

Done(e) == pending' = pending \ {e}

\* (mutant) The variants of an archived product stay.
ArchiveProductAlone(p) ==
  /\ <<"product", p>> \in pending
  /\ ~Listed(upProducts[p])
  /\ products' = [i \in DOMAIN products |->
                    IF products[i].uuid = p THEN [products[i] EXCEPT !.archived = TRUE] ELSE products[i]]
  /\ Done(<<"product", p>>)
  /\ UNCHANGED <<up, variants, changes>>

\* archive_entity: a product takes its local variants along.
ArchiveProduct(p) ==
  /\ <<"product", p>> \in pending
  /\ ~Listed(upProducts[p])
  /\ LET gone == {i \in DOMAIN products : products[i].uuid = p}
     IN  /\ products' = [i \in DOMAIN products |->
                           IF i \in gone THEN [products[i] EXCEPT !.archived = TRUE] ELSE products[i]]
         /\ variants' = [i \in DOMAIN variants |->
                           IF variants[i].product \in gone THEN Withdrawn(variants[i]) ELSE variants[i]]
  /\ Done(<<"product", p>>)
  /\ UNCHANGED <<up, changes>>

ArchiveVariant(v) ==
  /\ <<"variant", v>> \in pending
  /\ ~Listed(upVariants[v])
  /\ variants' = [i \in DOMAIN variants |->
                    IF variants[i].uuid = v THEN Withdrawn(variants[i]) ELSE variants[i]]
  /\ Done(<<"variant", v>>)
  /\ UNCHANGED <<up, products, changes>>

\* (mutant) Every list of variants counts as complete.
CompletedAlways(rows, id, vs, complete) ==
  [i \in DOMAIN rows |->
     IF rows[i].product = id /\ rows[i].uuid \notin vs THEN Withdrawn(rows[i]) ELSE rows[i]]

\* A complete list of a product's variants withdraws the others.
Completed(rows, id, vs, complete) ==
  [i \in DOMAIN rows |->
     IF complete /\ rows[i].product = id /\ rows[i].uuid \notin vs THEN Withdrawn(rows[i]) ELSE rows[i]]

\* The offers of an archived product are inactive.
Offered(rows, id, archived) ==
  [i \in DOMAIN rows |->
     IF archived /\ rows[i].product = id THEN [rows[i] EXCEPT !.active = FALSE] ELSE rows[i]]

\* sync_product for product p with the variants of the sequence vs.
SyncProduct(p, vs, complete) ==
  LET loaded == Loaded(<<p>>, vs)
      id == RowOf(loaded.products, p)
  IN  /\ loaded.ok
      /\ products' = loaded.products
      /\ variants' = Offered(Completed(loaded.variants, id, ToSet(vs), complete), id, loaded.products[id].archived)

SyncEntireProduct(p) ==
  /\ <<"product", p>> \in pending
  /\ Listed(upProducts[p])
  /\ \E vs \in SetToSeqs(ListedVariants({p})) : SyncProduct(p, vs, TRUE)
  /\ Done(<<"product", p>>)
  /\ UNCHANGED <<up, changes>>

\* A variant is written with its product, archived or not.
SyncVariant(v) ==
  /\ <<"variant", v>> \in pending
  /\ Listed(upVariants[v])
  /\ SyncProduct(Owner[v], <<v>>, FALSE)
  /\ Done(<<"variant", v>>)
  /\ UNCHANGED <<up, changes>>

-----------------------------------------------------------------------------
(* Changes at MoySklad, each with its notification.                        *)

Changed(kind, entities) ==
  /\ kind \in Changes
  /\ changes < MaxChanges
  /\ changes' = changes + 1
  /\ pending' = pending \cup entities
  /\ UNCHANGED <<products, variants>>

Taken(es, field(_)) == {field(es[e]) : e \in {x \in DOMAIN es : es[x].state = "live"}}

\* MoySklad's identifiers are unique.
FreeCodes(es) == Codes \ Taken(es, LAMBDA e : e.code)
FreeExts(es) == Codes \ Taken(es, LAMBDA e : e.ext)

ChangeProduct(p) ==
  /\ upProducts[p].state = "live"
  /\ \/ \E c \in FreeCodes(upProducts) : upProducts' = [upProducts EXCEPT ![p].code = c] /\ Changed("code", {<<"product", p>>})
     \/ upProducts' = [upProducts EXCEPT ![p].archived = ~@] /\ Changed("archive", {<<"product", p>>})
     \/ \E c \in Categories \ {upProducts[p].category} :
          upProducts' = [upProducts EXCEPT ![p].category = c] /\ Changed("category", {<<"product", p>>})
  /\ UNCHANGED upVariants

ChangeVariant(v) ==
  /\ upVariants[v].state = "live"
  /\ \/ \E c \in FreeCodes(upVariants) : upVariants' = [upVariants EXCEPT ![v].code = c] /\ Changed("code", {<<"variant", v>>})
     \/ upVariants' = [upVariants EXCEPT ![v].archived = ~@] /\ Changed("archive", {<<"variant", v>>})
     \/ upVariants' = [upVariants EXCEPT ![v].state = "gone"] /\ Changed("delete", {<<"variant", v>>})
     \/ \E l \in Looks \ {upVariants[v].look} :
          upVariants' = [upVariants EXCEPT ![v].look = l] /\ Changed("look", {<<"variant", v>>})
  /\ UNCHANGED upProducts

\* A new entity, perhaps with the identifiers of a deleted or renamed one.
CreateVariant(v) ==
  /\ upVariants[v].state = "new"
  /\ upProducts[Owner[v]].state = "live"
  /\ \E c \in FreeCodes(upVariants), x \in FreeExts(upVariants) :
       upVariants' = [upVariants EXCEPT ![v].state = "live", ![v].code = c, ![v].ext = x]
  /\ Changed("create", {<<"variant", v>>})
  /\ UNCHANGED upProducts

\* The variants go with their product.
DeleteProduct(p) ==
  /\ upProducts[p].state = "live"
  /\ upProducts' = [upProducts EXCEPT ![p].state = "gone"]
  /\ upVariants' = [v \in Variants |-> IF Owner[v] = p THEN [upVariants[v] EXCEPT !.state = "gone"] ELSE upVariants[v]]
  /\ Changed("delete", {<<"product", p>>})

-----------------------------------------------------------------------------

\* A first import of an assortment of which some entities do not exist yet.
InitWith(newVariants) ==
  /\ upProducts = [p \in Products |-> [state |-> "live", code |-> p, ext |-> p, archived |-> FALSE,
                                       category |-> CHOOSE c \in Categories : TRUE]]
  /\ upVariants = [v \in Variants |-> [state |-> IF v \in newVariants THEN "new" ELSE "live", code |-> v,
                                       ext |-> v, archived |-> FALSE, look |-> CHOOSE l \in Looks : TRUE]]
  /\ products = [i \in 1 .. Len(SetToSeq(Products)) |-> ProductData(SetToSeq(Products)[i])]
  /\ variants = LET vs == SetToSeq(Variants \ newVariants)
                IN  [i \in DOMAIN vs |-> VariantData(vs[i], products)]
  /\ pending = {}
  /\ changes = 0

\* Owners of several variants have one that is still to come.
Init == \E new \in SUBSET Variants : (\A p \in Products : \E v \in Variants \ new : Owner[v] = p) /\ InitWith(new)

Next ==
  \/ Import
  \/ \E p \in Products : ArchiveProduct(p) \/ SyncEntireProduct(p) \/ ChangeProduct(p) \/ DeleteProduct(p)
  \/ \E v \in Variants : ArchiveVariant(v) \/ SyncVariant(v) \/ ChangeVariant(v) \/ CreateVariant(v)

Spec == Init /\ [][Next]_vars

-----------------------------------------------------------------------------
(* Properties.                                                             *)

ProductRows == [uuid : Products, code : Codes, ext : Codes, category : Categories, archived : BOOLEAN]

VariantRows ==
  [uuid : Variants, code : Codes, ext : Codes, look : Looks, product : DOMAIN products,
   archived : BOOLEAN, active : BOOLEAN]

\* The tables have the types and the unique keys of models/products.py.
TypeOK ==
  /\ products \in Seq(ProductRows)
  /\ variants \in Seq(VariantRows)
  /\ \A i, k \in DOMAIN products : i # k => products[i].uuid # products[k].uuid /\ products[i].code # products[k].code
  /\ \A i, k \in DOMAIN variants : i # k => variants[i].uuid # variants[k].uuid /\ variants[i].code # variants[k].code
  /\ pending \subseteq ({"product"} \X Products) \cup ({"variant"} \X Variants)
  /\ changes \in 0 .. MaxChanges

\* What the storefront sells, and what MoySklad offers.
Sold ==
  {[variant |-> variants[i].uuid, product |-> products[variants[i].product].uuid, code |-> variants[i].code,
    look |-> variants[i].look, category |-> products[variants[i].product].category] :
     i \in {j \in DOMAIN variants : variants[j].active}}

Offers ==
  {[variant |-> v, product |-> Owner[v], code |-> upVariants[v].code,
    look |-> upVariants[v].look, category |-> upProducts[Owner[v]].category] :
     v \in {x \in Variants : Listed(upVariants[x]) /\ Listed(upProducts[Owner[x]])}}

\* When the task of every changed entity has succeeded, in whatever order, the
\* storefront sells what MoySklad offers: no synchronization of one entity
\* undoes what another's has written.
QuietIsMirror == pending = {} => Sold = Offers

\* A successful import leaves nothing else on sale, whatever was there before.
ImportMirrors == [][Import => Sold' = Offers]_vars

SameRow(a, b) == a.uuid = b.uuid \/ a.code = b.code \/ a.ext = b.ext

\* No two rows, archived ones included, share an identifier, although
\* external_code has no unique key: what is created anew with an identifier of
\* something deleted takes over the row that purchases refer to.
RowsAreApart ==
  /\ TypeOK
  /\ \A i, k \in DOMAIN variants : i # k => ~SameRow(variants[i], variants[k])
  /\ \A i, k \in DOMAIN products : i # k => ~SameRow(products[i], products[k])
=============================================================================
