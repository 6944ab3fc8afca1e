----------------------------- MODULE Storefront -----------------------------
(***************************************************************************)
(* The public queries of services/product_service.py over the projection   *)
(* that CatalogImport keeps: the filtered list in pages (get_stock), the   *)
(* values a filter still offers (get_stock_availability), and the page of  *)
(* one product (get_product).  They are functions of the tables, checked in*)
(* every state imports and synchronizations can leave.                     *)
(*                                                                         *)
(* Rows have no names here: the list is in the order of ids.  Option values*)
(* contain no comma, at which the query string is split.                   *)
(***************************************************************************)
EXTENDS CatalogImport, FiniteSetsExt

CONSTANTS
  Facets,     \* the filters that are characteristics, besides the category
  Unset,      \* a characteristic a variant does not have
  Narrowing,  \* the facets a choice of the category ignores: cuts and form
  Limits      \* page sizes: the setting or the parameter, 1 to 100

ASSUME StorefrontAssumption ==
  /\ Looks \subseteq [Facets -> UNION {{l[f] : l \in Looks} : f \in Facets}]
  /\ Narrowing \subseteq Facets /\ "category" \notin Facets
  /\ Limits \subseteq Nat \ {0}

Values(f) == {l[f] : l \in Looks} \ {Unset}

\* An absent filter and an empty one are the same.
Filters == [category : SUBSET Categories, look : {c \in [Facets -> SUBSET UNION {Values(f) : f \in Facets}] :
                                                     \A f \in Facets : c[f] \subseteq Values(f)}]

NoFilters == [category |-> {}, look |-> [f \in Facets |-> {}]]

Allows(chosen, value) == chosen = {} \/ value \in chosen

\* _stock_variant_condition.
Meets(row, filters, excluded) ==
  /\ ~row.archived
  /\ row.active
  /\ \A f \in Facets \ excluded : Allows(filters.look[f], row.look[f])

Listing(filters) ==
  {p \in DOMAIN products :
     /\ ~products[p].archived
     /\ Allows(filters.category, products[p].category)
     /\ \E i \in DOMAIN variants : variants[i].product = p /\ Meets(variants[i], filters, {})}

\* ORDER BY, of which the id is what is left without names: before the k-th there
\* are k - 1.
InOrder(ids) == [k \in 1 .. Cardinality(ids) |-> CHOOSE id \in ids : Cardinality({x \in ids : x < id}) = k - 1]

\* OFFSET and LIMIT, or a Python slice: at most what there is.
Slice(s, first, last) == SubSeq(s, first, Min({last, Len(s)}))

\* The query asks for one row more than the page, which tells whether there is a
\* next one.
Rows(filters, page, limit) ==
  LET all == InOrder(Listing(filters))
  IN  Slice(all, page * limit + 1, page * limit + limit + 1)

\* (mutant) A full page has a next one.
HasNextWhenFull(rows, limit) == Len(rows) >= limit

HasNext(rows, limit) == Len(rows) > limit

Page(filters, page, limit) ==
  LET rows == Rows(filters, page, limit)
  IN  [items |-> Slice(rows, 1, limit), next |-> HasNext(rows, limit)]

\* (mutant) The category depends on every filter but itself.
ExcludedSelf(f) == {f}

\* Which filters the values of a filter do not depend on.
Excluded(f) == IF f = "category" THEN {"category"} \cup Narrowing ELSE {f}

\* get_stock_availability: the values of facet f, or the categories.
Sellable(filters, f) ==
  {i \in DOMAIN variants :
     /\ ~products[variants[i].product].archived
     /\ Meets(variants[i], filters, Excluded(f))
     /\ "category" \in Excluded(f) \/ Allows(filters.category, products[variants[i].product].category)}

Available(filters, f) ==
  IF f = "category" THEN {products[variants[i].product].category : i \in Sellable(filters, f)}
  ELSE {variants[i].look[f] : i \in Sellable(filters, f)} \ {Unset}

\* get_product: the product is available if it shows a variant; whether it is
\* archived is not looked at.
Shown(p) == \E i \in DOMAIN variants : variants[i].product = p /\ ~variants[i].archived /\ variants[i].active

-----------------------------------------------------------------------------
(* Properties.                                                             *)

\* The filters after a click on a value: choosing a category resets the filters
\* it ignores.
Clicked(filters, f, value) ==
  IF f = "category"
    THEN [category |-> {value}, look |-> [g \in Facets |-> IF g \in Narrowing THEN {} ELSE filters.look[g]]]
    ELSE [filters EXCEPT !.look[f] = {value}]

\* The values that are offered are exactly those that lead to a list with at least
\* one product.
FacetsAreReachable ==
  \A filters \in Filters :
    /\ \A c \in Categories : c \in Available(filters, "category") <=> Listing(Clicked(filters, "category", c)) # {}
    /\ \A f \in Facets : \A value \in Values(f) :
         value \in Available(filters, f) <=> Listing(Clicked(filters, f, value)) # {}

\* Following the pages while there is a next one shows every product of the list
\* once, and no page is empty but the only one.
PagesPartition ==
  \A limit \in Limits :
    LET all == InOrder(Listing(NoFilters))
        n == Len(all)
    IN  \A page \in 0 .. n :
          LET shown == Page(NoFilters, page, limit)
          IN  /\ shown.next <=> n > (page + 1) * limit
              /\ shown.next => Len(shown.items) = limit /\ Page(NoFilters, page + 1, limit).items # <<>>
              /\ \A k \in DOMAIN shown.items : shown.items[k] = all[page * limit + k]

\* Nothing archived is sold: the offer of an archived variant, or of an archived
\* product, is never active, which is all that a purchase looks at; and a product
\* has a page exactly if the list shows it, although the page does not look at
\* whether the product is archived.
ArchivedIsNotSold ==
  /\ \A i \in DOMAIN variants : variants[i].active => ~variants[i].archived /\ ~products[variants[i].product].archived
  /\ \A p \in DOMAIN products : Shown(p) <=> p \in Listing(NoFilters)
=============================================================================
