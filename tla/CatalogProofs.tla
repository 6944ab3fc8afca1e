---------------------------- MODULE CatalogProofs ----------------------------
(***************************************************************************)
(* Proofs about the catalog: what imports and synchronizations leave in    *)
(* the tables, and what the storefront says of them, for every set of      *)
(* products, variants, codes and facets and every number of changes.       *)
(***************************************************************************)
EXTENDS Storefront, FiniteSetTheorems, SequenceTheorems, WellFoundedInduction, TLAPS

Apart(rows) == \A i, k \in DOMAIN rows : i # k => ~SameRow(rows[i], rows[k])

(* What is left of rows after the first n of data: each of those has a row,*)
(* and a row that was there is as it was or has been taken over by the one *)
(* of data that shares an identifier with it.                              *)
Merged(old, data, n, new) ==
  /\ Len(old) <= Len(new)
  /\ \A j \in 1 .. n : \E i \in DOMAIN new : new[i] = data[j]
  /\ \A i \in DOMAIN new :
       \/ i \in DOMAIN old /\ new[i] = old[i]
       \/ \E j \in 1 .. n : new[i] = data[j] /\ (i \in DOMAIN old => SameRow(old[i], data[j]))
  /\ (\A j \in DOMAIN data : \E i \in DOMAIN old : old[i].uuid = data[j].uuid) =>
       Len(new) = Len(old) /\ \A i \in DOMAIN new : new[i].uuid = old[i].uuid

(* The same for one row.                                                   *)
Adds(old, d, new) ==
  /\ Len(old) <= Len(new)
  /\ \E i \in DOMAIN new :
       /\ new[i] = d /\ (i \in DOMAIN old => SameRow(old[i], d))
       /\ \A k \in DOMAIN new : k # i => k \in DOMAIN old /\ new[k] = old[k]
  /\ (\E i \in DOMAIN old : old[i].uuid = d.uuid) =>
       Len(new) = Len(old) /\ \A i \in DOMAIN new : new[i].uuid = old[i].uuid

(* MoySklad: identifiers are unique among what exists.                     *)
Upstream ==
  /\ upProducts \in [Products -> [state : {"live", "gone"}, code : Codes, ext : Codes, archived : BOOLEAN,
                                  category : Categories]]
  /\ upVariants \in [Variants -> [state : {"new", "live", "gone"}, code : Codes, ext : Codes, archived : BOOLEAN,
                                  look : Looks]]
  /\ \A p, q \in Products : p # q /\ upProducts[p].state = "live" /\ upProducts[q].state = "live" =>
       upProducts[p].code # upProducts[q].code /\ upProducts[p].ext # upProducts[q].ext
  /\ \A v, w \in Variants : v # w /\ upVariants[v].state = "live" /\ upVariants[w].state = "live" =>
       upVariants[v].code # upVariants[w].code /\ upVariants[v].ext # upVariants[w].ext
  /\ \A v \in Variants : upVariants[v].state = "live" => upProducts[Owner[v]].state = "live"
  /\ pending \subseteq ({"product"} \X Products) \cup ({"variant"} \X Variants)
  /\ changes \in 0 .. MaxChanges

(* The tables.  A product never loses its row, since each has had one from *)
(* the first import on; rows of variants may be taken over.                *)
Tables ==
  /\ products \in Seq(ProductRows) /\ variants \in Seq(VariantRows)
  /\ Apart(products) /\ Apart(variants)
  /\ \A p \in Products : \E i \in DOMAIN products : products[i].uuid = p
  /\ \A i \in DOMAIN variants : products[variants[i].product].uuid = Owner[variants[i].uuid]

(* What is on sale is not archived.                                        *)
OnSale ==
  \A i \in DOMAIN variants : variants[i].active => ~variants[i].archived /\ ~products[variants[i].product].archived

(* A variant that MoySklad offers is on sale as it is there, another one is*)
(* not on sale.                                                            *)
IsOffered(v) == Listed(upVariants[v]) /\ Listed(upProducts[Owner[v]])

Exact(v) ==
  \E i \in DOMAIN variants :
    /\ variants[i].uuid = v /\ variants[i].active
    /\ variants[i].code = upVariants[v].code /\ variants[i].ext = upVariants[v].ext
    /\ variants[i].look = upVariants[v].look
    /\ products[variants[i].product].category = upProducts[Owner[v]].category

Mirrored(v) ==
  IF IsOffered(v) THEN Exact(v) ELSE \A i \in DOMAIN variants : variants[i].uuid = v => ~variants[i].active

(* Unless a task waits for it or for its product.                          *)
Current(v) == <<"variant", v>> \in pending \/ <<"product", Owner[v]>> \in pending \/ Mirrored(v)

(* Some rows are archived, or only their offers: they are on sale no more. *)
Dimmed(old, new) ==
  /\ new \in Seq(VariantRows) /\ DOMAIN new = DOMAIN old
  /\ \A i \in DOMAIN old :
       /\ new[i].uuid = old[i].uuid /\ new[i].code = old[i].code /\ new[i].ext = old[i].ext
       /\ new[i].product = old[i].product
       /\ new[i].active => new[i] = old[i]

CatalogInv == Upstream /\ Tables /\ OnSale /\ \A v \in Variants : Current(v)

-----------------------------------------------------------------------------
(* Placing rows one after the other.                                       *)

(* Induction: a set of numbers that is not empty has a least element.      *)
LEMMA LeastNumber ==
  ASSUME NEW T, T \subseteq Nat, T # {}
  PROVE  \E x \in T : \A y \in T : x <= y
<1>1. PICK x \in T : \A y \in T : ~(<<y, x>> \in OpToRel(<, Nat))
  BY WFMin, NatLessThanWellFounded
<1>2. ASSUME NEW y \in T PROVE x <= y
  <2>1. <<y, x>> \in Nat \X Nat
    OBVIOUS
  <2>2. ~(y < x)
    BY <1>1, <2>1 DEF OpToRel
  <2> QED
    BY <2>1, <2>2
<1> QED
  BY <1>2

(* The recursion of Placed has a solution: it is built up to every length. *)
LEMMA PlacedSteps ==
  ASSUME NEW rows, NEW S, NEW data \in Seq(S)
  PROVE  \E after : /\ DOMAIN after = 0 .. Len(data)
                    /\ after[0] = [rows |-> rows, ok |-> TRUE]
                    /\ \A n \in 1 .. Len(data) : after[n] = Place(after[n - 1], data[n])
                    /\ Placed(rows, data) = after[Len(data)]
<1> DEFINE N == Len(data)
           Step(f, n) == IF n = 0 THEN [rows |-> rows, ok |-> TRUE] ELSE Place(f[n - 1], data[n])
           UpTo(n) == \E f : f = [m \in 0 .. n |-> Step(f, m)]
           T == {n \in 0 .. N : ~UpTo(n)}
<1>0. N \in Nat
  OBVIOUS
<1>1. UpTo(0)
  <2> DEFINE g == [m \in 0 .. 0 |-> [rows |-> rows, ok |-> TRUE]]
  <2>1. g = [m \in 0 .. 0 |-> Step(g, m)]
    OBVIOUS
  <2> QED
    BY <2>1
<1>2. ASSUME NEW n \in Nat, UpTo(n) PROVE UpTo(n + 1)
  <2>1. PICK f : f = [m \in 0 .. n |-> Step(f, m)]
    BY <1>2
  <2> DEFINE g == [m \in 0 .. n + 1 |-> IF m = n + 1 THEN Place(f[n], data[n + 1]) ELSE f[m]]
  <2>2. ASSUME NEW m \in 0 .. n + 1 PROVE g[m] = Step(g, m)
    <3>1. CASE m = n + 1
      <4>1. g[m] = Place(f[n], data[m]) /\ g[m - 1] = f[n] /\ m # 0 /\ m - 1 = n
        BY <3>1
      <4> QED
        BY <4>1
    <3>2. CASE m # n + 1 /\ m # 0
      <4>1. m \in 0 .. n /\ m - 1 \in 0 .. n /\ g[m] = f[m] /\ g[m - 1] = f[m - 1]
        BY <3>2
      <4>2. f[m] = Step(f, m)
        BY <2>1, <4>1
      <4> QED
        BY <3>2, <4>1, <4>2
    <3>3. CASE m # n + 1 /\ m = 0
      <4>1. m \in 0 .. n /\ g[m] = f[m]
        BY <3>3
      <4>2. f[m] = Step(f, m)
        BY <2>1, <4>1
      <4> QED
        BY <3>3, <4>1, <4>2
    <3> QED
      BY <3>1, <3>2, <3>3
  <2>3. g = [m \in 0 .. n + 1 |-> Step(g, m)]
    BY <2>2
  <2> HIDE DEF g
  <2> QED
    BY <2>3
<1>3. UpTo(N)
  <2> HIDE DEF UpTo
  <2> SUFFICES ASSUME T # {} PROVE FALSE
    BY <1>0 DEF T
  <2>0. T \subseteq Nat
    BY <1>0 DEF T
  <2>1. PICK x \in T : \A y \in T : x <= y
    <3> HIDE DEF T
    <3> QED
      BY <2>0, LeastNumber
  <2>2. x # 0 /\ x - 1 \in Nat /\ x - 1 \notin T /\ x - 1 \in 0 .. N
    BY <1>0, <1>1, <2>1 DEF T
  <2>3. UpTo(x - 1)
    BY <2>2 DEF T
  <2>4. UpTo((x - 1) + 1)
    BY <1>2, <2>2, <2>3
  <2> QED
    BY <2>1, <2>2, <2>4 DEF T
<1> DEFINE after == CHOOSE f : f = [n \in 0 .. N |-> Step(f, n)]
<1>4. after = [n \in 0 .. N |-> Step(after, n)]
  BY <1>3
<1>5. Placed(rows, data) = after[N]
  BY DEF Placed
<1> HIDE DEF after
<1>6. \A n \in 0 .. N : after[n] = Step(after, n)
  BY <1>4
<1>7. DOMAIN after = 0 .. N
  BY <1>4
<1>8. /\ DOMAIN after = 0 .. N
      /\ after[0] = [rows |-> rows, ok |-> TRUE]
      /\ \A n \in 1 .. N : after[n] = Place(after[n - 1], data[n])
      /\ Placed(rows, data) = after[N]
  <2>0. 0 \in 0 .. N
    BY <1>0
  <2>1. after[0] = Step(after, 0)
    <3> HIDE DEF Step
    <3> QED
      BY <2>0, <1>6
  <2>2. ASSUME NEW n \in 1 .. N PROVE after[n] = Place(after[n - 1], data[n])
    <3>1. after[n] = Step(after, n) /\ n # 0
      BY <1>0, <1>6
    <3> QED
      BY <3>1
  <2> QED
    BY <1>5, <1>7, <2>1, <2>2
<1> HIDE DEF Step, UpTo, T
<1> QED
  BY <1>8

(* One row is placed: it gets its own row or the only one it matches.      *)
LEMMA PlaceIs ==
  ASSUME NEW S, NEW rows \in Seq(S), NEW d \in S, Apart(rows)
  PROVE  \E new : \E fine \in BOOLEAN :
           /\ Place([rows |-> rows, ok |-> TRUE], d) = [rows |-> new, ok |-> fine]
           /\ fine => new \in Seq(S) /\ Apart(new) /\ Adds(rows, d, new)
<1> DEFINE acc == [rows |-> rows, ok |-> TRUE]
           m == Matches(rows, d)
<1>1. /\ m \subseteq DOMAIN rows /\ DOMAIN rows = 1 .. Len(rows) /\ Len(rows) \in Nat
      /\ \A i \in DOMAIN rows : i \in m <=> SameRow(rows[i], d)
  BY DEF Matches, SameRow
<1>2. CASE m = {}
  <2> DEFINE new == Append(rows, d)
  <2>1. Place(acc, d) = [rows |-> new, ok |-> TRUE]
    BY <1>2 DEF Place
  <2>2. /\ new \in Seq(S) /\ Len(new) = Len(rows) + 1 /\ DOMAIN new = 1 .. Len(rows) + 1
        /\ new[Len(rows) + 1] = d /\ \A k \in 1 .. Len(rows) : new[k] = rows[k]
    BY <1>1
  <2> HIDE DEF new
  <2>3. Apart(new)
    <3> SUFFICES ASSUME NEW i \in DOMAIN new, NEW k \in DOMAIN new, i # k PROVE ~SameRow(new[i], new[k])
      BY DEF Apart
    <3>1. CASE i \in DOMAIN rows /\ k \in DOMAIN rows
      BY <1>1, <2>2, <3>1 DEF Apart
    <3>2. CASE i = Len(rows) + 1 /\ k \in DOMAIN rows
      BY <1>1, <1>2, <2>2, <3>2 DEF SameRow
    <3>3. CASE k = Len(rows) + 1 /\ i \in DOMAIN rows
      BY <1>1, <1>2, <2>2, <3>3 DEF SameRow
    <3> QED
      BY <1>1, <2>2, <3>1, <3>2, <3>3
  <2>4. ~\E i \in DOMAIN rows : rows[i].uuid = d.uuid
    BY <1>1, <1>2 DEF SameRow
  <2>5. /\ Len(rows) + 1 \in DOMAIN new /\ Len(rows) + 1 \notin DOMAIN rows
        /\ \A k \in DOMAIN new : k # Len(rows) + 1 => k \in DOMAIN rows /\ new[k] = rows[k]
    BY <1>1, <2>2
  <2>6. Adds(rows, d, new)
    <3>1. Len(rows) <= Len(new)
      BY <1>1, <2>2
    <3>2. \E i \in DOMAIN new :
            /\ new[i] = d /\ (i \in DOMAIN rows => SameRow(rows[i], d))
            /\ \A k \in DOMAIN new : k # i => k \in DOMAIN rows /\ new[k] = rows[k]
      BY <2>2, <2>5
    <3> QED
      BY <2>4, <3>1, <3>2 DEF Adds
  <2> QED
    BY <2>1, <2>2, <2>3, <2>6
<1>3. CASE \E i \in m : m = {i}
  <2>1. PICK i \in m : m = {i}
    BY <1>3
  <2> DEFINE new == [rows EXCEPT ![i] = d]
  <2>2. Place(acc, d) = [rows |-> new, ok |-> TRUE]
    <3>1. (CHOOSE k \in m : TRUE) = i /\ m # {}
      BY <2>1
    <3> HIDE DEF m
    <3> QED
      BY <1>3, <3>1 DEF Place, m
  <2>3. new \in Seq(S) /\ Len(new) = Len(rows) /\ DOMAIN new = DOMAIN rows /\ i \in DOMAIN rows
    BY <1>1, <2>1
  <2>4. new[i] = d /\ SameRow(rows[i], d) /\ \A k \in DOMAIN new : k # i => new[k] = rows[k]
    BY <1>1, <2>1, <2>3
  <2> HIDE DEF new
  <2>5. Apart(new)
    <3>1. ASSUME NEW k \in DOMAIN new, k # i PROVE ~SameRow(new[k], d) /\ ~SameRow(d, new[k])
      BY <1>1, <2>1, <2>3, <2>4, <3>1 DEF SameRow
    <3> QED
      BY <2>3, <2>4, <3>1 DEF Apart
  <2>6. (\E k \in DOMAIN rows : rows[k].uuid = d.uuid) => rows[i].uuid = d.uuid
    BY <1>1, <2>1 DEF SameRow
  <2>7. (\E k \in DOMAIN rows : rows[k].uuid = d.uuid) => \A k \in DOMAIN new : new[k].uuid = rows[k].uuid
    BY <2>4, <2>6
  <2>8. \E j \in DOMAIN new :
          /\ new[j] = d /\ (j \in DOMAIN rows => SameRow(rows[j], d))
          /\ \A k \in DOMAIN new : k # j => k \in DOMAIN rows /\ new[k] = rows[k]
    BY <2>3, <2>4
  <2>9. Len(rows) <= Len(new)
    BY <1>1, <2>3
  <2> QED
    BY <2>2, <2>3, <2>5, <2>7, <2>8, <2>9 DEF Adds
<1>4. CASE m # {} /\ ~\E i \in m : m = {i}
  <2>1. Place(acc, d) = [rows |-> rows, ok |-> FALSE]
    BY <1>4 DEF Place
  <2> QED
    BY <2>1
<1> QED
  BY <1>2, <1>3, <1>4

(* After a failure nothing is repaired.                                    *)
LEMMA PlaceFails ==
  ASSUME NEW rows, NEW d, NEW ok, ok = FALSE
  PROVE  \E new : Place([rows |-> rows, ok |-> ok], d) = [rows |-> new, ok |-> FALSE]
<1>1. CASE Matches(rows, d) = {}
  BY <1>1 DEF Place
<1>2. CASE Matches(rows, d) # {} /\ \E i \in Matches(rows, d) : Matches(rows, d) = {i}
  BY <1>2 DEF Place
<1>3. CASE Matches(rows, d) # {} /\ ~\E i \in Matches(rows, d) : Matches(rows, d) = {i}
  BY <1>3 DEF Place
<1> QED
  BY <1>1, <1>2, <1>3

(* A row is taken over once at most, since the placed ones share nothing.  *)
LEMMA MergedAdds ==
  ASSUME NEW S, NEW rows \in Seq(S), NEW data \in Seq(S), Apart(data), NEW n \in 1 .. Len(data),
         NEW old \in Seq(S), NEW new \in Seq(S), Merged(rows, data, n - 1, old), Adds(old, data[n], new)
  PROVE  Merged(rows, data, n, new)
<1>0. /\ Len(data) \in Nat /\ DOMAIN data = 1 .. Len(data) /\ DOMAIN rows = 1 .. Len(rows) /\ Len(rows) \in Nat
      /\ DOMAIN old = 1 .. Len(old) /\ Len(old) \in Nat /\ DOMAIN new = 1 .. Len(new) /\ Len(new) \in Nat
  OBVIOUS
<1>1. PICK i \in DOMAIN new :
        /\ new[i] = data[n] /\ (i \in DOMAIN old => SameRow(old[i], data[n]))
        /\ \A k \in DOMAIN new : k # i => k \in DOMAIN old /\ new[k] = old[k]
  BY DEF Adds
<1>2. Len(rows) <= Len(old) /\ Len(old) <= Len(new)
  BY DEF Adds, Merged
<1>3. ASSUME NEW j \in 1 .. n - 1 PROVE ~SameRow(data[j], data[n])
  <2>1. j \in DOMAIN data /\ n \in DOMAIN data /\ j # n
    BY <1>0
  <2> QED
    BY <2>1 DEF Apart
<1>4. ASSUME NEW j \in 1 .. n PROVE \E k \in DOMAIN new : new[k] = data[j]
  <2>1. CASE j = n
    BY <1>1, <2>1
  <2>2. CASE j # n
    <3>1. j \in 1 .. n - 1
      BY <1>0, <2>2
    <3>2. PICK k \in DOMAIN old : old[k] = data[j]
      BY <3>1 DEF Merged
    <3>3. k # i /\ k \in DOMAIN new
      BY <1>0, <1>1, <1>2, <1>3, <3>1, <3>2
    <3> QED
      BY <1>1, <3>2, <3>3
  <2> QED
    BY <2>1, <2>2
<1>5. ASSUME NEW k \in DOMAIN new
      PROVE  \/ k \in DOMAIN rows /\ new[k] = rows[k]
             \/ \E j \in 1 .. n : new[k] = data[j] /\ (k \in DOMAIN rows => SameRow(rows[k], data[j]))
  <2>1. k \in DOMAIN old =>
          \/ k \in DOMAIN rows /\ old[k] = rows[k]
          \/ \E j \in 1 .. n - 1 : old[k] = data[j] /\ (k \in DOMAIN rows => SameRow(rows[k], data[j]))
    BY DEF Merged
  <2>2. CASE k = i
    <3>1. ASSUME k \in DOMAIN rows PROVE SameRow(rows[k], data[n])
      <4>1. k \in DOMAIN old /\ SameRow(old[k], data[n])
        BY <1>0, <1>1, <1>2, <2>2, <3>1
      <4>2. \A j \in 1 .. n - 1 : old[k] # data[j]
        BY <1>3, <4>1
      <4> QED
        BY <2>1, <4>1, <4>2
    <3> QED
      BY <1>0, <1>1, <2>2, <3>1
  <2>3. CASE k # i
    BY <1>0, <1>1, <2>1, <2>3
  <2> QED
    BY <2>2, <2>3
<1>6. ASSUME \A j \in DOMAIN data : \E k \in DOMAIN rows : rows[k].uuid = data[j].uuid
      PROVE  Len(new) = Len(rows) /\ \A k \in DOMAIN new : new[k].uuid = rows[k].uuid
  <2>1. Len(old) = Len(rows) /\ \A k \in DOMAIN old : old[k].uuid = rows[k].uuid
    BY <1>6 DEF Merged
  <2>2. PICK k \in DOMAIN rows : rows[k].uuid = data[n].uuid
    BY <1>0, <1>6
  <2>3. k \in DOMAIN old /\ old[k].uuid = data[n].uuid
    BY <1>0, <2>1, <2>2
  <2>4. Len(new) = Len(old) /\ \A m \in DOMAIN new : new[m].uuid = old[m].uuid
    BY <2>3 DEF Adds
  <2> QED
    BY <1>0, <2>1, <2>4
<1>7. Len(rows) <= Len(new)
  BY <1>0, <1>2
<1> QED
  BY <1>4, <1>5, <1>6, <1>7 DEF Merged

(* What Placed leaves, by induction over the rows that are placed.         *)
LEMMA PlacedIs ==
  ASSUME NEW S, NEW rows \in Seq(S), Apart(rows), NEW data \in Seq(S), Apart(data), Placed(rows, data).ok
  PROVE  /\ Placed(rows, data).rows \in Seq(S) /\ Apart(Placed(rows, data).rows)
         /\ Merged(rows, data, Len(data), Placed(rows, data).rows)
<1> DEFINE N == Len(data)
<1>1. PICK after : /\ DOMAIN after = 0 .. N
                   /\ after[0] = [rows |-> rows, ok |-> TRUE]
                   /\ \A n \in 1 .. N : after[n] = Place(after[n - 1], data[n])
                   /\ Placed(rows, data) = after[N]
  BY PlacedSteps
<1> DEFINE Fine(n) == \E new : \E ok \in BOOLEAN :
             /\ after[n] = [rows |-> new, ok |-> ok]
             /\ ok => new \in Seq(S) /\ Apart(new) /\ Merged(rows, data, n, new)
           T == {n \in 0 .. N : ~Fine(n)}
<1>0. N \in Nat /\ DOMAIN data = 1 .. N /\ DOMAIN rows = 1 .. Len(rows) /\ Len(rows) \in Nat
  OBVIOUS
<1>2. Fine(0)
  <2>1. Merged(rows, data, 0, rows)
    BY <1>0 DEF Merged
  <2> QED
    BY <1>1, <2>1
<1>3. ASSUME NEW n \in 1 .. N, Fine(n - 1) PROVE Fine(n)
  <2>1. PICK old : \E ok \in BOOLEAN :
             /\ after[n - 1] = [rows |-> old, ok |-> ok]
             /\ ok => old \in Seq(S) /\ Apart(old) /\ Merged(rows, data, n - 1, old)
    BY <1>3
  <2>2. PICK ok \in BOOLEAN :
             /\ after[n - 1] = [rows |-> old, ok |-> ok]
             /\ ok => old \in Seq(S) /\ Apart(old) /\ Merged(rows, data, n - 1, old)
    BY <2>1
  <2>3. data[n] \in S /\ after[n] = Place([rows |-> old, ok |-> ok], data[n])
    BY <1>0, <1>1, <2>2
  <2>4. CASE ~ok
    <3>1. \E new : Place([rows |-> old, ok |-> ok], data[n]) = [rows |-> new, ok |-> FALSE]
      BY <2>4, PlaceFails
    <3> QED
      BY <2>3, <3>1
  <2>5. CASE ok
    <3>1. /\ old \in Seq(S) /\ Apart(old) /\ Merged(rows, data, n - 1, old)
          /\ after[n] = Place([rows |-> old, ok |-> TRUE], data[n])
      BY <2>2, <2>3, <2>5
    <3>2. PICK new : \E fine \in BOOLEAN :
           /\ Place([rows |-> old, ok |-> TRUE], data[n]) = [rows |-> new, ok |-> fine]
           /\ fine => new \in Seq(S) /\ Apart(new) /\ Adds(old, data[n], new)
      BY <2>3, <3>1, PlaceIs
    <3>3. PICK fine \in BOOLEAN :
           /\ Place([rows |-> old, ok |-> TRUE], data[n]) = [rows |-> new, ok |-> fine]
           /\ fine => new \in Seq(S) /\ Apart(new) /\ Adds(old, data[n], new)
      BY <3>2
    <3>4. ASSUME fine PROVE Merged(rows, data, n, new)
      BY <1>0, <3>1, <3>3, <3>4, MergedAdds
    <3> QED
      BY <3>1, <3>3, <3>4
  <2> QED
    BY <2>4, <2>5
<1>4. Fine(N)
  <2> HIDE DEF Fine
  <2> SUFFICES ASSUME T # {} PROVE FALSE
    BY <1>0 DEF T
  <2>0. T \subseteq Nat
    BY <1>0 DEF T
  <2>1. PICK x \in T : \A y \in T : x <= y
    <3> HIDE DEF T
    <3> QED
      BY <2>0, LeastNumber
  <2>2. x \in 1 .. N /\ x - 1 \in 0 .. N /\ x - 1 \notin T
    BY <1>0, <1>2, <2>1 DEF T
  <2>3. Fine(x - 1)
    BY <2>2 DEF T
  <2>4. Fine(x)
    BY <1>3, <2>2, <2>3
  <2> QED
    BY <2>1, <2>4 DEF T
<1> QED
  BY <1>1, <1>4

-----------------------------------------------------------------------------
(* What a synchronization or an import has loaded.                         *)

(* The row of a product is found by its uuid.                              *)
LEMMA RowIs ==
  ASSUME NEW rows, Apart(rows), NEW i \in DOMAIN rows
  PROVE  RowOf(rows, rows[i].uuid) = i
  BY DEF RowOf, Apart, SameRow

(* The products are those there were, as MoySklad has them.                *)
LEMMA LoadedProducts ==
  ASSUME Upstream, Tables, NEW ps \in Seq(Products), NEW vs,
         Apart([i \in DOMAIN ps |-> ProductData(ps[i])]), Loaded(ps, vs).ok
  PROVE  LET new == Loaded(ps, vs).products
         IN  /\ new \in Seq(ProductRows) /\ Apart(new) /\ DOMAIN new = DOMAIN products
             /\ \A i \in DOMAIN products :
                  /\ new[i].uuid = products[i].uuid
                  /\ new[i] = IF products[i].uuid \in ToSet(ps) THEN ProductData(products[i].uuid) ELSE products[i]
<1> DEFINE data == [i \in DOMAIN ps |-> ProductData(ps[i])]
           new == Placed(products, data).rows
<1>1. Loaded(ps, vs).products = new /\ Placed(products, data).ok
  BY DEF Loaded
<1>2. \A p \in Products : ProductData(p) \in ProductRows /\ ProductData(p).uuid = p
  BY DEF ProductData, ProductRows, Upstream
<1>3. data \in Seq(ProductRows) /\ Len(data) = Len(ps) /\ DOMAIN data = 1 .. Len(ps) /\ DOMAIN ps = 1 .. Len(ps)
      /\ Len(ps) \in Nat
  <2>1. \A i \in DOMAIN ps : ps[i] \in Products
    OBVIOUS
  <2> QED
    BY <1>2, <2>1
<1>4. /\ \A i \in DOMAIN ps : data[i] = ProductData(ps[i]) /\ ps[i] \in Products /\ data[i].uuid = ps[i]
      /\ products \in Seq(ProductRows) /\ Apart(products)
      /\ \A p \in Products : \E i \in DOMAIN products : products[i].uuid = p
  BY <1>2 DEF Tables
<1> HIDE DEF new, data
<1>5. new \in Seq(ProductRows) /\ Apart(new) /\ Merged(products, data, Len(data), new)
  <2>1. Apart(data)
    BY DEF data
  <2> QED
    BY <1>1, <1>3, <1>4, <2>1, PlacedIs DEF new
<1>6. Len(new) = Len(products) /\ \A i \in DOMAIN new : new[i].uuid = products[i].uuid
  BY <1>3, <1>4, <1>5 DEF Merged
<1>7. DOMAIN new = DOMAIN products
  BY <1>4, <1>5, <1>6
<1>8. ASSUME NEW i \in DOMAIN products, products[i].uuid \in ToSet(ps)
      PROVE  new[i] = ProductData(products[i].uuid)
  <2>1. PICK j \in DOMAIN ps : ps[j] = products[i].uuid
    BY <1>8 DEF ToSet
  <2>2. PICK k \in DOMAIN new : new[k] = data[j]
    BY <1>3, <1>5, <2>1 DEF Merged
  <2>3. k = i
    BY <1>4, <1>5, <1>6, <1>7, <2>1, <2>2 DEF Apart, SameRow
  <2> QED
    BY <1>4, <2>1, <2>2, <2>3
<1>9. ASSUME NEW i \in DOMAIN products, products[i].uuid \notin ToSet(ps)
      PROVE  new[i] = products[i]
  <2>1. ASSUME NEW j \in DOMAIN ps, new[i] = data[j] PROVE FALSE
    <3>1. ps[j] = products[i].uuid
      BY <1>4, <1>6, <1>7, <2>1
    <3> QED
      BY <1>9, <3>1 DEF ToSet
  <2>2. \A j \in 1 .. Len(data) : new[i] # data[j]
    BY <1>3, <2>1
  <2>3. \A k \in DOMAIN new : (k \in DOMAIN products /\ new[k] = products[k]) \/ \E j \in 1 .. Len(data) : new[k] = data[j]
    BY <1>5 DEF Merged
  <2> QED
    BY <1>7, <2>2, <2>3
<1> QED
  BY <1>1, <1>5, <1>6, <1>7, <1>8, <1>9

(* Those of vs have the variants' rows, and what shares no identifier with *)
(* them is as it was.                                                      *)
LEMMA LoadedVariants ==
  ASSUME Upstream, Tables, NEW ps \in Seq(Products), NEW vs \in Seq(Variants), IsInjective(vs),
         Apart([i \in DOMAIN ps |-> ProductData(ps[i])]), Loaded(ps, vs).ok,
         \A j \in DOMAIN vs : Listed(upVariants[vs[j]])
  PROVE  LET new == Loaded(ps, vs).variants
         IN  /\ new \in Seq(VariantRows) /\ Apart(new)
             /\ \A v \in ToSet(vs) : \E i \in DOMAIN new : new[i].uuid = v
             /\ \A i \in DOMAIN new :
                  IF new[i].uuid \in ToSet(vs)
                    THEN /\ new[i] = VariantData(new[i].uuid, Loaded(ps, vs).products)
                         /\ products[new[i].product].uuid = Owner[new[i].uuid]
                    ELSE i \in DOMAIN variants /\ new[i] = variants[i]
             /\ \A i \in DOMAIN variants : \A v \in Variants \ ToSet(vs) :
                  variants[i].code = upVariants[v].code /\ variants[i].ext = upVariants[v].ext
                    /\ variants[i].uuid = v /\ upVariants[v].state = "live" => i \in DOMAIN new /\ new[i] = variants[i]
<1> DEFINE rows == Loaded(ps, vs).products
           data == [i \in DOMAIN vs |-> VariantData(vs[i], rows)]
           new == Placed(variants, data).rows
<1>1. Loaded(ps, vs).variants = new /\ Placed(variants, data).ok
  BY DEF Loaded
<1>2. /\ rows \in Seq(ProductRows) /\ Apart(rows) /\ DOMAIN rows = DOMAIN products
      /\ \A i \in DOMAIN products : rows[i].uuid = products[i].uuid
  BY LoadedProducts
<1> HIDE DEF rows
<1>3. ASSUME NEW v \in Variants, Listed(upVariants[v])
      PROVE  /\ VariantData(v, rows) \in VariantRows /\ VariantData(v, rows).uuid = v
             /\ products[VariantData(v, rows).product].uuid = Owner[v]
             /\ VariantData(v, rows).code = upVariants[v].code /\ VariantData(v, rows).ext = upVariants[v].ext
  <2>1. Owner[v] \in Products
    BY CatalogAssumption
  <2>2. PICK i \in DOMAIN products : products[i].uuid = Owner[v]
    BY <2>1 DEF Tables
  <2>3. RowOf(rows, Owner[v]) = i
    BY <1>2, <2>2, RowIs
  <2>4. VariantData(v, rows) =
          [uuid |-> v, code |-> upVariants[v].code, ext |-> upVariants[v].ext, look |-> upVariants[v].look,
           product |-> i, archived |-> upVariants[v].archived, active |-> ~upVariants[v].archived]
    BY <2>3 DEF VariantData
  <2> QED
    BY <2>2, <2>4 DEF VariantRows, Upstream
<1>4. /\ \A j \in DOMAIN vs : data[j] = VariantData(vs[j], rows) /\ vs[j] \in Variants /\ data[j] \in VariantRows
                             /\ data[j].uuid = vs[j] /\ products[data[j].product].uuid = Owner[vs[j]]
                             /\ data[j].code = upVariants[vs[j]].code /\ data[j].ext = upVariants[vs[j]].ext
      /\ DOMAIN vs = 1 .. Len(vs) /\ Len(vs) \in Nat
      /\ variants \in Seq(VariantRows) /\ Apart(variants)
  BY <1>3 DEF Tables
<1>5. data \in Seq(VariantRows) /\ Len(data) = Len(vs) /\ DOMAIN data = DOMAIN vs
  BY <1>4
<1> HIDE DEF new, data
<1>6. Apart(data)
  <2> SUFFICES ASSUME NEW i \in DOMAIN data, NEW k \in DOMAIN data, i # k PROVE ~SameRow(data[i], data[k])
    BY DEF Apart
  <2>1. vs[i] # vs[k] /\ upVariants[vs[i]].state = "live" /\ upVariants[vs[k]].state = "live"
    BY <1>5 DEF IsInjective, Listed
  <2> QED
    BY <1>4, <1>5, <2>1 DEF SameRow, Upstream
<1>7. new \in Seq(VariantRows) /\ Apart(new) /\ Merged(variants, data, Len(data), new)
  BY <1>1, <1>4, <1>5, <1>6, PlacedIs DEF new
<1>8. ASSUME NEW v \in ToSet(vs) PROVE \E i \in DOMAIN new : new[i].uuid = v
  <2>1. PICK j \in DOMAIN vs : vs[j] = v
    BY DEF ToSet
  <2>2. PICK i \in DOMAIN new : new[i] = data[j]
    BY <1>4, <1>5, <1>7, <2>1 DEF Merged
  <2> QED
    BY <1>4, <2>1, <2>2
<1>9. ASSUME NEW i \in DOMAIN new, new[i].uuid \in ToSet(vs)
      PROVE  new[i] = VariantData(new[i].uuid, rows) /\ products[new[i].product].uuid = Owner[new[i].uuid]
  <2>1. PICK j \in DOMAIN vs : vs[j] = new[i].uuid
    BY <1>9 DEF ToSet
  <2>2. PICK k \in DOMAIN new : new[k] = data[j]
    BY <1>4, <1>5, <1>7, <2>1 DEF Merged
  <2>3. k = i
    BY <1>4, <1>7, <2>1, <2>2 DEF Apart, SameRow
  <2> QED
    BY <1>4, <2>1, <2>2, <2>3
<1>10. ASSUME NEW i \in DOMAIN new, new[i].uuid \notin ToSet(vs)
       PROVE  i \in DOMAIN variants /\ new[i] = variants[i]
  <2>1. ASSUME NEW j \in 1 .. Len(data) PROVE new[i] # data[j]
    <3>1. j \in DOMAIN vs /\ vs[j] \in ToSet(vs)
      BY <1>4, <1>5 DEF ToSet
    <3> QED
      BY <1>4, <1>10, <3>1
  <2> QED
    BY <1>7, <2>1 DEF Merged
<1>11. ASSUME NEW i \in DOMAIN variants, NEW v \in Variants \ ToSet(vs), variants[i].uuid = v,
              variants[i].code = upVariants[v].code, variants[i].ext = upVariants[v].ext, upVariants[v].state = "live"
       PROVE  i \in DOMAIN new /\ new[i] = variants[i]
  <2>1. i \in DOMAIN new
    BY <1>4, <1>7 DEF Merged
  <2>2. ASSUME NEW j \in 1 .. Len(data) PROVE ~SameRow(variants[i], data[j])
    <3>1. j \in DOMAIN vs /\ vs[j] # v /\ upVariants[vs[j]].state = "live"
      BY <1>4, <1>5 DEF ToSet, Listed
    <3> QED
      BY <1>4, <1>11, <3>1 DEF SameRow, Upstream
  <2> QED
    BY <1>7, <2>1, <2>2 DEF Merged
<1> QED
  BY <1>1, <1>7, <1>8, <1>9, <1>10, <1>11 DEF rows

-----------------------------------------------------------------------------
(* Steps.                                                                  *)

(* The rows of the products keep their places and uuids, and those of the  *)
(* variants are apart and belong to the product of their variant: that is  *)
(* what the tables promise.                                                *)
LEMMA TablesKeep ==
  ASSUME Tables, products' \in Seq(ProductRows), DOMAIN products' = DOMAIN products,
         \A i \in DOMAIN products : products'[i].uuid = products[i].uuid,
         Apart(products'), NEW new \in Seq(VariantRows), Apart(new),
         \A i \in DOMAIN new : products[new[i].product].uuid = Owner[new[i].uuid], Dimmed(new, variants')
  PROVE  Tables'
<1>1. ProductRows' = ProductRows /\ VariantRows' = VariantRows
  BY DEF ProductRows, VariantRows
<1>2. \A i \in DOMAIN new : new[i].product \in DOMAIN products
  <2>1. \A i \in DOMAIN new : new[i] \in VariantRows
    OBVIOUS
  <2> QED
    BY <2>1 DEF VariantRows
<1>3. variants' \in Seq(VariantRows') /\ Apart(variants')
  BY <1>1 DEF Dimmed, Apart, SameRow
<1>4. \A p \in Products : \E i \in DOMAIN products' : products'[i].uuid = p
  BY DEF Tables
<1>5. \A i \in DOMAIN variants' : products'[variants'[i].product].uuid = Owner[variants'[i].uuid]
  BY <1>2 DEF Dimmed
<1> QED
  BY <1>1, <1>3, <1>4, <1>5 DEF Tables

(* A synchronization of a product with some of its variants, or with all.  *)
LEMMA SyncKeeps ==
  ASSUME Upstream, Tables, OnSale, NEW p \in Products, NEW vs \in Seq(Variants), IsInjective(vs),
         \A j \in DOMAIN vs : Listed(upVariants[vs[j]]) /\ Owner[vs[j]] = p,
         NEW complete \in BOOLEAN, SyncProduct(p, vs, complete), UNCHANGED up
  PROVE  /\ Tables' /\ OnSale'
         /\ \A v \in ToSet(vs) : Mirrored(v)'
         /\ \A v \in Variants \ ToSet(vs) :
              (Mirrored(v) /\ ~(complete /\ Owner[v] = p)) \/ (complete /\ Owner[v] = p /\ ~IsOffered(v)) => Mirrored(v)'
<1> DEFINE ps == <<p>>
           rows == Loaded(ps, vs).products
           new == Loaded(ps, vs).variants
           id == RowOf(rows, p)
           gone(i) == new[i].product = id /\ (rows[id].archived \/ (complete /\ new[i].uuid \notin ToSet(vs)))
<1>1. /\ ps \in Seq(Products) /\ ToSet(ps) = {p} /\ Apart([i \in DOMAIN ps |-> ProductData(ps[i])])
      /\ Loaded(ps, vs).ok
  <2>1. ps \in Seq(Products) /\ DOMAIN ps = {1}
    OBVIOUS
  <2> QED
    BY <2>1 DEF ToSet, Apart, SyncProduct
<1>2. /\ rows \in Seq(ProductRows) /\ Apart(rows) /\ DOMAIN rows = DOMAIN products
      /\ \A i \in DOMAIN products :
           /\ rows[i].uuid = products[i].uuid
           /\ rows[i] = IF products[i].uuid = p THEN ProductData(p) ELSE products[i]
  <2> HIDE DEF ps
  <2>1. /\ rows \in Seq(ProductRows) /\ Apart(rows) /\ DOMAIN rows = DOMAIN products
        /\ \A i \in DOMAIN products :
             /\ rows[i].uuid = products[i].uuid
             /\ rows[i] = IF products[i].uuid \in ToSet(ps) THEN ProductData(products[i].uuid) ELSE products[i]
    BY <1>1, LoadedProducts
  <2> HIDE DEF rows
  <2> QED
    BY <1>1, <2>1
<1>3. /\ new \in Seq(VariantRows) /\ Apart(new)
      /\ \A v \in ToSet(vs) : \E i \in DOMAIN new : new[i].uuid = v
      /\ \A i \in DOMAIN new :
           IF new[i].uuid \in ToSet(vs)
             THEN new[i] = VariantData(new[i].uuid, rows) /\ products[new[i].product].uuid = Owner[new[i].uuid]
             ELSE i \in DOMAIN variants /\ new[i] = variants[i]
      /\ \A i \in DOMAIN variants : \A v \in Variants \ ToSet(vs) :
           variants[i].code = upVariants[v].code /\ variants[i].ext = upVariants[v].ext
             /\ variants[i].uuid = v /\ upVariants[v].state = "live" => i \in DOMAIN new /\ new[i] = variants[i]
  BY <1>1, LoadedVariants
<1>4. products' = rows /\ variants' = Offered(Completed(new, id, ToSet(vs), complete), id, rows[id].archived)
  BY DEF SyncProduct
<1> HIDE DEF ps, rows, new
<1>5. id \in DOMAIN products /\ products[id].uuid = p /\ rows[id] = ProductData(p)
  <2>1. PICK i \in DOMAIN products : products[i].uuid = p
    BY DEF Tables
  <2>2. i \in DOMAIN rows /\ rows[i].uuid = p
    BY <1>2, <2>1
  <2>3. RowOf(rows, p) = i
    BY <1>2, <2>2, RowIs
  <2> QED
    BY <1>2, <2>1, <2>3
<1> HIDE DEF id
<1>6. /\ DOMAIN new = 1 .. Len(new) /\ Len(new) \in Nat /\ DOMAIN variants' = DOMAIN new
      /\ \A i \in DOMAIN new : new[i] \in VariantRows
      /\ \A i \in DOMAIN new :
           variants'[i] = LET w == IF complete /\ new[i].product = id /\ new[i].uuid \notin ToSet(vs)
                                   THEN Withdrawn(new[i]) ELSE new[i]
                          IN  IF rows[id].archived /\ w.product = id THEN [w EXCEPT !.active = FALSE] ELSE w
  BY <1>3, <1>4 DEF Offered, Completed
<1>7. ASSUME NEW i \in DOMAIN new
      PROVE  /\ variants'[i] \in VariantRows
             /\ variants'[i].uuid = new[i].uuid /\ variants'[i].code = new[i].code /\ variants'[i].ext = new[i].ext
             /\ variants'[i].product = new[i].product
             /\ gone(i) => ~variants'[i].active
             /\ ~gone(i) => variants'[i] = new[i]
  BY <1>6 DEF Withdrawn, VariantRows
<1>8. Dimmed(new, variants')
  <2>1. variants' = [i \in DOMAIN new |-> variants'[i]]
    BY <1>4 DEF Offered, Completed
  <2>2. variants' \in Seq(VariantRows)
    BY <1>6, <1>7, <2>1
  <2> QED
    BY <1>6, <1>7, <2>2 DEF Dimmed
<1>9. \A i \in DOMAIN new : products[new[i].product].uuid = Owner[new[i].uuid] /\ new[i].product \in DOMAIN products
  BY <1>3, <1>6 DEF Tables, VariantRows
<1>10. Tables'
  BY <1>2, <1>3, <1>4, <1>8, <1>9, TablesKeep
<1>11. UNCHANGED <<upProducts, upVariants>>
  BY DEF up
<1> HIDE DEF gone
<1>12. ASSUME NEW i \in DOMAIN new, variants'[i].active
       PROVE  /\ ~gone(i) /\ variants'[i] = new[i]
              /\ products[new[i].product].uuid = p <=> new[i].product = id
  <2>1. products[new[i].product].uuid = p => new[i].product = id
    BY <1>5, <1>9 DEF Tables, Apart, SameRow
  <2> QED
    BY <1>5, <1>7, <1>12, <2>1
<1>13. OnSale'
  <2> SUFFICES ASSUME NEW i \in DOMAIN variants', variants'[i].active
               PROVE  ~variants'[i].archived /\ ~products'[variants'[i].product].archived
    BY DEF OnSale
  <2>1. i \in DOMAIN new /\ variants'[i] = new[i] /\ ~gone(i)
    BY <1>6, <1>12
  <2>2. CASE new[i].uuid \in ToSet(vs)
    <3>1. ~new[i].archived
      <4>1. Listed(upVariants[new[i].uuid]) /\ new[i].archived = upVariants[new[i].uuid].archived
        BY <1>3, <2>1, <2>2 DEF VariantData, ToSet
      <4> QED
        BY <4>1 DEF Listed
    <3>2. new[i].product = id /\ ~rows[id].archived
      <4>1. Owner[new[i].uuid] = p
        BY <2>2 DEF ToSet
      <4> QED
        BY <1>9, <1>12, <2>1, <4>1 DEF gone
    <3> QED
      BY <1>4, <2>1, <3>1, <3>2
  <2>3. CASE new[i].uuid \notin ToSet(vs)
    <3>1. i \in DOMAIN variants /\ new[i] = variants[i]
      BY <1>3, <2>1, <2>3
    <3>2. ~variants[i].archived /\ ~products[variants[i].product].archived
      BY <2>1, <3>1 DEF OnSale
    <3>3. CASE new[i].product = id
      BY <1>4, <2>1, <3>1, <3>2, <3>3 DEF gone
    <3>4. CASE new[i].product # id
      <4>1. rows[new[i].product] = products[new[i].product]
        BY <1>2, <1>9, <1>12, <2>1, <3>4
      <4> QED
        BY <1>4, <2>1, <3>1, <3>2, <4>1
    <3> QED
      BY <3>3, <3>4
  <2> QED
    BY <2>2, <2>3
<1>14. ASSUME NEW i \in DOMAIN new PROVE new[i].product = id <=> Owner[new[i].uuid] = p
  BY <1>5, <1>9 DEF Tables, Apart, SameRow
<1>16. ASSUME NEW v \in ToSet(vs) PROVE Mirrored(v)'
  <2>1. v \in Variants /\ Owner[v] = p /\ Listed(upVariants[v])
    BY DEF ToSet
  <2>2. CASE Listed(upProducts[p])
    <3>1. PICK i \in DOMAIN new : new[i].uuid = v
      BY <1>3
    <3>2. /\ new[i] = VariantData(v, rows) /\ new[i].product = id
          /\ ~rows[id].archived /\ rows[id].category = upProducts[p].category
      BY <1>3, <1>5, <1>14, <2>1, <2>2, <3>1 DEF Listed, ProductData
    <3>3. variants'[i] = new[i] /\ i \in DOMAIN variants'
      BY <1>6, <1>7, <3>1, <3>2 DEF gone
    <3>4. /\ new[i].active /\ new[i].code = upVariants[v].code /\ new[i].ext = upVariants[v].ext
          /\ new[i].look = upVariants[v].look
      <4>1. new[i].active = ~upVariants[v].archived /\ upVariants[v].archived = FALSE
        <5>1. upVariants[v].archived \in BOOLEAN
          BY <2>1 DEF Upstream
        <5> QED
          BY <2>1, <3>2, <5>1 DEF VariantData, Listed
      <4>2. /\ new[i].code = upVariants[v].code /\ new[i].ext = upVariants[v].ext
            /\ new[i].look = upVariants[v].look
        BY <3>2 DEF VariantData
      <4> QED
        BY <4>1, <4>2
    <3>5. Exact(v)'
      BY <1>4, <1>11, <2>1, <3>1, <3>2, <3>3, <3>4 DEF Exact
    <3> QED
      BY <1>11, <2>1, <2>2, <3>5 DEF Mirrored, IsOffered
  <2>3. CASE ~Listed(upProducts[p])
    <3>1. rows[id].archived
      <4>1. upProducts[p].state = "live"
        BY <2>1 DEF Listed, Upstream
      <4>2. upProducts[p].archived
        BY <2>3, <4>1 DEF Listed
      <4>3. rows[id].archived = upProducts[p].archived
        BY <1>5 DEF ProductData
      <4> QED
        BY <4>2, <4>3
    <3>2. ASSUME NEW i \in DOMAIN variants', variants'[i].uuid = v PROVE ~variants'[i].active
      BY <1>6, <1>7, <1>14, <2>1, <3>1, <3>2 DEF gone
    <3>3. ~IsOffered(v)'
      BY <1>11, <2>1, <2>3 DEF IsOffered
    <3> QED
      BY <3>2, <3>3 DEF Mirrored
  <2> QED
    BY <2>2, <2>3
<1>17. ASSUME NEW v \in Variants \ ToSet(vs), Mirrored(v), ~(complete /\ Owner[v] = p) PROVE Mirrored(v)'
  <2>1. CASE IsOffered(v)
    <3>1. PICK i \in DOMAIN variants :
            /\ variants[i].uuid = v /\ variants[i].active
            /\ variants[i].code = upVariants[v].code /\ variants[i].ext = upVariants[v].ext
            /\ variants[i].look = upVariants[v].look
            /\ products[variants[i].product].category = upProducts[Owner[v]].category
      BY <1>17, <2>1 DEF Mirrored, Exact
    <3>2. i \in DOMAIN new /\ new[i] = variants[i]
      BY <1>3, <2>1, <3>1 DEF IsOffered, Listed
    <3>3. ~gone(i)
      <4>1. new[i].product = id => Owner[v] = p /\ ~rows[id].archived
        BY <1>5, <1>14, <2>1, <3>1, <3>2 DEF IsOffered, Listed, ProductData
      <4> QED
        BY <1>17, <4>1 DEF gone
    <3>4. variants'[i] = new[i] /\ i \in DOMAIN variants'
      BY <1>6, <1>7, <3>2, <3>3
    <3>5. rows[new[i].product].category = upProducts[Owner[v]].category
      <4>1. CASE new[i].product = id
        BY <1>5, <1>14, <3>1, <3>2, <4>1 DEF ProductData
      <4>2. CASE new[i].product # id
        BY <1>2, <1>9, <1>14, <3>1, <3>2, <4>2
      <4> QED
        BY <4>1, <4>2
    <3>6. Exact(v)'
      BY <1>4, <1>11, <3>1, <3>2, <3>4, <3>5 DEF Exact
    <3> QED
      BY <1>11, <2>1, <3>6 DEF Mirrored, IsOffered
  <2>2. CASE ~IsOffered(v)
    <3>1. ASSUME NEW i \in DOMAIN variants', variants'[i].uuid = v, variants'[i].active PROVE FALSE
      <4>1. i \in DOMAIN new /\ variants'[i] = new[i] /\ new[i].uuid = v
        BY <1>6, <1>12, <3>1
      <4>2. i \in DOMAIN variants /\ new[i] = variants[i]
        BY <1>3, <4>1
      <4> QED
        BY <1>17, <2>2, <3>1, <4>1, <4>2 DEF Mirrored
    <3> QED
      BY <1>11, <2>2, <3>1 DEF Mirrored, IsOffered
  <2> QED
    BY <2>1, <2>2
<1>18. ASSUME NEW v \in Variants \ ToSet(vs), complete, Owner[v] = p, ~IsOffered(v) PROVE Mirrored(v)'
  <2>1. ASSUME NEW i \in DOMAIN variants', variants'[i].uuid = v PROVE ~variants'[i].active
    BY <1>6, <1>7, <1>14, <1>18, <2>1 DEF gone
  <2> QED
    BY <1>11, <1>18, <2>1 DEF Mirrored, IsOffered
<1> QED
  BY <1>10, <1>13, <1>16, <1>17, <1>18

(* SetToSeqs has the sequences that contain every element once.            *)
LEMMA SeqsAre ==
  ASSUME NEW S, IsFiniteSet(S), NEW s \in SetToSeqs(S)
  PROVE  s \in Seq(S) /\ IsInjective(s) /\ ToSet(s) = S
<1> DEFINE n == Cardinality(S)
<1>1. n \in Nat
  BY FS_CardinalityType
<1>2. s \in [1 .. n -> S] /\ IsInjective(s)
  BY DEF SetToSeqs, IsInjective
<1> HIDE DEF n
<1>3. s \in Seq(S) /\ DOMAIN s = 1 .. n
  BY <1>1, <1>2
<1>4. ToSet(s) = S
  <2> DEFINE T == ToSet(s)
  <2>1. T \subseteq S /\ s \in Surjection(1 .. n, T)
    BY <1>2 DEF ToSet, Surjection
  <2>2. IsFiniteSet(1 .. n) /\ Cardinality(1 .. n) = n
    BY <1>1, FS_Interval
  <2>3. s \in Injection(1 .. n, T)
    BY <1>2, <2>1 DEF IsInjective, Surjection, Injection
  <2>4. Cardinality(T) = n
    BY <2>1, <2>2, <2>3, FS_Surjection
  <2> QED
    BY <2>1, <2>4, FS_Subset DEF n
<1> QED
  BY <1>2, <1>3, <1>4

(* A task that succeeds is done.                                           *)
LEMMA SyncEntireProductKeeps ==
  ASSUME CatalogInv, NEW p \in Products, SyncEntireProduct(p)
  PROVE  CatalogInv'
<1>1. PICK vs \in SetToSeqs(ListedVariants({p})) : SyncProduct(p, vs, TRUE)
  BY DEF SyncEntireProduct
<1>2. /\ Listed(upProducts[p]) /\ pending' = pending \ {<<"product", p>>}
      /\ UNCHANGED <<upProducts, upVariants, changes>> /\ UNCHANGED up
  BY DEF SyncEntireProduct, Done, up
<1>3. /\ vs \in Seq(Variants) /\ IsInjective(vs) /\ ToSet(vs) = ListedVariants({p})
      /\ \A j \in DOMAIN vs : Listed(upVariants[vs[j]]) /\ Owner[vs[j]] = p
  <2>1. ListedVariants({p}) \subseteq Variants /\ IsFiniteSet(ListedVariants({p}))
    BY CatalogAssumption, FS_Subset DEF ListedVariants
  <2>2. vs \in Seq(ListedVariants({p})) /\ IsInjective(vs) /\ ToSet(vs) = ListedVariants({p})
    BY <1>1, <2>1, SeqsAre
  <2>3. \A j \in DOMAIN vs : vs[j] \in ListedVariants({p})
    BY <2>2
  <2> QED
    BY <2>1, <2>2, <2>3 DEF ListedVariants
<1>4. /\ Tables' /\ OnSale'
      /\ \A v \in ToSet(vs) : Mirrored(v)'
      /\ \A v \in Variants \ ToSet(vs) :
           (Mirrored(v) /\ ~(TRUE /\ Owner[v] = p)) \/ (TRUE /\ Owner[v] = p /\ ~IsOffered(v)) => Mirrored(v)'
  BY <1>1, <1>2, <1>3, SyncKeeps DEF CatalogInv
<1>5. Upstream'
  BY <1>2 DEF CatalogInv, Upstream
<1>6. ASSUME NEW v \in Variants PROVE Current(v)'
  <2>1. CASE v \in ToSet(vs)
    BY <1>4, <2>1 DEF Current
  <2>2. CASE v \notin ToSet(vs) /\ Owner[v] = p
    <3>1. ~IsOffered(v)
      BY <1>3, <2>2 DEF ListedVariants, IsOffered
    <3> QED
      BY <1>4, <2>2, <3>1 DEF Current
  <2>3. CASE v \notin ToSet(vs) /\ Owner[v] # p
    <3>1. Current(v) /\ <<"product", Owner[v]>> # <<"product", p>> /\ <<"variant", v>> # <<"product", p>>
      BY <2>3 DEF CatalogInv
    <3> QED
      BY <1>2, <1>4, <2>3, <3>1 DEF Current
  <2> QED
    BY <2>1, <2>2, <2>3
<1> QED
  BY <1>4, <1>5, <1>6 DEF CatalogInv

(* The same for the task of one variant, which takes its product along.    *)
LEMMA SyncVariantKeeps ==
  ASSUME CatalogInv, NEW v \in Variants, SyncVariant(v)
  PROVE  CatalogInv'
<1> DEFINE vs == <<v>>
           p == Owner[v]
<1>1. /\ SyncProduct(p, vs, FALSE) /\ Listed(upVariants[v]) /\ pending' = pending \ {<<"variant", v>>}
      /\ UNCHANGED <<upProducts, upVariants, changes>> /\ UNCHANGED up
  BY DEF SyncVariant, Done, up
<1>2. /\ p \in Products /\ vs \in Seq(Variants) /\ IsInjective(vs) /\ ToSet(vs) = {v}
      /\ \A j \in DOMAIN vs : Listed(upVariants[vs[j]]) /\ Owner[vs[j]] = p
  <2>1. vs \in Seq(Variants) /\ DOMAIN vs = {1} /\ vs[1] = v
    OBVIOUS
  <2> QED
    BY <1>1, <2>1, CatalogAssumption DEF IsInjective, ToSet
<1> HIDE DEF vs
<1>3. /\ Tables' /\ OnSale'
      /\ \A w \in ToSet(vs) : Mirrored(w)'
      /\ \A w \in Variants \ ToSet(vs) :
           (Mirrored(w) /\ ~(FALSE /\ Owner[w] = p)) \/ (FALSE /\ Owner[w] = p /\ ~IsOffered(w)) => Mirrored(w)'
  BY <1>1, <1>2, SyncKeeps DEF CatalogInv
<1>4. Upstream'
  BY <1>1 DEF CatalogInv, Upstream
<1>5. ASSUME NEW w \in Variants PROVE Current(w)'
  <2>1. CASE w = v
    BY <1>2, <1>3, <2>1 DEF Current
  <2>2. CASE w # v
    <3>1. Current(w) /\ <<"variant", w>> # <<"variant", v>> /\ <<"product", Owner[w]>> # <<"variant", v>>
      BY <2>2 DEF CatalogInv
    <3> QED
      BY <1>1, <1>2, <1>3, <2>2, <3>1 DEF Current
  <2> QED
    BY <2>1, <2>2
<1> QED
  BY <1>3, <1>4, <1>5 DEF CatalogInv

(* What a step that only takes rows off the shelves leaves.                *)
LEMMA DimmedKeeps ==
  ASSUME Upstream, Tables, OnSale, UNCHANGED <<upProducts, upVariants>>,
         products' \in Seq(ProductRows), DOMAIN products' = DOMAIN products,
         \A i \in DOMAIN products : /\ products'[i].uuid = products[i].uuid /\ products'[i].code = products[i].code
                                   /\ products'[i].ext = products[i].ext
                                   /\ products'[i].category = products[i].category,
         \A i \in DOMAIN variants : variants'[i].active => products'[variants[i].product].archived =
                                                              products[variants[i].product].archived,
         Dimmed(variants, variants')
  PROVE  /\ Tables' /\ OnSale'
         /\ \A v \in Variants : /\ ~IsOffered(v) /\ Mirrored(v) => Mirrored(v)'
                                /\ IsOffered(v) /\ Mirrored(v)
                                     /\ (\A i \in DOMAIN variants : variants[i].uuid = v => variants'[i] = variants[i])
                                     => Mirrored(v)'
                                /\ ~IsOffered(v) /\ (\A i \in DOMAIN variants : variants[i].uuid = v => ~variants'[i].active)
                                     => Mirrored(v)'
<1>1. variants \in Seq(VariantRows) /\ Apart(variants) /\ Apart(products)
      /\ \A i \in DOMAIN variants : /\ products[variants[i].product].uuid = Owner[variants[i].uuid]
                                    /\ variants[i].product \in DOMAIN products
  <2>1. \A i \in DOMAIN variants : variants[i] \in VariantRows
    BY DEF Tables
  <2> QED
    BY <2>1 DEF Tables, VariantRows
<1>2. Apart(products')
  BY <1>1 DEF Apart, SameRow
<1>3. Tables'
  BY <1>1, <1>2, TablesKeep
<1>4. OnSale'
  BY DEF Dimmed, OnSale
<1>5. ASSUME NEW v \in Variants PROVE IsOffered(v)' <=> IsOffered(v)
  BY DEF IsOffered
<1>6. ASSUME NEW v \in Variants, ~IsOffered(v), Mirrored(v) PROVE Mirrored(v)'
  BY <1>5, <1>6 DEF Mirrored, Dimmed
<1>7. ASSUME NEW v \in Variants, IsOffered(v), Mirrored(v),
             \A i \in DOMAIN variants : variants[i].uuid = v => variants'[i] = variants[i]
      PROVE  Mirrored(v)'
  <2>1. PICK i \in DOMAIN variants :
             /\ variants[i].uuid = v /\ variants[i].active
             /\ variants[i].code = upVariants[v].code /\ variants[i].ext = upVariants[v].ext
             /\ variants[i].look = upVariants[v].look
             /\ products[variants[i].product].category = upProducts[Owner[v]].category
    BY <1>7 DEF Mirrored, Exact
  <2>2. variants'[i] = variants[i] /\ i \in DOMAIN variants'
    BY <1>7, <2>1 DEF Dimmed
  <2>3. products'[variants[i].product].category = products[variants[i].product].category
    BY <1>1
  <2>4. Exact(v)'
    BY <2>1, <2>2, <2>3 DEF Exact
  <2> QED
    BY <1>5, <1>7, <2>4 DEF Mirrored
<1>8. ASSUME NEW v \in Variants, ~IsOffered(v),
             \A i \in DOMAIN variants : variants[i].uuid = v => ~variants'[i].active
      PROVE  Mirrored(v)'
  BY <1>5, <1>8 DEF Mirrored, Dimmed
<1> QED
  BY <1>3, <1>4, <1>6, <1>7, <1>8

(* The archiving of a product takes all its rows off the shelves.          *)
LEMMA ArchiveProductKeeps ==
  ASSUME CatalogInv, NEW p \in Products, ArchiveProduct(p)
  PROVE  CatalogInv'
<1> DEFINE gone == {i \in DOMAIN products : products[i].uuid = p}
<1>1. /\ ~Listed(upProducts[p]) /\ pending' = pending \ {<<"product", p>>}
      /\ products' = [i \in DOMAIN products |->
                        IF i \in gone THEN [products[i] EXCEPT !.archived = TRUE] ELSE products[i]]
      /\ variants' = [i \in DOMAIN variants |->
                        IF variants[i].product \in gone THEN Withdrawn(variants[i]) ELSE variants[i]]
      /\ UNCHANGED <<upProducts, upVariants, changes>>
  BY DEF ArchiveProduct, Done, up
<1>2. /\ DOMAIN products = 1 .. Len(products) /\ Len(products) \in Nat
      /\ DOMAIN variants = 1 .. Len(variants) /\ Len(variants) \in Nat
      /\ \A i \in DOMAIN products : products[i] \in ProductRows
      /\ \A i \in DOMAIN variants : variants[i] \in VariantRows
      /\ \A i \in DOMAIN variants : products[variants[i].product].uuid = Owner[variants[i].uuid]
  BY DEF CatalogInv, Tables
<1>3. \A i \in DOMAIN variants : variants[i].product \in DOMAIN products
  BY <1>2 DEF VariantRows
<1>4. /\ DOMAIN products' = DOMAIN products
      /\ \A i \in DOMAIN products : /\ products'[i] \in ProductRows
                                    /\ products'[i].uuid = products[i].uuid /\ products'[i].code = products[i].code
                                    /\ products'[i].ext = products[i].ext
                                    /\ products'[i].category = products[i].category
                                    /\ i \notin gone => products'[i] = products[i]
  BY <1>1, <1>2 DEF ProductRows
<1>5. /\ DOMAIN variants' = DOMAIN variants
      /\ \A i \in DOMAIN variants : /\ variants'[i] \in VariantRows
                                    /\ variants'[i].uuid = variants[i].uuid /\ variants'[i].code = variants[i].code
                                    /\ variants'[i].ext = variants[i].ext
                                    /\ variants'[i].product = variants[i].product
                                    /\ variants[i].product \in gone => ~variants'[i].active
                                    /\ variants[i].product \notin gone => variants'[i] = variants[i]
  BY <1>1, <1>2 DEF Withdrawn, VariantRows
<1>6. products' \in Seq(ProductRows) /\ variants' \in Seq(VariantRows)
  <2>1. products' = [i \in 1 .. Len(products) |-> products'[i]] /\ variants' = [i \in 1 .. Len(variants) |-> variants'[i]]
    BY <1>1, <1>2
  <2> QED
    BY <1>2, <1>4, <1>5, <2>1
<1>7. Dimmed(variants, variants')
  BY <1>5, <1>6 DEF Dimmed
<1>8. \A i \in DOMAIN variants : variants[i].product \in gone <=> Owner[variants[i].uuid] = p
  BY <1>2, <1>3
<1> HIDE DEF gone
<1>9. /\ Tables' /\ OnSale'
      /\ \A v \in Variants : /\ ~IsOffered(v) /\ Mirrored(v) => Mirrored(v)'
                             /\ IsOffered(v) /\ Mirrored(v)
                                  /\ (\A i \in DOMAIN variants : variants[i].uuid = v => variants'[i] = variants[i])
                                  => Mirrored(v)'
                             /\ ~IsOffered(v) /\ (\A i \in DOMAIN variants : variants[i].uuid = v => ~variants'[i].active)
                                  => Mirrored(v)'
  <2>1. \A i \in DOMAIN variants : variants'[i].active => products'[variants[i].product].archived =
                                                           products[variants[i].product].archived
    BY <1>3, <1>4, <1>5
  <2> QED
    BY <1>1, <1>4, <1>6, <1>7, <2>1, DimmedKeeps DEF CatalogInv
<1>10. Upstream'
  BY <1>1 DEF CatalogInv, Upstream
<1>11. ASSUME NEW v \in Variants PROVE Current(v)'
  <2>1. CASE Owner[v] = p
    <3>1. ~IsOffered(v)
      BY <1>1, <2>1 DEF IsOffered
    <3>2. \A i \in DOMAIN variants : variants[i].uuid = v => ~variants'[i].active
      BY <1>5, <1>8, <2>1
    <3> QED
      BY <1>9, <3>1, <3>2 DEF Current
  <2>2. CASE Owner[v] # p
    <3>1. Current(v) /\ <<"product", Owner[v]>> # <<"product", p>> /\ <<"variant", v>> # <<"product", p>>
      BY <2>2 DEF CatalogInv
    <3>2. \A i \in DOMAIN variants : variants[i].uuid = v => variants'[i] = variants[i]
      BY <1>5, <1>8, <2>2
    <3>3. Mirrored(v) => Mirrored(v)'
      BY <1>9, <3>2
    <3> QED
      BY <1>1, <3>1, <3>3 DEF Current
  <2> QED
    BY <2>1, <2>2
<1> QED
  BY <1>9, <1>10, <1>11 DEF CatalogInv

(* The archiving of a variant takes its row off the shelves, whichever row *)
(* the variant has by now.                                                 *)
LEMMA ArchiveVariantKeeps ==
  ASSUME CatalogInv, NEW v \in Variants, ArchiveVariant(v)
  PROVE  CatalogInv'
<1>1. /\ ~Listed(upVariants[v]) /\ pending' = pending \ {<<"variant", v>>}
      /\ variants' = [i \in DOMAIN variants |-> IF variants[i].uuid = v THEN Withdrawn(variants[i]) ELSE variants[i]]
      /\ UNCHANGED <<upProducts, upVariants, products, changes>>
  BY DEF ArchiveVariant, Done, up
<1>2. /\ DOMAIN variants = 1 .. Len(variants) /\ Len(variants) \in Nat
      /\ \A i \in DOMAIN variants : variants[i] \in VariantRows
      /\ products \in Seq(ProductRows)
  BY DEF CatalogInv, Tables
<1>3. /\ DOMAIN variants' = DOMAIN variants
      /\ \A i \in DOMAIN variants : /\ variants'[i] \in VariantRows
                                    /\ variants'[i].uuid = variants[i].uuid /\ variants'[i].code = variants[i].code
                                    /\ variants'[i].ext = variants[i].ext
                                    /\ variants'[i].product = variants[i].product
                                    /\ variants[i].uuid = v => ~variants'[i].active
                                    /\ variants[i].uuid # v => variants'[i] = variants[i]
  BY <1>1, <1>2 DEF Withdrawn, VariantRows
<1>4. variants' \in Seq(VariantRows)
  <2>1. variants' = [i \in 1 .. Len(variants) |-> variants'[i]]
    BY <1>1, <1>2
  <2> QED
    BY <1>2, <1>3, <2>1
<1>5. Dimmed(variants, variants')
  BY <1>3, <1>4 DEF Dimmed
<1>6. /\ Tables' /\ OnSale'
      /\ \A w \in Variants : /\ ~IsOffered(w) /\ Mirrored(w) => Mirrored(w)'
                             /\ IsOffered(w) /\ Mirrored(w)
                                  /\ (\A i \in DOMAIN variants : variants[i].uuid = w => variants'[i] = variants[i])
                                  => Mirrored(w)'
                             /\ ~IsOffered(w) /\ (\A i \in DOMAIN variants : variants[i].uuid = w => ~variants'[i].active)
                                  => Mirrored(w)'
  BY <1>1, <1>2, <1>5, DimmedKeeps DEF CatalogInv
<1>7. Upstream'
  BY <1>1 DEF CatalogInv, Upstream
<1>8. ASSUME NEW w \in Variants PROVE Current(w)'
  <2>1. CASE w = v
    <3>1. ~IsOffered(v)
      BY <1>1 DEF IsOffered
    <3> QED
      BY <1>3, <1>6, <2>1, <3>1 DEF Current
  <2>2. CASE w # v
    <3>1. Current(w) /\ <<"variant", w>> # <<"variant", v>> /\ <<"product", Owner[w]>> # <<"variant", v>>
      BY <2>2 DEF CatalogInv
    <3>2. Mirrored(w) => Mirrored(w)'
      BY <1>3, <1>6, <2>2
    <3> QED
      BY <1>1, <3>1, <3>2 DEF Current
  <2> QED
    BY <2>1, <2>2
<1> QED
  BY <1>6, <1>7, <1>8 DEF CatalogInv

(* A change at MoySklad: what it may concern has a task, the rest is as it *)
(* was.                                                                    *)
LEMMA ChangesKeep ==
  ASSUME CatalogInv, Upstream', UNCHANGED <<products, variants>>, pending \subseteq pending',
         \A v \in Variants :
           \/ <<"variant", v>> \in pending' \/ <<"product", Owner[v]>> \in pending'
           \/ upVariants'[v] = upVariants[v] /\ upProducts'[Owner[v]] = upProducts[Owner[v]]
  PROVE  CatalogInv'
<1>1. Tables' /\ OnSale'
  BY DEF CatalogInv, Tables, OnSale, ProductRows, VariantRows, Apart, SameRow
<1>2. ASSUME NEW v \in Variants PROVE Current(v)'
  BY DEF CatalogInv, Current, Mirrored, IsOffered, Exact
<1> QED
  BY <1>1, <1>2 DEF CatalogInv

(* A free code, or external code, is nobody's.                             *)
LEMMA FreeIs ==
  ASSUME NEW es, NEW c
  PROVE  /\ c \in FreeCodes(es) => c \in Codes /\ \A e \in DOMAIN es : es[e].state = "live" => es[e].code # c
         /\ c \in FreeExts(es) => c \in Codes /\ \A e \in DOMAIN es : es[e].state = "live" => es[e].ext # c
  BY DEF FreeCodes, FreeExts, Taken

(* A change of a product leaves a task for it.                             *)
LEMMA ChangeProductKeeps ==
  ASSUME CatalogInv, NEW p \in Products, ChangeProduct(p)
  PROVE  CatalogInv'
<1>1. /\ upProducts[p].state = "live" /\ UNCHANGED upVariants /\ changes < MaxChanges /\ changes' = changes + 1
      /\ UNCHANGED <<products, variants>> /\ pending' = pending \cup {<<"product", p>>}
  BY DEF ChangeProduct, Changed
<1>2. /\ upProducts \in [Products -> [state : {"live", "gone"}, code : Codes, ext : Codes, archived : BOOLEAN,
                                      category : Categories]]
      /\ changes \in Nat /\ MaxChanges \in Nat
  BY CatalogAssumption DEF CatalogInv, Upstream
<1> DEFINE Entities == [state : {"live", "gone"}, code : Codes, ext : Codes, archived : BOOLEAN, category : Categories]
           Fits(d) == /\ d \in Entities /\ upProducts' = [upProducts EXCEPT ![p] = d]
                      /\ d.state = "live" /\ d.ext = upProducts[p].ext
                      /\ \/ d.code = upProducts[p].code
                         \/ \A q \in Products : upProducts[q].state = "live" => upProducts[q].code # d.code
<1>3. \E d : Fits(d)
  <2>1. CASE \E c \in FreeCodes(upProducts) : upProducts' = [upProducts EXCEPT ![p].code = c]
    <3>1. PICK c \in FreeCodes(upProducts) : upProducts' = [upProducts EXCEPT ![p].code = c]
      BY <2>1
    <3>2. c \in Codes /\ \A q \in Products : upProducts[q].state = "live" => upProducts[q].code # c
      BY <1>2, FreeIs
    <3> DEFINE d == [upProducts[p] EXCEPT !.code = c]
    <3>3. d \in Entities /\ upProducts' = [upProducts EXCEPT ![p] = d] /\ d.code = c
          /\ d.state = "live" /\ d.ext = upProducts[p].ext
      BY <1>1, <1>2, <3>1, <3>2
    <3> HIDE DEF d
    <3>4. Fits(d)
      BY <3>2, <3>3
    <3> QED
      BY <3>4
  <2>2. CASE upProducts' = [upProducts EXCEPT ![p].archived = ~@]
    <3> DEFINE d == [upProducts[p] EXCEPT !.archived = ~@]
    <3>1. Fits(d)
      BY <1>1, <1>2, <2>2
    <3> QED
      BY <3>1
  <2>3. CASE \E c \in Categories : upProducts' = [upProducts EXCEPT ![p].category = c]
    <3>1. PICK c \in Categories : upProducts' = [upProducts EXCEPT ![p].category = c]
      BY <2>3
    <3> DEFINE d == [upProducts[p] EXCEPT !.category = c]
    <3>2. Fits(d)
      BY <1>1, <1>2, <3>1
    <3> QED
      BY <3>2
  <2> HIDE DEF Fits
  <2> QED
    BY <2>1, <2>2, <2>3 DEF ChangeProduct
<1>4. PICK d : Fits(d)
  BY <1>3
<1>5. Upstream'
  <2>1. upProducts' \in [Products -> Entities]
    BY <1>2, <1>4
  <2>2. /\ upProducts'[p].state = "live" /\ upProducts'[p].code = d.code /\ upProducts'[p].ext = upProducts[p].ext
        /\ \A q \in Products \ {p} : upProducts'[q] = upProducts[q]
    BY <1>1, <1>2, <1>4
  <2>3. ASSUME NEW q \in Products, NEW r \in Products, q # r, upProducts'[q].state = "live", upProducts'[r].state = "live"
        PROVE  upProducts'[q].code # upProducts'[r].code /\ upProducts'[q].ext # upProducts'[r].ext
    BY <1>1, <1>4, <2>2, <2>3 DEF CatalogInv, Upstream
  <2>4. changes' \in 0 .. MaxChanges
    BY <1>1, <1>2
  <2>5. pending' \subseteq ({"product"} \X Products) \cup ({"variant"} \X Variants)
    BY <1>1 DEF CatalogInv, Upstream
  <2>6. ASSUME NEW v \in Variants, upVariants[v].state = "live" PROVE upProducts'[Owner[v]].state = "live"
    BY <2>2, <2>6, CatalogAssumption DEF CatalogInv, Upstream
  <2> QED
    BY <1>1, <2>1, <2>3, <2>4, <2>5, <2>6 DEF CatalogInv, Upstream
<1>6. \A q \in Products \ {p} : upProducts'[q] = upProducts[q]
  BY <1>2, <1>4
<1> QED
  BY <1>1, <1>5, <1>6, ChangesKeep, CatalogAssumption

(* A variant is changed or created.                                        *)
LEMMA NewVariantKeeps ==
  ASSUME CatalogInv, NEW v \in Variants, UNCHANGED <<upProducts, products, variants>>,
         changes < MaxChanges, changes' = changes + 1, pending' = pending \cup {<<"variant", v>>},
         NEW d \in [state : {"new", "live", "gone"}, code : Codes, ext : Codes, archived : BOOLEAN, look : Looks],
         upVariants' = [upVariants EXCEPT ![v] = d],
         d.state = "live" =>
           /\ upProducts[Owner[v]].state = "live"
           /\ \A w \in Variants \ {v} : upVariants[w].state = "live" =>
                upVariants[w].code # d.code /\ upVariants[w].ext # d.ext
  PROVE  CatalogInv'
<1>1. upVariants \in [Variants -> [state : {"new", "live", "gone"}, code : Codes, ext : Codes, archived : BOOLEAN,
                                  look : Looks]]
      /\ changes \in Nat /\ MaxChanges \in Nat
  BY CatalogAssumption DEF CatalogInv, Upstream
<1>2. upVariants'[v] = d /\ \A w \in Variants \ {v} : upVariants'[w] = upVariants[w]
  BY <1>1
<1>3. Upstream'
  <2>1. upVariants' \in [Variants -> [state : {"new", "live", "gone"}, code : Codes, ext : Codes, archived : BOOLEAN,
                                  look : Looks]]
    BY <1>1
  <2>2. ASSUME NEW u \in Variants, NEW w \in Variants, u # w, upVariants'[u].state = "live", upVariants'[w].state = "live"
        PROVE  upVariants'[u].code # upVariants'[w].code /\ upVariants'[u].ext # upVariants'[w].ext
    BY <1>2, <2>2 DEF CatalogInv, Upstream
  <2>3. changes' \in 0 .. MaxChanges
    BY <1>1
  <2>4. pending' \subseteq ({"product"} \X Products) \cup ({"variant"} \X Variants)
    BY DEF CatalogInv, Upstream
  <2>5. ASSUME NEW w \in Variants, upVariants'[w].state = "live" PROVE upProducts[Owner[w]].state = "live"
    BY <1>2, <2>5 DEF CatalogInv, Upstream
  <2> QED
    BY <2>1, <2>2, <2>3, <2>4, <2>5 DEF CatalogInv, Upstream
<1> QED
  BY <1>2, <1>3, ChangesKeep

(* The code, the archiving, the deletion or the look of a variant.         *)
LEMMA ChangeVariantKeeps ==
  ASSUME CatalogInv, NEW v \in Variants, ChangeVariant(v)
  PROVE  CatalogInv'
<1>1. /\ upVariants[v].state = "live" /\ UNCHANGED upProducts /\ changes < MaxChanges /\ changes' = changes + 1
      /\ UNCHANGED <<products, variants>> /\ pending' = pending \cup {<<"variant", v>>}
  BY DEF ChangeVariant, Changed
<1>2. /\ upVariants \in [Variants -> [state : {"new", "live", "gone"}, code : Codes, ext : Codes, archived : BOOLEAN,
                                      look : Looks]]
      /\ upProducts[Owner[v]].state = "live"
      /\ \A w \in Variants \ {v} : upVariants[w].state = "live" =>
           upVariants[w].code # upVariants[v].code /\ upVariants[w].ext # upVariants[v].ext
  BY <1>1 DEF CatalogInv, Upstream
<1>3. CASE \E c \in FreeCodes(upVariants) : upVariants' = [upVariants EXCEPT ![v].code = c]
  <2>1. PICK c \in FreeCodes(upVariants) : upVariants' = [upVariants EXCEPT ![v].code = c]
    BY <1>3
  <2>2. c \in Codes /\ \A w \in Variants : upVariants[w].state = "live" => upVariants[w].code # c
    BY <1>2, FreeIs
  <2> DEFINE d == [upVariants[v] EXCEPT !.code = c]
  <2>3. /\ d \in [state : {"new", "live", "gone"}, code : Codes, ext : Codes, archived : BOOLEAN, look : Looks]
        /\ upVariants' = [upVariants EXCEPT ![v] = d] /\ d.code = c /\ d.ext = upVariants[v].ext
    BY <1>2, <2>1, <2>2
  <2> HIDE DEF d
  <2> QED
    BY <1>1, <1>2, <2>2, <2>3, NewVariantKeeps
<1>4. CASE upVariants' = [upVariants EXCEPT ![v].archived = ~@]
  <2> DEFINE d == [upVariants[v] EXCEPT !.archived = ~@]
  <2>1. /\ d \in [state : {"new", "live", "gone"}, code : Codes, ext : Codes, archived : BOOLEAN, look : Looks]
        /\ upVariants' = [upVariants EXCEPT ![v] = d] /\ d.code = upVariants[v].code /\ d.ext = upVariants[v].ext
    BY <1>2, <1>4
  <2> HIDE DEF d
  <2> QED
    BY <1>1, <1>2, <2>1, NewVariantKeeps
<1>5. CASE upVariants' = [upVariants EXCEPT ![v].state = "gone"]
  <2> DEFINE d == [upVariants[v] EXCEPT !.state = "gone"]
  <2>1. /\ d \in [state : {"new", "live", "gone"}, code : Codes, ext : Codes, archived : BOOLEAN, look : Looks]
        /\ upVariants' = [upVariants EXCEPT ![v] = d] /\ d.code = upVariants[v].code /\ d.ext = upVariants[v].ext
    BY <1>2, <1>5
  <2> HIDE DEF d
  <2> QED
    BY <1>1, <1>2, <2>1, NewVariantKeeps
<1>6. CASE \E l \in Looks : upVariants' = [upVariants EXCEPT ![v].look = l]
  <2>0. PICK l \in Looks : upVariants' = [upVariants EXCEPT ![v].look = l]
    BY <1>6
  <2> DEFINE d == [upVariants[v] EXCEPT !.look = l]
  <2>1. /\ d \in [state : {"new", "live", "gone"}, code : Codes, ext : Codes, archived : BOOLEAN, look : Looks]
        /\ upVariants' = [upVariants EXCEPT ![v] = d] /\ d.code = upVariants[v].code /\ d.ext = upVariants[v].ext
    BY <1>2, <2>0
  <2> HIDE DEF d
  <2> QED
    BY <1>1, <1>2, <2>1, NewVariantKeeps
<1> QED
  BY <1>3, <1>4, <1>5, <1>6 DEF ChangeVariant

(* A variant that is created under identifiers that are free.              *)
LEMMA CreateVariantKeeps ==
  ASSUME CatalogInv, NEW v \in Variants, CreateVariant(v)
  PROVE  CatalogInv'
<1>1. /\ upProducts[Owner[v]].state = "live" /\ UNCHANGED upProducts /\ changes < MaxChanges /\ changes' = changes + 1
      /\ UNCHANGED <<products, variants>> /\ pending' = pending \cup {<<"variant", v>>}
  BY DEF CreateVariant, Changed
<1>2. upVariants \in [Variants -> [state : {"new", "live", "gone"}, code : Codes, ext : Codes, archived : BOOLEAN,
                                      look : Looks]]
  BY DEF CatalogInv, Upstream
<1>3. PICK c \in FreeCodes(upVariants), x \in FreeExts(upVariants) :
        upVariants' = [upVariants EXCEPT ![v].state = "live", ![v].code = c, ![v].ext = x]
  BY DEF CreateVariant
<1>4. /\ c \in Codes /\ \A w \in Variants : upVariants[w].state = "live" => upVariants[w].code # c
      /\ x \in Codes /\ \A w \in Variants : upVariants[w].state = "live" => upVariants[w].ext # x
  BY <1>2, FreeIs
<1> DEFINE d == [upVariants[v] EXCEPT !.state = "live", !.code = c, !.ext = x]
<1>5. /\ d \in [state : {"new", "live", "gone"}, code : Codes, ext : Codes, archived : BOOLEAN, look : Looks]
      /\ upVariants' = [upVariants EXCEPT ![v] = d] /\ d.code = c /\ d.ext = x
  BY <1>2, <1>3, <1>4
<1> HIDE DEF d
<1> QED
  BY <1>1, <1>4, <1>5, NewVariantKeeps

(* A product that is deleted takes its variants along.                     *)
LEMMA DeleteProductKeeps ==
  ASSUME CatalogInv, NEW p \in Products, DeleteProduct(p)
  PROVE  CatalogInv'
<1>1. /\ upProducts' = [upProducts EXCEPT ![p].state = "gone"]
      /\ upVariants' = [v \in Variants |-> IF Owner[v] = p THEN [upVariants[v] EXCEPT !.state = "gone"] ELSE upVariants[v]]
      /\ changes < MaxChanges /\ changes' = changes + 1
      /\ UNCHANGED <<products, variants>> /\ pending' = pending \cup {<<"product", p>>}
  BY DEF DeleteProduct, Changed
<1>2. Upstream'
  <2>1. /\ upProducts \in [Products -> [state : {"live", "gone"}, code : Codes, ext : Codes, archived : BOOLEAN,
                                        category : Categories]]
        /\ upVariants \in [Variants -> [state : {"new", "live", "gone"}, code : Codes, ext : Codes, archived : BOOLEAN,
                                        look : Looks]]
        /\ changes \in Nat /\ MaxChanges \in Nat
    BY CatalogAssumption DEF CatalogInv, Upstream
  <2>2. /\ upProducts' \in [Products -> [state : {"live", "gone"}, code : Codes, ext : Codes, archived : BOOLEAN,
                                        category : Categories]]
        /\ upProducts'[p].state = "gone" /\ \A q \in Products \ {p} : upProducts'[q] = upProducts[q]
    BY <1>1, <2>1
  <2>3. upVariants' \in [Variants -> [state : {"new", "live", "gone"}, code : Codes, ext : Codes, archived : BOOLEAN,
                                        look : Looks]]
    BY <1>1, <2>1
  <2>4. \A v \in Variants : IF Owner[v] = p THEN upVariants'[v].state = "gone" ELSE upVariants'[v] = upVariants[v]
    BY <1>1, <2>1
  <2>5. ASSUME NEW q \in Products, NEW r \in Products, q # r, upProducts'[q].state = "live", upProducts'[r].state = "live"
        PROVE  upProducts'[q].code # upProducts'[r].code /\ upProducts'[q].ext # upProducts'[r].ext
    BY <2>2, <2>5 DEF CatalogInv, Upstream
  <2>6. ASSUME NEW u \in Variants, NEW w \in Variants, u # w, upVariants'[u].state = "live", upVariants'[w].state = "live"
        PROVE  upVariants'[u].code # upVariants'[w].code /\ upVariants'[u].ext # upVariants'[w].ext
    BY <2>4, <2>6 DEF CatalogInv, Upstream
  <2>7. ASSUME NEW v \in Variants, upVariants'[v].state = "live" PROVE upProducts'[Owner[v]].state = "live"
    BY <2>2, <2>4, <2>7, CatalogAssumption DEF CatalogInv, Upstream
  <2>8. changes' \in 0 .. MaxChanges /\ pending' \subseteq ({"product"} \X Products) \cup ({"variant"} \X Variants)
    BY <1>1, <2>1 DEF CatalogInv, Upstream
  <2> QED
    BY <2>2, <2>3, <2>5, <2>6, <2>7, <2>8 DEF Upstream
<1>3. ASSUME NEW v \in Variants
      PROVE  \/ <<"product", Owner[v]>> \in pending'
             \/ upVariants'[v] = upVariants[v] /\ upProducts'[Owner[v]] = upProducts[Owner[v]]
  BY <1>1, CatalogAssumption DEF CatalogInv, Upstream
<1> QED
  BY <1>1, <1>2, <1>3, ChangesKeep

-----------------------------------------------------------------------------
(* The manual import.                                                      *)

(* A successful import leaves every variant as MoySklad has it, whatever   *)
(* was in the tables.                                                      *)
LEMMA ImportShows ==
  ASSUME Upstream, Tables, Import
  PROVE  Tables' /\ OnSale' /\ (\A v \in Variants : Mirrored(v)')
<1> DEFINE L == ListedVariants(Importable)
<1>1. PICK order \in Orders : LET loaded == Loaded(order[1], order[2])
                              IN  /\ loaded.ok
                                  /\ products' = ArchiveMissingProducts(loaded.products, Importable)
                                  /\ variants' = ArchiveMissing(loaded.variants, L)
  BY DEF Import
<1> DEFINE ps == order[1]
           vs == order[2]
           rows == Loaded(ps, vs).products
           new == Loaded(ps, vs).variants
<1>2. Importable \subseteq Products /\ IsFiniteSet(Importable) /\ L \subseteq Variants /\ IsFiniteSet(L)
  BY CatalogAssumption, FS_Subset DEF Importable, ListedVariants
<1>3. ps \in SetToSeqs(Importable) /\ vs \in SetToSeqs(L)
  BY DEF Orders
<1>4. /\ ps \in Seq(Importable) /\ IsInjective(ps) /\ ToSet(ps) = Importable
      /\ vs \in Seq(L) /\ IsInjective(vs) /\ ToSet(vs) = L
  BY <1>2, <1>3, SeqsAre
<1>5. /\ Loaded(ps, vs).ok
      /\ products' = ArchiveMissingProducts(rows, Importable) /\ variants' = ArchiveMissing(new, L)
      /\ UNCHANGED <<upProducts, upVariants>>
  BY <1>1 DEF Import, up
<1> HIDE DEF L, ps, vs
<1>6. /\ ps \in Seq(Products) /\ (\A i \in DOMAIN ps : ps[i] \in Importable)
      /\ vs \in Seq(Variants) /\ (\A i \in DOMAIN vs : vs[i] \in L)
  BY <1>2, <1>4
<1>7. /\ \A v \in Variants : v \in L <=> IsOffered(v)
      /\ \A v \in Variants : v \in L => Owner[v] \in Importable /\ Listed(upVariants[v])
      /\ \A p \in Importable : Listed(upProducts[p]) /\ p \in Products
  BY CatalogAssumption DEF L, Import, IsOffered, Importable, ListedVariants
<1>8. Apart([i \in DOMAIN ps |-> ProductData(ps[i])])
  <2> SUFFICES ASSUME NEW i \in DOMAIN ps, NEW k \in DOMAIN ps, i # k
               PROVE  ~SameRow(ProductData(ps[i]), ProductData(ps[k]))
    BY DEF Apart
  <2>1. ps[i] # ps[k] /\ upProducts[ps[i]].state = "live" /\ upProducts[ps[k]].state = "live"
        /\ ps[i] \in Products /\ ps[k] \in Products
    BY <1>4, <1>6, <1>7 DEF IsInjective, Listed
  <2> QED
    BY <2>1 DEF SameRow, ProductData, Upstream
<1>9. /\ rows \in Seq(ProductRows) /\ Apart(rows) /\ DOMAIN rows = DOMAIN products
      /\ \A i \in DOMAIN products :
           /\ rows[i].uuid = products[i].uuid
           /\ rows[i] = IF products[i].uuid \in Importable THEN ProductData(products[i].uuid) ELSE products[i]
  <2>1. /\ rows \in Seq(ProductRows) /\ Apart(rows) /\ DOMAIN rows = DOMAIN products
        /\ \A i \in DOMAIN products :
             /\ rows[i].uuid = products[i].uuid
             /\ rows[i] = IF products[i].uuid \in ToSet(ps) THEN ProductData(products[i].uuid) ELSE products[i]
    BY <1>5, <1>6, <1>8, LoadedProducts
  <2> HIDE DEF rows
  <2> QED
    BY <1>4, <2>1
<1>10. /\ new \in Seq(VariantRows) /\ Apart(new)
       /\ \A v \in ToSet(vs) : \E i \in DOMAIN new : new[i].uuid = v
       /\ \A i \in DOMAIN new :
            IF new[i].uuid \in ToSet(vs)
              THEN /\ new[i] = VariantData(new[i].uuid, rows)
                   /\ products[new[i].product].uuid = Owner[new[i].uuid]
              ELSE i \in DOMAIN variants /\ new[i] = variants[i]
  <2>1. \A j \in DOMAIN vs : Listed(upVariants[vs[j]])
    BY <1>6, <1>7
  <2> QED
    BY <1>4, <1>5, <1>6, <1>8, <2>1, LoadedVariants
<1> HIDE DEF rows, new
<1>11. /\ DOMAIN new = 1 .. Len(new) /\ Len(new) \in Nat /\ DOMAIN rows = 1 .. Len(rows) /\ Len(rows) \in Nat
       /\ \A i \in DOMAIN new : new[i] \in VariantRows
       /\ \A i \in DOMAIN rows : rows[i] \in ProductRows
  BY <1>9, <1>10
<1>12. /\ DOMAIN variants' = DOMAIN new
       /\ \A i \in DOMAIN new : variants'[i] = IF new[i].uuid \in L THEN new[i] ELSE Withdrawn(new[i])
       /\ variants' = [i \in 1 .. Len(new) |-> variants'[i]]
  BY <1>5, <1>11 DEF ArchiveMissing
<1>13. /\ DOMAIN products' = DOMAIN products
       /\ \A i \in DOMAIN products :
            products'[i] = IF rows[i].uuid \in Importable THEN rows[i] ELSE [rows[i] EXCEPT !.archived = TRUE]
       /\ products' = [i \in 1 .. Len(rows) |-> products'[i]]
  BY <1>5, <1>9, <1>11 DEF ArchiveMissingProducts
<1>14. \A i \in DOMAIN new : /\ variants'[i] \in VariantRows
                             /\ variants'[i].uuid = new[i].uuid /\ variants'[i].code = new[i].code
                             /\ variants'[i].ext = new[i].ext /\ variants'[i].product = new[i].product
                             /\ new[i].uuid \notin L => ~variants'[i].active
                             /\ new[i].uuid \in L => variants'[i] = new[i]
  <2> SUFFICES ASSUME NEW i \in DOMAIN new
               PROVE  /\ variants'[i] \in VariantRows
                      /\ variants'[i].uuid = new[i].uuid /\ variants'[i].code = new[i].code
                      /\ variants'[i].ext = new[i].ext /\ variants'[i].product = new[i].product
                      /\ new[i].uuid \notin L => ~variants'[i].active
                      /\ new[i].uuid \in L => variants'[i] = new[i]
    OBVIOUS
  <2>1. CASE new[i].uuid \in L
    BY <1>11, <1>12, <2>1
  <2>2. CASE new[i].uuid \notin L
    <3>1. new[i] \in VariantRows /\ variants'[i] = Withdrawn(new[i])
      BY <1>11, <1>12, <2>2
    <3> QED
      BY <2>2, <3>1 DEF Withdrawn, VariantRows
  <2> QED
    BY <2>1, <2>2
<1>15. Dimmed(new, variants')
  <2>1. variants' \in Seq(VariantRows)
    BY <1>11, <1>12, <1>14
  <2> QED
    BY <1>12, <1>14, <2>1 DEF Dimmed
<1>16. /\ \A i \in DOMAIN products : /\ products'[i] \in ProductRows
                                     /\ products'[i].uuid = products[i].uuid /\ products'[i].code = rows[i].code
                                     /\ products'[i].ext = rows[i].ext
       /\ \A i \in DOMAIN products : products[i].uuid \in Importable => products'[i] = ProductData(products[i].uuid)
  BY <1>9, <1>11, <1>13 DEF ProductRows
<1>17. products' \in Seq(ProductRows) /\ Apart(products')
  <2>1. products' \in Seq(ProductRows)
    BY <1>9, <1>11, <1>13, <1>16
  <2>2. \A i \in DOMAIN products : products'[i].uuid = rows[i].uuid
    BY <1>9, <1>16
  <2> QED
    BY <1>9, <1>13, <1>16, <2>1, <2>2 DEF Apart, SameRow
<1>18. \A i \in DOMAIN new : products[new[i].product].uuid = Owner[new[i].uuid] /\ new[i].product \in DOMAIN products
  BY <1>10, <1>11 DEF Tables, VariantRows
<1>19. Tables'
  BY <1>10, <1>13, <1>15, <1>16, <1>17, <1>18, TablesKeep
<1>20. ASSUME NEW i \in DOMAIN new, new[i].uuid \in L
       PROVE  /\ variants'[i] = VariantData(new[i].uuid, rows)
              /\ products'[variants'[i].product] = ProductData(Owner[new[i].uuid])
              /\ Listed(upVariants[new[i].uuid]) /\ Listed(upProducts[Owner[new[i].uuid]])
  BY <1>2, <1>4, <1>7, <1>10, <1>14, <1>16, <1>18, <1>20
<1>21. OnSale'
  <2> SUFFICES ASSUME NEW i \in DOMAIN variants', variants'[i].active
               PROVE  ~variants'[i].archived /\ ~products'[variants'[i].product].archived
    BY DEF OnSale
  <2>1. i \in DOMAIN new /\ new[i].uuid \in L
    BY <1>12, <1>14
  <2>2. variants'[i].archived = upVariants[new[i].uuid].archived
    <3>1. variants'[i] = VariantData(new[i].uuid, rows)
      BY <1>20, <2>1
    <3> QED
      BY <3>1 DEF VariantData
  <2>3. products'[variants'[i].product].archived = upProducts[Owner[new[i].uuid]].archived
    <3>1. products'[variants'[i].product] = ProductData(Owner[new[i].uuid])
      BY <1>20, <2>1
    <3> QED
      BY <3>1 DEF ProductData
  <2> QED
    BY <1>20, <2>1, <2>2, <2>3 DEF Listed
<1>22. ASSUME NEW v \in Variants PROVE Mirrored(v)'
  <2>1. IsOffered(v)' <=> v \in L
    BY <1>5, <1>7 DEF IsOffered
  <2>2. CASE v \in L
    <3>1. PICK i \in DOMAIN new : new[i].uuid = v
      BY <1>4, <1>10, <2>2
    <3>2. i \in DOMAIN variants' /\ variants'[i] = VariantData(v, rows)
          /\ products'[variants'[i].product].category = upProducts[Owner[v]].category
      <4>1. products'[variants'[i].product] = ProductData(Owner[v]) /\ variants'[i] = VariantData(v, rows)
        BY <1>20, <2>2, <3>1
      <4>2. products'[variants'[i].product].category = upProducts[Owner[v]].category
        BY <4>1 DEF ProductData
      <4> QED
        BY <1>12, <3>1, <4>1, <4>2
    <3>3. variants'[i].uuid = v /\ variants'[i].code = upVariants[v].code /\ variants'[i].ext = upVariants[v].ext
          /\ variants'[i].look = upVariants[v].look
      BY <3>2 DEF VariantData
    <3>4. variants'[i].active
      <4>1. variants'[i].active = ~upVariants[v].archived
        BY <3>2 DEF VariantData
      <4> QED
        BY <1>7, <2>2, <4>1 DEF Listed
    <3>5. Exact(v)'
      BY <1>5, <3>2, <3>3, <3>4 DEF Exact
    <3> QED
      BY <2>1, <2>2, <3>5 DEF Mirrored
  <2>3. CASE v \notin L
    BY <1>12, <1>14, <2>1, <2>3 DEF Mirrored
  <2> QED
    BY <2>2, <2>3
<1> QED
  BY <1>19, <1>21, <1>22

(* An import keeps the invariant: it leaves nothing that a task waits for. *)
LEMMA ImportKeeps ==
  ASSUME CatalogInv, Import
  PROVE  CatalogInv'
<1>1. UNCHANGED <<upProducts, upVariants, pending, changes>>
  BY DEF Import, up
<1>2. Upstream'
  BY <1>1 DEF CatalogInv, Upstream
<1>3. Tables' /\ OnSale' /\ (\A v \in Variants : Mirrored(v)')
  BY ImportShows DEF CatalogInv
<1> QED
  BY <1>2, <1>3 DEF CatalogInv, Current

-----------------------------------------------------------------------------
(* The invariant.                                                          *)

(* A finite set has a sequence.                                            *)
LEMMA SeqIs ==
  ASSUME NEW S, IsFiniteSet(S)
  PROVE  SetToSeq(S) \in Seq(S) /\ IsInjective(SetToSeq(S)) /\ ToSet(SetToSeq(S)) = S
<1> DEFINE n == Cardinality(S)
<1>1. n \in Nat /\ ExistsBijection(1 .. n, S)
  BY FS_CardinalityType
<1>2. \E f \in [1 .. n -> S] : IsInjective(f)
  BY <1>1 DEF ExistsBijection, Bijection, Injection, IsInjective
<1>3. SetToSeq(S) \in [1 .. n -> S] /\ IsInjective(SetToSeq(S))
  BY <1>2 DEF SetToSeq
<1>4. SetToSeq(S) \in SetToSeqs(S)
  BY <1>3 DEF SetToSeqs, IsInjective
<1> QED
  BY <1>4, SeqsAre

(* The first import has put every entity that exists into the tables.      *)
LEMMA InitIs ==
  Init => CatalogInv
<1> SUFFICES ASSUME NEW fresh \in SUBSET Variants, InitWith(fresh)
             PROVE  CatalogInv
  BY DEF Init
<1>1. /\ upProducts = [p \in Products |-> [state |-> "live", code |-> p, ext |-> p, archived |-> FALSE,
                                           category |-> CHOOSE c \in Categories : TRUE]]
      /\ upVariants = [v \in Variants |-> [state |-> IF v \in fresh THEN "new" ELSE "live", code |-> v,
                                           ext |-> v, archived |-> FALSE, look |-> CHOOSE l \in Looks : TRUE]]
      /\ pending = {} /\ changes = 0
  BY DEF InitWith
<1>2. (CHOOSE c \in Categories : TRUE) \in Categories /\ (CHOOSE l \in Looks : TRUE) \in Looks
      /\ Products \subseteq Codes /\ Variants \subseteq Codes /\ MaxChanges \in Nat
      /\ Owner \in [Variants -> Products]
  BY CatalogAssumption
<1>3. Upstream
  BY <1>1, <1>2 DEF Upstream
<1> DEFINE ps == SetToSeq(Products)
           vs == SetToSeq(Variants \ fresh)
<1>4. /\ ps \in Seq(Products) /\ IsInjective(ps) /\ ToSet(ps) = Products
      /\ vs \in Seq(Variants \ fresh) /\ IsInjective(vs) /\ ToSet(vs) = Variants \ fresh
  <2>1. IsFiniteSet(Products) /\ IsFiniteSet(Variants \ fresh)
    BY CatalogAssumption, FS_Subset
  <2> HIDE DEF ps, vs
  <2> QED
    BY <2>1, SeqIs DEF ps, vs
<1>5. /\ products = [i \in 1 .. Len(ps) |-> ProductData(ps[i])]
      /\ variants = [i \in DOMAIN vs |-> VariantData(vs[i], products)]
  BY DEF InitWith
<1> HIDE DEF ps, vs
<1>6. /\ DOMAIN ps = 1 .. Len(ps) /\ Len(ps) \in Nat /\ DOMAIN vs = 1 .. Len(vs) /\ Len(vs) \in Nat
      /\ (\A i \in DOMAIN ps : ps[i] \in Products) /\ (\A i \in DOMAIN vs : vs[i] \in Variants /\ vs[i] \notin fresh)
  BY <1>4
<1>7. \A p \in Products : /\ ProductData(p) \in ProductRows /\ ProductData(p).uuid = p /\ ProductData(p).code = p
                          /\ ProductData(p).ext = p
                          /\ ProductData(p).category = upProducts[p].category /\ ~ProductData(p).archived
  BY <1>1, <1>2 DEF ProductData, ProductRows
<1>8. /\ products \in Seq(ProductRows) /\ DOMAIN products = DOMAIN ps
      /\ \A i \in DOMAIN ps : /\ products[i].uuid = ps[i] /\ products[i].code = ps[i] /\ products[i].ext = ps[i]
                              /\ products[i].category = upProducts[ps[i]].category /\ ~products[i].archived
  BY <1>5, <1>6, <1>7
<1>9. Apart(products)
  BY <1>4, <1>6, <1>8 DEF Apart, SameRow, IsInjective
<1>10. \A p \in Products : \E i \in DOMAIN products : products[i].uuid = p
  BY <1>4, <1>8 DEF ToSet
<1>11. ASSUME NEW v \in Variants, v \notin fresh
       PROVE  /\ VariantData(v, products) \in VariantRows
              /\ VariantData(v, products).uuid = v /\ VariantData(v, products).code = v /\ VariantData(v, products).ext = v
              /\ VariantData(v, products).look = upVariants[v].look
              /\ ~VariantData(v, products).archived /\ VariantData(v, products).active
              /\ VariantData(v, products).product \in DOMAIN products
              /\ products[VariantData(v, products).product].uuid = Owner[v]
  <2>1. PICK i \in DOMAIN products : products[i].uuid = Owner[v]
    BY <1>2, <1>10
  <2>2. RowOf(products, Owner[v]) = i
    BY <1>9, <2>1, RowIs
  <2>3. VariantData(v, products) = [uuid |-> v, code |-> v, ext |-> v, look |-> upVariants[v].look, product |-> i,
                                    archived |-> FALSE, active |-> TRUE]
    BY <1>1, <2>2 DEF VariantData
  <2>4. upVariants[v].look \in Looks
    BY <1>1, <1>2
  <2> QED
    BY <1>2, <2>1, <2>3, <2>4 DEF VariantRows
<1>12. /\ variants \in Seq(VariantRows) /\ DOMAIN variants = DOMAIN vs
       /\ \A i \in DOMAIN vs : variants[i] = VariantData(vs[i], products)
  BY <1>5, <1>6, <1>11
<1>13. \A i \in DOMAIN vs :
         /\ variants[i].uuid = vs[i] /\ variants[i].code = vs[i] /\ variants[i].ext = vs[i]
         /\ variants[i].look = upVariants[vs[i]].look /\ ~variants[i].archived /\ variants[i].active
         /\ variants[i].product \in DOMAIN products /\ products[variants[i].product].uuid = Owner[vs[i]]
  BY <1>6, <1>11, <1>12
<1>14. Apart(variants)
  BY <1>4, <1>6, <1>12, <1>13 DEF Apart, SameRow, IsInjective
<1>15. Tables
  BY <1>8, <1>9, <1>10, <1>12, <1>13, <1>14 DEF Tables
<1>16. OnSale
  BY <1>8, <1>12, <1>13 DEF OnSale
<1>17. ASSUME NEW v \in Variants PROVE Mirrored(v)
  <2>0. /\ upVariants[v].state = IF v \in fresh THEN "new" ELSE "live"
        /\ upVariants[v].code = v /\ upVariants[v].ext = v /\ upVariants[v].archived = FALSE
        /\ upProducts[Owner[v]].state = "live" /\ upProducts[Owner[v]].archived = FALSE
    BY <1>1, <1>2
  <2>1. CASE v \in fresh
    <3>1. ~IsOffered(v)
      BY <2>0, <2>1 DEF IsOffered, Listed
    <3> QED
      BY <1>6, <1>12, <1>13, <2>1, <3>1 DEF Mirrored
  <2>2. CASE v \notin fresh
    <3>1. IsOffered(v)
      BY <2>0, <2>2 DEF IsOffered, Listed
    <3>2. PICK i \in DOMAIN vs : vs[i] = v
      BY <1>4, <2>2 DEF ToSet
    <3>3. products[variants[i].product].category = upProducts[Owner[v]].category
      BY <1>8, <1>13, <3>2
    <3> QED
      BY <1>12, <1>13, <2>0, <3>1, <3>2, <3>3 DEF Mirrored, Exact
  <2> QED
    BY <2>1, <2>2
<1> QED
  BY <1>3, <1>15, <1>16, <1>17 DEF CatalogInv, Current

(* Every step keeps it.                                                    *)
LEMMA StepKeeps ==
  CatalogInv /\ [Next]_vars => CatalogInv'
<1> SUFFICES ASSUME CatalogInv, [Next]_vars PROVE CatalogInv'
  OBVIOUS
<1>1. CASE Import
  BY <1>1, ImportKeeps
<1>2. CASE \E p \in Products : ArchiveProduct(p) \/ SyncEntireProduct(p) \/ ChangeProduct(p) \/ DeleteProduct(p)
  BY <1>2, ArchiveProductKeeps, SyncEntireProductKeeps, ChangeProductKeeps, DeleteProductKeeps
<1>3. CASE \E v \in Variants : ArchiveVariant(v) \/ SyncVariant(v) \/ ChangeVariant(v) \/ CreateVariant(v)
  BY <1>3, ArchiveVariantKeeps, SyncVariantKeeps, ChangeVariantKeeps, CreateVariantKeeps
<1>4. CASE UNCHANGED vars
  BY <1>4 DEF vars, CatalogInv, Upstream, Tables, OnSale, Current, Mirrored, IsOffered, Exact, Apart, SameRow,
              ProductRows, VariantRows
<1> QED
  BY <1>1, <1>2, <1>3, <1>4 DEF Next

(* The tables keep their types and keys, every product its row, and every  *)
(* variant without a task of its own or of its product is on sale exactly  *)
(* as MoySklad offers it: in whatever order tasks and imports come, none   *)
(* undoes what another has written.                                        *)
THEOREM CatalogInvariant ==
  Spec => []CatalogInv
<1> QED
  BY InitIs, StepKeeps, PTL DEF Spec

-----------------------------------------------------------------------------
(* What the storefront sells.                                              *)

(* If every variant is as MoySklad has it, so is what is sold.             *)
LEMMA MirrorIs ==
  Tables /\ (\A v \in Variants : Mirrored(v)) => Sold = Offers
<1> SUFFICES ASSUME Tables, \A v \in Variants : Mirrored(v) PROVE Sold = Offers
  OBVIOUS
<1> DEFINE S(i) == [variant |-> variants[i].uuid, product |-> products[variants[i].product].uuid,
                    code |-> variants[i].code, look |-> variants[i].look,
                    category |-> products[variants[i].product].category]
           O(v) == [variant |-> v, product |-> Owner[v], code |-> upVariants[v].code, look |-> upVariants[v].look,
                    category |-> upProducts[Owner[v]].category]
<1>1. \A i \in DOMAIN variants : variants[i].uuid \in Variants
                                  /\ products[variants[i].product].uuid = Owner[variants[i].uuid]
  <2>1. \A i \in DOMAIN variants : variants[i] \in VariantRows
    BY DEF Tables
  <2> QED
    BY <2>1 DEF Tables, VariantRows
<1>2. ASSUME NEW v \in Variants, NEW i \in DOMAIN variants, variants[i].uuid = v, variants[i].active
      PROVE  IsOffered(v) /\ S(i) = O(v)
  <2>1. IsOffered(v)
    BY <1>2 DEF Mirrored
  <2>2. PICK k \in DOMAIN variants :
          /\ variants[k].uuid = v /\ variants[k].active
          /\ variants[k].code = upVariants[v].code /\ variants[k].ext = upVariants[v].ext
          /\ variants[k].look = upVariants[v].look
          /\ products[variants[k].product].category = upProducts[Owner[v]].category
    BY <2>1 DEF Mirrored, Exact
  <2>3. k = i
    BY <1>2, <2>2 DEF Tables, Apart, SameRow
  <2> QED
    BY <1>1, <1>2, <2>1, <2>2, <2>3
<1>3. ASSUME NEW v \in Variants, IsOffered(v)
      PROVE  \E i \in DOMAIN variants : variants[i].uuid = v /\ variants[i].active
  BY <1>3 DEF Mirrored, Exact
<1>4. Sold = {S(i) : i \in {j \in DOMAIN variants : variants[j].active}}
  BY DEF Sold
<1>5. Offers = {O(v) : v \in {x \in Variants : IsOffered(x)}}
  BY DEF Offers, IsOffered
<1> HIDE DEF S, O
<1>6. Sold \subseteq Offers
  BY <1>1, <1>2, <1>4, <1>5
<1>7. Offers \subseteq Sold
  BY <1>2, <1>3, <1>4, <1>5
<1> QED
  BY <1>6, <1>7

(* When the task of every changed entity has succeeded, in whatever order, *)
(* the storefront sells what MoySklad offers.                              *)
THEOREM SoldIsOffered ==
  Spec => []QuietIsMirror
<1>1. CatalogInv => QuietIsMirror
  BY MirrorIs DEF CatalogInv, Current, QuietIsMirror
<1> QED
  BY <1>1, CatalogInvariant, PTL

(* A successful import leaves nothing else on sale, whatever was there.    *)
THEOREM ImportIsMirror ==
  Spec => ImportMirrors
<1>1. (Tables /\ (\A v \in Variants : Mirrored(v)) => Sold = Offers)'
  BY MirrorIs, PTL
<1>2. ASSUME CatalogInv, Import PROVE Sold' = Offers
  <2>1. Tables' /\ (\A v \in Variants : Mirrored(v)')
    BY <1>2, ImportShows DEF CatalogInv
  <2>2. Sold' = Offers'
    BY <1>1, <2>1
  <2>3. Offers' = Offers
    BY <1>2 DEF Offers, Import, up
  <2> QED
    BY <2>2, <2>3
<1>3. CatalogInv /\ [Next]_vars => [Import => Sold' = Offers]_vars
  BY <1>2
<1> QED
  BY <1>3, CatalogInvariant, PTL DEF Spec, ImportMirrors

(* The tables have their types, and no two rows, archived ones included,   *)
(* share an identifier: what is created anew with an identifier of         *)
(* something deleted takes over the row that purchases refer to.           *)
THEOREM RowsApart ==
  Spec => []RowsAreApart
<1>1. CatalogInv => RowsAreApart
  <2> SUFFICES ASSUME CatalogInv PROVE RowsAreApart
    OBVIOUS
  <2>1. TypeOK
    BY DEF CatalogInv, Upstream, Tables, TypeOK, Apart, SameRow
  <2> QED
    BY <2>1 DEF CatalogInv, Tables, RowsAreApart, Apart
<1> QED
  BY <1>1, CatalogInvariant, PTL

(* Nothing archived is sold, and a product has a page exactly if the list  *)
(* shows it.                                                               *)
THEOREM ArchivedNotSold ==
  Spec => []ArchivedIsNotSold
<1>1. CatalogInv => ArchivedIsNotSold
  <2> SUFFICES ASSUME CatalogInv PROVE ArchivedIsNotSold
    OBVIOUS
  <2>1. OnSale
    BY DEF CatalogInv
  <2>2. ASSUME NEW p \in DOMAIN products PROVE Shown(p) <=> p \in Listing(NoFilters)
    BY <2>1, <2>2 DEF OnSale, Shown, Listing, Meets, NoFilters, Allows
  <2> QED
    BY <2>1, <2>2 DEF OnSale, ArchivedIsNotSold
<1> QED
  BY <1>1, CatalogInvariant, PTL

-----------------------------------------------------------------------------
(* What the storefront lists.                                              *)

(* The values of a filter that are offered are exactly those that lead to  *)
(* a list with at least one product, whatever else is chosen.              *)
THEOREM FacetsReachable ==
  Spec => []FacetsAreReachable
<1>1. ASSUME CatalogInv, NEW filters \in Filters, NEW c \in Categories
      PROVE  c \in Available(filters, "category") <=> Listing(Clicked(filters, "category", c)) # {}
  <2> DEFINE clicked == Clicked(filters, "category", c)
             Shows(i) == /\ products[variants[i].product].category = c /\ ~products[variants[i].product].archived
                         /\ ~variants[i].archived /\ variants[i].active
                         /\ \A f \in Facets \ Narrowing : Allows(filters.look[f], variants[i].look[f])
  <2>1. \A i \in DOMAIN variants : variants[i].product \in DOMAIN products
    <3>1. \A i \in DOMAIN variants : variants[i] \in VariantRows
      BY <1>1 DEF CatalogInv, Tables
    <3> QED
      BY <3>1 DEF VariantRows
  <2>2. c \in Available(filters, "category") <=> \E i \in DOMAIN variants : Shows(i)
    BY StorefrontAssumption DEF Available, Sellable, Excluded, Meets
  <2>3. /\ clicked.category = {c}
        /\ \A f \in Facets : clicked.look[f] = IF f \in Narrowing THEN {} ELSE filters.look[f]
    BY DEF Clicked
  <2> HIDE DEF clicked
  <2>4. Listing(clicked) # {} <=> \E i \in DOMAIN variants : Shows(i)
    BY <2>1, <2>3, StorefrontAssumption DEF Listing, Meets, Allows
  <2> QED
    BY <2>2, <2>4 DEF clicked
<1>2. ASSUME CatalogInv, NEW filters \in Filters, NEW f \in Facets, NEW value \in Values(f)
      PROVE  value \in Available(filters, f) <=> Listing(Clicked(filters, f, value)) # {}
  <2> DEFINE clicked == Clicked(filters, f, value)
             Shows(i) == /\ ~products[variants[i].product].archived /\ ~variants[i].archived /\ variants[i].active
                         /\ Allows(filters.category, products[variants[i].product].category)
                         /\ variants[i].look[f] = value
                         /\ \A g \in Facets \ {f} : Allows(filters.look[g], variants[i].look[g])
  <2>1. \A i \in DOMAIN variants : variants[i].product \in DOMAIN products
    <3>1. \A i \in DOMAIN variants : variants[i] \in VariantRows
      BY <1>2 DEF CatalogInv, Tables
    <3> QED
      BY <3>1 DEF VariantRows
  <2>2. f # "category" /\ value # Unset
    BY StorefrontAssumption DEF Values
  <2>3. value \in Available(filters, f) <=> \E i \in DOMAIN variants : Shows(i)
    BY <2>2 DEF Available, Sellable, Excluded, Meets
  <2>4. /\ clicked.category = filters.category
        /\ \A g \in Facets : clicked.look[g] = IF g = f THEN {value} ELSE filters.look[g]
    BY <2>2 DEF Clicked, Filters
  <2> HIDE DEF clicked
  <2>5. Listing(clicked) # {} <=> \E i \in DOMAIN variants : Shows(i)
    BY <2>1, <2>4 DEF Listing, Meets, Allows
  <2> QED
    BY <2>3, <2>5 DEF clicked
<1>3. CatalogInv => FacetsAreReachable
  BY <1>1, <1>2 DEF FacetsAreReachable
<1> QED
  BY <1>3, CatalogInvariant, PTL

(* The ids in order are each there once, and increase: the number of ids   *)
(* below one is different for each, so every number there can be is met.   *)
LEMMA OrderIs ==
  ASSUME NEW S \in SUBSET Nat, IsFiniteSet(S)
  PROVE  /\ InOrder(S) \in Seq(S) /\ Len(InOrder(S)) = Cardinality(S) /\ ToSet(InOrder(S)) = S
         /\ \A i, k \in DOMAIN InOrder(S) : i < k => InOrder(S)[i] < InOrder(S)[k]
<1> DEFINE n == Cardinality(S)
           below(x) == {y \in S : y < x}
           rank == [x \in S |-> Cardinality(below(x)) + 1]
<1>0. \A x \in S : x \in Nat
  OBVIOUS
<1>1. n \in Nat
  BY FS_CardinalityType
<1>2. ASSUME NEW x \in S
      PROVE  IsFiniteSet(below(x)) /\ Cardinality(below(x)) \in Nat /\ Cardinality(below(x)) < n
  <2>1. below(x) \subseteq S /\ below(x) # S
    OBVIOUS
  <2> HIDE DEF below
  <2> QED
    BY <2>1, FS_Subset, FS_CardinalityType
<1>3. ASSUME NEW x \in S, NEW z \in S, x < z PROVE Cardinality(below(x)) < Cardinality(below(z))
  <2>1. below(x) \subseteq below(z)
    <3> SUFFICES ASSUME NEW y \in S, y < x PROVE y < z
      OBVIOUS
    <3>1. x \in Nat /\ y \in Nat /\ z \in Nat
      BY <1>0
    <3> QED
      BY <1>3, <3>1
  <2>2. x \in below(z) /\ x \notin below(x)
    BY <1>0, <1>3
  <2> HIDE DEF below
  <2> QED
    BY <1>2, <2>1, <2>2, FS_Subset
<1> HIDE DEF n
<1>4. rank \in [S -> 1 .. n] /\ \A x \in S : rank[x] = Cardinality(below(x)) + 1
  BY <1>1, <1>2
<1>5. \A x, z \in S : x < z => rank[x] < rank[z]
  BY <1>2, <1>3, <1>4
<1> HIDE DEF below, rank
<1>6. ASSUME NEW k \in 1 .. n PROVE \E x \in S : rank[x] = k
  <2> DEFINE T == ToSet(rank)
  <2>1. T \subseteq 1 .. n /\ rank \in Surjection(S, T) /\ rank \in Injection(S, T)
    BY <1>4, <1>5 DEF ToSet, Surjection, Injection, IsInjective
  <2>2. IsFiniteSet(1 .. n) /\ Cardinality(1 .. n) = n
    BY <1>1, FS_Interval
  <2>3. Cardinality(T) = n
    BY <2>1, FS_Surjection DEF n
  <2>4. T = 1 .. n
    BY <2>1, <2>2, <2>3, FS_Subset
  <2> QED
    BY <1>4, <2>4 DEF ToSet
<1> DEFINE least(k) == CHOOSE x \in S : Cardinality({y \in S : y < x}) = k - 1
           all == InOrder(S)
<1>7. all = [k \in 1 .. n |-> least(k)]
  BY DEF InOrder, n
<1>8. ASSUME NEW k \in 1 .. n PROVE least(k) \in S /\ rank[least(k)] = k
  <2>1. PICK x \in S : rank[x] = k
    BY <1>6
  <2>2. Cardinality({y \in S : y < x}) = k - 1
    BY <1>1, <1>2, <1>4, <2>1 DEF below
  <2>3. least(k) \in S /\ Cardinality({y \in S : y < least(k)}) = k - 1
    BY <2>2, Zenon
  <2> HIDE DEF least
  <2>4. rank[least(k)] = (k - 1) + 1
    BY <1>4, <2>3 DEF below
  <2> QED
    BY <1>1, <2>3, <2>4
<1> HIDE DEF least, all
<1>9. all \in Seq(S) /\ Len(all) = n /\ DOMAIN all = 1 .. n
  BY <1>1, <1>7, <1>8
<1>10. ToSet(all) = S
  <2>1. ASSUME NEW x \in S PROVE rank[x] \in 1 .. n /\ all[rank[x]] = x
    <3>1. rank[x] \in 1 .. n
      BY <1>4
    <3>2. all[rank[x]] \in S /\ rank[all[rank[x]]] = rank[x]
      BY <1>7, <1>8, <3>1
    <3>3. ~(x < all[rank[x]]) /\ ~(all[rank[x]] < x)
      <4>1. ~(rank[x] < rank[x])
        BY <1>1, <3>1
      <4> QED
        BY <1>5, <3>2, <4>1
    <3>4. x \in Nat /\ all[rank[x]] \in Nat
      BY <1>0, <3>2
    <3> QED
      BY <3>1, <3>3, <3>4
  <2> QED
    BY <1>7, <1>8, <1>9, <2>1 DEF ToSet
<1>11. ASSUME NEW i \in DOMAIN all, NEW k \in DOMAIN all, i < k PROVE all[i] < all[k]
  <2>1. i \in 1 .. n /\ k \in 1 .. n
    BY <1>9
  <2>2. all[i] \in S /\ all[k] \in S /\ rank[all[i]] = i /\ rank[all[k]] = k
    BY <1>7, <1>8, <2>1
  <2>3. all[k] < all[i] => k < i
    BY <1>5, <2>2
  <2>4. ~(all[k] < all[i]) /\ all[k] # all[i]
    BY <1>1, <1>11, <2>1, <2>2, <2>3
  <2>5. all[i] \in Nat /\ all[k] \in Nat
    BY <1>0, <2>2
  <2> QED
    BY <2>4, <2>5
<1> QED
  BY <1>9, <1>10, <1>11 DEF all, n

(* The least of two numbers.                                               *)
LEMMA MinIs ==
  ASSUME NEW a \in Nat, NEW b \in Nat
  PROVE  Min({a, b}) = IF a <= b THEN a ELSE b
<1>1. \E x \in {a, b} : \A y \in {a, b} : x =< y
  OBVIOUS
<1>2. Min({a, b}) \in {a, b} /\ \A y \in {a, b} : Min({a, b}) =< y
  BY <1>1, Zenon DEF Min
<1> QED
  BY <1>2

(* A slice has the elements from first to last, as far as there are any.   *)
LEMMA SliceIs ==
  ASSUME NEW S, NEW s \in Seq(S), NEW first \in Nat \ {0}, NEW last \in Nat, last + 1 >= first
  PROVE  LET part == Slice(s, first, last)
         IN  /\ part \in Seq(S)
             /\ Len(part) = IF last <= Len(s) THEN (last + 1) - first
                            ELSE IF first <= Len(s) THEN (Len(s) + 1) - first ELSE 0
             /\ \A k \in DOMAIN part : part[k] = s[first + k - 1]
<1> DEFINE end == Min({last, Len(s)})
           part == Slice(s, first, last)
<1>0. \A i \in 1 .. Len(s) : s[i] \in S
  OBVIOUS
<1>1. Len(s) \in Nat
  OBVIOUS
<1>2. end = IF last <= Len(s) THEN last ELSE Len(s)
  BY <1>1, MinIs
<1>3. part = SubSeq(s, first, end)
  BY DEF Slice
<1> HIDE DEF end, part
<1>4. end \in Nat /\ end <= Len(s) /\ first \in Nat /\ first >= 1
  BY <1>1, <1>2
<1>5. /\ part \in Seq(S) /\ Len(part) = (IF first <= end THEN end - first + 1 ELSE 0)
      /\ \A i \in 1 .. end - first + 1 : part[i] = s[first + i - 1]
  <2>1. \A i \in first .. end : s[i] \in S
    BY <1>0, <1>1, <1>4
  <2>2. end \in Int /\ first \in Int
    BY <1>4
  <2> QED
    BY <1>3, <2>1, <2>2, SubSeqProperties
<1>6. \A k \in DOMAIN part : part[k] = s[first + k - 1]
  <2>1. DOMAIN part = 1 .. Len(part)
    BY <1>5
  <2> QED
    BY <1>4, <1>5, <2>1
<1>7. Len(part) = IF first <= end THEN end - first + 1 ELSE 0
  BY <1>5
<1>8. Len(part) = IF last <= Len(s) THEN (last + 1) - first
                  ELSE IF first <= Len(s) THEN (Len(s) + 1) - first ELSE 0
  BY <1>1, <1>2, <1>7
<1> QED
  BY <1>5, <1>6, <1>8 DEF part

(* What is left of a list after the first m, taken limit at a time with a  *)
(* look at the one after.                                                  *)
LEMMA PartIs ==
  ASSUME NEW S, NEW all \in Seq(S), NEW m \in Nat, NEW limit \in Nat \ {0}
  PROVE  LET n == Len(all)
             rows == Slice(all, m + 1, m + limit + 1)
             items == Slice(rows, 1, limit)
         IN  /\ Len(rows) > limit <=> n > m + limit
             /\ m + limit <= n => Len(items) = limit
             /\ m < n /\ n < m + limit => Len(items) = n - m
             /\ \A k \in DOMAIN items : items[k] = all[m + k]
<1> DEFINE n == Len(all)
           rows == Slice(all, m + 1, m + limit + 1)
           items == Slice(rows, 1, limit)
           first == m + 1
           last == m + limit + 1
<1>1. n \in Nat /\ first \in Nat \ {0} /\ last \in Nat /\ last + 1 >= first
  OBVIOUS
<1>2. rows = Slice(all, first, last)
  OBVIOUS
<1> HIDE DEF rows, first, last
<1>3. /\ rows \in Seq(S)
      /\ Len(rows) = IF last <= Len(all) THEN (last + 1) - first ELSE IF first <= Len(all) THEN (Len(all) + 1) - first ELSE 0
      /\ \A k \in DOMAIN rows : rows[k] = all[first + k - 1]
  BY <1>1, <1>2, SliceIs
<1>4. 1 \in Nat \ {0} /\ limit \in Nat /\ limit + 1 >= 1
  OBVIOUS
<1> DEFINE one == 1
<1>5. items = Slice(rows, one, limit) /\ one \in Nat \ {0} /\ limit + 1 >= one
  OBVIOUS
<1> HIDE DEF items, one
<1>6. /\ items \in Seq(S)
      /\ Len(items) = IF limit <= Len(rows) THEN (limit + 1) - one ELSE IF one <= Len(rows) THEN (Len(rows) + 1) - one ELSE 0
      /\ \A k \in DOMAIN items : items[k] = rows[one + k - 1]
  <2>1. rows \in Seq(S)
    BY <1>3
  <2>2. Slice(rows, one, limit) \in Seq(S)
    BY <1>4, <1>5, <2>1, SliceIs
  <2>3. Len(Slice(rows, one, limit)) =
          IF limit <= Len(rows) THEN (limit + 1) - one ELSE IF one <= Len(rows) THEN (Len(rows) + 1) - one ELSE 0
    BY <1>4, <1>5, <2>1, SliceIs
  <2>4. \A k \in DOMAIN Slice(rows, one, limit) : Slice(rows, one, limit)[k] = rows[one + k - 1]
    BY <1>4, <1>5, <2>1, SliceIs
  <2> QED
    BY <1>5, <2>2, <2>3, <2>4
<1> HIDE DEF n
<1>7. Len(rows) = IF m + limit + 1 <= n THEN limit + 1 ELSE IF m + 1 <= n THEN n - m ELSE 0
  <2>1. Len(rows) = IF last <= n THEN (last + 1) - first ELSE IF first <= n THEN (n + 1) - first ELSE 0
    BY <1>3 DEF n
  <2> QED
    BY <1>1, <2>1 DEF first, last
<1>8. Len(rows) > limit <=> n > m + limit
  BY <1>1, <1>7
<1>9. Len(items) = IF limit <= Len(rows) THEN limit ELSE Len(rows)
  <2>1. Len(items) = IF limit <= Len(rows) THEN (limit + 1) - one ELSE IF one <= Len(rows) THEN (Len(rows) + 1) - one ELSE 0
    BY <1>6
  <2>2. Len(rows) \in Nat
    BY <1>1, <1>7
  <2> QED
    BY <2>1, <2>2 DEF one
<1>10. /\ m + limit <= n => Len(items) = limit
       /\ m < n /\ n < m + limit => Len(items) = n - m
  BY <1>1, <1>7, <1>9
<1>11. ASSUME NEW k \in DOMAIN items PROVE items[k] = all[m + k]
  <2>1. DOMAIN items = 1 .. Len(items) /\ DOMAIN rows = 1 .. Len(rows)
    BY <1>3, <1>6
  <2>2. Len(rows) \in Nat /\ Len(items) <= Len(rows)
    BY <1>1, <1>7, <1>9
  <2>3. k \in Nat /\ k \in DOMAIN rows
    BY <2>1, <2>2
  <2>4. one + k - 1 = k /\ first + k - 1 = m + k
    BY <2>3 DEF one, first
  <2>5. items[k] = rows[one + k - 1] /\ rows[k] = all[first + k - 1]
    BY <1>3, <1>6, <2>3
  <2> QED
    BY <2>4, <2>5
<1> QED
  BY <1>8, <1>10, <1>11 DEF items, rows, n

(* A page has the part of the list that starts at its offset, and a next   *)
(* one if the list goes on after it.                                       *)
LEMMA PageIs ==
  ASSUME Tables, NEW page \in Nat, NEW limit \in Nat \ {0}, page * limit \in Nat
  PROVE  LET all == InOrder(Listing(NoFilters))
             n == Len(all)
             m == page * limit
             shown == Page(NoFilters, page, limit)
         IN  /\ n \in Nat
             /\ shown.next <=> n > m + limit
             /\ m + limit <= n => Len(shown.items) = limit
             /\ m < n /\ n < m + limit => Len(shown.items) = n - m
             /\ \A k \in DOMAIN shown.items : shown.items[k] = all[m + k]
<1> DEFINE S == Listing(NoFilters)
           all == InOrder(S)
           n == Len(all)
           m == page * limit
           rows == Slice(all, m + 1, m + limit + 1)
           items == Slice(rows, 1, limit)
<1>1. S \in SUBSET Nat /\ IsFiniteSet(S)
  <2>1. DOMAIN products = 1 .. Len(products) /\ Len(products) \in Nat
    BY DEF Tables
  <2>2. S \subseteq 1 .. Len(products) /\ IsFiniteSet(1 .. Len(products))
    BY <2>1, FS_Interval DEF Listing
  <2> QED
    BY <2>1, <2>2, FS_Subset
<1>2. Page(NoFilters, page, limit) = [items |-> items, next |-> Len(rows) > limit]
  BY DEF Page, Rows, HasNext
<1> HIDE DEF S
<1>3. all \in Seq(S)
  BY <1>1, OrderIs
<1> HIDE DEF all, m
<1>4. m \in Nat
  BY DEF m
<1>5. n \in Nat
  BY <1>3
<1>6. /\ Len(rows) > limit <=> n > m + limit
      /\ m + limit <= n => Len(items) = limit
      /\ m < n /\ n < m + limit => Len(items) = n - m
      /\ \A k \in DOMAIN items : items[k] = all[m + k]
  <2>1. Len(rows) > limit <=> n > m + limit
    BY <1>3, <1>4, PartIs
  <2>2. m + limit <= n => Len(items) = limit
    BY <1>3, <1>4, PartIs
  <2>3. m < n /\ n < m + limit => Len(items) = n - m
    BY <1>3, <1>4, PartIs
  <2>4. \A k \in DOMAIN items : items[k] = all[m + k]
    BY <1>3, <1>4, PartIs
  <2> QED
    BY <2>1, <2>2, <2>3, <2>4
<1> DEFINE shown == Page(NoFilters, page, limit)
<1> HIDE DEF items, rows, n
<1>7. shown.items = items /\ shown.next = (Len(rows) > limit)
  BY <1>2
<1> HIDE DEF shown
<1>8. /\ n \in Nat
      /\ shown.next <=> n > m + limit
      /\ m + limit <= n => Len(shown.items) = limit
      /\ m < n /\ n < m + limit => Len(shown.items) = n - m
      /\ \A k \in DOMAIN shown.items : shown.items[k] = all[m + k]
  BY <1>5, <1>6, <1>7
<1> QED
  BY <1>8 DEF n, all, S, m, shown

(* Following the pages while there is a next one shows every place of the  *)
(* list once, and no page is empty but the only one; by OrderIs the list   *)
(* has each product that meets the filters once, in the order of the ids.  *)
THEOREM PagesPartitionList ==
  Spec => []PagesPartition
<1>1. ASSUME Tables, NEW limit \in Limits,
             NEW page \in 0 .. Len(InOrder(Listing(NoFilters)))
      PROVE  LET all == InOrder(Listing(NoFilters))
                 n == Len(all)
                 shown == Page(NoFilters, page, limit)
             IN  /\ shown.next <=> n > (page + 1) * limit
                 /\ shown.next => Len(shown.items) = limit /\ Page(NoFilters, page + 1, limit).items # <<>>
                 /\ \A k \in DOMAIN shown.items : shown.items[k] = all[page * limit + k]
  <2> DEFINE all == InOrder(Listing(NoFilters))
             n == Len(all)
             shown == Page(NoFilters, page, limit)
             after == Page(NoFilters, page + 1, limit)
             m == page * limit
  <2> HIDE DEF all, n, shown, after
  <2>1. limit \in Nat \ {0} /\ page \in Nat /\ page + 1 \in Nat
    BY StorefrontAssumption
  <2>2. m \in Nat /\ (page + 1) * limit = m + limit /\ m + limit \in Nat
    BY <2>1
  <2> HIDE DEF m
  <2>3. /\ n \in Nat
        /\ shown.next <=> n > m + limit
        /\ m + limit <= n => Len(shown.items) = limit
        /\ m < n /\ n < m + limit => Len(shown.items) = n - m
        /\ \A k \in DOMAIN shown.items : shown.items[k] = all[m + k]
    BY <1>1, <2>1, <2>2, PageIs DEF all, n, shown, m
  <2>4. /\ (m + limit) + limit <= n => Len(after.items) = limit
        /\ m + limit < n /\ n < (m + limit) + limit => Len(after.items) = n - (m + limit)
    BY <1>1, <2>1, <2>2, PageIs DEF all, n, after
  <2>5. shown.next => Len(shown.items) = limit
    BY <2>1, <2>2, <2>3
  <2>6. shown.next => after.items # <<>>
    <3>1. n > m + limit => Len(after.items) # 0
      BY <2>1, <2>2, <2>3, <2>4
    <3>2. Len(<<>>) = 0
      OBVIOUS
    <3> QED
      BY <2>3, <3>1, <3>2
  <2>7. shown.next <=> n > (page + 1) * limit
    BY <2>2, <2>3
  <2> QED
    BY <2>3, <2>5, <2>6, <2>7 DEF all, n, shown, after, m
<1>2. CatalogInv => PagesPartition
  BY <1>1 DEF CatalogInv, PagesPartition
<1> QED
  BY <1>2, CatalogInvariant, PTL
=============================================================================
