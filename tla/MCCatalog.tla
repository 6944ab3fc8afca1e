----------------------------- MODULE MCCatalog -----------------------------
(* Instances of CatalogImport and Storefront for TLC.                      *)
EXTENDS Storefront

\* Two variants of the first product, one of the second.
OwnerOf == [v \in Variants |-> IF v = 3 THEN 2 ELSE 1]

\* A variant with cuts and one without.
SomeLooks == {[cuts |-> "oval", color |-> "red"], [cuts |-> Unset, color |-> "blue"]}
=============================================================================
