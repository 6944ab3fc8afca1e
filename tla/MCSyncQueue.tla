---------------------------- MODULE MCSyncQueue ----------------------------
(* Instances of SyncQueue for TLC; the configurations name the entities.   *)
EXTENDS SyncQueue, TLC

\* Syncing a variant also rewrites its product, and a product its variants.
MCScope == [t \in Tasks |-> IF t \in Catalog THEN Catalog ELSE {t}]

\* The catalog's entities are alike, as long as none of them is in Poison.
Alike == Permutations(Catalog)
=============================================================================
