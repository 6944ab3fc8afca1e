--------------------------- MODULE CatalogMirror ---------------------------
(***************************************************************************)
(* What the local catalog promises, whatever queues and retries lie        *)
(* behind it: it follows MoySklad.  An entity changes upstream, and the    *)
(* local projection moves only forward, never past what MoySklad has.      *)
(***************************************************************************)
EXTENDS Naturals

CONSTANT Entities

VARIABLES
  remote,  \* version of each entity at MoySklad
  local    \* version the local projection shows

Init ==
  /\ remote = [e \in Entities |-> 0]
  /\ local = [e \in Entities |-> 0]

Change(e) ==
  /\ remote' = [remote EXCEPT ![e] = @ + 1]
  /\ UNCHANGED local

\* Any number of entities are brought forward, each to a version MoySklad had.
CatchUp ==
  /\ DOMAIN local' = Entities
  /\ \A e \in Entities : local'[e] \in local[e] .. remote[e]
  /\ UNCHANGED remote

Next == CatchUp \/ \E e \in Entities : Change(e)

Spec == Init /\ [][Next]_<<remote, local>>
=============================================================================
