-------------------------- MODULE MCOutboundOrder --------------------------
(* Instances of OutboundOrder for TLC.                                     *)
EXTENDS OutboundOrder, TLC

\* The request slots are alike.
Slots == Permutations(Requests)
=============================================================================
