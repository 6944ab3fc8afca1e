---------------------------- MODULE MCPayments ----------------------------
(* Instances of Payments for TLC.                                          *)
EXTENDS PaymentsProperties, TLC

\* The request slots are alike.
Slots == Permutations(Requests)
=============================================================================
