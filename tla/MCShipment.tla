---------------------------- MODULE MCShipment ----------------------------
(* Instances of Shipment for TLC.                                          *)
EXTENDS ShipmentProperties, TLC

\* The request slots are alike.
Slots == Permutations(Requests)
=============================================================================
