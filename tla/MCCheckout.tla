----------------------------- MODULE MCCheckout -----------------------------
(* An instance of Checkout for TLC.                                        *)
EXTENDS Checkout

\* The second variant can come to have the first name of the other one.
NamesOf == [p \in Products |-> IF p = 1 THEN <<"a">> ELSE <<"b", "a">>]

\* Both are whole numbers of rubles.
TwoPrices == [p \in Products |-> 2 * p]
=============================================================================
