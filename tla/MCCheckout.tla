----------------------------- MODULE MCCheckout -----------------------------
(* Model-checking instances of Checkout: orders, requests, items and offers *)
(* are interchangeable.                                                     *)
EXTENDS Checkout, TLC

Symmetry == Permutations(Order) \cup Permutations(Request)
            \cup Permutations(Item) \cup Permutations(Offer)

\* Who holds the payments of an order.
OneStripe == <<"stripe">>
TwoStripe == <<"stripe", "stripe">>
StripeAndPaypal == <<"stripe", "paypal">>
=============================================================================
