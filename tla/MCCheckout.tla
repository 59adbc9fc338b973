----------------------------- MODULE MCCheckout -----------------------------
(* A small instance of Checkout for TLC: two users of one client and a     *)
(* visitor; a coupon for one order, or for two and once per client.        *)
EXTENDS Checkout, TLC

CONSTANTS c1, c2, acme

MCClientOf == c1 :> acme @@ c2 :> acme

MCCouponRules == {[max |-> 1, once |-> FALSE], [max |-> 2, once |-> TRUE]}

Symmetric == Permutations(Carts) \cup Permutations(Requests)
=============================================================================
