------------------------------ MODULE Checkout ------------------------------
(***************************************************************************)
(* Carts, coupons and checkout: apps/orders/services.py and pricing.py.    *)
(*                                                                         *)
(* A cart holds selections, no prices.  A line is checked, then saved      *)
(* under the cart's row lock.  Checkout prices the cart once without locks *)
(* (it asks the registrar), then again under the locks of the cart and of  *)
(* its coupon, and the order is made from what the second pass read.       *)
(*                                                                         *)
(* A cart of the model has at most one plan, with at most one add-on, and  *)
(* any number of lines for a domain name; the guest's cart has names only. *)
(***************************************************************************)
EXTENDS Integers, FiniteSets, Sequences

CONSTANTS
    Carts,         \* carts of customers' users
    Guest,         \* the cart of a visitor without an account
    ClientOf,      \* the client account of each customer's cart
    Names,         \* domain names
    AddonPeriods,  \* the billing periods the add-on is priced for
    CouponRules,   \* coupons the shop may have: [max, once]
    Requests,      \* web requests at work
    MaxEdits,      \* bound: changes to carts
    MaxOrders      \* bound: orders

Periods == {"monthly", "annual"}

NoOne == "nobody"

ASSUME CheckoutAssumption ==
    /\ Guest \notin Carts /\ NoOne \notin Requests /\ AddonPeriods \subseteq Periods
    /\ MaxEdits \in Nat /\ MaxOrders \in Nat
    /\ \A rule \in CouponRules : rule.max \in Nat /\ rule.once \in BOOLEAN

VARIABLES
    rule,      \* the coupon: max_redemptions and one_per_client
    cart,      \* Cart and CartItem rows
    cartLock,  \* who holds the row lock of each cart
    couponLock,\* who holds the row lock of the coupon
    req,       \* what each request is doing, with what it read
    orders,    \* Order, OrderItem and CouponRedemption rows
    edits      \* changes to carts so far

vars == <<rule, cart, cartLock, couponLock, req, orders, edits>>

AllCarts == Carts \cup {Guest}

----------------------------------------------------------------------------
EmptyCart == [status |-> "open", plan |-> "none", addon |-> "none",
              names |-> [n \in Names |-> 0], coupon |-> FALSE]

IdleRequest == [pc |-> "idle"]

Lines(c) == [plan |-> cart[c].plan, addon |-> cart[c].addon, names |-> cart[c].names]

NamesIn(lines) == {n \in Names : lines.names[n] > 0}

Empty(lines) == lines.plan = "none" /\ NamesIn(lines) = {}

\* A held or a delivered order no longer reserves a name, only an unpaid one.
domain_reserved_by_pending_order(n) ==
    \E i \in DOMAIN orders : orders[i].status = "pending" /\ n \in NamesIn(orders[i].lines)

\* _price_addon: it goes with a plan, by the plan's period or once.
AddonFits(lines) == lines.addon = "none" \/ (lines.plan # "none" /\ lines.addon \in {"once", lines.plan})

\* Redemptions that count: a cancelled order gives its one back.
coupon_usage == {i \in DOMAIN orders : orders[i].coupon /\ orders[i].status # "cancelled"}

evaluate_coupon(client) ==
    /\ Cardinality(coupon_usage) < rule.max
    /\ rule.once => \A i \in coupon_usage : orders[i].client # client

\* price_cart, strict.  A guest is no client yet: the once-per-client rule waits.
price_cart(c) ==
    /\ ~Empty(Lines(c))
    /\ AddonFits(Lines(c))
    /\ \A n \in NamesIn(Lines(c)) : ~domain_reserved_by_pending_order(n)
    /\ cart[c].coupon => evaluate_coupon(ClientOf[c])

----------------------------------------------------------------------------
(* Editing a cart.                                                          *)

OneEdit == edits < MaxEdits /\ edits' = edits + 1

Edit(c) == cart[c].status = "open" /\ OneEdit

\* The line is checked before the cart is locked: the registrar is asked.
Adding(q, c, item) ==
    /\ req[q] = IdleRequest /\ Edit(c)
    /\ req' = [req EXCEPT ![q] = [pc |-> "adding", c |-> c, item |-> item]]
    /\ UNCHANGED <<rule, cart, cartLock, couponLock, orders>>

add_hosting(q, c, period) ==
    Adding(q, c, [kind |-> "plan", value |-> period])

add_addon(q, c) ==
    /\ cart[c].plan # "none"
    /\ \E period \in {"once"} \cup (AddonPeriods \cap {cart[c].plan}) :
          Adding(q, c, [kind |-> "addon", value |-> period])

add_domain(q, c, n) ==
    /\ ~domain_reserved_by_pending_order(n)
    /\ Adding(q, c, [kind |-> "name", value |-> n])

\* Under the row lock: not twice, and an add-on needs its plan's row.  The
\* status of the cart is not read again.
Saved(c, item) ==
    CASE item.kind = "plan"  -> IF cart[c].plan = "none" THEN [cart EXCEPT ![c].plan = item.value] ELSE cart
      [] item.kind = "addon" -> IF cart[c].plan # "none" /\ cart[c].addon = "none"
                                THEN [cart EXCEPT ![c].addon = item.value] ELSE cart
      [] item.kind = "name"  -> IF cart[c].names[item.value] = 0
                                THEN [cart EXCEPT ![c].names[item.value] = 1] ELSE cart

SaveItem(q) ==
    /\ req[q].pc = "adding" /\ cartLock[req[q].c] = NoOne
    /\ cart' = IF cart[req[q].c].status = "deleted" THEN cart ELSE Saved(req[q].c, req[q].item)
    /\ req' = [req EXCEPT ![q] = IdleRequest]
    /\ UNCHANGED <<rule, cartLock, couponLock, orders, edits>>

\* Without the lock.  An add-on goes with its plan.
remove_item(c) ==
    /\ Edit(c)
    /\ \/ cart[c].plan # "none" /\ cart' = [cart EXCEPT ![c].plan = "none", ![c].addon = "none"]
       \/ cart[c].addon # "none" /\ cart' = [cart EXCEPT ![c].addon = "none"]
       \/ \E n \in NamesIn(Lines(c)) : cart' = [cart EXCEPT ![c].names[n] = @ - 1]
    /\ UNCHANGED <<rule, cartLock, couponLock, req, orders>>

\* A recurring add-on follows its plan, or goes when it has no such price.
AddonFor(addon, period) ==
    CASE addon \in {"none", "once"} -> addon
      [] addon \in Periods /\ period \in AddonPeriods -> period
      [] OTHER -> "none"

change_period(c, period) ==
    /\ cart[c].plan \notin {"none", period} /\ Edit(c)
    /\ cart' = [cart EXCEPT ![c].plan = period, ![c].addon = AddonFor(cart[c].addon, period)]
    /\ UNCHANGED <<rule, cartLock, couponLock, req, orders>>

\* The update of the cart's row waits for its lock.
apply_coupon(c) ==
    /\ ~cart[c].coupon /\ cartLock[c] = NoOne /\ Edit(c)
    /\ evaluate_coupon(IF c = Guest THEN "guest" ELSE ClientOf[c])
    /\ cart' = [cart EXCEPT ![c].coupon = TRUE]
    /\ UNCHANGED <<rule, cartLock, couponLock, req, orders>>

remove_coupon(c) ==
    /\ cart[c].coupon /\ cartLock[c] = NoOne /\ Edit(c)
    /\ cart' = [cart EXCEPT ![c].coupon = FALSE]
    /\ UNCHANGED <<rule, cartLock, couponLock, req, orders>>

----------------------------------------------------------------------------
(* The visitor signs in: one transaction that locks nothing.  What it reads *)
(* may have changed when it commits, and a second sign-in reads the same.   *)

adopt_guest_cart(q, c) ==
    /\ req[q] = IdleRequest
    /\ cart[Guest].status = "open" /\ cart[c].status = "open"
    /\ req' = [req EXCEPT ![q] =
                  [pc |-> "adopting", c |-> c, names |-> NamesIn(Lines(Guest)) \ NamesIn(Lines(c)),
                   coupon |-> cart[Guest].coupon /\ ~cart[c].coupon]]
    /\ UNCHANGED <<rule, cart, cartLock, couponLock, orders, edits>>

AdoptCommits(q) ==
    /\ req[q].pc = "adopting"
    /\ cartLock[req[q].c] = NoOne
    /\ cart' = [cart EXCEPT ![req[q].c].names = [n \in Names |-> IF n \in req[q].names THEN @[n] + 1 ELSE @[n]],
                            ![req[q].c].coupon = @ \/ req[q].coupon,
                            ![Guest] = [EmptyCart EXCEPT !.status = "deleted"]]
    /\ req' = [req EXCEPT ![q] = IdleRequest]
    /\ UNCHANGED <<rule, cartLock, couponLock, orders, edits>>

purge_guest_carts ==
    /\ cart[Guest].status = "open"
    /\ cart' = [cart EXCEPT ![Guest] = [EmptyCart EXCEPT !.status = "deleted"]]
    /\ UNCHANGED <<rule, cartLock, couponLock, req, orders, edits>>

----------------------------------------------------------------------------
(* Checkout.                                                                *)

CheckingOut == {q \in Requests : req[q].pc \in {"priced", "locked", "pricing", "commit"}}

\* The first pass.  The registrar's answer decides only whether there is a step.
checkout(q, c) ==
    /\ req[q] = IdleRequest /\ cart[c].status = "open"
    /\ Len(orders) + Cardinality(CheckingOut) < MaxOrders
    /\ price_cart(c)
    /\ req' = [req EXCEPT ![q] = [pc |-> "priced", c |-> c]]
    /\ UNCHANGED <<rule, cart, cartLock, couponLock, orders, edits>>

\* The transaction is rolled back, its locks go.
Refuse(q) ==
    /\ req' = [req EXCEPT ![q] = IdleRequest]
    /\ cartLock' = [c \in AllCarts |-> IF cartLock[c] = q THEN NoOne ELSE cartLock[c]]
    /\ couponLock' = IF couponLock = q THEN NoOne ELSE couponLock

\* Fault: the cart is locked, its status is the one read before.
LockCart_stale(q) ==
    /\ req[q].pc = "priced" /\ cartLock[req[q].c] = NoOne
    /\ cartLock' = [cartLock EXCEPT ![req[q].c] = q]
    /\ req' = [req EXCEPT ![q].pc = "locked"]
    /\ UNCHANGED <<rule, cart, couponLock, orders, edits>>

\* A double submit waits here, then finds the cart closed.
LockCart(q) ==
    /\ req[q].pc = "priced" /\ cartLock[req[q].c] = NoOne
    /\ \/ /\ cart[req[q].c].status = "open"
          /\ cartLock' = [cartLock EXCEPT ![req[q].c] = q]
          /\ req' = [req EXCEPT ![q].pc = "locked"]
          /\ UNCHANGED couponLock
       \/ cart[req[q].c].status # "open" /\ Refuse(q)
    /\ UNCHANGED <<rule, cart, orders, edits>>

\* Fault: redemptions of one coupon are not serialised.
LockCoupon_not(q) ==
    /\ req[q].pc = "locked"
    /\ req' = [req EXCEPT ![q].pc = "pricing"]
    /\ UNCHANGED <<rule, cart, cartLock, couponLock, orders, edits>>

LockCoupon(q) ==
    /\ req[q].pc = "locked"
    /\ \/ cart[req[q].c].coupon /\ couponLock = NoOne /\ couponLock' = q
       \/ ~cart[req[q].c].coupon /\ UNCHANGED couponLock
    /\ req' = [req EXCEPT ![q].pc = "pricing"]
    /\ UNCHANGED <<rule, cart, cartLock, orders, edits>>

\* What the order will be made of.  coupon: the coupon as loaded with the lock.
Priced(q) == [pc |-> "commit", c |-> req[q].c, lines |-> Lines(req[q].c),
              coupon |-> cart[req[q].c].coupon]

\* Fault: the lines of the cart are taken without pricing them again.
SecondPass_trusting(q) ==
    /\ req[q].pc = "pricing"
    /\ req' = [req EXCEPT ![q] = Priced(q)]
    /\ UNCHANGED <<rule, cart, cartLock, couponLock, orders, edits>>

SecondPass(q) ==
    /\ req[q].pc = "pricing"
    /\ \/ price_cart(req[q].c) /\ req' = [req EXCEPT ![q] = Priced(q)] /\ UNCHANGED <<cartLock, couponLock>>
       \/ ~price_cart(req[q].c) /\ Refuse(q)
    /\ UNCHANGED <<rule, cart, orders, edits>>

\* The order, its lines, the redemption, the closed cart and the invoice
\* appear together.  An order that costs nothing is settled at once.
PlaceOrder(q) ==
    /\ req[q].pc = "commit"
    /\ \E free \in {FALSE, req[q].coupon} :
          orders' = Append(orders, [cart |-> req[q].c, client |-> ClientOf[req[q].c], lines |-> req[q].lines,
                                    coupon |-> req[q].coupon, money |-> IF free THEN "full" ELSE "none",
                                    status |-> IF free THEN "paid" ELSE "pending"])
    /\ cart' = [cart EXCEPT ![req[q].c].status = "converted"]
    /\ Refuse(q)
    /\ UNCHANGED <<rule, edits>>

----------------------------------------------------------------------------
(* What becomes of orders.                                                  *)

Move(i, status) == orders' = [orders EXCEPT ![i].status = status]

Rest == UNCHANGED <<rule, cart, cartLock, couponLock, req, edits>>

Pay(i) ==
    /\ orders[i].status = "pending"
    /\ \/ orders' = [orders EXCEPT ![i].status = "paid", ![i].money = "full"]
       \/ orders' = [orders EXCEPT ![i].money = "part"]
    /\ Rest

\* mark_fraud, or fulfilment that fails.  Fulfilment follows what is resumed.
Stop(i) ==
    /\ orders[i].status \in {"pending", "paid"} /\ Move(i, "stopped") /\ Rest

\* By the customer, by staff (who may also close one that was held or has
\* failed), or by the daily sweep of unpaid gateway orders.  An invoice with
\* part of the money on it cannot be cancelled.
cancel_order(i) ==
    /\ orders[i].status \in {"pending", "stopped"} /\ orders[i].money # "part"
    /\ Move(i, "cancelled") /\ Rest

----------------------------------------------------------------------------
\* Customers' carts are empty, or hold a plan chosen earlier.
Init ==
    /\ rule \in CouponRules
    /\ \E first \in [Carts -> {"none", "annual"}] :
          cart = [c \in AllCarts |-> IF c = Guest THEN EmptyCart ELSE [EmptyCart EXCEPT !.plan = first[c]]]
    /\ cartLock = [c \in AllCarts |-> NoOne]
    /\ couponLock = NoOne
    /\ req = [q \in Requests |-> IdleRequest]
    /\ orders = <<>>
    /\ edits = 0

EditNext ==
    \/ \E q \in Requests :
          \/ \E c \in Carts : \/ \E period \in Periods : add_hosting(q, c, period)
                              \/ add_addon(q, c) \/ adopt_guest_cart(q, c)
          \/ \E c \in AllCarts, n \in Names : add_domain(q, c, n)
          \/ SaveItem(q) \/ AdoptCommits(q)
    \/ \E c \in AllCarts : remove_item(c) \/ apply_coupon(c) \/ remove_coupon(c)
    \/ \E c \in Carts, period \in Periods : change_period(c, period)
    \/ purge_guest_carts

CheckoutNext ==
    \E q \in Requests : \/ \E c \in Carts : checkout(q, c)
                        \/ LockCart(q) \/ LockCoupon(q) \/ SecondPass(q) \/ PlaceOrder(q)

OrderNext ==
    \E i \in DOMAIN orders : Pay(i) \/ Stop(i) \/ cancel_order(i)

Next == EditNext \/ CheckoutNext \/ OrderNext

Spec == Init /\ [][Next]_vars

----------------------------------------------------------------------------
(* Correctness.                                                             *)

\* checkout is "safe against a double submit: the first call closes the cart":
\* a cart becomes one order, and only by an order is it closed.
OneOrderPerCart ==
    /\ \A i, j \in DOMAIN orders : i # j => orders[i].cart # orders[j].cart
    /\ \A c \in Carts : cart[c].status = "converted" <=> \E i \in DOMAIN orders : orders[i].cart = c

\* A coupon is never redeemed more often than its limit, nor twice for one
\* client when it is meant once, whichever carts race for it, with the uses
\* that cancelled orders gave back ("serialise redemptions of the same code").
CouponWithinLimit ==
    /\ Cardinality(coupon_usage) <= rule.max
    /\ rule.once => \A i, j \in coupon_usage : i # j => orders[i].client # orders[j].client

\* "An order can only ever be built from a fully valid cart": also when the
\* period changed or a line went while an add-on was being saved or the cart
\* was being checked out, the order has lines that go together.
OrderFitsTogether ==
    \A i \in DOMAIN orders : ~Empty(orders[i].lines) /\ AddonFits(orders[i].lines)
=============================================================================
