---------------------------- MODULE CheckoutProofs ----------------------------
(***************************************************************************)
(* Proofs about Checkout, for any carts, clients, names, coupons and       *)
(* requests: a double submit makes one order, a coupon is not redeemed     *)
(* more often than it may be, and an order has lines that go together.     *)
(*                                                                         *)
(* The lock of the cart keeps its status and its coupon still, not its     *)
(* lines: lines are removed and periods changed without it.  So what the   *)
(* second pass checked is known of the lines the request carries (their    *)
(* copy), never of the cart.  The coupon's limit is safe because whoever   *)
(* is about to redeem it holds the coupon's lock since before it counted   *)
(* (CouponHeld).                                                           *)
(***************************************************************************)
EXTENDS Checkout, FiniteSetTheorems, SequenceTheorems, TLAPS

LinesRow ==
    [plan : {"none"} \cup Periods, addon : {"none", "once"} \cup Periods, names : [Names -> Int]]

CartRow ==
    [status : {"open", "converted", "deleted"}, plan : {"none"} \cup Periods,
     addon : {"none", "once"} \cup Periods, names : [Names -> Int], coupon : BOOLEAN]

Item ==
    [kind : {"plan"}, value : Periods] \cup [kind : {"addon"}, value : {"once"} \cup Periods]
        \cup [kind : {"name"}, value : Names]

ReqRow ==
    [pc : {"idle"}] \cup [pc : {"adding"}, c : AllCarts, item : Item]
        \cup [pc : {"adopting"}, c : Carts, names : SUBSET Names, coupon : BOOLEAN]
        \cup [pc : {"priced", "locked", "pricing"}, c : Carts]
        \cup [pc : {"commit"}, c : Carts, lines : LinesRow, coupon : BOOLEAN]

OrderRow ==
    [cart : Carts, client : {ClientOf[c] : c \in Carts}, lines : LinesRow, coupon : BOOLEAN,
     money : {"none", "part", "full"}, status : {"pending", "paid", "stopped", "cancelled"}]

\* The rows are the ones the code has.
RowsOK ==
    /\ rule \in CouponRules
    /\ cart \in [AllCarts -> CartRow]
    /\ cartLock \in [AllCarts -> Requests \cup {NoOne}]
    /\ req \in [Requests -> ReqRow]
    /\ orders \in Seq(OrderRow)

Holding == {"locked", "pricing", "commit"}

\* Whoever is past the lock of the cart holds it, and the cart is open.
CartHeld ==
    \A q \in Requests : req[q].pc \in Holding =>
        cartLock[req[q].c] = q /\ cart[req[q].c].status = "open"

\* Whoever is about to count or to redeem the coupon holds its lock, and what
\* was counted still stands when it is redeemed.
CouponHeld ==
    \A q \in Requests :
        /\ req[q].pc = "pricing" /\ cart[req[q].c].coupon => couponLock = q
        /\ req[q].pc = "commit" /\ req[q].coupon =>
              couponLock = q /\ evaluate_coupon(ClientOf[req[q].c])

Fits(lines) == ~Empty(lines) /\ AddonFits(lines)

\* The copy of the lines that is about to become the order was checked.
CopyFits == \A q \in Requests : req[q].pc = "commit" => Fits(req[q].lines)

OrdersFit == \A i \in DOMAIN orders : Fits(orders[i].lines)

CInv ==
    /\ RowsOK /\ CartHeld /\ CouponHeld /\ CopyFits
    /\ OneOrderPerCart /\ CouponWithinLimit /\ OrdersFit

----------------------------------------------------------------------------
(* Rows.                                                                    *)

LEMMA IdleIsRow == IdleRequest \in ReqRow /\ IdleRequest.pc = "idle"
BY DEF IdleRequest, ReqRow

LEMMA ReqKinds ==
    ASSUME NEW r \in ReqRow
    PROVE  /\ r.pc = "adding" => r.c \in AllCarts /\ r.item \in Item
           /\ r.pc = "adopting" => r.c \in Carts /\ r.names \in SUBSET Names /\ r.coupon \in BOOLEAN
           /\ r.pc \in {"priced", "locked", "pricing"} => r \in [pc : {"priced", "locked", "pricing"}, c : Carts]
           /\ r.pc = "commit" => r.c \in Carts /\ r.lines \in LinesRow /\ r.coupon \in BOOLEAN
BY DEF ReqRow

LEMMA SubtypeOfCarts == Carts \subseteq AllCarts /\ Guest \in AllCarts
BY DEF AllCarts

----------------------------------------------------------------------------
(* Editing a cart.                                                          *)

\* The lock of a cart keeps its coupon, and nothing but an order closes it.
Editing ==
    /\ cart' \in [AllCarts -> CartRow]
    /\ \A c \in Carts : cart'[c].status = cart[c].status
    /\ \A c \in Carts : cartLock[c] # NoOne => cart'[c].coupon = cart[c].coupon

\* A step that edits a cart, and may move a request that is not checking out
\* to another that is not.
LEMMA EditingStep ==
    ASSUME CInv, Editing, UNCHANGED <<rule, cartLock, couponLock, orders>>,
           \/ UNCHANGED req
           \/ \E q \in Requests, r \in ReqRow :
                 /\ r.pc \notin {"locked", "pricing", "commit"} /\ req' = [req EXCEPT ![q] = r]
    PROVE  CInv'
<1>1. /\ req' \in [Requests -> ReqRow]
      /\ \A p \in Requests : req'[p] = req[p] \/ req'[p].pc \notin {"locked", "pricing", "commit"}
    BY DEF CInv, RowsOK
<1>2. RowsOK' BY <1>1 DEF CInv, RowsOK, Editing
<1>3. ASSUME NEW q \in Requests, req'[q].pc \in Holding
      PROVE  /\ req'[q] = req[q] /\ req[q].c \in Carts
             /\ cartLock[req[q].c] = q /\ cart[req[q].c].status = "open"
             /\ cart'[req[q].c].status = "open" /\ cart'[req[q].c].coupon = cart[req[q].c].coupon
    <2>1. req'[q] = req[q] BY <1>1, <1>3 DEF Holding
    <2>2. req[q].c \in Carts BY <1>3, <2>1, ReqKinds DEF CInv, RowsOK, Holding
    <2>3. cartLock[req[q].c] = q /\ cart[req[q].c].status = "open" BY <1>3, <2>1 DEF CInv, CartHeld
    <2>4. q # NoOne BY CheckoutAssumption
    <2> QED BY <2>1, <2>2, <2>3, <2>4 DEF Editing
<1>4. CartHeld' BY <1>3 DEF CartHeld
<1>5. CouponHeld'
    <2>1. \A d : evaluate_coupon(d)' <=> evaluate_coupon(d) BY DEF evaluate_coupon, coupon_usage
    <2> QED BY <1>3, <2>1 DEF CInv, CouponHeld, Holding
<1>6. CopyFits' BY <1>3 DEF CInv, CopyFits, Holding
<1>7. OneOrderPerCart' BY DEF CInv, OneOrderPerCart, Editing
<1>8. CouponWithinLimit' /\ OrdersFit' BY DEF CInv, CouponWithinLimit, coupon_usage, OrdersFit
<1> QED BY <1>2, <1>4, <1>5, <1>6, <1>7, <1>8 DEF CInv

\* A cart's row is rewritten with its status and its coupon as they were.
LEMMA RowRewritten ==
    ASSUME RowsOK, NEW c \in AllCarts, NEW new \in CartRow,
           new.status = cart[c].status, new.coupon = cart[c].coupon \/ cartLock[c] = NoOne,
           cart' = [cart EXCEPT ![c] = new]
    PROVE  Editing
BY SubtypeOfCarts DEF RowsOK, Editing

LEMMA RemoveEdits ==
    ASSUME RowsOK, NEW c \in AllCarts, remove_item(c)
    PROVE  Editing
<1>1. cart \in [AllCarts -> CartRow] /\ cart[c] \in CartRow BY DEF RowsOK
<1>2. CASE cart' = [cart EXCEPT ![c].plan = "none", ![c].addon = "none"]
    <2> DEFINE new == [cart[c] EXCEPT !.plan = "none", !.addon = "none"]
    <2>1. new \in CartRow /\ new.status = cart[c].status /\ new.coupon = cart[c].coupon
        BY <1>1 DEF CartRow
    <2>2. cart' = [cart EXCEPT ![c] = new] BY <1>1, <1>2
    <2> HIDE DEF new
    <2> QED BY <2>1, <2>2, RowRewritten
<1>3. CASE cart' = [cart EXCEPT ![c].addon = "none"]
    <2> DEFINE new == [cart[c] EXCEPT !.addon = "none"]
    <2>1. new \in CartRow /\ new.status = cart[c].status /\ new.coupon = cart[c].coupon
        BY <1>1 DEF CartRow
    <2>2. cart' = [cart EXCEPT ![c] = new] BY <1>1, <1>3
    <2> HIDE DEF new
    <2> QED BY <2>1, <2>2, RowRewritten
<1>4. ASSUME NEW n \in Names, cart' = [cart EXCEPT ![c].names[n] = @ - 1] PROVE Editing
    <2> DEFINE names == [cart[c].names EXCEPT ![n] = cart[c].names[n] - 1]
               new == [cart[c] EXCEPT !.names = names]
    <2>1. names \in [Names -> Int] BY <1>1 DEF CartRow
    <2>2. cart' = [cart EXCEPT ![c] = new] BY <1>1, <1>4
    <2> HIDE DEF names
    <2>3. new \in CartRow /\ new.status = cart[c].status /\ new.coupon = cart[c].coupon
        BY <1>1, <2>1 DEF CartRow
    <2> HIDE DEF new
    <2> QED BY <2>2, <2>3, RowRewritten
<1> QED BY <1>2, <1>3, <1>4 DEF remove_item, NamesIn

LEMMA PeriodEdits ==
    ASSUME RowsOK, NEW c \in Carts, NEW period \in Periods, change_period(c, period)
    PROVE  Editing
<1>1. cart \in [AllCarts -> CartRow] /\ cart[c] \in CartRow BY SubtypeOfCarts DEF RowsOK
<1> DEFINE addon == AddonFor(cart[c].addon, period)
           new == [cart[c] EXCEPT !.plan = period, !.addon = addon]
<1>2. addon \in {"none", "once"} \cup Periods BY DEF AddonFor
<1> HIDE DEF addon
<1>3. cart' = [cart EXCEPT ![c] = new] BY <1>1 DEF change_period, addon
<1>4. new \in CartRow /\ new.status = cart[c].status /\ new.coupon = cart[c].coupon
    BY <1>1, <1>2 DEF CartRow
<1> HIDE DEF new
<1> QED BY <1>3, <1>4, RowRewritten, SubtypeOfCarts

LEMMA CouponEdits ==
    ASSUME RowsOK, NEW c \in AllCarts, apply_coupon(c) \/ remove_coupon(c)
    PROVE  Editing
<1>1. cart \in [AllCarts -> CartRow] /\ cart[c] \in CartRow BY DEF RowsOK
<1>2. cartLock[c] = NoOne BY DEF apply_coupon, remove_coupon
<1>3. PICK b \in BOOLEAN : cart' = [cart EXCEPT ![c].coupon = b] BY DEF apply_coupon, remove_coupon
<1> DEFINE new == [cart[c] EXCEPT !.coupon = b]
<1>4. new \in CartRow /\ new.status = cart[c].status BY <1>1 DEF CartRow
<1>5. cart' = [cart EXCEPT ![c] = new] BY <1>1, <1>3
<1> HIDE DEF new
<1> QED BY <1>2, <1>4, <1>5, RowRewritten

LEMMA SaveEdits ==
    ASSUME RowsOK, NEW q \in Requests, SaveItem(q)
    PROVE  Editing
<1> DEFINE c == req[q].c
           item == req[q].item
<1>1. c \in AllCarts /\ item \in Item BY ReqKinds DEF RowsOK, SaveItem
<1>2. cart \in [AllCarts -> CartRow] /\ cart[c] \in CartRow BY <1>1 DEF RowsOK
<1>3. cart' = cart \/ cart' = Saved(c, item) BY DEF SaveItem
<1> HIDE DEF c, item
<1>4. CASE cart' = cart BY <1>2, <1>4 DEF Editing
<1>5. CASE item.kind = "plan" /\ cart' = [cart EXCEPT ![c].plan = item.value]
    <2> DEFINE new == [cart[c] EXCEPT !.plan = item.value]
    <2>1. item.value \in Periods BY <1>1, <1>5 DEF Item
    <2>2. new \in CartRow /\ new.status = cart[c].status /\ new.coupon = cart[c].coupon
        BY <1>2, <2>1 DEF CartRow
    <2>3. cart' = [cart EXCEPT ![c] = new] BY <1>2, <1>5
    <2> HIDE DEF new
    <2> QED BY <1>1, <2>2, <2>3, RowRewritten
<1>6. CASE item.kind = "addon" /\ cart' = [cart EXCEPT ![c].addon = item.value]
    <2> DEFINE new == [cart[c] EXCEPT !.addon = item.value]
    <2>1. item.value \in {"once"} \cup Periods BY <1>1, <1>6 DEF Item
    <2>2. new \in CartRow /\ new.status = cart[c].status /\ new.coupon = cart[c].coupon
        BY <1>2, <2>1 DEF CartRow
    <2>3. cart' = [cart EXCEPT ![c] = new] BY <1>2, <1>6
    <2> HIDE DEF new
    <2> QED BY <1>1, <2>2, <2>3, RowRewritten
<1>7. CASE item.kind = "name" /\ cart' = [cart EXCEPT ![c].names[item.value] = 1]
    <2> DEFINE names == [cart[c].names EXCEPT ![item.value] = 1]
               new == [cart[c] EXCEPT !.names = names]
    <2>0. cart[c].names \in [Names -> Int] BY <1>2 DEF CartRow
    <2>1. names \in [Names -> Int]
        <3>1. item.value \in Names BY <1>1, <1>7 DEF Item
        <3> QED BY <2>0, <3>1
    <2>2. cart' = [cart EXCEPT ![c] = new] BY <1>2, <1>7
    <2> HIDE DEF names
    <2>3. new \in CartRow /\ new.status = cart[c].status /\ new.coupon = cart[c].coupon
        BY <1>2, <2>1 DEF CartRow
    <2> HIDE DEF new
    <2> QED BY <1>1, <2>2, <2>3, RowRewritten
<1>8. item.kind \in {"plan", "addon", "name"} BY <1>1 DEF Item
<1> QED BY <1>3, <1>4, <1>5, <1>6, <1>7, <1>8 DEF Saved

GoneCart == [EmptyCart EXCEPT !.status = "deleted"]

LEMMA GoneIsRow == GoneCart \in CartRow
<1> DEFINE names == [n \in Names |-> 0]
<1>1. names \in [Names -> Int] OBVIOUS
<1>2. EmptyCart = [status |-> "open", plan |-> "none", addon |-> "none", names |-> names, coupon |-> FALSE]
    BY DEF EmptyCart
<1> HIDE DEF names
<1> QED BY <1>1, <1>2 DEF GoneCart, CartRow

LEMMA PurgeEdits ==
    ASSUME RowsOK, purge_guest_carts
    PROVE  Editing
<1>1. cart' = [cart EXCEPT ![Guest] = GoneCart] BY DEF purge_guest_carts, GoneCart
<1> QED BY <1>1, GoneIsRow, SubtypeOfCarts, CheckoutAssumption DEF RowsOK, Editing

\* Signing in adds the visitor's names and coupon to a cart nobody has locked.
LEMMA AdoptEdits ==
    ASSUME RowsOK, NEW q \in Requests, AdoptCommits(q)
    PROVE  Editing
<1> DEFINE c == req[q].c
<1>1. c \in Carts /\ cartLock[c] = NoOne /\ req[q].coupon \in BOOLEAN
    BY ReqKinds DEF RowsOK, AdoptCommits
<1>2. cart \in [AllCarts -> CartRow] /\ cart[c] \in CartRow /\ c # Guest
    BY <1>1, SubtypeOfCarts, CheckoutAssumption DEF RowsOK
<1> DEFINE names == [n \in Names |-> IF n \in req[q].names THEN cart[c].names[n] + 1 ELSE cart[c].names[n]]
           coupon == cart[c].coupon \/ req[q].coupon
           new == [cart[c] EXCEPT !.names = names, !.coupon = coupon]
<1>3. names \in [Names -> Int] BY <1>2 DEF CartRow
<1>4. coupon \in BOOLEAN BY <1>1, <1>2 DEF CartRow
<1>5. cart' = [cart EXCEPT ![c] = new, ![Guest] = GoneCart]
    BY <1>2 DEF AdoptCommits, GoneCart
<1> HIDE DEF names, coupon
<1>6. new \in CartRow /\ new.status = cart[c].status
    BY <1>2, <1>3, <1>4 DEF CartRow
<1> HIDE DEF new
<1>7. cart' \in [AllCarts -> CartRow] BY <1>2, <1>5, <1>6, GoneIsRow
<1>8. ASSUME NEW d \in Carts
      PROVE  cart'[d].status = cart[d].status /\ (cartLock[d] # NoOne => cart'[d].coupon = cart[d].coupon)
    <2>1. d \in AllCarts /\ d # Guest BY SubtypeOfCarts, CheckoutAssumption
    <2>2. cart'[d] = IF d = c THEN new ELSE cart[d] BY <1>2, <1>5, <2>1
    <2> QED BY <1>1, <1>6, <2>2
<1> QED BY <1>7, <1>8 DEF Editing

LEMMA EditNextStep ==
    ASSUME CInv, EditNext
    PROVE  CInv'
<1>1. RowsOK BY DEF CInv
<1>2. ASSUME NEW q \in Requests, NEW c \in AllCarts, NEW item \in Item, Adding(q, c, item) PROVE CInv'
    <2> DEFINE r == [pc |-> "adding", c |-> c, item |-> item]
    <2>1. r \in ReqRow /\ r.pc = "adding" BY DEF ReqRow
    <2>2. req' = [req EXCEPT ![q] = r] /\ UNCHANGED <<rule, cart, cartLock, couponLock, orders>>
        BY <1>2 DEF Adding
    <2> HIDE DEF r
    <2>3. Editing BY <1>1, <2>2 DEF RowsOK, Editing
    <2> QED BY <2>1, <2>2, <2>3, EditingStep
<1>3. ASSUME NEW q \in Requests, NEW c \in Carts, NEW period \in Periods, add_hosting(q, c, period)
      PROVE  CInv'
    <2>1. [kind |-> "plan", value |-> period] \in Item BY DEF Item
    <2> QED BY <1>2, <1>3, <2>1, SubtypeOfCarts DEF add_hosting
<1>4. ASSUME NEW q \in Requests, NEW c \in Carts, add_addon(q, c) PROVE CInv'
    <2>1. \A p \in {"once"} \cup (AddonPeriods \cap {cart[c].plan}) : [kind |-> "addon", value |-> p] \in Item
        BY CheckoutAssumption DEF Item
    <2> QED BY <1>2, <1>4, <2>1, SubtypeOfCarts DEF add_addon
<1>5. ASSUME NEW q \in Requests, NEW c \in AllCarts, NEW n \in Names, add_domain(q, c, n) PROVE CInv'
    <2>1. [kind |-> "name", value |-> n] \in Item BY DEF Item
    <2> QED BY <1>2, <1>5, <2>1 DEF add_domain
<1>6. ASSUME NEW q \in Requests, NEW c \in Carts, adopt_guest_cart(q, c) PROVE CInv'
    <2> DEFINE names == NamesIn(Lines(Guest)) \ NamesIn(Lines(c))
               coupon == cart[Guest].coupon /\ ~cart[c].coupon
               r == [pc |-> "adopting", c |-> c, names |-> names, coupon |-> coupon]
    <2>1. names \in SUBSET Names /\ coupon \in BOOLEAN
        BY <1>1, SubtypeOfCarts DEF NamesIn, RowsOK, CartRow
    <2>2. req' = [req EXCEPT ![q] = r] /\ UNCHANGED <<rule, cart, cartLock, couponLock, orders>>
        BY <1>6 DEF adopt_guest_cart
    <2> HIDE DEF names, coupon
    <2>3. r \in ReqRow /\ r.pc = "adopting" BY <2>1 DEF ReqRow
    <2> HIDE DEF r
    <2>4. Editing BY <1>1, <2>2 DEF RowsOK, Editing
    <2> QED BY <2>2, <2>3, <2>4, EditingStep
<1>7. ASSUME NEW q \in Requests, SaveItem(q) \/ AdoptCommits(q) PROVE CInv'
    <2>1. Editing BY <1>1, <1>7, SaveEdits, AdoptEdits
    <2>2. req' = [req EXCEPT ![q] = IdleRequest] /\ UNCHANGED <<rule, cartLock, couponLock, orders>>
        BY <1>7 DEF SaveItem, AdoptCommits
    <2> QED BY <2>1, <2>2, IdleIsRow, EditingStep
<1>8. ASSUME NEW c \in AllCarts, remove_item(c) \/ apply_coupon(c) \/ remove_coupon(c) PROVE CInv'
    <2>1. Editing BY <1>1, <1>8, RemoveEdits, CouponEdits
    <2>2. UNCHANGED <<rule, cartLock, couponLock, orders, req>>
        BY <1>8 DEF remove_item, apply_coupon, remove_coupon
    <2> QED BY <2>1, <2>2, EditingStep
<1>9. ASSUME NEW c \in Carts, NEW period \in Periods, change_period(c, period) PROVE CInv'
    <2>1. Editing BY <1>1, <1>9, PeriodEdits
    <2>2. UNCHANGED <<rule, cartLock, couponLock, orders, req>> BY <1>9 DEF change_period
    <2> QED BY <2>1, <2>2, EditingStep
<1>10. CASE purge_guest_carts
    <2>1. Editing BY <1>1, <1>10, PurgeEdits
    <2>2. UNCHANGED <<rule, cartLock, couponLock, orders, req>> BY <1>10 DEF purge_guest_carts
    <2> QED BY <2>1, <2>2, EditingStep
<1> QED BY <1>3, <1>4, <1>5, <1>6, <1>7, <1>8, <1>9, <1>10 DEF EditNext

----------------------------------------------------------------------------
(* Checkout.                                                                *)

\* The part of the invariant about a request, for its own sake: what holds of
\* request p, given the rows.
Held(p) ==
    /\ req[p].pc \in Holding => cartLock[req[p].c] = p /\ cart[req[p].c].status = "open"
    /\ req[p].pc = "pricing" /\ cart[req[p].c].coupon => couponLock = p
    /\ req[p].pc = "commit" /\ req[p].coupon => couponLock = p /\ evaluate_coupon(ClientOf[req[p].c])
    /\ req[p].pc = "commit" => Fits(req[p].lines)

\* The part about the orders.
Placed == OneOrderPerCart /\ CouponWithinLimit /\ OrdersFit

LEMMA CInvParts == CInv <=> RowsOK /\ (\A p \in Requests : Held(p)) /\ Placed
BY DEF CInv, CartHeld, CouponHeld, CopyFits, Held, Placed

LEMMA CInvFromParts ==
    ASSUME RowsOK', \A p \in Requests : Held(p)', Placed'
    PROVE  CInv'
BY DEF CInv, CartHeld, CouponHeld, CopyFits, Held, Placed

LEMMA HolderRow ==
    ASSUME RowsOK, NEW p \in Requests, req[p].pc \in Holding
    PROVE  req[p].c \in Carts
BY ReqKinds DEF RowsOK, Holding

\* Another request takes a lock or gives its own back: p keeps what it holds.
LEMMA OthersKeep ==
    ASSUME CInv, NEW p \in Requests, NEW q \in Requests, p # q,
           UNCHANGED <<rule, cart, orders>>, req'[p] = req[p],
           \A c \in Carts : cartLock[c] = p => cartLock'[c] = p,
           couponLock = p => couponLock' = p
    PROVE  Held(p)'
<1>1. Held(p) /\ RowsOK BY CInvParts
<1>2. \A d : evaluate_coupon(d)' <=> evaluate_coupon(d) BY DEF evaluate_coupon, coupon_usage
<1>3. req[p].pc \in Holding => req[p].c \in Carts BY <1>1, HolderRow
<1> QED BY <1>1, <1>2, <1>3 DEF Held, Holding, Fits, Empty, NamesIn, AddonFits

LEMMA PlacedStands ==
    ASSUME Placed, UNCHANGED <<rule, cart, orders>>
    PROVE  Placed'
BY DEF Placed, OneOrderPerCart, CouponWithinLimit, coupon_usage, OrdersFit, Fits, Empty, NamesIn, AddonFits

LEMMA RefusedStep ==
    ASSUME CInv, NEW q \in Requests, Refuse(q), UNCHANGED <<rule, cart, orders>>
    PROVE  CInv'
<1>1. RowsOK /\ Placed BY CInvParts
<1>2. RowsOK' BY <1>1, IdleIsRow DEF RowsOK, Refuse
<1>3. req'[q] = IdleRequest BY <1>1 DEF RowsOK, Refuse
<1>4. Held(q)' BY <1>3, IdleIsRow DEF Held, Holding
<1>5. ASSUME NEW p \in Requests, p # q PROVE Held(p)'
    <2>1. req'[p] = req[p] BY <1>1, <1>5 DEF RowsOK, Refuse
    <2>2. \A c \in Carts : cartLock[c] = p => cartLock'[c] = p BY <1>5, SubtypeOfCarts DEF Refuse
    <2>3. couponLock = p => couponLock' = p BY <1>5 DEF Refuse
    <2> QED BY <1>5, <2>1, <2>2, <2>3, OthersKeep
<1>6. Placed' BY <1>1, PlacedStands
<1> QED BY <1>2, <1>4, <1>5, <1>6, CInvFromParts

\* A request with only its cart moves on to another step before the commit.
LEMMA MovedOn ==
    ASSUME RowsOK, NEW q \in Requests, req[q].pc \in {"priced", "locked", "pricing"},
           NEW pc \in {"priced", "locked", "pricing"}, req' = [req EXCEPT ![q].pc = pc]
    PROVE  /\ req' \in [Requests -> ReqRow]
           /\ req'[q].pc = pc /\ req'[q].c = req[q].c /\ req[q].c \in Carts
           /\ \A p \in Requests : p # q => req'[p] = req[p]
<1>1. req[q] \in [pc : {"priced", "locked", "pricing"}, c : Carts] BY ReqKinds DEF RowsOK
<1> DEFINE new == [req[q] EXCEPT !.pc = pc]
<1>2. new \in [pc : {"priced", "locked", "pricing"}, c : Carts] /\ new.pc = pc /\ new.c = req[q].c
    BY <1>1
<1>3. req' = [req EXCEPT ![q] = new] BY DEF RowsOK
<1> HIDE DEF new
<1>4. new \in ReqRow BY <1>2 DEF ReqRow
<1> QED BY <1>1, <1>2, <1>3, <1>4 DEF RowsOK

LEMMA LockCartStep ==
    ASSUME CInv, NEW q \in Requests, LockCart(q)
    PROVE  CInv'
<1>1. RowsOK /\ Placed /\ \A p \in Requests : Held(p) BY CInvParts
<1>2. CASE Refuse(q) BY <1>2, RefusedStep DEF LockCart
<1>3. CASE /\ cart[req[q].c].status = "open" /\ cartLock' = [cartLock EXCEPT ![req[q].c] = q]
           /\ req' = [req EXCEPT ![q].pc = "locked"] /\ UNCHANGED couponLock
    <2>1. req[q].pc = "priced" /\ cartLock[req[q].c] = NoOne /\ UNCHANGED <<rule, cart, orders, edits>>
        BY DEF LockCart
    <2>2. /\ req' \in [Requests -> ReqRow]
          /\ req'[q].pc = "locked" /\ req'[q].c = req[q].c /\ req[q].c \in Carts
          /\ \A p \in Requests : p # q => req'[p] = req[p]
        BY <1>1, <1>3, <2>1, MovedOn
    <2>3. cartLock \in [AllCarts -> Requests \cup {NoOne}] /\ req[q].c \in AllCarts
        BY <1>1, <2>2, SubtypeOfCarts DEF RowsOK
    <2>4. RowsOK' BY <1>1, <1>3, <2>1, <2>2, <2>3 DEF RowsOK
    <2>5. cartLock'[req[q].c] = q BY <1>3, <2>3
    <2>6. Held(q)' BY <1>3, <2>1, <2>2, <2>5 DEF Held
    <2>7. ASSUME NEW p \in Requests, p # q PROVE Held(p)'
        <3>1. p # NoOne BY CheckoutAssumption
        <3>2. \A c \in Carts : cartLock[c] = p => cartLock'[c] = p
            BY <1>3, <2>1, <2>3, <3>1, SubtypeOfCarts
        <3> QED BY <1>3, <2>1, <2>2, <2>7, <3>2, OthersKeep
    <2>8. Placed' BY <1>1, <2>1, PlacedStands
    <2> QED BY <2>4, <2>6, <2>7, <2>8, CInvFromParts
<1> QED BY <1>2, <1>3 DEF LockCart

LEMMA LockCouponStep ==
    ASSUME CInv, NEW q \in Requests, LockCoupon(q)
    PROVE  CInv'
<1>1. RowsOK /\ Placed /\ Held(q) BY CInvParts
<1>2. /\ req[q].pc = "locked" /\ req' = [req EXCEPT ![q].pc = "pricing"]
      /\ UNCHANGED <<rule, cart, cartLock, orders, edits>>
    BY DEF LockCoupon
<1>3. /\ req' \in [Requests -> ReqRow]
      /\ req'[q].pc = "pricing" /\ req'[q].c = req[q].c /\ req[q].c \in Carts
      /\ \A p \in Requests : p # q => req'[p] = req[p]
    BY <1>1, <1>2, MovedOn
<1>4. RowsOK' BY <1>1, <1>2, <1>3 DEF RowsOK
<1>5. cart[req[q].c].coupon => couponLock' = q BY DEF LockCoupon
<1>6. Held(q)' BY <1>1, <1>2, <1>3, <1>5 DEF Held, Holding
<1>7. ASSUME NEW p \in Requests, p # q PROVE Held(p)'
    <2>1. p # NoOne BY CheckoutAssumption
    <2>2. couponLock = p => couponLock' = p BY <2>1 DEF LockCoupon
    <2> QED BY <1>2, <1>3, <1>7, <2>2, OthersKeep
<1>8. Placed' BY <1>1, <1>2, PlacedStands
<1> QED BY <1>4, <1>6, <1>7, <1>8, CInvFromParts

\* The second pass: what was checked is checked of the copy, and the count of
\* redemptions is made with the coupon locked.
LEMMA SecondPassStep ==
    ASSUME CInv, NEW q \in Requests, SecondPass(q)
    PROVE  CInv'
<1>1. RowsOK /\ Placed /\ Held(q) BY CInvParts
<1>2. CASE Refuse(q) BY <1>2, RefusedStep DEF SecondPass
<1>3. CASE price_cart(req[q].c) /\ req' = [req EXCEPT ![q] = Priced(q)] /\ UNCHANGED <<cartLock, couponLock>>
    <2> DEFINE c == req[q].c
               lines == Lines(c)
               coupon == cart[c].coupon
               new == [pc |-> "commit", c |-> c, lines |-> lines, coupon |-> coupon]
    <2>1. req[q].pc = "pricing" /\ UNCHANGED <<rule, cart, orders, edits>> BY DEF SecondPass
    <2>2. c \in Carts /\ cart[c] \in CartRow BY <1>1, <2>1, HolderRow, SubtypeOfCarts DEF RowsOK, Holding
    <2>3. lines \in LinesRow /\ coupon \in BOOLEAN BY <2>2 DEF Lines, LinesRow, CartRow
    <2>4. req' = [req EXCEPT ![q] = new] BY <1>3 DEF Priced
    <2>5. Fits(lines) /\ (coupon => evaluate_coupon(ClientOf[c])) BY <1>3 DEF price_cart, Fits
    <2>6. cartLock[c] = q /\ cart[c].status = "open" /\ (coupon => couponLock = q)
        BY <1>1, <2>1 DEF Held, Holding
    <2> HIDE DEF c, lines, coupon
    <2>7. new \in ReqRow BY <2>2, <2>3 DEF ReqRow
    <2>8. req'[q] = new /\ req' \in [Requests -> ReqRow] /\ \A p \in Requests : p # q => req'[p] = req[p]
        BY <1>1, <2>4, <2>7 DEF RowsOK
    <2>9. RowsOK' BY <1>1, <1>3, <2>1, <2>8 DEF RowsOK
    <2>10. \A d : evaluate_coupon(d)' <=> evaluate_coupon(d)
        BY <2>1 DEF evaluate_coupon, coupon_usage
    <2>11. new.pc = "commit" /\ new.c = c /\ new.lines = lines /\ new.coupon = coupon OBVIOUS
    <2> HIDE DEF new
    <2>12. Held(q)'
        BY <1>3, <2>1, <2>5, <2>6, <2>8, <2>10, <2>11 DEF Held, Fits, Empty, NamesIn, AddonFits
    <2>13. ASSUME NEW p \in Requests, p # q PROVE Held(p)'
        BY <1>3, <2>1, <2>8, <2>13, OthersKeep
    <2>14. Placed' BY <1>1, <2>1, PlacedStands
    <2> QED BY <2>9, <2>12, <2>13, <2>14, CInvFromParts
<1> QED BY <1>2, <1>3 DEF SecondPass

LEMMA UsageIsFinite ==
    ASSUME orders \in Seq(OrderRow)
    PROVE  IsFiniteSet(coupon_usage) /\ Cardinality(coupon_usage) \in Nat
<1>1. IsFiniteSet(1..Len(orders)) BY FS_Interval
<1>2. coupon_usage \subseteq 1..Len(orders) BY DEF coupon_usage
<1> QED BY <1>1, <1>2, FS_Subset, FS_CardinalityType

\* An order is placed: the request still holds the open cart and, when it
\* redeems the coupon, the count it made under the coupon's lock.
LEMMA PlaceOrderStep ==
    ASSUME CInv, NEW q \in Requests, PlaceOrder(q)
    PROVE  CInv'
<1> DEFINE c == req[q].c
           k == Len(orders) + 1
<1>1. RowsOK /\ Placed /\ \A p \in Requests : Held(p) BY CInvParts
<1>2. req[q].pc = "commit" /\ Refuse(q) /\ UNCHANGED <<rule, edits>> BY DEF PlaceOrder
<1>3. c \in Carts /\ c \in AllCarts /\ req[q].lines \in LinesRow /\ req[q].coupon \in BOOLEAN
    BY <1>1, <1>2, ReqKinds, SubtypeOfCarts DEF RowsOK
<1>4. /\ cartLock[c] = q /\ cart[c].status = "open" /\ Fits(req[q].lines)
      /\ req[q].coupon => couponLock = q /\ evaluate_coupon(ClientOf[c])
    BY <1>1, <1>2 DEF Held, Holding
<1>5. PICK o \in OrderRow :
         /\ orders' = Append(orders, o)
         /\ o.cart = c /\ o.client = ClientOf[c] /\ o.lines = req[q].lines
         /\ o.coupon = req[q].coupon /\ o.status # "cancelled"
    <2>1. PICK free \in {FALSE, req[q].coupon} :
             orders' = Append(orders, [cart |-> c, client |-> ClientOf[c], lines |-> req[q].lines,
                                       coupon |-> req[q].coupon, money |-> IF free THEN "full" ELSE "none",
                                       status |-> IF free THEN "paid" ELSE "pending"])
        BY DEF PlaceOrder
    <2> DEFINE money == IF free THEN "full" ELSE "none"
               status == IF free THEN "paid" ELSE "pending"
               o == [cart |-> c, client |-> ClientOf[c], lines |-> req[q].lines,
                     coupon |-> req[q].coupon, money |-> money, status |-> status]
    <2>2. money \in {"none", "full"} /\ status \in {"pending", "paid"} OBVIOUS
    <2>3. orders' = Append(orders, o) BY <2>1
    <2> HIDE DEF money, status
    <2>4. o \in OrderRow BY <1>3, <2>2 DEF OrderRow
    <2>5. o.status # "cancelled" BY <2>2
    <2> QED BY <2>3, <2>4, <2>5
<1>6. /\ orders \in Seq(OrderRow) /\ orders' \in Seq(OrderRow) /\ k \in Nat
      /\ DOMAIN orders = 1..(k - 1) /\ DOMAIN orders' = 1..k
      /\ orders'[k] = o /\ \A i \in DOMAIN orders : orders'[i] = orders[i]
    BY <1>1, <1>5 DEF RowsOK
<1>7. /\ cart' \in [AllCarts -> CartRow] /\ cart'[c].status = "converted"
      /\ \A d \in AllCarts : d # c => cart'[d] = cart[d]
    <2> DEFINE new == [cart[c] EXCEPT !.status = "converted"]
    <2>1. cart \in [AllCarts -> CartRow] BY <1>1 DEF RowsOK
    <2>2. new \in CartRow /\ new.status = "converted" BY <1>3, <2>1 DEF CartRow
    <2>3. cart' = [cart EXCEPT ![c] = new] BY <1>3, <2>1 DEF PlaceOrder
    <2> HIDE DEF new
    <2> QED BY <1>3, <2>1, <2>2, <2>3
<1>8. RowsOK' BY <1>1, <1>2, <1>6, <1>7, IdleIsRow DEF RowsOK, Refuse
<1>9. coupon_usage' = IF req[q].coupon THEN coupon_usage \cup {k} ELSE coupon_usage
    <2>1. \A i \in DOMAIN orders' : i \in DOMAIN orders \/ i = k BY <1>6
    <2>2. \A i \in DOMAIN orders : i # k /\ i \in DOMAIN orders' BY <1>6
    <2>3. k \in DOMAIN orders' BY <1>6
    <2> HIDE DEF k
    <2> QED BY <1>5, <1>6, <2>1, <2>2, <2>3 DEF coupon_usage
<1>10. ASSUME NEW p \in Requests PROVE Held(p)'
    <2>1. CASE p = q
        <3>1. req'[q] = IdleRequest BY <1>1, <1>2 DEF RowsOK, Refuse
        <3> QED BY <2>1, <3>1, IdleIsRow DEF Held, Holding
    <2>2. CASE p # q
        <3>1. req'[p] = req[p] BY <1>1, <1>2, <2>2 DEF RowsOK, Refuse
        <3>2. CASE req[p].pc \notin Holding BY <3>1, <3>2 DEF Held, Holding
        <3>3. CASE req[p].pc \in Holding
            <4>1. req[p].c \in Carts /\ req[p].c \in AllCarts BY <1>1, <3>3, HolderRow, SubtypeOfCarts
            <4>2. cartLock[req[p].c] = p /\ cart[req[p].c].status = "open" BY <1>1, <3>3 DEF Held
            <4>3. req[p].c # c BY <1>4, <2>2, <4>2
            <4>4. cart'[req[p].c] = cart[req[p].c] BY <1>7, <4>1, <4>3
            <4>5. cartLock'[req[p].c] = p BY <1>2, <2>2, <4>1, <4>2 DEF Refuse
            <4>6. couponLock = p => couponLock' = p BY <1>2, <2>2 DEF Refuse
            <4>7. ASSUME req[p].pc = "commit", req[p].coupon
                  PROVE  couponLock = p /\ evaluate_coupon(ClientOf[req[p].c])'
                <5> DEFINE cl == ClientOf[req[p].c]
                <5>1. couponLock = p /\ evaluate_coupon(cl) BY <1>1, <4>7 DEF Held
                <5>2. coupon_usage' = coupon_usage BY <1>4, <1>9, <2>2, <5>1
                <5>3. cl' = cl BY <3>1
                <5>4. \A i \in coupon_usage : orders'[i] = orders[i] BY <1>6 DEF coupon_usage
                <5> HIDE DEF cl
                <5>5. evaluate_coupon(cl)' BY <1>2, <5>1, <5>2, <5>3, <5>4 DEF evaluate_coupon
                <5> QED BY <5>1, <5>5 DEF cl
            <4>8. /\ req[p].pc = "pricing" /\ cart[req[p].c].coupon => couponLock = p
                  /\ req[p].pc = "commit" => Fits(req[p].lines)
                BY <1>1 DEF Held
            <4> QED BY <3>1, <4>2, <4>4, <4>5, <4>6, <4>7, <4>8 DEF Held, Fits, Empty, NamesIn, AddonFits
        <3> QED BY <3>2, <3>3
    <2> QED BY <2>1, <2>2
<1>11. OneOrderPerCart'
    <2>1. OneOrderPerCart BY <1>1 DEF Placed
    <2>2. \A i \in DOMAIN orders : orders[i].cart # c BY <1>3, <1>4, <2>1 DEF OneOrderPerCart
    <2>3. \A i \in DOMAIN orders' : i = k \/ (i \in DOMAIN orders /\ orders'[i] = orders[i]) BY <1>6
    <2>4. k \in DOMAIN orders' /\ orders'[k].cart = c BY <1>5, <1>6
    <2>5. \A i \in DOMAIN orders : i \in DOMAIN orders' BY <1>6
    <2> HIDE DEF k
    <2>6. ASSUME NEW i \in DOMAIN orders', NEW j \in DOMAIN orders', i # j
          PROVE  orders'[i].cart # orders'[j].cart
        BY <2>1, <2>2, <2>3, <2>4, <2>6 DEF OneOrderPerCart
    <2>7. ASSUME NEW d \in Carts
          PROVE  cart'[d].status = "converted" <=> \E i \in DOMAIN orders' : orders'[i].cart = d
        <3>1. CASE d = c BY <1>7, <2>4, <3>1
        <3>2. CASE d # c
            <4>1. cart'[d] = cart[d] BY <1>7, <3>2, SubtypeOfCarts
            <4>2. (\E i \in DOMAIN orders' : orders'[i].cart = d) <=> \E i \in DOMAIN orders : orders[i].cart = d
                BY <2>3, <2>4, <2>5, <3>2, <1>6
            <4> QED BY <2>1, <4>1, <4>2 DEF OneOrderPerCart
        <3> QED BY <3>1, <3>2
    <2> QED BY <2>6, <2>7 DEF OneOrderPerCart
<1>12. CouponWithinLimit'
    <2>1. CouponWithinLimit BY <1>1 DEF Placed
    <2>2. IsFiniteSet(coupon_usage) /\ Cardinality(coupon_usage) \in Nat BY <1>6, UsageIsFinite
    <2>3. \A i \in coupon_usage : i \in DOMAIN orders /\ i # k /\ orders'[i] = orders[i]
        BY <1>6 DEF coupon_usage
    <2>4. rule.max \in Nat BY <1>1, CheckoutAssumption DEF RowsOK
    <2>5. CASE ~req[q].coupon
        <3>1. coupon_usage' = coupon_usage BY <1>9, <2>5
        <3> QED BY <1>2, <2>1, <2>3, <3>1 DEF CouponWithinLimit
    <2>6. CASE req[q].coupon
        <3>1. coupon_usage' = coupon_usage \cup {k} BY <1>9, <2>6
        <3>2. evaluate_coupon(ClientOf[c]) BY <1>4, <2>6
        <3>3. Cardinality(coupon_usage \cup {k}) = Cardinality(coupon_usage) + 1
            BY <2>2, <2>3, FS_AddElement
        <3>4. Cardinality(coupon_usage') <= rule.max
            BY <2>2, <2>4, <3>1, <3>2, <3>3 DEF evaluate_coupon
        <3>5. orders'[k].client = ClientOf[c] BY <1>5, <1>6
        <3> HIDE DEF k
        <3>6. rule.once => \A i, j \in coupon_usage' : i # j => orders'[i].client # orders'[j].client
            BY <2>1, <2>3, <3>1, <3>2, <3>5 DEF CouponWithinLimit, evaluate_coupon
        <3> QED BY <1>2, <3>4, <3>6 DEF CouponWithinLimit
    <2> QED BY <2>5, <2>6
<1>13. OrdersFit'
    <2>1. \A i \in DOMAIN orders' : i = k \/ (i \in DOMAIN orders /\ orders'[i] = orders[i]) BY <1>6
    <2> HIDE DEF k
    <2> QED BY <1>1, <1>4, <1>5, <1>6, <2>1 DEF Placed, OrdersFit, Fits, Empty, NamesIn, AddonFits
<1>14. Placed' BY <1>11, <1>12, <1>13 DEF Placed
<1> QED BY <1>8, <1>10, <1>14, CInvFromParts

----------------------------------------------------------------------------
(* What becomes of orders.                                                  *)

\* An order keeps its cart, its client and its lines, and a redemption is
\* given back but never taken again.
LEMMA OrderRowStep ==
    ASSUME CInv, UNCHANGED <<rule, cart, cartLock, couponLock, req>>,
           NEW i \in DOMAIN orders, NEW o \in OrderRow,
           o.cart = orders[i].cart, o.client = orders[i].client, o.lines = orders[i].lines,
           o.coupon = orders[i].coupon, orders[i].status # "cancelled",
           orders' = [orders EXCEPT ![i] = o]
    PROVE  CInv'
<1>1. RowsOK /\ Placed /\ \A p \in Requests : Held(p) BY CInvParts
<1>2. /\ orders \in Seq(OrderRow) /\ orders' \in Seq(OrderRow) /\ DOMAIN orders' = DOMAIN orders
      /\ \A j \in DOMAIN orders : orders'[j] = IF j = i THEN o ELSE orders[j]
    <2>1. orders \in Seq(OrderRow) BY <1>1 DEF RowsOK
    <2>2. orders' \in Seq(OrderRow) BY <2>1, ExceptSeq
    <2> QED BY <2>1, <2>2
<1>3. \A j \in DOMAIN orders : /\ orders'[j].cart = orders[j].cart /\ orders'[j].client = orders[j].client
                               /\ orders'[j].lines = orders[j].lines
    BY <1>2
<1>4. coupon_usage' \subseteq coupon_usage BY <1>2 DEF coupon_usage
<1>5. /\ Cardinality(coupon_usage) \in Nat /\ Cardinality(coupon_usage') \in Nat
      /\ Cardinality(coupon_usage') <= Cardinality(coupon_usage)
    <2>1. IsFiniteSet(coupon_usage) BY <1>2, UsageIsFinite
    <2> QED BY <1>4, <2>1, FS_Subset, FS_CardinalityType
<1>6. \A j \in coupon_usage : j \in DOMAIN orders BY DEF coupon_usage
<1>7. rule.max \in Nat BY <1>1, CheckoutAssumption DEF RowsOK
<1>8. ASSUME NEW d, evaluate_coupon(d) PROVE evaluate_coupon(d)'
    BY <1>3, <1>4, <1>5, <1>6, <1>7, <1>8 DEF evaluate_coupon
<1>9. RowsOK' BY <1>1, <1>2 DEF RowsOK
<1>10. ASSUME NEW p \in Requests PROVE Held(p)'
    BY <1>1, <1>8 DEF Held, Fits, Empty, NamesIn, AddonFits
<1>11. OneOrderPerCart' BY <1>1, <1>2, <1>3 DEF Placed, OneOrderPerCart
<1>12. CouponWithinLimit' BY <1>1, <1>3, <1>4, <1>5, <1>6, <1>7 DEF Placed, CouponWithinLimit
<1>13. OrdersFit' BY <1>1, <1>2, <1>3 DEF Placed, OrdersFit, Fits, Empty, NamesIn, AddonFits
<1> QED BY <1>9, <1>10, <1>11, <1>12, <1>13, CInvFromParts DEF Placed

LEMMA OrderNextStep ==
    ASSUME CInv, OrderNext
    PROVE  CInv'
<1>1. PICK i \in DOMAIN orders : Pay(i) \/ Stop(i) \/ cancel_order(i) BY DEF OrderNext
<1>2. orders \in Seq(OrderRow) /\ orders[i] \in OrderRow BY DEF CInv, RowsOK
<1>3. UNCHANGED <<rule, cart, cartLock, couponLock, req>> /\ orders[i].status # "cancelled"
    BY <1>1 DEF Pay, Stop, cancel_order, Rest
<1>4. PICK s \in {"pending", "paid", "stopped", "cancelled"}, m \in {"none", "part", "full"} :
         orders' = [orders EXCEPT ![i] = [orders[i] EXCEPT !.status = s, !.money = m]]
    <2>1. orders[i].money \in {"none", "part", "full"} /\ orders[i].status \in {"pending", "paid", "stopped", "cancelled"}
        BY <1>2 DEF OrderRow
    <2>2. ASSUME NEW s \in {"pending", "paid", "stopped", "cancelled"},
                 orders' = [orders EXCEPT ![i].status = s]
          PROVE  orders' = [orders EXCEPT ![i] = [orders[i] EXCEPT !.status = s, !.money = orders[i].money]]
        <3>1. [orders[i] EXCEPT !.status = s, !.money = orders[i].money] = [orders[i] EXCEPT !.status = s]
            BY <1>2 DEF OrderRow
        <3> QED BY <2>2, <3>1
    <2>3. CASE orders' = [orders EXCEPT ![i].status = "paid", ![i].money = "full"]
        BY <1>2, <2>3
    <2>4. CASE orders' = [orders EXCEPT ![i].money = "part"]
        <3>1. [orders[i] EXCEPT !.status = orders[i].status, !.money = "part"] = [orders[i] EXCEPT !.money = "part"]
            BY <1>2 DEF OrderRow
        <3>2. orders' = [orders EXCEPT ![i] = [orders[i] EXCEPT !.status = orders[i].status, !.money = "part"]]
            BY <2>4, <3>1
        <3> QED BY <2>1, <3>2
    <2>5. CASE Stop(i) \/ cancel_order(i)
        <3>1. PICK s \in {"pending", "paid", "stopped", "cancelled"} : orders' = [orders EXCEPT ![i].status = s]
            BY <2>5 DEF Stop, cancel_order, Move
        <3> QED BY <2>1, <2>2, <3>1
    <2> QED BY <1>1, <2>3, <2>4, <2>5 DEF Pay
<1> DEFINE o == [orders[i] EXCEPT !.status = s, !.money = m]
<1>5. /\ o \in OrderRow /\ o.cart = orders[i].cart /\ o.client = orders[i].client
      /\ o.lines = orders[i].lines /\ o.coupon = orders[i].coupon
    BY <1>2 DEF OrderRow
<1>6. orders' = [orders EXCEPT ![i] = o] BY <1>4
<1> HIDE DEF o
<1> QED BY <1>3, <1>5, <1>6, OrderRowStep

----------------------------------------------------------------------------
(* The invariant.                                                           *)

LEMMA CStart ==
    ASSUME Init
    PROVE  CInv
<1>1. cart \in [AllCarts -> CartRow] /\ \A c \in Carts : cart[c].status = "open"
    <2> DEFINE names == [n \in Names |-> 0]
    <2>1. names \in [Names -> Int] OBVIOUS
    <2>2. EmptyCart = [status |-> "open", plan |-> "none", addon |-> "none", names |-> names, coupon |-> FALSE]
        BY DEF EmptyCart
    <2> HIDE DEF names
    <2>3. EmptyCart \in CartRow /\ EmptyCart.status = "open" BY <2>1, <2>2 DEF CartRow
    <2>4. \A pl \in {"none", "annual"} : /\ [EmptyCart EXCEPT !.plan = pl] \in CartRow
                                         /\ [EmptyCart EXCEPT !.plan = pl].status = "open"
        BY <2>3 DEF CartRow, Periods
    <2>5. PICK first \in [Carts -> {"none", "annual"}] :
             cart = [c \in AllCarts |-> IF c = Guest THEN EmptyCart ELSE [EmptyCart EXCEPT !.plan = first[c]]]
        BY DEF Init
    <2>6. \A c \in AllCarts : c # Guest => first[c] \in {"none", "annual"} BY DEF AllCarts
    <2> QED BY <2>3, <2>4, <2>5, <2>6, SubtypeOfCarts
<1>2. orders = <<>> /\ orders \in Seq(OrderRow) /\ DOMAIN orders = {} BY DEF Init
<1>3. RowsOK BY <1>1, <1>2, IdleIsRow DEF Init, RowsOK
<1>4. \A p \in Requests : Held(p) BY IdleIsRow DEF Init, Held, Holding
<1>5. coupon_usage = {} BY <1>2 DEF coupon_usage
<1>6. rule.max \in Nat BY <1>3, CheckoutAssumption DEF RowsOK
<1>7. Placed
    BY <1>1, <1>2, <1>5, <1>6, FS_EmptySet DEF Placed, OneOrderPerCart, CouponWithinLimit, OrdersFit
<1> QED BY <1>3, <1>4, <1>7, CInvParts

LEMMA CheckoutNextStep ==
    ASSUME CInv, CheckoutNext
    PROVE  CInv'
<1>1. ASSUME NEW q \in Requests, NEW c \in Carts, checkout(q, c) PROVE CInv'
    <2> DEFINE r == [pc |-> "priced", c |-> c]
    <2>1. r \in ReqRow /\ r.pc = "priced" BY DEF ReqRow
    <2>2. req' = [req EXCEPT ![q] = r] /\ UNCHANGED <<rule, cart, cartLock, couponLock, orders>>
        BY <1>1 DEF checkout
    <2> HIDE DEF r
    <2>3. Editing BY <2>2 DEF CInv, RowsOK, Editing
    <2> QED BY <2>1, <2>2, <2>3, EditingStep
<1> QED BY <1>1, LockCartStep, LockCouponStep, SecondPassStep, PlaceOrderStep DEF CheckoutNext

LEMMA CStep ==
    ASSUME CInv, [Next]_vars
    PROVE  CInv'
<1>1. CASE UNCHANGED vars
    <2>1. Editing BY <1>1 DEF CInv, RowsOK, Editing, vars
    <2> QED BY <1>1, <2>1, EditingStep DEF vars
<1> QED BY <1>1, EditNextStep, CheckoutNextStep, OrderNextStep DEF Next

\* Whatever requests edit, adopt and check out carts at the same time, the
\* locks protect what the second pass of checkout read.
THEOREM CheckoutInvariant == Spec => []CInv
<1>1. Init => CInv BY CStart
<1>2. CInv /\ [Next]_vars => CInv' BY CStep
<1> QED BY <1>1, <1>2, PTL DEF Spec

\* checkout is safe against a double submit, of any number of requests: a cart
\* becomes one order, and only an order closes it.
THEOREM OneOrderEach == Spec => []OneOrderPerCart
<1>1. CInv => OneOrderPerCart BY DEF CInv
<1> QED BY <1>1, CheckoutInvariant, PTL

\* A coupon of any limit is never redeemed above it, nor twice for one client
\* when it is meant once, with the redemptions cancelled orders gave back.
THEOREM CouponBounded == Spec => []CouponWithinLimit
<1>1. CInv => CouponWithinLimit BY DEF CInv
<1> QED BY <1>1, CheckoutInvariant, PTL

\* An order is built from lines that go together, although lines are removed
\* and periods changed without the lock of the cart.
THEOREM OrdersGoTogether == Spec => []OrderFitsTogether
<1>1. CInv => OrderFitsTogether BY DEF CInv, OrdersFit, Fits, OrderFitsTogether
<1> QED BY <1>1, CheckoutInvariant, PTL
=============================================================================
