----------------------------- MODULE Affiliates -----------------------------
(***************************************************************************)
(* Commissions and payouts: apps/affiliates/services.py.                   *)
(*                                                                         *)
(* An invoice that is paid earns the referring affiliate a commission, in  *)
(* the payment's transaction.  A refund lowers or voids it, or flags it    *)
(* once it was paid out.  Staff and a daily job approve, staff reject and  *)
(* record payouts, under the row locks of the affiliate and of the         *)
(* commissions.  A payout is two steps here, its locks held in between.    *)
(***************************************************************************)
EXTENDS Integers, Functions, Sequences

CONSTANTS
    Clients, Affiliates,
    Invoices, ClientOf,  \* invoices, and whose they are
    Total,               \* what an invoice takes
    Share,               \* the commission on it
    MinimumPayout,       \* minimum_payout
    Staff,               \* people who record payouts
    None,
    MaxReviews           \* bound: changes of affiliates' standing

ASSUME AffiliatesAssumption ==
    /\ Total \in Nat \ {0} /\ Share \in 1..Total /\ MinimumPayout \in Nat /\ MaxReviews \in Nat
    /\ ClientOf \in [Invoices -> Clients] /\ None \notin Affiliates \cup Staff

VARIABLES
    settings,    \* AffiliateSettings: recurring (else the first sale only), hold
    affiliate,   \* status of each affiliate
    referral,    \* Referral: the affiliate each client was referred by
    invoice,     \* status, amount_refunded, and whom its payment will credit
    commission,  \* Commission of each invoice
    loaded,      \* commissions the daily job loaded and has not looked at yet
    payer,       \* what each staff member's payout has locked and added up
    payouts,     \* Payout rows
    reviews      \* changes of standing so far

affiliatesVars == <<settings, affiliate, referral, invoice, commission, loaded, payer, payouts, reviews>>

----------------------------------------------------------------------------
NoCommission == [status |-> "none", to |-> None, amount |-> 0, eligible |-> FALSE, review |-> FALSE, payout |-> 0]

\* original_amount * _net_factor, to the cent, half up.
NetShare(i) == (2 * Share * (Total - invoice[i].refunded) + Total) \div (2 * Total)

Active(a) == a # None /\ affiliate[a] = "active"

\* Fault: a payout does not lock the commissions it adds up.
RowFree_unlocked(i) == i \in Invoices

\* The rows a payout has locked.
RowFree(i) == \A s \in Staff : i \notin payer[s].rows

AffiliateFree(a) == \A s \in Staff : payer[s].to # a

IdlePayer == [to |-> None, rows |-> {}, amount |-> 0]

TRANSITIONS == [pending |-> {"active", "rejected"}, active |-> {"suspended"},
                suspended |-> {"active"}, rejected |-> {"active"}]

set_status(a, to) ==
    /\ to \in TRANSITIONS[affiliate[a]] /\ AffiliateFree(a)
    /\ reviews < MaxReviews /\ reviews' = reviews + 1
    /\ affiliate' = [affiliate EXCEPT ![a] = to]
    /\ UNCHANGED <<settings, referral, invoice, commission, loaded, payer, payouts>>

\* By the link at sign-up, or by staff: one affiliate per client, ever.
attribute(k, a) ==
    /\ referral[k] = None /\ Active(a) /\ AffiliateFree(a)
    /\ referral' = [referral EXCEPT ![k] = a]
    /\ UNCHANGED <<settings, affiliate, invoice, commission, loaded, payer, payouts, reviews>>

----------------------------------------------------------------------------
(* The payment's transaction holds the invoice; what it reads of other      *)
(* invoices' commissions may be out of date when it commits.                *)

HasEarned(k) == \E i \in Invoices : ClientOf[i] = k /\ commission[i] # NoCommission

\* It may also earn nothing: the programme is off, or the time is over.
on_invoice_paid(i) ==
    LET to == referral[ClientOf[i]]
    IN  /\ invoice[i].status = "unpaid"
        /\ \E earner \in {None} \cup {a \in Affiliates : a = to /\ Active(a)} :
              /\ earner # None => settings.recurring \/ ~HasEarned(ClientOf[i])
              /\ invoice' = [invoice EXCEPT ![i] = [@ EXCEPT !.status = "paying", !.earner = earner]]
        /\ UNCHANGED <<settings, affiliate, referral, commission, loaded, payer, payouts, reviews>>

PaymentCommits(i) ==
    /\ invoice[i].status = "paying"
    /\ invoice' = [invoice EXCEPT ![i].status = "paid"]
    /\ IF invoice[i].earner = None
       THEN UNCHANGED commission
       ELSE /\ AffiliateFree(invoice[i].earner)
            /\ commission' = [commission EXCEPT ![i] =
                 [NoCommission EXCEPT !.status = IF settings.hold THEN "pending" ELSE "approved",
                                      !.to = invoice[i].earner, !.amount = Share, !.eligible = ~settings.hold]]
    /\ UNCHANGED <<settings, affiliate, referral, loaded, payer, payouts, reviews>>

\* Fault: an approved commission is no longer looked at.
Adjusted_pending(c, share) ==
    CASE c.status \in {"none", "rejected", "approved"} -> c
      [] c.status = "paid"                              -> [c EXCEPT !.review = TRUE]
      [] OTHER -> [c EXCEPT !.amount = share, !.status = IF share = 0 THEN "rejected" ELSE @]

\* The commission once the money kept is what the invoice now says.
Adjusted(c, share) ==
    CASE c.status \in {"none", "rejected"} -> c
      [] c.status = "paid"                 -> [c EXCEPT !.review = TRUE]
      [] OTHER -> [c EXCEPT !.amount = share, !.status = IF share = 0 THEN "rejected" ELSE @]

on_invoice_refunded(i, money) ==
    /\ invoice[i].status = "paid" /\ invoice[i].refunded + money <= Total /\ RowFree(i)
    /\ invoice' = [invoice EXCEPT ![i].refunded = @ + money]
    /\ commission' = [commission EXCEPT ![i] = Adjusted(@, NetShare(i)')]
    /\ UNCHANGED <<settings, affiliate, referral, loaded, payer, payouts, reviews>>

----------------------------------------------------------------------------
(* Approval.                                                                *)

EndHold(i) ==
    /\ commission[i].status # "none" /\ ~commission[i].eligible
    /\ commission' = [commission EXCEPT ![i].eligible = TRUE]
    /\ UNCHANGED <<settings, affiliate, referral, invoice, loaded, payer, payouts, reviews>>

Approved(i) == commission' = [commission EXCEPT ![i].status = "approved"]

approve_commission(i) ==
    /\ commission[i].status = "pending" /\ commission[i].amount > 0 /\ RowFree(i)
    /\ Approved(i)
    /\ UNCHANGED <<settings, affiliate, referral, invoice, loaded, payer, payouts, reviews>>

reject_commission(i) ==
    /\ commission[i].status \in {"pending", "approved"} /\ RowFree(i)
    /\ commission' = [commission EXCEPT ![i].status = "rejected"]
    /\ UNCHANGED <<settings, affiliate, referral, invoice, loaded, payer, payouts, reviews>>

\* Fault: the comparison with the end of the hold is turned around.
Due_early == {i \in Invoices : commission[i].status = "pending" /\ ~commission[i].eligible /\ Active(commission[i].to)}

Due == {i \in Invoices : commission[i].status = "pending" /\ commission[i].eligible /\ Active(commission[i].to)}

\* The daily job loads what is due, then takes one row after the other.
run_approvals ==
    /\ loaded = {} /\ Due # {}
    /\ loaded' = Due
    /\ UNCHANGED <<settings, affiliate, referral, invoice, commission, payer, payouts, reviews>>

ApproveDue(i) ==
    /\ i \in loaded /\ RowFree(i) /\ loaded' = loaded \ {i}
    /\ IF commission[i].status = "pending" /\ commission[i].amount > 0 THEN Approved(i) ELSE UNCHANGED commission
    /\ UNCHANGED <<settings, affiliate, referral, invoice, payer, payouts, reviews>>

----------------------------------------------------------------------------
(* Payouts.                                                                 *)

payable_commissions(a) ==
    {i \in Invoices : commission[i].status = "approved" /\ commission[i].to = a /\ commission[i].payout = 0}

Sum(rows) == SumFunction([i \in rows |-> commission[i].amount])

\* All that is approved, or the ones listed; each must still be payable.
record_payout(s, a, rows) ==
    /\ payer[s] = IdlePayer /\ AffiliateFree(a) /\ Active(a)
    /\ rows # {} /\ rows \subseteq payable_commissions(a) /\ \A i \in rows : RowFree(i)
    /\ Sum(rows) >= MinimumPayout
    /\ payer' = [payer EXCEPT ![s] = [to |-> a, rows |-> rows, amount |-> Sum(rows)]]
    /\ UNCHANGED <<settings, affiliate, referral, invoice, commission, loaded, payouts, reviews>>

PayoutCommits(s) ==
    /\ payer[s] # IdlePayer
    /\ payouts' = Append(payouts, [to |-> payer[s].to, amount |-> payer[s].amount])
    /\ commission' = [i \in Invoices |-> IF i \in payer[s].rows
                                         THEN [commission[i] EXCEPT !.status = "paid", !.payout = Len(payouts')]
                                         ELSE commission[i]]
    /\ payer' = [payer EXCEPT ![s] = IdlePayer]
    /\ UNCHANGED <<settings, affiliate, referral, invoice, loaded, reviews>>

----------------------------------------------------------------------------
\* enrol: awaiting approval, or active at once.
AffiliatesInit ==
    /\ settings \in [recurring : BOOLEAN, hold : BOOLEAN]
    /\ affiliate \in [Affiliates -> {"pending", "active"}]
    /\ referral = [k \in Clients |-> None]
    /\ invoice = [i \in Invoices |-> [status |-> "unpaid", refunded |-> 0, earner |-> None]]
    /\ commission = [i \in Invoices |-> NoCommission]
    /\ loaded = {} /\ payer = [s \in Staff |-> IdlePayer] /\ payouts = <<>> /\ reviews = 0

AffiliatesNext ==
    \/ \E a \in Affiliates : \/ \E to \in {"active", "suspended", "rejected"} : set_status(a, to)
                             \/ \E k \in Clients : attribute(k, a)
                             \/ \E s \in Staff, rows \in SUBSET Invoices : record_payout(s, a, rows)
    \/ \E i \in Invoices : \/ on_invoice_paid(i) \/ PaymentCommits(i)
                           \/ \E money \in 1..Total : on_invoice_refunded(i, money)
                           \/ EndHold(i) \/ approve_commission(i) \/ reject_commission(i) \/ ApproveDue(i)
    \/ run_approvals
    \/ \E s \in Staff : PayoutCommits(s)

AffiliatesSpec == AffiliatesInit /\ [][AffiliatesNext]_affiliatesVars

\* Transactions end, holds end, and the daily job runs.
AffiliatesFairSpec ==
    /\ AffiliatesSpec
    /\ WF_affiliatesVars(run_approvals)
    /\ \A i \in Invoices : WF_affiliatesVars(EndHold(i)) /\ WF_affiliatesVars(ApproveDue(i))
    /\ \A s \in Staff : WF_affiliatesVars(PayoutCommits(s))

----------------------------------------------------------------------------
(* Correctness.                                                             *)

\* "Refunds follow the money": a commission that is still owed is the share of
\* what was kept, whenever the refund came; one that was paid out and is no
\* longer earned in full is flagged, and a rejected one was never paid out.
RefundsFollowMoney ==
    \A i \in Invoices :
        /\ commission[i].status \in {"pending", "approved"} => commission[i].amount = NetShare(i) /\ NetShare(i) > 0
        /\ commission[i].status = "paid" /\ commission[i].amount # NetShare(i) => commission[i].review
        /\ (commission[i].status = "paid") = (commission[i].payout # 0)

\* A payout is exactly the commissions it paid, all of them its affiliate's,
\* whatever was refunded, rejected or paid by a colleague meanwhile ("each
\* commission can be in only one payout").
PayoutAddsUp ==
    \A p \in DOMAIN payouts :
        LET rows == {i \in Invoices : commission[i].payout = p}
        IN  payouts[p].amount = Sum(rows) /\ rows # {} /\ \A i \in rows : commission[i].to = payouts[p].to

\* "Only an active affiliate can be paid", also when staff suspend one while
\* a colleague records the payout; a payout that was made adds up and stays
\* as it is.
PayoutsAreSound ==
    [][/\ PayoutAddsUp'
       /\ \A p \in DOMAIN payouts : payouts'[p] = payouts[p]
       /\ \A p \in DOMAIN payouts' \ DOMAIN payouts : affiliate[payouts'[p].to] = "active"]_affiliatesVars

\* A pending commission is decided once its hold has ended, unless its
\* affiliate is not in good standing.
HoldEnds ==
    \A i \in Invoices :
        commission[i].status = "pending" ~> commission[i].status # "pending" \/ ~Active(commission[i].to)
=============================================================================
