---------------------------- MODULE InvoiceRules ----------------------------
(* How an invoice's status follows from its money: recompute_invoice in    *)
(* apps/billing/payments.py.  Shared by the modules that hold an invoice.  *)
EXTENDS Integers

OPEN_STATUSES == {"unpaid", "partially_paid"}

\* staff_actions._is_paid and integrity.verify_order count these as paid.
SETTLED_STATUSES == {"paid", "refunded"}

\* Fault: refunds are netted off before the invoice is compared with its total.
DerivedStatus_net(paid, refunded, total) ==
    IF paid > 0 /\ refunded >= paid THEN "refunded"
    ELSE IF paid - refunded >= total THEN "paid"
    ELSE IF paid > 0 THEN "partially_paid"
    ELSE "unpaid"

DerivedStatus(paid, refunded, total) ==
    IF paid > 0 /\ refunded >= paid THEN "refunded"
    ELSE IF paid >= total THEN "paid"
    ELSE IF paid > 0 THEN "partially_paid"
    ELSE "unpaid"
=============================================================================
