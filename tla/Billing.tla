------------------------------- MODULE Billing -------------------------------
(***************************************************************************)
(* Invoices, their payment transactions and the payment gateway's          *)
(* webhooks: apps/billing/payments.py and the invoice half of              *)
(* apps/billing/invoicing.py.                                              *)
(*                                                                         *)
(* Every service function runs in one database transaction that holds the  *)
(* invoice's row lock, so each is one action.  What interleaves is the     *)
(* order of calls by staff, customers and the gateway, which may deliver   *)
(* an event late, repeatedly and in any order.  A refund is the one        *)
(* operation with an effect outside the database: the gateway is asked to  *)
(* return the money before the refund row is written, and the process may  *)
(* die in between.                                                         *)
(*                                                                         *)
(* Refund rows are kept as the field "refunded" of the payment they belong *)
(* to: they are created succeeded and never change, and the code only ever *)
(* reads their sum.  An idle slot of a table has status "none".            *)
(***************************************************************************)
EXTENDS InvoiceRules, FiniteSets

CONSTANTS
    Invoices,   \* invoice rows
    Txs,        \* payment rows
    Providers,  \* online payment providers
    Events,     \* the gateway's event identifiers
    Keys,       \* idempotency keys the callers of record_payment send
    NoKey,      \* the empty idempotency key
    MaxTotal    \* the largest invoice total and payment amount, in cents

ASSUME BillingAssumption ==
    /\ IsFiniteSet(Txs)
    /\ MaxTotal \in Nat \ {0}
    /\ NoKey \notin Keys
    /\ "offline" \notin Providers

VARIABLES
    inv,         \* invoice rows: status, total, amount_paid, amount_refunded
    tx,          \* payment rows
    seen,        \* recorded WebhookEvent ids
    events,      \* external: what each gateway event says, once it exists
    gwRefunded,  \* external: how much of each payment the gateway returned
    paidSignals  \* how often invoice_paid was sent for each invoice

vars == <<inv, tx, seen, events, gwRefunded, paidSignals>>

----------------------------------------------------------------------------
Amounts == 1..MaxTotal

InvoiceStatus == OPEN_STATUSES \cup {"draft", "paid", "cancelled", "refunded"}

InvoiceRow == [status : InvoiceStatus \cup {"none"}, total : 0..MaxTotal,
               paid : Nat, refunded : Nat]

NoInvoice == [status |-> "none", total |-> 0, paid |-> 0, refunded |-> 0]

\* method is "offline" (bank transfer, cash, ...) or the provider.
TxRow == [status : {"none", "pending", "succeeded", "failed"},
          invoice : Invoices \cup {"none"},
          amount : 0..MaxTotal, method : Providers \cup {"offline"},
          key : Keys \cup {NoKey}, refunded : 0..MaxTotal]

Row(status, i, amount, method, key) ==
    [status |-> status, invoice |-> i, amount |-> amount, method |-> method,
     key |-> key, refunded |-> 0]

NoTx == Row("none", "none", 0, "offline", NoKey)

\* Bound: repeated lost refunds are followed up to this amount per payment.
LostRefundBound == 2 * MaxTotal

NoEvent == [type |-> "none"]

EventBody == [type : {"payment.succeeded", "payment.failed", "other"},
              tx : Txs, amount : Amounts]

Free == {t \in Txs : tx[t].status = "none"}

----------------------------------------------------------------------------
(* What the transactions of an invoice add up to.  A sum over rows is the   *)
(* number of cents they hold: the cardinality of a set of <<row, cent>>.    *)

PaidCents(rows, i) ==
    {c \in Txs \X (1..MaxTotal) :
        /\ rows[c[1]].status = "succeeded"
        /\ rows[c[1]].invoice = i
        /\ c[2] <= rows[c[1]].amount}

RefundedCents(rows, i) ==
    {c \in Txs \X (1..MaxTotal) :
        /\ rows[c[1]].status = "succeeded"
        /\ rows[c[1]].invoice = i
        /\ c[2] <= rows[c[1]].refunded}

\* Fault: amount_refunded is left out of the saved fields.
recompute_invoice_unsaved(row, paid, refunded) ==
    [row EXCEPT !.paid = paid,
                !.status = IF @ \in {"draft", "cancelled"} THEN @
                           ELSE DerivedStatus(paid, refunded, row.total)]

recompute_invoice(row, paid, refunded) ==
    [row EXCEPT !.paid = paid, !.refunded = refunded,
                !.status = IF @ \in {"draft", "cancelled"} THEN @
                           ELSE DerivedStatus(paid, refunded, row.total)]

\* Fault: invoice_paid is sent whenever the invoice is paid, not when it becomes so.
SaveAndRecompute_resends(rows, i) ==
    LET new == recompute_invoice(inv[i], Cardinality(PaidCents(rows, i)),
                                 Cardinality(RefundedCents(rows, i)))
    IN  /\ tx' = rows
        /\ inv' = [inv EXCEPT ![i] = new]
        /\ paidSignals' = IF new.status = "paid" THEN [paidSignals EXCEPT ![i] = @ + 1]
                          ELSE paidSignals

\* The trailing part of every operation that changes money: store the rows,
\* rebuild the invoice from them, and send invoice_paid when it has just
\* become paid.
SaveAndRecompute(rows, i) ==
    LET new == recompute_invoice(inv[i], Cardinality(PaidCents(rows, i)),
                                 Cardinality(RefundedCents(rows, i)))
    IN  /\ tx' = rows
        /\ inv' = [inv EXCEPT ![i] = new]
        /\ paidSignals' = IF new.status = "paid" /\ inv[i].status \in OPEN_STATUSES
                          THEN [paidSignals EXCEPT ![i] = @ + 1]
                          ELSE paidSignals

balance_due(i) ==
    IF inv[i].status \in {"none", "draft", "cancelled"} \/ inv[i].paid >= inv[i].total
    THEN 0
    ELSE inv[i].total - inv[i].paid

RequireOpen(i) == inv[i].status \in OPEN_STATUSES /\ balance_due(i) > 0

\* Fault: earlier refunds of the payment are not deducted.
refundable_amount_gross(t) == tx[t].amount

refundable_amount(t) == tx[t].amount - tx[t].refunded

PendingOffline(t) == tx[t].status = "pending" /\ tx[t].method = "offline"

----------------------------------------------------------------------------
(* Invoices.                                                                *)

create_draft_invoice(i, total) ==
    /\ inv[i].status = "none"
    /\ inv' = [inv EXCEPT ![i] = [NoInvoice EXCEPT !.status = "draft", !.total = total]]
    /\ UNCHANGED <<tx, seen, events, gwRefunded, paidSignals>>

update_invoice(i, total) ==
    /\ inv[i].status = "draft"
    /\ inv' = [inv EXCEPT ![i].total = total]
    /\ UNCHANGED <<tx, seen, events, gwRefunded, paidSignals>>

delete_draft_invoice(i) ==
    /\ inv[i].status = "draft"
    /\ inv' = [inv EXCEPT ![i] = NoInvoice]
    /\ UNCHANGED <<tx, seen, events, gwRefunded, paidSignals>>

\* Issuing recalculates the total: the client's tax rule may have changed
\* since the draft was saved.
issue_draft_invoice(i, total) ==
    /\ inv[i].status = "draft"
    /\ inv' = [inv EXCEPT ![i] = [status |-> IF total = 0 THEN "paid" ELSE "unpaid",
                                  total |-> total, paid |-> 0, refunded |-> 0]]
    /\ paidSignals' = IF total = 0 THEN [paidSignals EXCEPT ![i] = @ + 1] ELSE paidSignals
    /\ UNCHANGED <<tx, seen, events, gwRefunded>>

\* Fault: cancelling leaves pending payments alone.
fail_pending_transactions_skipped(i) == tx

fail_pending_transactions(i) ==
    [t \in Txs |-> IF tx[t].status = "pending" /\ tx[t].invoice = i
                   THEN [tx[t] EXCEPT !.status = "failed"] ELSE tx[t]]

cancel_invoice(i) ==
    /\ inv[i].status \in {"draft", "unpaid"}
    /\ inv[i].paid = 0
    /\ ~ \E t \in Txs : tx[t].invoice = i /\ tx[t].status = "succeeded"
    /\ tx' = fail_pending_transactions(i)
    /\ inv' = [inv EXCEPT ![i].status = "cancelled"]
    /\ UNCHANGED <<seen, events, gwRefunded, paidSignals>>

----------------------------------------------------------------------------
(* Manual payments.                                                         *)

\* A repeat of a used key returns the stored payment (or is refused when it
\* names another invoice or amount): either way it changes nothing.
record_payment(i, t, amount, key) ==
    /\ t \in Free
    /\ key # NoKey => \A u \in Txs : tx[u].status = "none" \/ tx[u].key # key
    /\ RequireOpen(i)
    /\ amount <= balance_due(i)
    /\ SaveAndRecompute([tx EXCEPT ![t] = Row("succeeded", i, amount, "offline", key)], i)
    /\ UNCHANGED <<seen, events, gwRefunded>>

report_payment(i, t, amount) ==
    /\ t \in Free
    /\ RequireOpen(i)
    /\ amount <= balance_due(i)
    /\ ~ \E u \in Txs : PendingOffline(u) /\ tx[u].invoice = i
    /\ tx' = [tx EXCEPT ![t] = Row("pending", i, amount, "offline", NoKey)]
    /\ UNCHANGED <<inv, seen, events, gwRefunded, paidSignals>>

\* Fault: the balance is not checked again when the report is confirmed.
confirm_payment_unchecked(t) ==
    /\ PendingOffline(t)
    /\ inv[tx[t].invoice].status \notin {"draft", "cancelled"}
    /\ SaveAndRecompute([tx EXCEPT ![t].status = "succeeded"], tx[t].invoice)
    /\ UNCHANGED <<seen, events, gwRefunded>>

confirm_payment(t) ==
    /\ PendingOffline(t)
    /\ RequireOpen(tx[t].invoice)
    /\ tx[t].amount <= balance_due(tx[t].invoice)
    /\ SaveAndRecompute([tx EXCEPT ![t].status = "succeeded"], tx[t].invoice)
    /\ UNCHANGED <<seen, events, gwRefunded>>

reject_payment(t) ==
    /\ PendingOffline(t)
    /\ tx' = [tx EXCEPT ![t].status = "failed"]
    /\ UNCHANGED <<inv, seen, events, gwRefunded, paidSignals>>

----------------------------------------------------------------------------
(* Refunds.                                                                 *)

\* The gateway returns money for a provider's payment; a manual payment's
\* refund involves nobody else.
GatewayRefund(t, amount) ==
    gwRefunded' = IF tx[t].method \in Providers
                  THEN [gwRefunded EXCEPT ![t] = @ + amount] ELSE gwRefunded

refund_payment(t, amount) ==
    /\ tx[t].status = "succeeded"
    /\ amount <= refundable_amount(t)
    /\ GatewayRefund(t, amount)
    /\ SaveAndRecompute([tx EXCEPT ![t].refunded = @ + amount], tx[t].invoice)
    /\ UNCHANGED <<seen, events>>

\* The process dies, or the refund row cannot be written, after the gateway
\* answered: the database transaction rolls back, the money has gone.
refund_payment_lost(t, amount) ==
    /\ tx[t].status = "succeeded"
    /\ tx[t].method \in Providers
    /\ amount <= refundable_amount(t)
    /\ gwRefunded[t] + amount <= LostRefundBound
    /\ GatewayRefund(t, amount)
    /\ UNCHANGED <<inv, tx, seen, events, paidSignals>>

----------------------------------------------------------------------------
(* Gateway payments.                                                        *)

\* An equal pending payment with the same provider is reused.
start_gateway_payment(i, t, p) ==
    /\ t \in Free
    /\ RequireOpen(i)
    /\ ~ \E u \in Txs : /\ tx[u].status = "pending" /\ tx[u].invoice = i
                        /\ tx[u].method = p /\ tx[u].amount = balance_due(i)
    /\ tx' = [tx EXCEPT ![t] = Row("pending", i, balance_due(i), p, NoKey)]
    /\ UNCHANGED <<inv, seen, events, gwRefunded, paidSignals>>

\* External: the gateway has something to say about a payment it knows.
GatewayEmits(e, body) ==
    /\ events[e] = NoEvent
    /\ tx[body.tx].status # "none" /\ tx[body.tx].method \in Providers
    /\ events' = [events EXCEPT ![e] = body]
    /\ UNCHANGED <<inv, tx, seen, gwRefunded, paidSignals>>

AppliesFailure(body) == body.type = "payment.failed" /\ tx[body.tx].status = "pending"

\* Fault: only a payment that is still pending can succeed.
AppliesSuccess_pending(body) ==
    /\ body.type = "payment.succeeded"
    /\ tx[body.tx].status = "pending"
    /\ body.amount = tx[body.tx].amount

AppliesSuccess(body) ==
    /\ body.type = "payment.succeeded"
    /\ tx[body.tx].status # "succeeded"
    /\ body.amount = tx[body.tx].amount

apply_event(body) ==
    \/ /\ AppliesFailure(body)
       /\ tx' = [tx EXCEPT ![body.tx].status = "failed"]
       /\ UNCHANGED <<inv, paidSignals>>
    \/ /\ AppliesSuccess(body)
       /\ SaveAndRecompute([tx EXCEPT ![body.tx].status = "succeeded"], tx[body.tx].invoice)
    \/ /\ ~AppliesFailure(body) /\ ~AppliesSuccess(body)
       /\ UNCHANGED <<inv, tx, paidSignals>>

\* A recorded event is a duplicate: its redelivery changes nothing.
handle_webhook(e) ==
    /\ events[e] # NoEvent
    /\ e \notin seen
    /\ seen' = seen \cup {e}
    /\ apply_event(events[e])
    /\ UNCHANGED <<events, gwRefunded>>

----------------------------------------------------------------------------
Init ==
    /\ inv = [i \in Invoices |-> NoInvoice]
    /\ tx = [t \in Txs |-> NoTx]
    /\ seen = {}
    /\ events = [e \in Events |-> NoEvent]
    /\ gwRefunded = [t \in Txs |-> 0]
    /\ paidSignals = [i \in Invoices |-> 0]

InvoiceNext ==
    \E i \in Invoices :
        \/ \E total \in 0..MaxTotal : \/ create_draft_invoice(i, total)
                                      \/ update_invoice(i, total)
                                      \/ issue_draft_invoice(i, total)
        \/ delete_draft_invoice(i)
        \/ cancel_invoice(i)

PaymentNext ==
    \E t \in Txs :
        \/ \E i \in Invoices :
              \/ \E a \in Amounts : \/ \E k \in Keys \cup {NoKey} : record_payment(i, t, a, k)
                                    \/ report_payment(i, t, a)
              \/ \E p \in Providers : start_gateway_payment(i, t, p)
        \/ confirm_payment(t)
        \/ reject_payment(t)
        \/ \E a \in Amounts : refund_payment(t, a) \/ refund_payment_lost(t, a)

GatewayNext ==
    \E e \in Events : \/ \E body \in EventBody : GatewayEmits(e, body)
                      \/ handle_webhook(e)

Next == InvoiceNext \/ PaymentNext \/ GatewayNext

Spec == Init /\ [][Next]_vars

\* The gateway redelivers an event until the portal answers, so every event
\* that exists is handled in the end.
FairSpec == Spec /\ \A e \in Events : WF_vars(handle_webhook(e))

----------------------------------------------------------------------------
(* Correctness.                                                             *)

\* The rows of every table have the columns and values their model declares.
TypeOK ==
    /\ inv \in [Invoices -> InvoiceRow]
    /\ tx \in [Txs -> TxRow]
    /\ \A t \in Txs : tx[t].status # "none" => tx[t].invoice \in Invoices
    /\ seen \subseteq Events
    /\ events \in [Events -> EventBody \cup {NoEvent}]
    /\ \A e \in Events : events[e] # NoEvent => tx[events[e].tx].status # "none"
    /\ gwRefunded \in [Txs -> Nat]
    /\ paidSignals \in [Invoices -> Nat]

\* What verify_invoice re-derives from the permanent records is what the
\* invoice row says, after every sequence of payments, refunds, late or
\* repeated webhooks and cancellations.
InvoiceMatchesLedger ==
    \A i \in Invoices :
        /\ inv[i].paid = Cardinality(PaidCents(tx, i))
        /\ inv[i].refunded = Cardinality(RefundedCents(tx, i))
        /\ \/ inv[i].status \in {"none", "draft", "cancelled"}
           \/ inv[i].status = DerivedStatus(inv[i].paid, inv[i].refunded, inv[i].total)

\* No payment is refunded beyond its amount, money that never arrived is not
\* refunded, and an invoice never gives back more than it received, however
\* partial refunds, late successes and lost refund calls are ordered.
RefundsWithinPayments ==
    /\ \A t \in Txs : /\ tx[t].refunded <= tx[t].amount
                      /\ tx[t].refunded > 0 => tx[t].status = "succeeded"
    /\ \A i \in Invoices : inv[i].refunded <= inv[i].paid

\* Once an invoice is cancelled nobody can confirm or continue a payment for
\* it: cancel_invoice_internal failed what was pending and nothing new starts.
CancelledHasNothingPending ==
    \A t \in Txs : tx[t].status = "pending" => inv[tx[t].invoice].status # "cancelled"

\* The receivers of invoice_paid (orders, renewals, affiliates) hear of an
\* invoice at most once, although several payments, some of them late, may
\* each leave it fully paid.
InvoicePaidSentOnce == \A i \in Invoices : paidSignals[i] <= 1

\* Money that staff record or confirm by hand never exceeds the invoice, even
\* when several reports and gateway payments were open at once: only a late
\* gateway success can overpay.
ManualMoneyWithinTotal ==
    \A i \in Invoices :
        Cardinality({c \in PaidCents(tx, i) : tx[c[1]].method = "offline"}) <= inv[i].total

\* The portal never records a gateway refund the gateway did not make.
RecordedRefundsWereMade ==
    \A t \in Txs : tx[t].method \in Providers => tx[t].refunded <= gwRefunded[t]

\* Refunds are bounded by what came in, and every refund the books show was
\* made, also when the gateway's answer to an earlier refund was lost.
RefundsAreSound == RefundsWithinPayments /\ RecordedRefundsWereMade

\* An invoice that counts as settled (paid, or refunded, if only a part of it
\* was ever paid) never becomes payable again, whatever reports and gateway
\* payments were open on it; a cancelled one never comes back; and recorded
\* money is never forgotten.
SettledNeverReopens ==
    [][\A i \in Invoices :
          /\ inv[i].status \in SETTLED_STATUSES => inv'[i].status \in SETTLED_STATUSES
          /\ inv[i].status = "cancelled" => inv'[i].status = "cancelled"
          /\ inv'[i].paid >= inv[i].paid]_vars

\* Money the gateway says it captured, in the amount we asked for, ends up
\* recorded: also when the payment had been marked failed or the invoice was
\* cancelled before the event came.
CapturedMoneyIsRecorded ==
    \A e \in Events :
        ( /\ events[e] # NoEvent
          /\ events[e].type = "payment.succeeded"
          /\ events[e].amount = tx[events[e].tx].amount )
        ~> (events[e] # NoEvent /\ tx[events[e].tx].status = "succeeded")
=============================================================================
