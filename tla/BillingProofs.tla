---------------------------- MODULE BillingProofs ----------------------------
(***************************************************************************)
(* Proofs about Billing, for every set of invoices, payments, providers,   *)
(* events and keys and every bound on amounts.                             *)
(*                                                                         *)
(* A sum over transaction rows is the cardinality of a set of cents, so    *)
(* what the proofs need of sums (they are naturals, they grow when a row   *)
(* succeeds, refunds are part of payments) are facts about subsets.        *)
(***************************************************************************)
EXTENDS Billing, FiniteSetTheorems, TLAPS

\* A payment always belongs to an invoice that has been issued.
PaymentsOnIssuedInvoices ==
    \A t \in Txs : tx[t].status # "none" => inv[tx[t].invoice].status \notin {"none", "draft"}

\* Nothing has been collected on an invoice that is not issued.
DraftsAreBare ==
    \A i \in Invoices : inv[i].status \in {"none", "draft"} => inv[i].paid = 0 /\ inv[i].refunded = 0

\* An invoice is announced once, and what has been announced stays covered.
AnnouncedStaysPaid ==
    \A i \in Invoices :
        \/ paidSignals[i] = 0
        \/ /\ paidSignals[i] = 1
           /\ inv[i].status \in {"paid", "refunded"}
           /\ inv[i].paid >= inv[i].total

RefundsWithinRows ==
    \A t \in Txs : /\ tx[t].refunded <= tx[t].amount
                   /\ tx[t].refunded > 0 => tx[t].status = "succeeded"

IInv ==
    /\ TypeOK
    /\ InvoiceMatchesLedger
    /\ RefundsWithinRows
    /\ CancelledHasNothingPending
    /\ PaymentsOnIssuedInvoices
    /\ DraftsAreBare
    /\ AnnouncedStaysPaid
    /\ RecordedRefundsWereMade

----------------------------------------------------------------------------
\* The cents of an invoice are finitely many, whatever the rows.
LEMMA CentsFinite ==
    ASSUME NEW rows, NEW i
    PROVE  /\ IsFiniteSet(PaidCents(rows, i)) /\ Cardinality(PaidCents(rows, i)) \in Nat
           /\ IsFiniteSet(RefundedCents(rows, i)) /\ Cardinality(RefundedCents(rows, i)) \in Nat
<1>1. IsFiniteSet(1..MaxTotal)
  BY FS_Interval, BillingAssumption
<1>2. IsFiniteSet(Txs \X (1..MaxTotal))
  BY <1>1, FS_Product, BillingAssumption
<1>3. /\ PaidCents(rows, i) \in SUBSET (Txs \X (1..MaxTotal))
      /\ RefundedCents(rows, i) \in SUBSET (Txs \X (1..MaxTotal))
  BY DEF PaidCents, RefundedCents
<1>4. IsFiniteSet(PaidCents(rows, i)) /\ IsFiniteSet(RefundedCents(rows, i))
  BY <1>2, <1>3, FS_Subset
<1> QED
  BY <1>4, FS_CardinalityType

\* Rows that keep what had succeeded hold at least as much money.
LEMMA PaidGrows ==
    ASSUME NEW old, NEW new, NEW i,
           \A t \in Txs : old[t].status = "succeeded" /\ old[t].invoice = i =>
              /\ new[t].status = "succeeded" /\ new[t].invoice = i
              /\ new[t].amount = old[t].amount
    PROVE  Cardinality(PaidCents(old, i)) <= Cardinality(PaidCents(new, i))
<1>1. PaidCents(old, i) \in SUBSET PaidCents(new, i)
  BY DEF PaidCents
<1> QED
  BY <1>1, CentsFinite, FS_Subset

\* Refunded cents are cents that were paid.
LEMMA RefundedWithinPaid ==
    ASSUME NEW rows \in [Txs -> TxRow], NEW i,
           \A t \in Txs : rows[t].refunded <= rows[t].amount
    PROVE  Cardinality(RefundedCents(rows, i)) <= Cardinality(PaidCents(rows, i))
<1>1. RefundedCents(rows, i) \in SUBSET PaidCents(rows, i)
  <2> SUFFICES ASSUME NEW t \in Txs, NEW n \in 1..MaxTotal, n <= rows[t].refunded
               PROVE  n <= rows[t].amount
    BY DEF PaidCents, RefundedCents
  <2>1. rows[t].refunded \in Int /\ rows[t].amount \in Int
    BY BillingAssumption DEF TxRow
  <2> QED
    BY <2>1
<1> QED
  BY <1>1, CentsFinite, FS_Subset

\* Two tables that agree on the succeeded rows of an invoice agree on its money.
LEMMA SameRowsSameCents ==
    ASSUME NEW old, NEW new, NEW i,
           \A t \in Txs : (old[t].status = "succeeded" /\ old[t].invoice = i)
                          <=> (new[t].status = "succeeded" /\ new[t].invoice = i),
           \A t \in Txs : old[t].status = "succeeded" /\ old[t].invoice = i =>
              new[t].amount = old[t].amount /\ new[t].refunded = old[t].refunded
    PROVE  /\ PaidCents(new, i) = PaidCents(old, i)
           /\ RefundedCents(new, i) = RefundedCents(old, i)
BY DEF PaidCents, RefundedCents

LEMMA DerivedStatusType ==
    ASSUME NEW p \in Nat, NEW r \in Nat, NEW n \in Nat
    PROVE  DerivedStatus(p, r, n) \in {"unpaid", "partially_paid", "paid", "refunded"}
BY DEF DerivedStatus

----------------------------------------------------------------------------
\* The common tail of every operation that moves money keeps the invariant,
\* whichever rows it stores, as long as they keep what had succeeded and touch
\* only the invoice it recomputes.
LEMMA SaveKeepsInvariant ==
    ASSUME IInv, NEW i \in Invoices, NEW rows \in [Txs -> TxRow],
           inv[i].status \notin {"none", "draft"},
           SaveAndRecompute(rows, i),
           \A t \in Txs : rows[t].status # "none" => rows[t].invoice \in Invoices,
           \A t \in Txs : /\ rows[t].refunded <= rows[t].amount
                          /\ rows[t].refunded > 0 => rows[t].status = "succeeded",
           \A t \in Txs : tx[t].status = "succeeded" =>
              /\ rows[t].status = "succeeded" /\ rows[t].invoice = tx[t].invoice
              /\ rows[t].amount = tx[t].amount,
           \A t \in Txs : rows[t] = tx[t] \/ rows[t].invoice = i,
           \A t \in Txs : rows[t] = tx[t] \/ tx[t].status = "none" \/ tx[t].invoice = i,
           \A t \in Txs : rows[t].status = "pending" => rows[t] = tx[t],
           \A t \in Txs : tx[t].status # "none" => rows[t].status # "none"
    PROVE  /\ inv' \in [Invoices -> InvoiceRow]
           /\ tx' \in [Txs -> TxRow]
           /\ \A t \in Txs : tx'[t].status # "none" => tx'[t].invoice \in Invoices
           /\ paidSignals' \in [Invoices -> Nat]
           /\ InvoiceMatchesLedger' /\ RefundsWithinRows' /\ CancelledHasNothingPending'
           /\ PaymentsOnIssuedInvoices' /\ DraftsAreBare' /\ AnnouncedStaysPaid'
<1> DEFINE p == Cardinality(PaidCents(rows, i))
           r == Cardinality(RefundedCents(rows, i))
           new == recompute_invoice(inv[i], p, r)
<1>1. p \in Nat /\ r \in Nat
  BY CentsFinite
<1>2. inv[i].paid <= p
  <2>1. Cardinality(PaidCents(tx, i)) <= p
    BY PaidGrows
  <2> QED
    BY <2>1 DEF IInv, InvoiceMatchesLedger
<1>3. inv[i] \in InvoiceRow /\ inv[i].total \in Nat /\ inv[i].paid \in Nat
  BY BillingAssumption DEF IInv, TypeOK, InvoiceRow
<1> HIDE DEF p, r
<1>4. /\ new \in InvoiceRow /\ new.paid = p /\ new.refunded = r /\ new.total = inv[i].total
      /\ new.status = IF inv[i].status = "cancelled" THEN "cancelled"
                      ELSE DerivedStatus(p, r, inv[i].total)
      /\ new.status \notin {"none", "draft"}
  BY <1>1, <1>3, DerivedStatusType DEF recompute_invoice, InvoiceRow, InvoiceStatus, OPEN_STATUSES
<1>5. /\ tx' = rows /\ inv' = [inv EXCEPT ![i] = new]
      /\ paidSignals' = IF new.status = "paid" /\ inv[i].status \in OPEN_STATUSES
                        THEN [paidSignals EXCEPT ![i] = @ + 1] ELSE paidSignals
  BY DEF SaveAndRecompute, p, r
<1> HIDE DEF new
<1>6. inv' \in [Invoices -> InvoiceRow] /\ paidSignals' \in [Invoices -> Nat]
  BY <1>4, <1>5 DEF IInv, TypeOK
<1>7. inv'[i] = new /\ \A j \in Invoices : j # i => inv'[j] = inv[j]
  BY <1>5 DEF IInv, TypeOK
<1>8. \A j \in Invoices : j # i => /\ PaidCents(rows, j) = PaidCents(tx, j)
                                   /\ RefundedCents(rows, j) = RefundedCents(tx, j)
  <2> SUFFICES ASSUME NEW j \in Invoices, j # i
               PROVE  /\ PaidCents(rows, j) = PaidCents(tx, j)
                      /\ RefundedCents(rows, j) = RefundedCents(tx, j)
    OBVIOUS
  <2>1. \A t \in Txs : /\ (tx[t].status = "succeeded" /\ tx[t].invoice = j)
                          <=> (rows[t].status = "succeeded" /\ rows[t].invoice = j)
                       /\ tx[t].status = "succeeded" /\ tx[t].invoice = j => rows[t] = tx[t]
    OBVIOUS
  <2> QED
    BY <2>1, SameRowsSameCents
<1>9. InvoiceMatchesLedger'
  <2> SUFFICES ASSUME NEW j \in Invoices
               PROVE  /\ inv'[j].paid = Cardinality(PaidCents(tx', j))
                      /\ inv'[j].refunded = Cardinality(RefundedCents(tx', j))
                      /\ \/ inv'[j].status \in {"none", "draft", "cancelled"}
                         \/ inv'[j].status = DerivedStatus(inv'[j].paid, inv'[j].refunded, inv'[j].total)
    BY DEF InvoiceMatchesLedger
  <2>1. CASE j = i
    BY <2>1, <1>4, <1>5, <1>7 DEF p, r
  <2>2. CASE j # i
    BY <2>2, <1>5, <1>7, <1>8 DEF IInv, InvoiceMatchesLedger
  <2> QED
    BY <2>1, <2>2
<1>10. RefundsWithinRows'
  BY <1>5 DEF RefundsWithinRows
<1>11. CancelledHasNothingPending'
  <2> SUFFICES ASSUME NEW t \in Txs, rows[t].status = "pending"
               PROVE  inv'[rows[t].invoice].status # "cancelled"
    BY <1>5 DEF CancelledHasNothingPending
  <2>1. rows[t] = tx[t] /\ tx[t].invoice \in Invoices /\ inv[tx[t].invoice].status # "cancelled"
    BY DEF IInv, TypeOK, CancelledHasNothingPending
  <2>2. CASE tx[t].invoice = i
    BY <2>1, <2>2, <1>4, <1>7, <1>1, <1>3, DerivedStatusType
  <2>3. CASE tx[t].invoice # i
    BY <2>1, <2>3, <1>7
  <2> QED
    BY <2>2, <2>3
<1>12. PaymentsOnIssuedInvoices'
  BY <1>4, <1>5, <1>7 DEF IInv, TypeOK, PaymentsOnIssuedInvoices
<1>13. DraftsAreBare'
  BY <1>4, <1>7 DEF IInv, DraftsAreBare
<1>14. AnnouncedStaysPaid'
  <2> SUFFICES ASSUME NEW j \in Invoices
               PROVE  \/ paidSignals'[j] = 0
                      \/ /\ paidSignals'[j] = 1
                         /\ inv'[j].status \in {"paid", "refunded"}
                         /\ inv'[j].paid >= inv'[j].total
    BY DEF AnnouncedStaysPaid
  <2>1. CASE j # i
    BY <2>1, <1>5, <1>7 DEF IInv, TypeOK, AnnouncedStaysPaid
  <2>2. CASE j = i /\ inv[i].status \in OPEN_STATUSES
    <3>1. paidSignals[i] = 0
      BY <2>2 DEF IInv, AnnouncedStaysPaid, OPEN_STATUSES
    <3>2. new.status = "paid" => p >= inv[i].total
      BY <2>2, <1>1, <1>3, <1>4 DEF OPEN_STATUSES, DerivedStatus
    <3> QED
      BY <2>2, <3>1, <3>2, <1>4, <1>5, <1>7 DEF IInv, TypeOK
  <2>3. CASE j = i /\ inv[i].status \notin OPEN_STATUSES
    <3>1. paidSignals' = paidSignals
      BY <2>3, <1>5
    <3>2. \/ paidSignals[i] = 0
          \/ /\ paidSignals[i] = 1 /\ inv[i].status \in {"paid", "refunded"}
             /\ p >= inv[i].total
      BY <1>1, <1>2, <1>3 DEF IInv, AnnouncedStaysPaid
    <3>3. p >= inv[i].total /\ inv[i].status \in {"paid", "refunded"} => new.status \in {"paid", "refunded"}
      BY <1>1, <1>3, <1>4 DEF DerivedStatus
    <3> QED
      BY <2>3, <3>1, <3>2, <3>3, <1>4, <1>7
  <2> QED
    BY <2>1, <2>2, <2>3
<1> QED
  BY <1>5, <1>6, <1>9, <1>10, <1>11, <1>12, <1>13, <1>14

----------------------------------------------------------------------------
LEMMA InitEstablishes ==
    Init => IInv
<1> SUFFICES ASSUME Init PROVE IInv
  OBVIOUS
<1>1. \A t \in Txs : tx[t] = NoTx
  BY DEF Init
<1>2. NoTx \in TxRow /\ NoTx.status = "none" /\ NoTx.refunded = 0 /\ NoTx.amount = 0
      /\ NoTx.method = "offline"
  BY BillingAssumption DEF NoTx, Row, TxRow
<1>3. TypeOK
  BY <1>1, <1>2, BillingAssumption
     DEF TypeOK, Init, InvoiceRow, NoInvoice, InvoiceStatus, NoEvent
<1>4. \A i \in Invoices : PaidCents(tx, i) = {} /\ RefundedCents(tx, i) = {}
  BY <1>1, <1>2 DEF PaidCents, RefundedCents
<1>5. InvoiceMatchesLedger
  BY <1>4, FS_EmptySet DEF Init, InvoiceMatchesLedger, NoInvoice
<1>6. RefundsWithinRows /\ CancelledHasNothingPending /\ PaymentsOnIssuedInvoices
  BY <1>1, <1>2 DEF RefundsWithinRows, CancelledHasNothingPending, PaymentsOnIssuedInvoices
<1>7. DraftsAreBare /\ AnnouncedStaysPaid
  BY DEF Init, DraftsAreBare, AnnouncedStaysPaid, NoInvoice
<1>8. RecordedRefundsWereMade
  BY <1>1, <1>2, BillingAssumption DEF RecordedRefundsWereMade
<1> QED
  BY <1>3, <1>5, <1>6, <1>7, <1>8 DEF IInv

\* Operations on the invoice itself.
LEMMA InvoiceStep ==
    IInv /\ InvoiceNext => IInv'
<1> SUFFICES ASSUME IInv, InvoiceNext PROVE IInv'
  OBVIOUS
<1> USE BillingAssumption
<1>1. PICK i \in Invoices :
         \/ \E total \in 0..MaxTotal : \/ create_draft_invoice(i, total)
                                       \/ update_invoice(i, total)
                                       \/ issue_draft_invoice(i, total)
         \/ delete_draft_invoice(i)
         \/ cancel_invoice(i)
  BY DEF InvoiceNext
<1>2. inv[i] \in InvoiceRow
  BY DEF IInv, TypeOK
<1>3. ASSUME tx' = tx, gwRefunded' = gwRefunded, seen' = seen, events' = events,
             NEW new \in InvoiceRow, inv' = [inv EXCEPT ![i] = new],
             inv[i].status \in {"none", "draft"},
             new.paid = 0, new.refunded = 0,
             \/ /\ new.status \in {"none", "draft"} /\ paidSignals' = paidSignals
             \/ /\ new.status = "unpaid" /\ new.total > 0 /\ paidSignals' = paidSignals
             \/ /\ new.status = "paid" /\ new.total = 0
                /\ paidSignals' = [paidSignals EXCEPT ![i] = @ + 1]
      PROVE  IInv'
  <2>1. inv'[i] = new /\ \A j \in Invoices : j # i => inv'[j] = inv[j]
    BY <1>3 DEF IInv, TypeOK
  <2>2. TypeOK'
    BY <1>3 DEF IInv, TypeOK
  <2>3. \A t \in Txs : tx[t].status # "none" => tx[t].invoice # i
    BY <1>3 DEF IInv, PaymentsOnIssuedInvoices
  <2>4. InvoiceMatchesLedger'
    <3> SUFFICES ASSUME NEW j \in Invoices
                 PROVE  /\ inv'[j].paid = Cardinality(PaidCents(tx, j))
                        /\ inv'[j].refunded = Cardinality(RefundedCents(tx, j))
                        /\ \/ inv'[j].status \in {"none", "draft", "cancelled"}
                           \/ inv'[j].status = DerivedStatus(inv'[j].paid, inv'[j].refunded, inv'[j].total)
      BY <1>3 DEF InvoiceMatchesLedger
    <3>1. CASE j = i
      <4>1. inv[i].paid = 0 /\ inv[i].refunded = 0
        BY <1>3 DEF IInv, DraftsAreBare
      <4>2. DerivedStatus(new.paid, new.refunded, new.total) = IF new.total > 0 THEN "unpaid" ELSE "paid"
        BY <1>3 DEF DerivedStatus, InvoiceRow
      <4> QED
        BY <3>1, <4>1, <4>2, <2>1, <1>3 DEF IInv, InvoiceMatchesLedger
    <3>2. CASE j # i
      BY <3>2, <2>1 DEF IInv, InvoiceMatchesLedger
    <3> QED
      BY <3>1, <3>2
  <2>5. RefundsWithinRows' /\ RecordedRefundsWereMade'
    BY <1>3 DEF IInv, RefundsWithinRows, RecordedRefundsWereMade
  <2>6. CancelledHasNothingPending' /\ PaymentsOnIssuedInvoices'
    BY <1>3, <2>1, <2>3 DEF IInv, TypeOK, CancelledHasNothingPending, PaymentsOnIssuedInvoices
  <2>7. DraftsAreBare'
    BY <1>3, <2>1 DEF IInv, DraftsAreBare
  <2>8. AnnouncedStaysPaid'
    <3>1. paidSignals[i] = 0
      BY <1>3 DEF IInv, AnnouncedStaysPaid
    <3> QED
      BY <3>1, <1>3, <2>1 DEF IInv, TypeOK, AnnouncedStaysPaid
  <2> QED
    BY <2>2, <2>4, <2>5, <2>6, <2>7, <2>8 DEF IInv
<1>4. ASSUME NEW total \in 0..MaxTotal, create_draft_invoice(i, total) PROVE IInv'
  <2> DEFINE new == [NoInvoice EXCEPT !.status = "draft", !.total = total]
  <2>1. new \in InvoiceRow /\ new.paid = 0 /\ new.refunded = 0 /\ new.status = "draft"
    BY DEF NoInvoice, InvoiceRow, InvoiceStatus
  <2> QED
    BY <1>3, <1>4, <2>1 DEF create_draft_invoice
<1>5. ASSUME NEW total \in 0..MaxTotal, update_invoice(i, total) PROVE IInv'
  <2> DEFINE new == [inv[i] EXCEPT !.total = total]
  <2>1. new \in InvoiceRow /\ new.paid = 0 /\ new.refunded = 0 /\ new.status = "draft"
    BY <1>2, <1>5 DEF IInv, DraftsAreBare, InvoiceRow, update_invoice
  <2>2. inv' = [inv EXCEPT ![i] = new]
    BY <1>5 DEF update_invoice
  <2> HIDE DEF new
  <2> QED
    BY <1>3, <1>5, <2>1, <2>2 DEF update_invoice
<1>6. ASSUME NEW total \in 0..MaxTotal, issue_draft_invoice(i, total) PROVE IInv'
  <2> DEFINE new == [status |-> IF total = 0 THEN "paid" ELSE "unpaid",
                     total |-> total, paid |-> 0, refunded |-> 0]
  <2>1. new \in InvoiceRow /\ new.paid = 0 /\ new.refunded = 0 /\ new.total = total
        /\ new.status = IF total = 0 THEN "paid" ELSE "unpaid"
    BY DEF InvoiceRow, InvoiceStatus, OPEN_STATUSES
  <2>2. inv' = [inv EXCEPT ![i] = new]
    BY <1>6 DEF issue_draft_invoice
  <2> HIDE DEF new
  <2>3. CASE total = 0
    BY <1>3, <1>6, <2>1, <2>2, <2>3 DEF issue_draft_invoice
  <2>4. CASE total # 0
    <3>1. total > 0 /\ new.status = "unpaid" /\ paidSignals' = paidSignals
      BY <1>6, <2>1, <2>4 DEF issue_draft_invoice
    <3> QED
      BY <1>3, <1>6, <2>1, <2>2, <3>1 DEF issue_draft_invoice
  <2> QED
    BY <2>3, <2>4
<1>7. ASSUME delete_draft_invoice(i) PROVE IInv'
  <2>1. NoInvoice \in InvoiceRow /\ NoInvoice.paid = 0 /\ NoInvoice.refunded = 0
        /\ NoInvoice.status = "none"
    BY DEF NoInvoice, InvoiceRow
  <2> QED
    BY <1>3, <1>7, <2>1 DEF delete_draft_invoice
<1>8. ASSUME cancel_invoice(i) PROVE IInv'
  <2>1. /\ tx' = fail_pending_transactions(i)
        /\ inv' = [inv EXCEPT ![i] = [inv[i] EXCEPT !.status = "cancelled"]]
        /\ inv[i].status \in {"draft", "unpaid"} /\ inv[i].paid = 0
        /\ UNCHANGED <<seen, events, gwRefunded, paidSignals>>
    BY <1>8 DEF cancel_invoice
  <2> DEFINE new == [inv[i] EXCEPT !.status = "cancelled"]
  <2>2. new \in InvoiceRow /\ new.status = "cancelled" /\ new.paid = inv[i].paid
        /\ new.refunded = inv[i].refunded
    BY <1>2 DEF InvoiceRow, InvoiceStatus
  <2>3. inv'[i] = new /\ \A j \in Invoices : j # i => inv'[j] = inv[j]
    BY <2>1 DEF IInv, TypeOK
  <2> HIDE DEF new
  <2>4. \A t \in Txs : /\ tx'[t] \in TxRow /\ tx'[t].invoice = tx[t].invoice
                       /\ tx'[t].amount = tx[t].amount /\ tx'[t].refunded = tx[t].refunded
                       /\ tx'[t].method = tx[t].method
                       /\ tx'[t].status = IF tx[t].status = "pending" /\ tx[t].invoice = i
                                          THEN "failed" ELSE tx[t].status
    <3> SUFFICES ASSUME NEW t \in Txs
                 PROVE  /\ tx'[t] \in TxRow /\ tx'[t].invoice = tx[t].invoice
                       /\ tx'[t].amount = tx[t].amount /\ tx'[t].refunded = tx[t].refunded
                       /\ tx'[t].method = tx[t].method
                       /\ tx'[t].status = IF tx[t].status = "pending" /\ tx[t].invoice = i
                                          THEN "failed" ELSE tx[t].status
      OBVIOUS
    <3>1. tx[t] \in TxRow
      BY DEF IInv, TypeOK
    <3>2. tx'[t] = IF tx[t].status = "pending" /\ tx[t].invoice = i
                   THEN [tx[t] EXCEPT !.status = "failed"] ELSE tx[t]
      BY <2>1 DEF fail_pending_transactions
    <3> QED
      BY <3>1, <3>2 DEF TxRow
  <2>5. tx' \in [Txs -> TxRow]
    BY <2>1, <2>4 DEF fail_pending_transactions
  <2>6. TypeOK'
    BY <2>1, <2>2, <2>3, <2>4, <2>5 DEF IInv, TypeOK, EventBody, NoEvent
  <2>7. \A j \in Invoices : PaidCents(tx', j) = PaidCents(tx, j)
                            /\ RefundedCents(tx', j) = RefundedCents(tx, j)
    <3> TAKE j \in Invoices
    <3> DEFINE old == tx
               rows == tx'
    <3>1. \A t \in Txs : /\ (old[t].status = "succeeded" /\ old[t].invoice = j)
                            <=> (rows[t].status = "succeeded" /\ rows[t].invoice = j)
                         /\ rows[t].amount = old[t].amount /\ rows[t].refunded = old[t].refunded
      BY <2>4
    <3> HIDE DEF old, rows
    <3>2. PaidCents(rows, j) = PaidCents(old, j) /\ RefundedCents(rows, j) = RefundedCents(old, j)
      BY <3>1, SameRowsSameCents
    <3> QED
      BY <3>2 DEF old, rows
  <2>8. InvoiceMatchesLedger'
    <3> SUFFICES ASSUME NEW j \in Invoices
                 PROVE  /\ inv'[j].paid = Cardinality(PaidCents(tx', j))
                        /\ inv'[j].refunded = Cardinality(RefundedCents(tx', j))
                        /\ \/ inv'[j].status \in {"none", "draft", "cancelled"}
                           \/ inv'[j].status = DerivedStatus(inv'[j].paid, inv'[j].refunded, inv'[j].total)
      BY DEF InvoiceMatchesLedger
    <3> QED
      BY <2>2, <2>3, <2>7 DEF IInv, InvoiceMatchesLedger
  <2>9. RefundsWithinRows' /\ RecordedRefundsWereMade'
    BY <2>1, <2>4 DEF IInv, RefundsWithinRows, RecordedRefundsWereMade
  <2>10. CancelledHasNothingPending' /\ PaymentsOnIssuedInvoices'
    BY <2>2, <2>3, <2>4 DEF IInv, TypeOK, CancelledHasNothingPending, PaymentsOnIssuedInvoices
  <2>11. DraftsAreBare' /\ AnnouncedStaysPaid'
    BY <2>1, <2>2, <2>3 DEF IInv, DraftsAreBare, AnnouncedStaysPaid
  <2> QED
    BY <2>6, <2>8, <2>9, <2>10, <2>11 DEF IInv
<1> QED
  BY <1>1, <1>4, <1>5, <1>6, <1>7, <1>8

----------------------------------------------------------------------------
\* A row's fields after its status, or its refunded amount, changed.
LEMMA StatusChange ==
    ASSUME NEW row \in TxRow, NEW st \in {"pending", "succeeded", "failed"}
    PROVE  LET a == [row EXCEPT !.status = st]
           IN  /\ a \in TxRow /\ a.status = st /\ a.invoice = row.invoice /\ a.amount = row.amount
               /\ a.refunded = row.refunded /\ a.method = row.method
BY DEF TxRow

LEMMA RefundedChange ==
    ASSUME NEW row \in TxRow, NEW n \in 0..MaxTotal
    PROVE  LET b == [row EXCEPT !.refunded = n]
           IN  /\ b \in TxRow /\ b.status = row.status /\ b.invoice = row.invoice
               /\ b.amount = row.amount /\ b.refunded = n /\ b.method = row.method
BY DEF TxRow

LEMMA NewRowType ==
    ASSUME NEW st \in {"pending", "succeeded"}, NEW i \in Invoices, NEW a \in 0..MaxTotal,
           NEW m \in Providers \cup {"offline"}, NEW k \in Keys \cup {NoKey}
    PROVE  LET row == Row(st, i, a, m, k)
           IN  /\ row \in TxRow /\ row.status = st /\ row.invoice = i /\ row.amount = a
               /\ row.method = m /\ row.refunded = 0
BY BillingAssumption DEF Row, TxRow

\* A payment that becomes succeeded, or is created so, keeps the invariant.
LEMMA SucceedStep ==
    ASSUME IInv, NEW t \in Txs, NEW i \in Invoices, NEW row \in TxRow,
           tx[t].status # "succeeded",
           inv[i].status \notin {"none", "draft"},
           row.status = "succeeded", row.invoice = i, row.refunded = 0,
           tx[t].status # "none" => tx[t].invoice = i,
           SaveAndRecompute([tx EXCEPT ![t] = row], i),
           seen' \subseteq Events, UNCHANGED <<events, gwRefunded>>
    PROVE  IInv'
<1> DEFINE rows == [tx EXCEPT ![t] = row]
<1>1. tx \in [Txs -> TxRow] /\ rows \in [Txs -> TxRow] /\ rows[t] = row
      /\ \A u \in Txs : u # t => rows[u] = tx[u]
  BY DEF IInv, TypeOK
<1>2. row.amount \in Nat /\ row.amount >= 0
  BY BillingAssumption DEF TxRow
<1>3. SaveAndRecompute(rows, i) /\ tx' = rows
  BY DEF SaveAndRecompute
<1> HIDE DEF rows
<1>4. \A u \in Txs : /\ rows[u].refunded <= rows[u].amount
                     /\ rows[u].refunded > 0 => rows[u].status = "succeeded"
  BY <1>1, <1>2 DEF IInv, RefundsWithinRows
<1>5. \A u \in Txs : rows[u].status # "none" => rows[u].invoice \in Invoices
  BY <1>1 DEF IInv, TypeOK
<1>6. \A u \in Txs : tx[u].status = "succeeded" =>
         rows[u].status = "succeeded" /\ rows[u].invoice = tx[u].invoice /\ rows[u].amount = tx[u].amount
  BY <1>1
<1>7. \A u \in Txs : /\ rows[u] = tx[u] \/ rows[u].invoice = i
                     /\ rows[u] = tx[u] \/ tx[u].status = "none" \/ tx[u].invoice = i
                     /\ rows[u].status = "pending" => rows[u] = tx[u]
                     /\ tx[u].status # "none" => rows[u].status # "none"
  BY <1>1
<1>8. /\ inv' \in [Invoices -> InvoiceRow]
      /\ tx' \in [Txs -> TxRow]
      /\ \A u \in Txs : tx'[u].status # "none" => tx'[u].invoice \in Invoices
      /\ paidSignals' \in [Invoices -> Nat]
      /\ InvoiceMatchesLedger' /\ RefundsWithinRows' /\ CancelledHasNothingPending'
      /\ PaymentsOnIssuedInvoices' /\ DraftsAreBare' /\ AnnouncedStaysPaid'
  BY <1>1, <1>3, <1>4, <1>5, <1>6, <1>7, SaveKeepsInvariant
<1>9. TypeOK'
  BY <1>3, <1>7, <1>8 DEF IInv, TypeOK, EventBody, NoEvent
<1>10. RecordedRefundsWereMade'
  BY <1>1, <1>3 DEF IInv, TypeOK, RecordedRefundsWereMade
<1> QED
  BY <1>8, <1>9, <1>10 DEF IInv

\* A change of a row that has not succeeded, into one that has not succeeded.
LEMMA UnsettledStep ==
    ASSUME IInv, NEW t \in Txs, NEW row \in TxRow,
           tx[t].status # "succeeded", row.status \in {"pending", "failed"},
           row.invoice \in Invoices, row.refunded = 0,
           inv[row.invoice].status \notin {"none", "draft"},
           row.status = "pending" => inv[row.invoice].status # "cancelled",
           tx' = [tx EXCEPT ![t] = row], seen' \subseteq Events,
           UNCHANGED <<inv, events, gwRefunded, paidSignals>>
    PROVE  IInv'
<1> DEFINE old == tx
           rows == tx'
<1>1. tx \in [Txs -> TxRow] /\ tx' \in [Txs -> TxRow] /\ tx'[t] = row
      /\ \A u \in Txs : u # t => tx'[u] = tx[u]
  BY DEF IInv, TypeOK
<1>2. row.amount \in Nat /\ row.amount >= 0
  BY BillingAssumption DEF TxRow
<1>3. \A u \in Txs : old[u].status = "succeeded" \/ rows[u].status = "succeeded" => rows[u] = old[u]
  BY <1>1
<1> HIDE DEF old, rows
<1>4. \A j \in Invoices : PaidCents(rows, j) = PaidCents(old, j) /\ RefundedCents(rows, j) = RefundedCents(old, j)
  BY <1>3, SameRowsSameCents
<1>5. InvoiceMatchesLedger'
  <2>1. \A j \in Invoices : PaidCents(tx', j) = PaidCents(tx, j) /\ RefundedCents(tx', j) = RefundedCents(tx, j)
    BY <1>4 DEF old, rows
  <2> QED
    BY <2>1 DEF IInv, InvoiceMatchesLedger
<1>6. TypeOK'
  BY <1>1 DEF IInv, TypeOK, EventBody, NoEvent
<1>7. RefundsWithinRows' /\ CancelledHasNothingPending' /\ PaymentsOnIssuedInvoices'
  BY <1>1, <1>2 DEF IInv, TypeOK, RefundsWithinRows, CancelledHasNothingPending, PaymentsOnIssuedInvoices
<1>8. DraftsAreBare' /\ AnnouncedStaysPaid'
  BY DEF IInv, DraftsAreBare, AnnouncedStaysPaid
<1>9. RecordedRefundsWereMade'
  BY <1>1 DEF IInv, TypeOK, RecordedRefundsWereMade
<1> QED
  BY <1>5, <1>6, <1>7, <1>8, <1>9 DEF IInv

LEMMA BalanceType ==
    ASSUME IInv, NEW i \in Invoices
    PROVE  balance_due(i) \in 0..MaxTotal
<1>1. inv[i].total \in 0..MaxTotal /\ inv[i].paid \in Nat
  BY DEF IInv, TypeOK, InvoiceRow
<1> QED
  BY <1>1, BillingAssumption DEF balance_due

\* Facts about an existing payment that has not succeeded.
LEMMA UnsettledRow ==
    ASSUME IInv, NEW t \in Txs, tx[t].status \in {"pending", "failed"}
    PROVE  /\ tx[t] \in TxRow /\ tx[t].invoice \in Invoices /\ tx[t].refunded = 0
           /\ inv[tx[t].invoice].status \notin {"none", "draft"}
<1>1. tx[t] \in TxRow /\ tx[t].invoice \in Invoices
  BY DEF IInv, TypeOK
<1>2. tx[t].refunded \in Nat
  BY <1>1, BillingAssumption DEF TxRow
<1> QED
  BY <1>1, <1>2 DEF IInv, RefundsWithinRows, PaymentsOnIssuedInvoices

LEMMA RefundStep ==
    ASSUME IInv, NEW t \in Txs, NEW a \in Amounts, refund_payment(t, a)
    PROVE  IInv'
<1> DEFINE n == tx[t].refunded + a
           row == [tx[t] EXCEPT !.refunded = n]
           rows == [tx EXCEPT ![t] = row]
           i == tx[t].invoice
<1>1. tx[t] \in TxRow /\ i \in Invoices /\ tx[t].status = "succeeded"
      /\ inv[i].status \notin {"none", "draft"}
  BY DEF IInv, TypeOK, PaymentsOnIssuedInvoices, refund_payment
<1>2. tx[t].amount \in 0..MaxTotal /\ tx[t].refunded \in 0..MaxTotal /\ a \in Nat
  BY <1>1, BillingAssumption DEF TxRow, Amounts
<1>3. n \in 0..MaxTotal /\ n <= tx[t].amount
  BY <1>2, BillingAssumption DEF refund_payment, refundable_amount
<1>4. SaveAndRecompute(rows, i) /\ tx' = rows
  BY DEF refund_payment, SaveAndRecompute
<1> HIDE DEF n
<1>5. row \in TxRow /\ row.status = "succeeded" /\ row.invoice = i /\ row.amount = tx[t].amount
      /\ row.refunded = n /\ row.method = tx[t].method
  BY <1>1, <1>3, RefundedChange
<1> HIDE DEF row
<1>6. tx \in [Txs -> TxRow] /\ rows \in [Txs -> TxRow] /\ rows[t] = row
      /\ \A u \in Txs : u # t => rows[u] = tx[u]
  BY <1>5 DEF IInv, TypeOK
<1> HIDE DEF rows
<1>7. \A u \in Txs : /\ rows[u].refunded <= rows[u].amount
                     /\ rows[u].refunded > 0 => rows[u].status = "succeeded"
  BY <1>3, <1>5, <1>6 DEF IInv, RefundsWithinRows
<1>8. \A u \in Txs : rows[u].status # "none" => rows[u].invoice \in Invoices
  BY <1>1, <1>5, <1>6 DEF IInv, TypeOK
<1>9. \A u \in Txs : tx[u].status = "succeeded" =>
         rows[u].status = "succeeded" /\ rows[u].invoice = tx[u].invoice /\ rows[u].amount = tx[u].amount
  BY <1>5, <1>6
<1>10. \A u \in Txs : /\ rows[u] = tx[u] \/ rows[u].invoice = i
                      /\ rows[u] = tx[u] \/ tx[u].status = "none" \/ tx[u].invoice = i
                      /\ rows[u].status = "pending" => rows[u] = tx[u]
                      /\ tx[u].status # "none" => rows[u].status # "none"
  BY <1>5, <1>6
<1>11. /\ inv' \in [Invoices -> InvoiceRow]
       /\ tx' \in [Txs -> TxRow]
       /\ \A u \in Txs : tx'[u].status # "none" => tx'[u].invoice \in Invoices
       /\ paidSignals' \in [Invoices -> Nat]
       /\ InvoiceMatchesLedger' /\ RefundsWithinRows' /\ CancelledHasNothingPending'
       /\ PaymentsOnIssuedInvoices' /\ DraftsAreBare' /\ AnnouncedStaysPaid'
  <2> HIDE DEF i
  <2> QED
    BY <1>1, <1>4, <1>6, <1>7, <1>8, <1>9, <1>10, SaveKeepsInvariant
<1>12. gwRefunded' = IF tx[t].method \in Providers
                     THEN [gwRefunded EXCEPT ![t] = @ + a] ELSE gwRefunded
  BY DEF refund_payment, GatewayRefund
<1>13. gwRefunded' \in [Txs -> Nat]
  BY <1>2, <1>12 DEF IInv, TypeOK
<1>14. TypeOK'
  BY <1>4, <1>10, <1>11, <1>13 DEF IInv, TypeOK, EventBody, NoEvent, refund_payment
<1>15. RecordedRefundsWereMade'
  <2> SUFFICES ASSUME NEW u \in Txs, rows[u].method \in Providers
               PROVE  rows[u].refunded <= gwRefunded'[u]
    BY <1>4 DEF RecordedRefundsWereMade
  <2>1. CASE u = t
    <3>1. tx[t].refunded <= gwRefunded[t] /\ gwRefunded[t] \in Nat /\ gwRefunded'[t] = gwRefunded[t] + a
      BY <2>1, <1>5, <1>6, <1>12 DEF IInv, TypeOK, RecordedRefundsWereMade
    <3> QED
      BY <2>1, <3>1, <1>2, <1>5, <1>6 DEF n
  <2>2. CASE u # t
    BY <2>2, <1>6, <1>12 DEF IInv, TypeOK, RecordedRefundsWereMade
  <2> QED
    BY <2>1, <2>2
<1> QED
  BY <1>11, <1>14, <1>15 DEF IInv

\* Operations on payments.
LEMMA PaymentStep ==
    IInv /\ PaymentNext => IInv'
<1> SUFFICES ASSUME IInv, PaymentNext PROVE IInv'
  OBVIOUS
<1> USE BillingAssumption
<1>1. PICK t \in Txs :
        \/ \E i \in Invoices :
              \/ \E a \in Amounts : \/ \E k \in Keys \cup {NoKey} : record_payment(i, t, a, k)
                                    \/ report_payment(i, t, a)
              \/ \E p \in Providers : start_gateway_payment(i, t, p)
        \/ confirm_payment(t)
        \/ reject_payment(t)
        \/ \E a \in Amounts : refund_payment(t, a) \/ refund_payment_lost(t, a)
  BY DEF PaymentNext
<1>2. seen \subseteq Events /\ \A i \in Invoices : RequireOpen(i) => inv[i].status \notin {"none", "draft", "cancelled"}
  BY DEF IInv, TypeOK, RequireOpen, OPEN_STATUSES
<1>3. ASSUME NEW i \in Invoices, NEW a \in Amounts, NEW k \in Keys \cup {NoKey},
             record_payment(i, t, a, k)
      PROVE  IInv'
  <2> DEFINE row == Row("succeeded", i, a, "offline", k)
  <2>1. row \in TxRow /\ row.status = "succeeded" /\ row.invoice = i /\ row.refunded = 0
    BY NewRowType DEF Amounts
  <2> HIDE DEF row
  <2>2. SaveAndRecompute([tx EXCEPT ![t] = row], i) /\ tx[t].status = "none"
        /\ RequireOpen(i) /\ UNCHANGED <<seen, events, gwRefunded>>
    BY <1>3 DEF record_payment, Free, row
  <2> QED
    BY <1>2, <2>1, <2>2, SucceedStep
<1>4. ASSUME NEW i \in Invoices, NEW a \in Amounts, report_payment(i, t, a) PROVE IInv'
  <2> DEFINE row == Row("pending", i, a, "offline", NoKey)
  <2>1. row \in TxRow /\ row.status = "pending" /\ row.invoice = i /\ row.refunded = 0
    BY NewRowType DEF Amounts
  <2> HIDE DEF row
  <2>2. tx' = [tx EXCEPT ![t] = row] /\ tx[t].status = "none"
        /\ RequireOpen(i) /\ UNCHANGED <<inv, seen, events, gwRefunded, paidSignals>>
    BY <1>4 DEF report_payment, Free, row
  <2> QED
    BY <1>2, <2>1, <2>2, UnsettledStep
<1>5. ASSUME NEW i \in Invoices, NEW p \in Providers, start_gateway_payment(i, t, p) PROVE IInv'
  <2> DEFINE row == Row("pending", i, balance_due(i), p, NoKey)
  <2>1. row \in TxRow /\ row.status = "pending" /\ row.invoice = i /\ row.refunded = 0
    BY NewRowType, BalanceType
  <2> HIDE DEF row
  <2>2. tx' = [tx EXCEPT ![t] = row] /\ tx[t].status = "none"
        /\ RequireOpen(i) /\ UNCHANGED <<inv, seen, events, gwRefunded, paidSignals>>
    BY <1>5 DEF start_gateway_payment, Free, row
  <2> QED
    BY <1>2, <2>1, <2>2, UnsettledStep
<1>6. ASSUME confirm_payment(t) PROVE IInv'
  <2> DEFINE row == [tx[t] EXCEPT !.status = "succeeded"]
             i == tx[t].invoice
  <2>1. tx[t].status = "pending"
    BY <1>6 DEF confirm_payment, PendingOffline
  <2>2. tx[t] \in TxRow /\ i \in Invoices /\ tx[t].refunded = 0 /\ inv[i].status \notin {"none", "draft"}
    BY <2>1, UnsettledRow
  <2>3. row \in TxRow /\ row.status = "succeeded" /\ row.invoice = i /\ row.refunded = 0
    BY <2>2, StatusChange
  <2>4. SaveAndRecompute([tx EXCEPT ![t] = row], i) /\ UNCHANGED <<seen, events, gwRefunded>>
    BY <1>6 DEF confirm_payment
  <2> HIDE DEF row, i
  <2>5. tx[t].status # "none" => tx[t].invoice = i
    BY DEF i
  <2> QED
    BY <1>2, <2>1, <2>2, <2>3, <2>4, <2>5, SucceedStep
<1>7. ASSUME reject_payment(t) PROVE IInv'
  <2> DEFINE row == [tx[t] EXCEPT !.status = "failed"]
  <2>1. tx[t].status = "pending"
    BY <1>7 DEF reject_payment, PendingOffline
  <2>2. tx[t] \in TxRow /\ tx[t].invoice \in Invoices /\ tx[t].refunded = 0
        /\ inv[tx[t].invoice].status \notin {"none", "draft"}
    BY <2>1, UnsettledRow
  <2>3. row \in TxRow /\ row.status = "failed" /\ row.invoice = tx[t].invoice /\ row.refunded = 0
    BY <2>2, StatusChange
  <2>4. tx' = [tx EXCEPT ![t] = row] /\ UNCHANGED <<inv, seen, events, gwRefunded, paidSignals>>
    BY <1>7 DEF reject_payment
  <2> HIDE DEF row
  <2> QED
    BY <1>2, <2>1, <2>2, <2>3, <2>4, UnsettledStep
<1>8. ASSUME NEW a \in Amounts, refund_payment_lost(t, a) PROVE IInv'
  <2>1. gwRefunded' = [gwRefunded EXCEPT ![t] = @ + a] /\ UNCHANGED <<inv, tx, seen, events, paidSignals>>
        /\ a \in Nat
    BY <1>8 DEF refund_payment_lost, GatewayRefund, Amounts
  <2>2. TypeOK'
    BY <2>1 DEF IInv, TypeOK
  <2>3. RecordedRefundsWereMade'
    <3> SUFFICES ASSUME NEW u \in Txs, tx[u].method \in Providers
                 PROVE  tx[u].refunded <= gwRefunded'[u]
      BY <2>1 DEF RecordedRefundsWereMade
    <3>1. tx[u].refunded <= gwRefunded[u] /\ gwRefunded[u] <= gwRefunded'[u]
          /\ gwRefunded[u] \in Nat /\ gwRefunded'[u] \in Nat
      BY <2>1 DEF IInv, TypeOK, RecordedRefundsWereMade
    <3>2. tx[u].refunded \in Nat
      BY DEF IInv, TypeOK, TxRow
    <3> QED
      BY <3>1, <3>2
  <2> QED
    BY <2>1, <2>2, <2>3
       DEF IInv, InvoiceMatchesLedger, RefundsWithinRows, CancelledHasNothingPending,
           PaymentsOnIssuedInvoices, DraftsAreBare, AnnouncedStaysPaid
<1> QED
  BY <1>1, <1>3, <1>4, <1>5, <1>6, <1>7, <1>8, RefundStep

\* Events of the gateway.
LEMMA GatewayStep ==
    IInv /\ GatewayNext => IInv'
<1> SUFFICES ASSUME IInv, NEW e \in Events,
                    (\E body \in EventBody : GatewayEmits(e, body)) \/ handle_webhook(e)
             PROVE  IInv'
  BY DEF GatewayNext
<1>1. ASSUME UNCHANGED <<inv, tx, gwRefunded, paidSignals>>, TypeOK' PROVE IInv'
  BY <1>1 DEF IInv, InvoiceMatchesLedger, RefundsWithinRows, CancelledHasNothingPending,
              PaymentsOnIssuedInvoices, DraftsAreBare, AnnouncedStaysPaid, RecordedRefundsWereMade
<1>2. ASSUME NEW body \in EventBody, GatewayEmits(e, body) PROVE IInv'
  <2>1. TypeOK'
    BY <1>2 DEF IInv, TypeOK, GatewayEmits
  <2> QED
    BY <1>1, <1>2, <2>1 DEF GatewayEmits
<1>3. CASE handle_webhook(e)
  <2> DEFINE body == events[e]
             t == body.tx
  <2>1. /\ body \in EventBody /\ t \in Txs /\ tx[t].status # "none"
        /\ seen' \subseteq Events /\ UNCHANGED <<events, gwRefunded>> /\ apply_event(body)
    BY <1>3 DEF handle_webhook, IInv, TypeOK, EventBody
  <2>2. tx[t].status \in {"none", "pending", "succeeded", "failed"}
    BY <2>1 DEF IInv, TypeOK, TxRow
  <2> HIDE DEF t
  <2>3. CASE AppliesFailure(body)
    <3> DEFINE row == [tx[t] EXCEPT !.status = "failed"]
    <3>1. tx[t].status = "pending" /\ ~AppliesSuccess(body)
      BY <2>3 DEF AppliesFailure, AppliesSuccess, t
    <3>2. tx[t] \in TxRow /\ tx[t].invoice \in Invoices /\ tx[t].refunded = 0
          /\ inv[tx[t].invoice].status \notin {"none", "draft"}
      BY <2>1, <3>1, UnsettledRow
    <3>3. row \in TxRow /\ row.status = "failed" /\ row.invoice = tx[t].invoice /\ row.refunded = 0
      BY <3>2, StatusChange
    <3>4. tx' = [tx EXCEPT ![t] = row] /\ UNCHANGED <<inv, paidSignals>>
      BY <2>1, <2>3, <3>1 DEF apply_event, t
    <3> HIDE DEF row
    <3> QED
      BY <2>1, <3>1, <3>2, <3>3, <3>4, UnsettledStep
  <2>4. CASE AppliesSuccess(body)
    <3> DEFINE row == [tx[t] EXCEPT !.status = "succeeded"]
               i == tx[t].invoice
    <3>1. tx[t].status \in {"pending", "failed"} /\ ~AppliesFailure(body)
      BY <2>1, <2>2, <2>4 DEF AppliesFailure, AppliesSuccess, t
    <3>2. tx[t] \in TxRow /\ i \in Invoices /\ tx[t].refunded = 0
          /\ inv[i].status \notin {"none", "draft"}
      BY <2>1, <3>1, UnsettledRow
    <3>3. row \in TxRow /\ row.status = "succeeded" /\ row.invoice = i /\ row.refunded = 0
      BY <3>2, StatusChange
    <3>4. SaveAndRecompute([tx EXCEPT ![t] = row], i)
      BY <2>1, <2>4, <3>1 DEF apply_event, t
    <3> HIDE DEF row, i
    <3>5. tx[t].status # "none" => tx[t].invoice = i
      BY DEF i
    <3> QED
      BY <2>1, <3>1, <3>2, <3>3, <3>4, <3>5, SucceedStep
  <2>5. CASE ~AppliesFailure(body) /\ ~AppliesSuccess(body)
    <3>1. UNCHANGED <<inv, tx, paidSignals>>
      BY <2>1, <2>5 DEF apply_event
    <3>2. TypeOK'
      BY <2>1, <3>1 DEF IInv, TypeOK
    <3> QED
      BY <1>1, <2>1, <3>1, <3>2
  <2> QED
    BY <2>3, <2>4, <2>5
<1> QED
  BY <1>2, <1>3

LEMMA StutterStep ==
    IInv /\ UNCHANGED vars => IInv'
BY DEF vars, IInv, TypeOK, InvoiceMatchesLedger, RefundsWithinRows, CancelledHasNothingPending,
       PaymentsOnIssuedInvoices, DraftsAreBare, AnnouncedStaysPaid, RecordedRefundsWereMade

LEMMA Inductive ==
    IInv /\ [Next]_vars => IInv'
BY InvoiceStep, PaymentStep, GatewayStep, StutterStep DEF Next

----------------------------------------------------------------------------
LEMMA InvariantHolds ==
    Spec => []IInv
<1>1. Init => IInv
  BY InitEstablishes
<1>2. IInv /\ [Next]_vars => IInv'
  BY Inductive
<1> QED
  BY <1>1, <1>2, PTL DEF Spec

LEMMA Consequences ==
    IInv => RefundsWithinPayments /\ InvoicePaidSentOnce
<1> SUFFICES ASSUME IInv PROVE RefundsWithinPayments /\ InvoicePaidSentOnce
  OBVIOUS
<1>1. tx \in [Txs -> TxRow] /\ RefundsWithinRows
  BY DEF IInv, TypeOK
<1>2. \A i \in Invoices : Cardinality(RefundedCents(tx, i)) <= Cardinality(PaidCents(tx, i))
  <2> DEFINE rows == tx
  <2>1. rows \in [Txs -> TxRow] /\ \A t \in Txs : rows[t].refunded <= rows[t].amount
    BY <1>1 DEF RefundsWithinRows
  <2> HIDE DEF rows
  <2>2. \A i \in Invoices : Cardinality(RefundedCents(rows, i)) <= Cardinality(PaidCents(rows, i))
    BY <2>1, RefundedWithinPaid
  <2> QED
    BY <2>2 DEF rows
<1>3. RefundsWithinPayments
  BY <1>1, <1>2 DEF RefundsWithinPayments, RefundsWithinRows, IInv, InvoiceMatchesLedger
<1>4. InvoicePaidSentOnce
  BY DEF IInv, TypeOK, AnnouncedStaysPaid, InvoicePaidSentOnce
<1> QED
  BY <1>3, <1>4

\* Every reachable state of billing has well-typed tables.
THEOREM TypeCorrect == Spec => []TypeOK
<1>1. IInv => TypeOK
  BY DEF IInv
<1> QED
  BY <1>1, InvariantHolds, PTL

\* However staff, customers and the gateway interleave, the invoice row always
\* says what verify_invoice re-derives from the succeeded transactions.
THEOREM LedgerConsistent == Spec => []InvoiceMatchesLedger
<1>1. IInv => InvoiceMatchesLedger
  BY DEF IInv
<1> QED
  BY <1>1, InvariantHolds, PTL

\* No payment and no invoice is ever refunded beyond what it received, and
\* what is recorded as refunded by the gateway was refunded by it.
THEOREM RefundsBounded == Spec => []RefundsAreSound
<1>1. IInv => RefundsAreSound
  BY Consequences DEF IInv, RefundsAreSound
<1> QED
  BY <1>1, InvariantHolds, PTL

\* invoice_paid is sent at most once per invoice.
THEOREM PaidSentOnce == Spec => []InvoicePaidSentOnce
<1>1. IInv => InvoicePaidSentOnce
  BY Consequences
<1> QED
  BY <1>1, InvariantHolds, PTL

\* A cancelled invoice has nothing pending that could still be confirmed.
THEOREM CancelledIsQuiet == Spec => []CancelledHasNothingPending
<1>1. IInv => CancelledHasNothingPending
  BY DEF IInv
<1> QED
  BY <1>1, InvariantHolds, PTL
----------------------------------------------------------------------------
(* What one step may do to a payment and to an invoice.                     *)

\* A payment row keeps its invoice, amount and method for ever, and a payment
\* that has succeeded stays so.
LEMMA PaymentMoves ==
    ASSUME IInv, [Next]_vars
    PROVE  \A t \in Txs : tx[t].status # "none" =>
              /\ tx'[t].status # "none" /\ tx'[t].invoice = tx[t].invoice
              /\ tx'[t].amount = tx[t].amount /\ tx'[t].method = tx[t].method
              /\ tx[t].status = "succeeded" => tx'[t].status = "succeeded"
<1>1. tx \in [Txs -> TxRow]
  BY DEF IInv, TypeOK
<1> DEFINE Kept(t) == tx[t].status # "none" =>
                         /\ tx'[t].status # "none" /\ tx'[t].invoice = tx[t].invoice
                         /\ tx'[t].amount = tx[t].amount /\ tx'[t].method = tx[t].method
                         /\ tx[t].status = "succeeded" => tx'[t].status = "succeeded"
<1>2. ASSUME UNCHANGED tx PROVE \A t \in Txs : Kept(t)
  BY <1>2
<1>3. ASSUME NEW t \in Txs, tx[t].status = "none", NEW row, tx' = [tx EXCEPT ![t] = row]
      PROVE  \A u \in Txs : Kept(u)
  BY <1>1, <1>3
<1>4. ASSUME NEW t \in Txs, tx[t].status # "succeeded", NEW st \in {"succeeded", "failed"},
             tx' = [tx EXCEPT ![t].status = st]
      PROVE  \A u \in Txs : Kept(u)
  BY <1>1, <1>4 DEF TxRow
<1>5. CASE InvoiceNext
  <2>1. ASSUME NEW i \in Invoices, cancel_invoice(i) PROVE \A t \in Txs : Kept(t)
    BY <1>1, <2>1 DEF cancel_invoice, fail_pending_transactions, TxRow
  <2> QED BY <1>2, <1>5, <2>1 DEF InvoiceNext, create_draft_invoice, update_invoice,
                                  issue_draft_invoice, delete_draft_invoice
<1>6. CASE PaymentNext
  <2>1. PICK t \in Txs :
          \/ \E i \in Invoices :
                \/ \E a \in Amounts : \/ \E k \in Keys \cup {NoKey} : record_payment(i, t, a, k)
                                      \/ report_payment(i, t, a)
                \/ \E p \in Providers : start_gateway_payment(i, t, p)
          \/ confirm_payment(t)
          \/ reject_payment(t)
          \/ \E a \in Amounts : refund_payment(t, a) \/ refund_payment_lost(t, a)
    BY <1>6 DEF PaymentNext
  <2>2. ASSUME NEW i \in Invoices, NEW a \in Amounts, NEW k \in Keys \cup {NoKey},
               record_payment(i, t, a, k)
        PROVE  \A u \in Txs : Kept(u)
    BY <1>3, <2>2 DEF record_payment, SaveAndRecompute, Free
  <2>3. ASSUME NEW i \in Invoices, NEW a \in Amounts, report_payment(i, t, a)
        PROVE  \A u \in Txs : Kept(u)
    BY <1>3, <2>3 DEF report_payment, Free
  <2>4. ASSUME NEW i \in Invoices, NEW p \in Providers, start_gateway_payment(i, t, p)
        PROVE  \A u \in Txs : Kept(u)
    BY <1>3, <2>4 DEF start_gateway_payment, Free
  <2>5. CASE confirm_payment(t)
    BY <1>4, <2>5 DEF confirm_payment, SaveAndRecompute, PendingOffline
  <2>6. CASE reject_payment(t)
    BY <1>4, <2>6 DEF reject_payment, PendingOffline
  <2>7. ASSUME NEW a \in Amounts, refund_payment(t, a) PROVE \A u \in Txs : Kept(u)
    BY <1>1, <2>7 DEF refund_payment, SaveAndRecompute, TxRow
  <2>8. ASSUME NEW a \in Amounts, refund_payment_lost(t, a) PROVE \A u \in Txs : Kept(u)
    BY <1>2, <2>8 DEF refund_payment_lost
  <2> QED BY <2>1, <2>2, <2>3, <2>4, <2>5, <2>6, <2>7, <2>8
<1>7. CASE GatewayNext
  <2>1. PICK e \in Events : (\E body \in EventBody : GatewayEmits(e, body)) \/ handle_webhook(e)
    BY <1>7 DEF GatewayNext
  <2>2. ASSUME handle_webhook(e), tx' # tx PROVE \A u \in Txs : Kept(u)
    <3>1. events[e].tx \in Txs /\ apply_event(events[e])
      BY <2>2 DEF IInv, TypeOK, EventBody, NoEvent, handle_webhook
    <3>2. tx[events[e].tx].status # "succeeded" /\ \E st \in {"succeeded", "failed"} :
             tx' = [tx EXCEPT ![events[e].tx].status = st]
      BY <2>2, <3>1 DEF apply_event, AppliesFailure, AppliesSuccess, SaveAndRecompute
    <3> QED BY <1>4, <3>1, <3>2
  <2> QED BY <1>2, <2>1, <2>2 DEF GatewayEmits
<1> QED BY <1>2, <1>5, <1>6, <1>7 DEF Next, vars

\* Once issued, an invoice keeps its total; it is cancelled only while nothing
\* is paid on it, and then for good.
LEMMA InvoiceMoves ==
    ASSUME IInv, [Next]_vars, NEW i \in Invoices, inv[i].status \notin {"none", "draft"}
    PROVE  /\ inv'[i].status \notin {"none", "draft"} /\ inv'[i].total = inv[i].total
           /\ inv'[i].status = "cancelled" => inv[i].status \in {"cancelled", "unpaid"}
           /\ inv[i].status = "cancelled" => inv'[i].status = "cancelled"
<1> DEFINE Kept == /\ inv'[i].status \notin {"none", "draft"} /\ inv'[i].total = inv[i].total
                   /\ inv'[i].status = "cancelled" => inv[i].status \in {"cancelled", "unpaid"}
                   /\ inv[i].status = "cancelled" => inv'[i].status = "cancelled"
<1>1. inv \in [Invoices -> InvoiceRow] /\ tx \in [Txs -> TxRow]
  BY DEF IInv, TypeOK
<1>2. ASSUME inv' = inv PROVE Kept
  BY <1>2
<1>3. ASSUME NEW rows, NEW j \in Invoices, SaveAndRecompute(rows, j) PROVE Kept
  <2> DEFINE p == Cardinality(PaidCents(rows, j))
             r == Cardinality(RefundedCents(rows, j))
  <2>1. p \in Nat /\ r \in Nat
    BY CentsFinite
  <2>2. inv' = [inv EXCEPT ![j] = recompute_invoice(inv[j], p, r)]
    BY <1>3 DEF SaveAndRecompute
  <2> HIDE DEF p, r
  <2>3. inv[i] \in InvoiceRow /\ inv[i].total \in Nat
    BY <1>1, BillingAssumption DEF InvoiceRow
  <2>4. DerivedStatus(p, r, inv[i].total) \in {"unpaid", "partially_paid", "paid", "refunded"}
    BY <2>1, <2>3, DerivedStatusType
  <2> QED BY <1>1, <2>2, <2>3, <2>4 DEF recompute_invoice, InvoiceRow
<1>4. CASE InvoiceNext
  <2>1. PICK j \in Invoices :
          \/ \E total \in 0..MaxTotal : \/ create_draft_invoice(j, total)
                                        \/ update_invoice(j, total)
                                        \/ issue_draft_invoice(j, total)
          \/ delete_draft_invoice(j)
          \/ cancel_invoice(j)
    BY <1>4 DEF InvoiceNext
  <2>2. CASE cancel_invoice(j)
    BY <1>1, <2>2 DEF cancel_invoice, InvoiceRow
  <2>3. CASE ~cancel_invoice(j)
    <3>1. inv[j].status \in {"none", "draft"} /\ \A k \in Invoices : k # j => inv'[k] = inv[k]
      BY <1>1, <2>1, <2>3
         DEF create_draft_invoice, update_invoice, issue_draft_invoice, delete_draft_invoice
    <3> QED BY <3>1
  <2> QED BY <2>2, <2>3
<1>5. CASE PaymentNext
  <2>1. PICK t \in Txs :
          \/ \E j \in Invoices :
                \/ \E a \in Amounts : \/ \E k \in Keys \cup {NoKey} : record_payment(j, t, a, k)
                                      \/ report_payment(j, t, a)
                \/ \E p \in Providers : start_gateway_payment(j, t, p)
          \/ confirm_payment(t)
          \/ reject_payment(t)
          \/ \E a \in Amounts : refund_payment(t, a) \/ refund_payment_lost(t, a)
    BY <1>5 DEF PaymentNext
  <2>2. ASSUME NEW j \in Invoices, NEW a \in Amounts, NEW k \in Keys \cup {NoKey},
               record_payment(j, t, a, k)
        PROVE  Kept
    BY <1>3, <2>2 DEF record_payment
  <2>3. tx[t].status # "none" => tx[t].invoice \in Invoices
    BY DEF IInv, TypeOK
  <2>4. CASE confirm_payment(t)
    BY <1>3, <2>3, <2>4 DEF confirm_payment, PendingOffline
  <2>5. ASSUME NEW a \in Amounts, refund_payment(t, a) PROVE Kept
    BY <1>3, <2>3, <2>5 DEF refund_payment
  <2> QED BY <1>2, <2>1, <2>2, <2>4, <2>5
          DEF report_payment, start_gateway_payment, reject_payment, refund_payment_lost
<1>6. CASE GatewayNext
  <2>1. PICK e \in Events : (\E body \in EventBody : GatewayEmits(e, body)) \/ handle_webhook(e)
    BY <1>6 DEF GatewayNext
  <2>2. ASSUME handle_webhook(e), inv' # inv PROVE Kept
    <3>1. tx[events[e].tx].invoice \in Invoices /\ apply_event(events[e])
      BY <2>2 DEF IInv, TypeOK, EventBody, NoEvent, handle_webhook
    <3> QED BY <1>3, <2>2, <3>1 DEF apply_event
  <2> QED BY <1>2, <2>1, <2>2 DEF GatewayEmits
<1> QED BY <1>2, <1>4, <1>5, <1>6 DEF Next, vars

----------------------------------------------------------------------------
(* Manual money.                                                            *)

\* The gateway speaks only of payments it was given.
EventsAreOnline ==
    \A e \in Events : events[e] # NoEvent => tx[events[e].tx].method \in Providers

OfflineCents(rows, i) == {c \in PaidCents(rows, i) : rows[c[1]].method = "offline"}

ManualInv == IInv /\ EventsAreOnline /\ ManualMoneyWithinTotal

\* Only staff make a manual payment succeed, on an open invoice and within what
\* is due on it, one payment at a time.
LEMMA ManualSuccess ==
    ASSUME IInv, EventsAreOnline, [Next]_vars, NEW t \in Txs,
           tx'[t].status = "succeeded", tx'[t].method = "offline", tx[t].status # "succeeded"
    PROVE  /\ tx'[t].invoice \in Invoices
           /\ inv[tx'[t].invoice].status \in OPEN_STATUSES
           /\ tx'[t].amount <= balance_due(tx'[t].invoice)
           /\ \A u \in Txs : u # t => tx'[u] = tx[u]
<1> DEFINE Goal == /\ tx'[t].invoice \in Invoices
                   /\ inv[tx'[t].invoice].status \in OPEN_STATUSES
                   /\ tx'[t].amount <= balance_due(tx'[t].invoice)
                   /\ \A u \in Txs : u # t => tx'[u] = tx[u]
<1>1. tx \in [Txs -> TxRow] /\ "offline" \notin Providers
  BY BillingAssumption DEF IInv, TypeOK
<1>2. tx' # tx
  OBVIOUS
<1>3. CASE InvoiceNext
  <2>1. PICK i \in Invoices : cancel_invoice(i)
    BY <1>2, <1>3 DEF InvoiceNext, create_draft_invoice, update_invoice, issue_draft_invoice,
                      delete_draft_invoice
  <2> QED BY <1>1, <2>1 DEF cancel_invoice, fail_pending_transactions, TxRow
<1>4. CASE PaymentNext
  <2>1. PICK u \in Txs :
          \/ \E j \in Invoices :
                \/ \E a \in Amounts : \/ \E k \in Keys \cup {NoKey} : record_payment(j, u, a, k)
                                      \/ report_payment(j, u, a)
                \/ \E p \in Providers : start_gateway_payment(j, u, p)
          \/ confirm_payment(u)
          \/ reject_payment(u)
          \/ \E a \in Amounts : refund_payment(u, a) \/ refund_payment_lost(u, a)
    BY <1>4 DEF PaymentNext
  <2>2. ASSUME NEW j \in Invoices, NEW a \in Amounts, NEW k \in Keys \cup {NoKey},
               record_payment(j, u, a, k)
        PROVE  Goal
    BY <1>1, <2>2 DEF record_payment, SaveAndRecompute, RequireOpen, Row
  <2>3. CASE confirm_payment(u)
    <3>1. tx' = [tx EXCEPT ![u].status = "succeeded"] /\ u = t
      BY <1>1, <2>3 DEF confirm_payment, SaveAndRecompute
    <3>2. tx'[t].invoice = tx[t].invoice /\ tx'[t].amount = tx[t].amount
      BY <1>1, <3>1 DEF TxRow
    <3>3. tx[t].invoice \in Invoices
      BY <2>3, <3>1 DEF IInv, TypeOK, confirm_payment, PendingOffline
    <3> QED BY <1>1, <2>3, <3>1, <3>2, <3>3 DEF confirm_payment, RequireOpen
  <2>4. ASSUME NEW a \in Amounts, refund_payment(u, a) PROVE FALSE
    BY <1>1, <2>4 DEF refund_payment, SaveAndRecompute, TxRow
  <2>5. ASSUME NEW j \in Invoices, NEW a \in Amounts, report_payment(j, u, a) PROVE FALSE
    BY <1>1, <2>5 DEF report_payment, Row
  <2>6. ASSUME NEW j \in Invoices, NEW p \in Providers, start_gateway_payment(j, u, p) PROVE FALSE
    BY <1>1, <2>6 DEF start_gateway_payment, Row
  <2>7. CASE reject_payment(u)
    BY <1>1, <2>7 DEF reject_payment, TxRow
  <2> QED BY <1>2, <2>1, <2>2, <2>3, <2>4, <2>5, <2>6, <2>7 DEF refund_payment_lost
<1>5. CASE GatewayNext
  <2>1. PICK e \in Events : handle_webhook(e)
    BY <1>2, <1>5 DEF GatewayNext, GatewayEmits
  <2>2. /\ events[e].tx \in Txs /\ apply_event(events[e])
        /\ tx[events[e].tx].method \in Providers
    BY <2>1 DEF IInv, TypeOK, EventBody, NoEvent, handle_webhook, EventsAreOnline
  <2>3. \E st \in {"succeeded", "failed"} : tx' = [tx EXCEPT ![events[e].tx].status = st]
    BY <1>2, <2>2 DEF apply_event, SaveAndRecompute
  <2>4. t = events[e].tx
    BY <1>1, <2>2, <2>3
  <2>5. tx'[t].method \in Providers
    BY <1>1, <2>2, <2>3, <2>4 DEF TxRow
  <2> QED BY <1>1, <2>5
<1> QED BY <1>2, <1>3, <1>4, <1>5 DEF Next, vars

\* What an event says of a payment's method stays true, as rows keep theirs.
LEMMA OnlineStep == ASSUME IInv, EventsAreOnline, [Next]_vars PROVE EventsAreOnline'
<1> SUFFICES ASSUME NEW e \in Events, events'[e] # NoEvent
             PROVE  tx'[events'[e].tx].method \in Providers
  BY DEF EventsAreOnline
<1>1. ASSUME events'[e] = events[e] PROVE tx'[events'[e].tx].method \in Providers
  <2>1. events[e].tx \in Txs /\ tx[events[e].tx].status # "none" /\ tx[events[e].tx].method \in Providers
    BY <1>1 DEF IInv, TypeOK, EventBody, NoEvent, EventsAreOnline
  <2> QED BY <1>1, <2>1, PaymentMoves
<1>2. ASSUME NEW d \in Events, NEW body \in EventBody, GatewayEmits(d, body)
      PROVE  tx'[events'[e].tx].method \in Providers
  <2>1. events' = [events EXCEPT ![d] = body] /\ tx' = tx /\ tx[body.tx].method \in Providers
    BY <1>2 DEF GatewayEmits
  <2> QED BY <1>1, <2>1 DEF IInv, TypeOK
<1>3. CASE UNCHANGED events
  BY <1>1, <1>3
<1> QED BY <1>2, <1>3
        DEF Next, vars, InvoiceNext, PaymentNext, GatewayNext, create_draft_invoice, update_invoice,
            issue_draft_invoice, delete_draft_invoice, cancel_invoice, record_payment, report_payment,
            start_gateway_payment, confirm_payment, reject_payment, refund_payment,
            refund_payment_lost, handle_webhook

\* The manual part of an invoice's money is finite and part of what is paid.
LEMMA OfflineFinite ==
    ASSUME NEW rows, NEW i
    PROVE  /\ IsFiniteSet(OfflineCents(rows, i)) /\ Cardinality(OfflineCents(rows, i)) \in Nat
           /\ Cardinality(OfflineCents(rows, i)) <= Cardinality(PaidCents(rows, i))
<1>1. OfflineCents(rows, i) \in SUBSET PaidCents(rows, i)
  BY DEF OfflineCents
<1>2. IsFiniteSet(PaidCents(rows, i)) /\ Cardinality(PaidCents(rows, i)) \in Nat
  BY CentsFinite
<1> QED BY <1>1, <1>2, FS_Subset, FS_CardinalityType

\* A payment row of a cents holds a cents.
LEMMA CentsOfOneRow ==
    ASSUME NEW t, NEW a \in Nat
    PROVE  IsFiniteSet({t} \X (1..a)) /\ Cardinality({t} \X (1..a)) = a
<1>1. IsFiniteSet({t}) /\ Cardinality({t}) = 1
  BY FS_Singleton
<1>2. IsFiniteSet(1..a) /\ Cardinality(1..a) = a
  BY FS_Interval
<1>3. IsFiniteSet({t} \X (1..a)) /\ Cardinality({t} \X (1..a)) = Cardinality({t}) * Cardinality(1..a)
  BY <1>1, <1>2, FS_Product
<1> QED BY <1>1, <1>2, <1>3

\* Staff cannot collect more on an invoice than it asks for.
LEMMA ManualStep == ASSUME ManualInv, [Next]_vars PROVE ManualMoneyWithinTotal'
<1>1. /\ tx \in [Txs -> TxRow] /\ inv \in [Invoices -> InvoiceRow]
      /\ tx' \in [Txs -> TxRow] /\ inv' \in [Invoices -> InvoiceRow]
      /\ IInv /\ IInv' /\ EventsAreOnline
  BY Inductive DEF ManualInv, IInv, TypeOK
<1> SUFFICES ASSUME NEW i \in Invoices
             PROVE  Cardinality(OfflineCents(tx', i)) <= inv'[i].total
  BY DEF ManualMoneyWithinTotal, OfflineCents
<1> DEFINE old == tx
           new == tx'
<1>2. /\ Cardinality(OfflineCents(old, i)) \in Nat /\ IsFiniteSet(OfflineCents(old, i))
      /\ Cardinality(OfflineCents(new, i)) \in Nat /\ IsFiniteSet(OfflineCents(new, i))
      /\ Cardinality(OfflineCents(old, i)) <= Cardinality(PaidCents(old, i))
  <2> HIDE DEF old, new
  <2> QED BY OfflineFinite
<1>3. inv[i].total \in Nat /\ inv'[i].total \in Nat /\ inv[i].paid \in Nat
  BY <1>1, BillingAssumption DEF InvoiceRow
<1>4. Cardinality(OfflineCents(old, i)) <= inv[i].total /\ inv[i].paid = Cardinality(PaidCents(old, i))
  BY DEF ManualInv, ManualMoneyWithinTotal, OfflineCents, IInv, InvoiceMatchesLedger
<1>5. CASE inv'[i].status \in {"none", "draft"}
  <2>1. OfflineCents(new, i) = {}
    BY <1>1, <1>5 DEF OfflineCents, PaidCents, IInv, PaymentsOnIssuedInvoices
  <2> QED BY <1>3, <2>1, FS_EmptySet
<1>6. CASE inv'[i].status \notin {"none", "draft"} /\ inv[i].status \in {"none", "draft"}
  <2>1. \A t \in Txs : tx[t].status # "none" => tx[t].invoice # i
    BY <1>1, <1>6 DEF IInv, PaymentsOnIssuedInvoices
  <2>2. ASSUME NEW t \in Txs, tx'[t].status = "succeeded", tx'[t].invoice = i, tx'[t].method = "offline"
        PROVE  FALSE
    <3>1. tx[t].status = "none"
      BY <1>1, <2>1, <2>2, PaymentMoves
    <3>2. inv[i].status \in OPEN_STATUSES
      BY <1>1, <2>2, <3>1, ManualSuccess
    <3> QED BY <1>6, <3>2 DEF OPEN_STATUSES
  <2>3. OfflineCents(new, i) = {}
    BY <2>2 DEF OfflineCents, PaidCents
  <2> QED BY <1>3, <2>3, FS_EmptySet
<1>7. CASE /\ inv[i].status \notin {"none", "draft"}
           /\ \A t \in Txs : tx'[t].status = "succeeded" /\ tx'[t].invoice = i /\ tx'[t].method = "offline"
                              => tx[t].status = "succeeded"
  <2>1. inv'[i].total = inv[i].total
    BY <1>1, <1>7, InvoiceMoves
  <2>2. \A t \in Txs : tx[t].status = "succeeded" =>
            tx'[t].invoice = tx[t].invoice /\ tx'[t].amount = tx[t].amount /\ tx'[t].method = tx[t].method
    BY <1>1, PaymentMoves
  <2>3. OfflineCents(new, i) \in SUBSET OfflineCents(old, i)
    BY <1>7, <2>2 DEF OfflineCents, PaidCents
  <2>4. Cardinality(OfflineCents(new, i)) <= Cardinality(OfflineCents(old, i))
    BY <1>2, <2>3, FS_Subset
  <2> QED BY <1>2, <1>3, <1>4, <2>1, <2>4
<1>8. ASSUME inv[i].status \notin {"none", "draft"}, NEW t \in Txs, tx'[t].status = "succeeded",
             tx'[t].invoice = i, tx'[t].method = "offline", tx[t].status # "succeeded"
      PROVE  Cardinality(OfflineCents(new, i)) <= inv'[i].total
  <2> DEFINE a == tx'[t].amount
             added == {t} \X (1..a)
  <2>1. inv'[i].total = inv[i].total
    BY <1>1, <1>8, InvoiceMoves
  <2>2. a <= balance_due(i) /\ \A u \in Txs : u # t => tx'[u] = tx[u]
    BY <1>1, <1>8, ManualSuccess
  <2>3. a \in Nat /\ a <= MaxTotal
    BY <1>1, BillingAssumption DEF TxRow
  <2>4. a + inv[i].paid <= inv[i].total \/ a = 0
    BY <1>3, <2>2, <2>3 DEF balance_due
  <2>5. IsFiniteSet(added) /\ Cardinality(added) = a
    BY <2>3, CentsOfOneRow
  <2>6. OfflineCents(new, i) = OfflineCents(old, i) \cup added
    <3>1. \A c \in Txs \X (1..MaxTotal) : c \in added <=> (c[1] = t /\ c[2] <= a)
      BY <2>3, BillingAssumption
    <3>2. added \in SUBSET (Txs \X (1..MaxTotal))
      BY <2>3, BillingAssumption
    <3>3. ASSUME NEW c \in Txs \X (1..MaxTotal)
          PROVE  c \in OfflineCents(new, i) <=> c \in OfflineCents(old, i) \cup added
      <4> HIDE DEF added
      <4>1. CASE c[1] = t
        BY <1>8, <3>1, <4>1 DEF OfflineCents, PaidCents
      <4>2. CASE c[1] # t
        BY <2>2, <3>1, <4>2 DEF OfflineCents, PaidCents
      <4> QED BY <4>1, <4>2
    <3>4. /\ OfflineCents(new, i) \in SUBSET (Txs \X (1..MaxTotal))
          /\ OfflineCents(old, i) \in SUBSET (Txs \X (1..MaxTotal))
      BY DEF OfflineCents, PaidCents
    <3> HIDE DEF added, old, new
    <3> QED BY <3>2, <3>3, <3>4
  <2> HIDE DEF added, a, old, new
  <2>7. Cardinality(OfflineCents(new, i)) <= Cardinality(OfflineCents(old, i)) + Cardinality(added)
    <3>1. /\ IsFiniteSet(OfflineCents(old, i) \cap added)
          /\ Cardinality(OfflineCents(old, i) \cap added) \in Nat
      BY <1>2, FS_Intersection, FS_CardinalityType
    <3>2. Cardinality(OfflineCents(old, i) \cup added) =
             Cardinality(OfflineCents(old, i)) + Cardinality(added)
             - Cardinality(OfflineCents(old, i) \cap added)
      BY <1>2, <2>5, FS_Union
    <3> QED BY <1>2, <2>3, <2>5, <2>6, <3>1, <3>2
  <2> QED BY <1>2, <1>3, <1>4, <2>1, <2>3, <2>4, <2>5, <2>7
<1> QED BY <1>5, <1>6, <1>7, <1>8

\* Money that staff record or confirm never exceeds the invoice, however many
\* reports and gateway payments were open on it at once.
THEOREM ManualMoneyBounded == Spec => []ManualMoneyWithinTotal
<1>1. Init => ManualInv
  <2> SUFFICES ASSUME Init PROVE ManualInv
    OBVIOUS
  <2>1. EventsAreOnline
    BY DEF Init, EventsAreOnline
  <2>2. \A i \in Invoices : OfflineCents(tx, i) = {} /\ inv[i].total = 0
    BY DEF Init, OfflineCents, PaidCents, NoTx, Row, NoInvoice
  <2>3. ManualMoneyWithinTotal
    <3>1. \A i \in Invoices : Cardinality(OfflineCents(tx, i)) = 0
      BY <2>2, FS_EmptySet
    <3>2. \A i \in Invoices : Cardinality(OfflineCents(tx, i)) <= inv[i].total
      BY <2>2, <3>1
    <3> QED BY <3>2 DEF ManualMoneyWithinTotal, OfflineCents
  <2> QED BY <2>1, <2>3, InitEstablishes DEF ManualInv
<1>2. ManualInv /\ [Next]_vars => ManualInv'
  BY Inductive, OnlineStep, ManualStep DEF ManualInv
<1>3. ManualInv => ManualMoneyWithinTotal
  BY DEF ManualInv
<1> QED BY <1>1, <1>2, <1>3, PTL DEF Spec

----------------------------------------------------------------------------
(* Settled invoices.  A refunded invoice may have been paid only in part, so *)
(* that it is settled is not a matter of its own amounts: what is still to   *)
(* come for it can only be a gateway payment, and each of those asks for all *)
(* that was due when it began.                                              *)

\* A gateway payment that has not succeeded would cover its invoice.
GatewayCovers ==
    \A t \in Txs : tx[t].status \in {"pending", "failed"} /\ tx[t].method \in Providers =>
        inv[tx[t].invoice].paid + tx[t].amount >= inv[tx[t].invoice].total

CoverInv == IInv /\ EventsAreOnline /\ GatewayCovers

LEMMA PaidNeverFalls ==
    ASSUME IInv, IInv', [Next]_vars, NEW i \in Invoices
    PROVE  inv'[i].paid >= inv[i].paid
<1> DEFINE old == tx
           new == tx'
<1>1. \A t \in Txs : old[t].status = "succeeded" /\ old[t].invoice = i =>
          /\ new[t].status = "succeeded" /\ new[t].invoice = i
          /\ new[t].amount = old[t].amount
  BY PaymentMoves
<1>2. inv[i].paid = Cardinality(PaidCents(old, i)) /\ inv'[i].paid = Cardinality(PaidCents(new, i))
  BY DEF IInv, InvoiceMatchesLedger
<1> HIDE DEF old, new
<1>3. Cardinality(PaidCents(old, i)) <= Cardinality(PaidCents(new, i))
  BY <1>1, PaidGrows
<1>4. Cardinality(PaidCents(old, i)) \in Nat /\ Cardinality(PaidCents(new, i)) \in Nat
  BY CentsFinite
<1> QED BY <1>2, <1>3, <1>4

\* What a row becomes that was free: a manual payment, or a gateway payment of
\* what is due.
LEMMA FreshRow ==
    ASSUME IInv, [Next]_vars, NEW t \in Txs, tx[t].status = "none", tx'[t].status # "none"
    PROVE  \/ tx'[t].method = "offline"
           \/ /\ tx'[t].status = "pending" /\ inv' = inv /\ tx'[t].invoice \in Invoices
              /\ RequireOpen(tx'[t].invoice) /\ tx'[t].amount = balance_due(tx'[t].invoice)
<1> DEFINE Goal == \/ tx'[t].method = "offline"
                   \/ /\ tx'[t].status = "pending" /\ inv' = inv /\ tx'[t].invoice \in Invoices
                      /\ RequireOpen(tx'[t].invoice) /\ tx'[t].amount = balance_due(tx'[t].invoice)
<1>1. tx \in [Txs -> TxRow] /\ tx' # tx
  BY DEF IInv, TypeOK
<1>2. CASE InvoiceNext
  <2>1. PICK i \in Invoices : cancel_invoice(i)
    BY <1>1, <1>2 DEF InvoiceNext, create_draft_invoice, update_invoice, issue_draft_invoice,
                      delete_draft_invoice
  <2> QED BY <1>1, <2>1 DEF cancel_invoice, fail_pending_transactions, TxRow
<1>3. CASE PaymentNext
  <2>1. PICK u \in Txs :
          \/ \E j \in Invoices :
                \/ \E a \in Amounts : \/ \E k \in Keys \cup {NoKey} : record_payment(j, u, a, k)
                                      \/ report_payment(j, u, a)
                \/ \E p \in Providers : start_gateway_payment(j, u, p)
          \/ confirm_payment(u)
          \/ reject_payment(u)
          \/ \E a \in Amounts : refund_payment(u, a) \/ refund_payment_lost(u, a)
    BY <1>3 DEF PaymentNext
  <2>2. ASSUME NEW j \in Invoices, NEW a \in Amounts, NEW k \in Keys \cup {NoKey},
               record_payment(j, u, a, k)
        PROVE  Goal
    BY <1>1, <2>2 DEF record_payment, SaveAndRecompute, Row
  <2>3. ASSUME NEW j \in Invoices, NEW a \in Amounts, report_payment(j, u, a) PROVE Goal
    BY <1>1, <2>3 DEF report_payment, Row
  <2>4. ASSUME NEW j \in Invoices, NEW p \in Providers, start_gateway_payment(j, u, p) PROVE Goal
    BY <1>1, <2>4 DEF start_gateway_payment, Row
  <2>5. CASE confirm_payment(u)
    BY <1>1, <2>5 DEF confirm_payment, SaveAndRecompute, PendingOffline, TxRow
  <2>6. CASE reject_payment(u)
    BY <1>1, <2>6 DEF reject_payment, PendingOffline, TxRow
  <2>7. ASSUME NEW a \in Amounts, refund_payment(u, a) PROVE Goal
    BY <1>1, <2>7 DEF refund_payment, SaveAndRecompute, TxRow
  <2> QED BY <1>1, <2>1, <2>2, <2>3, <2>4, <2>5, <2>6, <2>7 DEF refund_payment_lost
<1>4. CASE GatewayNext
  <2>1. PICK e \in Events : handle_webhook(e)
    BY <1>1, <1>4 DEF GatewayNext, GatewayEmits
  <2>2. events[e].tx \in Txs /\ tx[events[e].tx].status # "none" /\ apply_event(events[e])
    BY <2>1 DEF IInv, TypeOK, EventBody, NoEvent, handle_webhook
  <2>3. \E st \in {"succeeded", "failed"} : tx' = [tx EXCEPT ![events[e].tx].status = st]
    BY <1>1, <2>2 DEF apply_event, SaveAndRecompute
  <2> QED BY <1>1, <2>2, <2>3
<1> QED BY <1>1, <1>2, <1>3, <1>4 DEF Next, vars

\* A payment that succeeds on an invoice that is not open is a gateway payment
\* that was waiting, and it covers the invoice.
LEMMA LateMoneyCovers ==
    ASSUME CoverInv, IInv', [Next]_vars, NEW i \in Invoices, NEW t \in Txs,
           inv[i].status \notin OPEN_STATUSES, inv[i].status \notin {"none", "draft"},
           tx[t].status # "succeeded", tx'[t].status = "succeeded", tx'[t].invoice = i
    PROVE  inv'[i].paid >= inv[i].total
<1> DEFINE old == tx
           new == tx'
           a == tx[t].amount
           added == {t} \X (1..a)
<1>1. tx \in [Txs -> TxRow] /\ tx' \in [Txs -> TxRow] /\ IInv /\ EventsAreOnline
  BY DEF CoverInv, IInv, TypeOK
<1>2. tx'[t].method # "offline" /\ tx'[t].method \in Providers
  BY <1>1, ManualSuccess DEF TxRow
<1>3. tx[t].status # "none"
  BY <1>1, <1>2, FreshRow
<1>4. /\ tx[t].status \in {"pending", "failed"} /\ tx[t].method \in Providers
      /\ tx[t].invoice = i /\ tx'[t].amount = a
  BY <1>1, <1>2, <1>3, PaymentMoves DEF TxRow
<1>5. inv[i].paid + a >= inv[i].total
  BY <1>4 DEF CoverInv, GatewayCovers
<1>6. a \in Nat /\ a <= MaxTotal /\ inv[i].paid \in Nat /\ inv[i].total \in Nat
  BY <1>1, BillingAssumption DEF TxRow, IInv, TypeOK, InvoiceRow
<1>7. IsFiniteSet(added) /\ Cardinality(added) = a
  BY <1>6, CentsOfOneRow
<1>8. \A u \in Txs : old[u].status = "succeeded" /\ old[u].invoice = i =>
          /\ new[u].status = "succeeded" /\ new[u].invoice = i
          /\ new[u].amount = old[u].amount
  BY <1>1, PaymentMoves
<1>9. PaidCents(old, i) \cap added = {}
  BY DEF PaidCents
<1>10. PaidCents(old, i) \cup added \in SUBSET PaidCents(new, i)
  <2>1. PaidCents(old, i) \in SUBSET PaidCents(new, i)
    <3> HIDE DEF old, new
    <3> QED BY <1>8 DEF PaidCents
  <2>2. \A c \in added : c \in Txs \X (1..MaxTotal) /\ c[1] = t /\ c[2] <= a
    BY <1>6, BillingAssumption
  <2>3. added \in SUBSET PaidCents(new, i)
    <3> HIDE DEF added, a
    <3> QED BY <1>4, <2>2 DEF PaidCents, a
  <2> QED BY <2>1, <2>3
<1>11. inv[i].paid = Cardinality(PaidCents(old, i)) /\ inv'[i].paid = Cardinality(PaidCents(new, i))
  BY <1>1 DEF IInv, InvoiceMatchesLedger
<1> HIDE DEF added, a, old, new
<1>12. /\ IsFiniteSet(PaidCents(old, i)) /\ Cardinality(PaidCents(old, i)) \in Nat
       /\ IsFiniteSet(PaidCents(new, i)) /\ Cardinality(PaidCents(new, i)) \in Nat
  BY CentsFinite
<1>13. Cardinality(PaidCents(old, i) \cup added) = Cardinality(PaidCents(old, i)) + Cardinality(added)
  <2>1. Cardinality(PaidCents(old, i) \cup added) =
           Cardinality(PaidCents(old, i)) + Cardinality(added) - Cardinality(PaidCents(old, i) \cap added)
    BY <1>7, <1>12, FS_Union
  <2>2. Cardinality(PaidCents(old, i) \cap added) = 0
    BY <1>9, FS_EmptySet
  <2> QED BY <1>6, <1>7, <1>12, <2>1, <2>2
<1>14. Cardinality(PaidCents(old, i) \cup added) <= Cardinality(PaidCents(new, i))
  BY <1>10, <1>12, FS_Subset
<1> QED BY <1>5, <1>6, <1>7, <1>11, <1>12, <1>13, <1>14

LEMMA CoverStep == ASSUME CoverInv, IInv', [Next]_vars PROVE GatewayCovers'
<1> SUFFICES ASSUME NEW t \in Txs, tx'[t].status \in {"pending", "failed"}, tx'[t].method \in Providers
             PROVE  inv'[tx'[t].invoice].paid + tx'[t].amount >= inv'[tx'[t].invoice].total
  BY DEF GatewayCovers
<1>1. /\ IInv /\ tx \in [Txs -> TxRow] /\ tx' \in [Txs -> TxRow]
      /\ inv \in [Invoices -> InvoiceRow] /\ inv' \in [Invoices -> InvoiceRow]
  BY DEF CoverInv, IInv, TypeOK
<1>2. CASE tx[t].status = "none"
  <2>1. /\ inv' = inv /\ tx'[t].invoice \in Invoices /\ RequireOpen(tx'[t].invoice)
        /\ tx'[t].amount = balance_due(tx'[t].invoice)
    BY <1>1, <1>2, FreshRow, BillingAssumption
  <2>2. PICK i \in Invoices : i = tx'[t].invoice
    BY <2>1
  <2>3. inv[i].paid \in Nat /\ inv[i].total \in Nat
    BY <1>1, BillingAssumption DEF InvoiceRow
  <2>4. balance_due(i) > 0 => inv[i].paid + balance_due(i) = inv[i].total
    BY <2>3 DEF balance_due
  <2> QED BY <2>1, <2>2, <2>3, <2>4 DEF RequireOpen
<1>3. CASE tx[t].status # "none"
  <2>1. /\ tx[t].status \in {"pending", "failed"} /\ tx[t].method \in Providers
        /\ tx'[t].invoice = tx[t].invoice /\ tx'[t].amount = tx[t].amount
    BY <1>1, <1>3, PaymentMoves DEF TxRow
  <2>2. PICK i \in Invoices : i = tx[t].invoice
    BY <1>1, <1>3 DEF IInv, TypeOK
  <2>3. inv[i].status \notin {"none", "draft"}
    BY <1>1, <1>3, <2>2 DEF IInv, PaymentsOnIssuedInvoices
  <2>4. inv'[i].total = inv[i].total /\ inv'[i].paid >= inv[i].paid
    BY <1>1, <2>3, InvoiceMoves, PaidNeverFalls
  <2>5. inv[i].paid + tx[t].amount >= inv[i].total
    BY <2>1, <2>2 DEF CoverInv, GatewayCovers
  <2>6. inv[i].paid \in Nat /\ inv'[i].paid \in Nat /\ inv[i].total \in Nat /\ tx[t].amount \in Nat
    BY <1>1, BillingAssumption DEF InvoiceRow, TxRow
  <2> QED BY <2>1, <2>2, <2>4, <2>5, <2>6
<1> QED BY <1>2, <1>3

\* A refund of a payment is recorded for good.
LEMMA RefundsGrow ==
    ASSUME IInv, [Next]_vars, NEW t \in Txs, tx[t].status = "succeeded", NEW n \in 1..MaxTotal,
           n <= tx[t].refunded
    PROVE  n <= tx'[t].refunded
<1>1. tx \in [Txs -> TxRow] /\ tx[t].refunded \in Int
  BY BillingAssumption DEF IInv, TypeOK, TxRow
<1>2. tx'[t].refunded = tx[t].refunded
      \/ \E a \in Amounts : tx'[t].refunded = tx[t].refunded + a
  <2> DEFINE Kept == tx'[t].refunded = tx[t].refunded
                     \/ \E a \in Amounts : tx'[t].refunded = tx[t].refunded + a
  <2>1. CASE UNCHANGED tx
    BY <2>1
  <2>2. CASE InvoiceNext
    <3>1. ASSUME NEW i \in Invoices, cancel_invoice(i) PROVE Kept
      BY <1>1, <3>1 DEF cancel_invoice, fail_pending_transactions, TxRow
    <3> QED BY <2>1, <2>2, <3>1 DEF InvoiceNext, create_draft_invoice, update_invoice,
                                    issue_draft_invoice, delete_draft_invoice
  <2>3. CASE PaymentNext
    <3>1. PICK u \in Txs :
            \/ \E i \in Invoices :
                  \/ \E a \in Amounts : \/ \E k \in Keys \cup {NoKey} : record_payment(i, u, a, k)
                                        \/ report_payment(i, u, a)
                  \/ \E p \in Providers : start_gateway_payment(i, u, p)
            \/ confirm_payment(u)
            \/ reject_payment(u)
            \/ \E a \in Amounts : refund_payment(u, a) \/ refund_payment_lost(u, a)
      BY <2>3 DEF PaymentNext
    <3>2. ASSUME tx[u].status = "none", NEW row, tx' = [tx EXCEPT ![u] = row] PROVE Kept
      BY <1>1, <3>2
    <3>3. ASSUME NEW i \in Invoices, NEW a \in Amounts, NEW k \in Keys \cup {NoKey},
                 record_payment(i, u, a, k)
          PROVE  Kept
      BY <3>2, <3>3 DEF record_payment, SaveAndRecompute, Free
    <3>4. ASSUME NEW i \in Invoices, NEW a \in Amounts, report_payment(i, u, a) PROVE Kept
      BY <3>2, <3>4 DEF report_payment, Free
    <3>5. ASSUME NEW i \in Invoices, NEW p \in Providers, start_gateway_payment(i, u, p) PROVE Kept
      BY <3>2, <3>5 DEF start_gateway_payment, Free
    <3>6. CASE confirm_payment(u)
      BY <1>1, <3>6 DEF confirm_payment, SaveAndRecompute, TxRow
    <3>7. CASE reject_payment(u)
      BY <1>1, <3>7 DEF reject_payment, TxRow
    <3>8. ASSUME NEW a \in Amounts, refund_payment(u, a) PROVE Kept
      BY <1>1, <3>8 DEF refund_payment, SaveAndRecompute, TxRow
    <3> QED BY <2>1, <3>1, <3>3, <3>4, <3>5, <3>6, <3>7, <3>8 DEF refund_payment_lost
  <2>4. CASE GatewayNext
    <3>1. ASSUME NEW e \in Events, handle_webhook(e), tx' # tx PROVE Kept
      <4>1. events[e].tx \in Txs /\ apply_event(events[e])
        BY <3>1 DEF IInv, TypeOK, EventBody, NoEvent, handle_webhook
      <4>2. \E st \in {"succeeded", "failed"} : tx' = [tx EXCEPT ![events[e].tx].status = st]
        BY <3>1, <4>1 DEF apply_event, SaveAndRecompute
      <4> QED BY <1>1, <4>1, <4>2 DEF TxRow
    <3> QED BY <2>1, <2>4, <3>1 DEF GatewayNext, GatewayEmits
  <2> QED BY <2>1, <2>2, <2>3, <2>4 DEF Next, vars
<1>3. \A a \in Amounts : a \in Nat
  BY BillingAssumption DEF Amounts
<1> QED BY <1>1, <1>2, <1>3

\* While nothing succeeds on an invoice, its money stays and its refunds grow.
LEMMA NothingNew ==
    ASSUME IInv, IInv', [Next]_vars, NEW i \in Invoices,
           \A t \in Txs : tx'[t].status = "succeeded" /\ tx'[t].invoice = i => tx[t].status = "succeeded"
    PROVE  inv'[i].paid = inv[i].paid /\ inv'[i].refunded >= inv[i].refunded
<1> DEFINE old == tx
           new == tx'
<1>1. \A t \in Txs : old[t].status = "succeeded" =>
          /\ new[t].status = "succeeded" /\ new[t].invoice = old[t].invoice
          /\ new[t].amount = old[t].amount
  BY PaymentMoves
<1>2. \A t \in Txs : old[t].status = "succeeded" =>
          \A n \in 1..MaxTotal : n <= old[t].refunded => n <= new[t].refunded
  BY RefundsGrow
<1>3. /\ inv[i].paid = Cardinality(PaidCents(old, i)) /\ inv'[i].paid = Cardinality(PaidCents(new, i))
      /\ inv[i].refunded = Cardinality(RefundedCents(old, i))
      /\ inv'[i].refunded = Cardinality(RefundedCents(new, i))
  BY DEF IInv, InvoiceMatchesLedger
<1>4. \A t \in Txs : new[t].status = "succeeded" /\ new[t].invoice = i =>
          old[t].status = "succeeded" /\ old[t].invoice = i
  BY <1>1
<1> HIDE DEF old, new
<1>5. PaidCents(old, i) = PaidCents(new, i)
  BY <1>1, <1>4 DEF PaidCents
<1>6. RefundedCents(old, i) \in SUBSET RefundedCents(new, i)
  BY <1>1, <1>2 DEF RefundedCents
<1>7. /\ Cardinality(RefundedCents(old, i)) <= Cardinality(RefundedCents(new, i))
      /\ Cardinality(RefundedCents(old, i)) \in Nat /\ Cardinality(RefundedCents(new, i)) \in Nat
  BY <1>6, CentsFinite, FS_Subset
<1> QED BY <1>3, <1>5, <1>7

\* A settled invoice (paid, or refunded after a payment of any part of it) is
\* never payable again, a cancelled one never comes back and recorded money is
\* never forgotten, in any step of the portal or the gateway.
THEOREM SettledStaysSettled == Spec => SettledNeverReopens
<1>1. Init => CoverInv
  <2> SUFFICES ASSUME Init PROVE CoverInv
    OBVIOUS
  <2>1. EventsAreOnline /\ GatewayCovers
    BY DEF Init, EventsAreOnline, GatewayCovers, NoTx, Row
  <2> QED BY <2>1, InitEstablishes DEF CoverInv
<1>2. CoverInv /\ [Next]_vars => CoverInv'
  BY Inductive, OnlineStep, CoverStep DEF CoverInv
<1>3. ASSUME CoverInv, CoverInv', [Next]_vars, NEW i \in Invoices
      PROVE  /\ inv[i].status \in SETTLED_STATUSES => inv'[i].status \in SETTLED_STATUSES
             /\ inv[i].status = "cancelled" => inv'[i].status = "cancelled"
             /\ inv'[i].paid >= inv[i].paid
  <2>1. /\ inv[i].paid \in Nat /\ inv'[i].paid \in Nat /\ inv[i].total \in Nat
        /\ inv[i].refunded \in Nat /\ inv'[i].refunded \in Nat /\ IInv /\ IInv'
    BY <1>3, BillingAssumption DEF CoverInv, IInv, TypeOK, InvoiceRow
  <2>2. inv'[i].paid >= inv[i].paid
    BY <1>3, <2>1, PaidNeverFalls
  <2>3. ASSUME inv[i].status \in SETTLED_STATUSES PROVE inv'[i].status \in SETTLED_STATUSES
    <3>1. /\ inv'[i].total = inv[i].total
          /\ inv'[i].status = DerivedStatus(inv'[i].paid, inv'[i].refunded, inv'[i].total)
      BY <1>3, <2>1, <2>3, InvoiceMoves DEF SETTLED_STATUSES, IInv, InvoiceMatchesLedger
    <3>2. inv[i].status = DerivedStatus(inv[i].paid, inv[i].refunded, inv[i].total)
      BY <2>1, <2>3 DEF SETTLED_STATUSES, IInv, InvoiceMatchesLedger
    <3>3. CASE inv[i].paid >= inv[i].total
      BY <2>1, <2>2, <3>1, <3>3 DEF DerivedStatus, SETTLED_STATUSES
    <3>4. ASSUME NEW t \in Txs, tx'[t].status = "succeeded", tx'[t].invoice = i,
                 tx[t].status # "succeeded"
          PROVE  inv'[i].status \in SETTLED_STATUSES
      <4>1. inv'[i].paid >= inv[i].total
        BY <1>3, <2>1, <2>3, <3>4, LateMoneyCovers DEF SETTLED_STATUSES, OPEN_STATUSES
      <4> QED BY <2>1, <3>1, <4>1 DEF DerivedStatus, SETTLED_STATUSES
    <3>5. CASE /\ inv[i].paid < inv[i].total
               /\ \A t \in Txs : tx'[t].status = "succeeded" /\ tx'[t].invoice = i
                                    => tx[t].status = "succeeded"
      <4>1. inv[i].paid > 0 /\ inv[i].refunded >= inv[i].paid
        BY <2>1, <2>3, <3>2, <3>5 DEF DerivedStatus, SETTLED_STATUSES
      <4>2. inv'[i].paid = inv[i].paid /\ inv'[i].refunded >= inv[i].refunded
        BY <1>3, <2>1, <3>5, NothingNew
      <4> QED BY <2>1, <3>1, <4>1, <4>2 DEF DerivedStatus, SETTLED_STATUSES
    <3> QED BY <2>1, <3>3, <3>4, <3>5
  <2> QED BY <1>3, <2>1, <2>2, <2>3, InvoiceMoves
<1>4. CoverInv /\ CoverInv' /\ [Next]_vars =>
        [\A i \in Invoices :
          /\ inv[i].status \in SETTLED_STATUSES => inv'[i].status \in SETTLED_STATUSES
          /\ inv[i].status = "cancelled" => inv'[i].status = "cancelled"
          /\ inv'[i].paid >= inv[i].paid]_vars
  BY <1>3
<1> QED BY <1>1, <1>2, <1>4, PTL DEF Spec, SettledNeverReopens
=============================================================================
